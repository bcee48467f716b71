--------------------------- MODULE ProbePartition ---------------------------
(***************************************************************************)
(* Why a state's token partition may be cached.  `build` (src/src/grammar/ *)
(* compiled.rs) probes each token from the state over an EMPTY stack and   *)
(* files it as independent (alive), deferred (it died wanting a frame that *)
(* an enclosing stack might have) or dropped.  At a step, `admits` replays *)
(* the token from the same state over the LIVE stack.  Here the two loops  *)
(* (src/src/grammar/pda.rs, `probe` and `admits`) run side by side on the  *)
(* same token, whose bytes are chosen as they are read.                    *)
(***************************************************************************)
EXTENDS Pda

CONSTANTS
    MaxToken,   \* bound on the bytes of a token
    Ambients    \* the live stacks considered

ASSUME ProbeAssumption == MaxToken \in Nat /\ Ambients \subseteq Seq(Frame)

VARIABLES
    ambient,    \* the live stack when the token is offered
    probe,      \* the probe: its local configuration and verdict
    live,       \* the replay over the live stack, likewise
    read        \* bytes of the token read so far

loopvars == <<ambient, probe, live, read>>

\* One iteration of the replay over the live stack.
Replayed(l, b) ==
  IF l.fate # "alive" THEN l
  ELSE IF Lives(l.pda, b) THEN [l EXCEPT !.pda = Advance(l.pda, b)]
  ELSE [l EXCEPT !.fate = "dead"]
-----------------------------------------------------------------------------
\* The cache is keyed by the state alone, so every state meets every stack.
ProbeInit ==
    /\ ambient \in Ambients
    /\ \E s \in State :
         /\ probe = [pda |-> PdaAt(s), fate |-> "alive"]
         /\ live  = [pda |-> [state |-> s, stack |-> ambient], fate |-> "alive"]
    /\ read = 0

ReadByte(b) ==
    /\ read < MaxToken
    /\ live.fate = "alive" \/ probe.fate = "alive"
    /\ probe' = Probed(probe, b)
    /\ live'  = Replayed(live, b)
    /\ read'  = read + 1
    /\ UNCHANGED ambient

ProbeNext == \E b \in Byte : ReadByte(b)

ProbeSpec == ProbeInit /\ [][ProbeNext]_loopvars
-----------------------------------------------------------------------------
LoopType == [pda : PdaType, fate : Fate]

ProbeTypeOK ==
    /\ ambient \in Seq(Frame)
    /\ probe \in LoopType
    /\ live \in LoopType
    /\ read \in Nat

(***************************************************************************)
(* While the probe lives it has only used frames it pushed itself: the     *)
(* live replay is in the same state, over the ambient stack with the       *)
(* probe's own frames on top.  So an independent token is admissible over  *)
(* every stack ("no ambient stack can change its verdict", pda.rs          *)
(* 1043-1051), and the cached bit may be copied.                           *)
(***************************************************************************)
IndependentAlike ==
    probe.fate = "alive" =>
      /\ live.fate = "alive"
      /\ live.pda.state = probe.pda.state
      /\ live.pda.stack = ambient \o probe.pda.stack

(***************************************************************************)
(* A dropped token is admissible over no stack: a token the probe kills    *)
(* without consulting the ambient stack is never set in a mask, so the     *)
(* mask loses nothing (compiled.rs 101-105).                               *)
(***************************************************************************)
DroppedIsDead == probe.fate = "dead" => live.fate = "dead"

(***************************************************************************)
(* With an empty live stack a deferred token is dead as well, which is why *)
(* `allowed_mask` skips the re-probe there (session.rs 139-143).           *)
(***************************************************************************)
DeferredNeedsFrame ==
    probe.fate = "consulted" /\ ambient = <<>> => live.fate = "dead"

\* The three verdicts of the partition agree with the live replay.
PartitionSound ==
    /\ IndependentAlike
    /\ DroppedIsDead
    /\ DeferredNeedsFrame
=============================================================================
