--------------------------- MODULE DecoderSession ---------------------------
(***************************************************************************)
(* The decode sessions of src/src/session.rs, without a schema: several    *)
(* sessions over one CompiledGrammar (src/src/grammar/compiled.rs), whose  *)
(* per-state partition of the vocabulary is built by whichever session     *)
(* first visits the state and reused by all of them.  The grammar is       *)
(* single-threaded (OnceCell), so a call is one step.                      *)
(***************************************************************************)
EXTENDS CompiledGrammar, FiniteSets

CONSTANTS
    Sessions,   \* the sessions borrowing the grammar
    HostBytes,  \* the bytes the host offers through accept_byte
    MaxText,    \* bound on the bytes held by all sessions together
    MaxBuilt    \* bound on the states whose partition has been built

ASSUME SessionAssumption ==
    /\ Vocab \in Seq(Seq(Byte))
    /\ HostBytes \subseteq Byte
    /\ MaxText \in Nat
    /\ MaxBuilt \in Nat

VARIABLES
    cache,      \* CompiledGrammar.cache: the partitions built so far, by state
    session,    \* the sessions' own fields: pda and offset
    answer,     \* what the last call returned, and to which session
    text        \* history variable: the bytes each session has committed

vars == <<cache, session, answer, text>>

HostIds == 0 .. EosBit + 1

Answered(s, kind, allowed, at) ==
    [session |-> s, kind |-> kind, allowed |-> allowed, at |-> at]

Said(s, kind) == Answered(s, kind, {}, 0)

TextHeld(t) == FoldFunction(LAMBDA bytes, n : Len(bytes) + n, 0, t)
-----------------------------------------------------------------------------
\* compiled.rs `cached`: built on the first visit, copied ever after.
Cached(s) == IF s \in DOMAIN cache THEN cache[s] ELSE Build(s)

Fresh == [pda |-> PdaNew, offset |-> 0]
-----------------------------------------------------------------------------
Init ==
    /\ cache = <<>>
    /\ session = [s \in Sessions |-> Fresh]
    /\ \E s \in Sessions : answer = Said(s, "new")
    /\ text = [s \in Sessions |-> <<>>]

AllowedMask(s) ==
    LET p    == session[s].pda
        mask == Assembled(Cached(p.state), p)
    IN  /\ p.state \in DOMAIN cache \/ Cardinality(DOMAIN cache) < MaxBuilt
        /\ cache' = [q \in DOMAIN cache \cup {p.state} |-> Cached(q)]
        /\ answer' = Answered(s, "mask", mask, 0)
        /\ UNCHANGED <<session, text>>

\* The clone is folded first and committed only when every byte survived.
AcceptToken(s, id) ==
    /\ id \in Ids
    /\ Admits(session[s].pda, TokenBytes(id))
    /\ TextHeld(text) + Len(TokenBytes(id)) <= MaxText
    /\ session' = [session EXCEPT
         ![s].pda    = FeedAll(@, TokenBytes(id)),
         ![s].offset = @ + Len(TokenBytes(id))]
    /\ text' = [text EXCEPT ![s] = @ \o TokenBytes(id)]
    /\ answer' = Said(s, "ok")
    /\ UNCHANGED cache

InadmissibleToken(s, id) ==
    /\ id \in Ids
    /\ ~Admits(session[s].pda, TokenBytes(id))
    /\ answer' = Said(s, "InadmissibleToken")
    /\ UNCHANGED <<cache, session, text>>

\* The reserved EOS id is answered before the vocabulary is consulted.
AcceptEos(s) ==
    /\ answer' = Said(s, IF IsAccepting(session[s].pda)
                         THEN "ok" ELSE "UnexpectedEos")
    /\ UNCHANGED <<cache, session, text>>

UnknownToken(s, id) ==
    /\ id \notin Ids \cup {EosBit}
    /\ answer' = Said(s, "UnknownToken")
    /\ UNCHANGED <<cache, session, text>>

AcceptByte(s, b) ==
    /\ Lives(session[s].pda, b)
    /\ TextHeld(text) < MaxText
    /\ session' = [session EXCEPT ![s].pda    = Advance(@, b),
                                  ![s].offset = @ + 1]
    /\ text' = [text EXCEPT ![s] = Append(@, b)]
    /\ answer' = Said(s, "ok")
    /\ UNCHANGED cache

DeadByte(s, b) ==
    /\ ~Lives(session[s].pda, b)
    /\ answer' = Answered(s, "DeadState", {}, session[s].offset)
    /\ UNCHANGED <<cache, session, text>>

Reset(s) ==
    /\ session' = [session EXCEPT ![s].pda = PdaNew, ![s].offset = 0]
    /\ text' = [text EXCEPT ![s] = <<>>]
    /\ answer' = Said(s, "new")
    /\ UNCHANGED cache

Clone(s, t) ==
    /\ TextHeld(text) + Len(text[s]) - Len(text[t]) <= MaxText
    /\ session' = [session EXCEPT ![t] = session[s]]
    /\ text' = [text EXCEPT ![t] = text[s]]
    /\ answer' = Said(t, "new")
    /\ UNCHANGED cache

Next == \E s \in Sessions :
    \/ AllowedMask(s)
    \/ \E id \in HostIds : AcceptToken(s, id)
    \/ \E id \in HostIds : InadmissibleToken(s, id)
    \/ \E id \in HostIds : UnknownToken(s, id)
    \/ AcceptEos(s)
    \/ \E b \in HostBytes : AcceptByte(s, b)
    \/ \E b \in HostBytes : DeadByte(s, b)
    \/ Reset(s)
    \/ \E t \in Sessions \ {s} : Clone(s, t)

Spec == Init /\ [][Next]_vars
-----------------------------------------------------------------------------
TypeOK ==
    /\ cache \in [DOMAIN cache -> Partition] /\ DOMAIN cache \subseteq State
    /\ session \in [Sessions -> [pda : PdaType, offset : Nat]]
    /\ answer.session \in Sessions
    /\ text \in [Sessions -> Seq(Byte)]

(***************************************************************************)
(* A built partition serves every later visit of its state, whatever the   *)
(* stack then: what it calls independent is admissible and what it drops   *)
(* is inadmissible over the live stack of every session now in that state  *)
(* (compiled.rs 97-105; the entry is never rebuilt, and may have been      *)
(* built by another session over another stack).                           *)
(***************************************************************************)
CacheServesEveryStack ==
    \A s \in Sessions :
      LET p == session[s].pda
      IN  p.state \in DOMAIN cache =>
            \A id \in Ids \ cache[p.state].deferred :
              id \in cache[p.state].indep <=> Admits(p, TokenBytes(id))

\* The grammar of the abstract decode: what the automaton makes of a text.
LivePrefix(t) == Admits(PdaNew, t)
Complete(t)   == Completes(PdaNew, t)

A == INSTANCE Decoding

(***************************************************************************)
(* The sessions implement the abstract decode: masks are exact, a refusal  *)
(* leaves the session as it was, tokens and bytes reach the same           *)
(* configuration, and errors carry the offset of the text (session.rs      *)
(* 114-172, 200-266, 301-314).                                             *)
(***************************************************************************)
RefinesDecoding == A!Spec
=============================================================================
