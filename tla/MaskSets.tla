------------------------------ MODULE MaskSets ------------------------------
(***************************************************************************)
(* What the token masks promise (the contract of `BitMask`, src/src/       *)
(* mask.rs 19-28): each is a set of ids below one length, that can be      *)
(* changed an id at a time, copied, intersected, asked and handed out.     *)
(***************************************************************************)
EXTENDS Naturals

CONSTANTS Buffers, Lens, Probes

VARIABLES
    len,     \* the length of the masks
    sets,    \* the ids in each mask
    tested,  \* the id the last test found, if it found it
    sent     \* the ids the last packed mask holds

vars == <<len, sets, tested, sent>>

Init ==
    /\ len \in Lens
    /\ sets = [m \in Buffers |-> {}]
    /\ tested = {}
    /\ sent = {}

Become(m, ids) ==
    /\ sets' = [sets EXCEPT ![m] = ids]
    /\ UNCHANGED <<len, tested, sent>>

Set(m, id)         == id < len /\ Become(m, sets[m] \cup {id})
Clear(m, id)       == Become(m, sets[m] \ {id})
ClearAll(m)        == Become(m, {})
CopyFrom(m, n)     == Become(m, sets[n])
IntersectBy(m, n)  == Become(m, sets[m] \cap sets[n])
Test(m, id)        == tested' = sets[m] \cap {id} /\ UNCHANGED <<len, sets, sent>>
Pack(m)            == sent' = sets[m] /\ UNCHANGED <<len, sets, tested>>

Next ==
    \E m \in Buffers :
      \/ ClearAll(m) \/ Pack(m)
      \/ \E id \in Probes : Set(m, id) \/ Clear(m, id) \/ Test(m, id)
      \/ \E n \in Buffers : CopyFrom(m, n) \/ IntersectBy(m, n)

Spec == Init /\ [][Next]_vars
=============================================================================
