------------------------------ MODULE Decoding ------------------------------
(***************************************************************************)
(* What a host may rely on, said without automata, caches or offsets: the  *)
(* only state of a decode is the text committed so far, and every answer   *)
(* is a function of that text.  The allowed set is exactly the set of      *)
(* calls that would succeed, a call that fails changes nothing, and the    *)
(* sessions that share a grammar never influence each other.  The grammar  *)
(* is a parameter: the two questions a text answers by itself.             *)
(***************************************************************************)
EXTENDS Integers, Sequences

CONSTANTS
    Sessions,       \* the decodes running side by side
    Vocab,          \* the host's tokens: Vocab[id + 1] is the text of token id
    HostBytes,      \* the bytes the host offers one at a time
    LivePrefix(_),  \* the text is a prefix of something the grammar reads
    Complete(_)     \* the text is a query, and the stream may end after it

VARIABLES
    text,       \* the bytes each session has committed since its reset
    answer      \* what the last call returned, and to which session

avars == <<text, answer>>

Ids    == 0 .. Len(Vocab) - 1
EosBit == Len(Vocab)

\* Every id a host may pass, one of them beyond the mask.
HostIds == 0 .. EosBit + 1

TokenBytes(id) == Vocab[id + 1]

Answered(s, kind, allowed, at) ==
    [session |-> s, kind |-> kind, allowed |-> allowed, at |-> at]

Said(s, kind) == Answered(s, kind, {}, 0)

Init ==
    /\ text = [s \in Sessions |-> <<>>]
    /\ \E s \in Sessions : answer = Said(s, "new")

Mask(s) ==
    /\ answer'.session = s /\ answer'.kind = "mask"
    /\ UNCHANGED text
    /\ answer' = Answered(s, "mask",
         {id \in Ids : LivePrefix(text[s] \o TokenBytes(id))}
           \cup {id \in {EosBit} : Complete(text[s])}, 0)

Commit(s, bytes) ==
    /\ answer' = Said(s, "ok")
    /\ text' = [text EXCEPT ![s] = @ \o bytes]
    /\ LivePrefix(text[s] \o bytes)

\* Refused: only the reason is reported.
Refuse(s, kind) == answer' = Said(s, kind) /\ UNCHANGED text

Token(s, id) ==
    \/ id \in Ids /\ Commit(s, TokenBytes(id))
    \/ /\ id \in Ids
       /\ Refuse(s, "InadmissibleToken")
       /\ ~LivePrefix(text[s] \o TokenBytes(id))
    \/ id > EosBit /\ Refuse(s, "UnknownToken")

Eos(s) ==
    \/ Refuse(s, "ok") /\ Complete(text[s])
    \/ Refuse(s, "UnexpectedEos") /\ ~Complete(text[s])

ByteCall(s, b) ==
    \/ Commit(s, <<b>>)
    \/ /\ answer' = Answered(s, "DeadState", {}, Len(text[s]))
       /\ UNCHANGED text
       /\ ~LivePrefix(Append(text[s], b))

Restart(s) ==
    /\ text' = [text EXCEPT ![s] = <<>>]
    /\ answer' = Said(s, "new")

Copy(s, t) ==
    /\ text' = [text EXCEPT ![t] = text[s]]
    /\ answer' = Said(t, "new")

Next == \E s \in Sessions :
    \/ Mask(s)
    \/ \E id \in HostIds : Token(s, id)
    \/ Eos(s)
    \/ \E b \in HostBytes : ByteCall(s, b)
    \/ Restart(s)
    \/ \E t \in Sessions \ {s} : Copy(s, t)

Spec == Init /\ [][Next]_avars
=============================================================================
