------------------------------ MODULE BitMask ------------------------------
(***************************************************************************)
(* The token masks of src/src/mask.rs: the buffers of a decoder (a         *)
(* session's mask and narrow_buf, the cached masks), all of one length,    *)
(* and the buffer of bytes a mask is packed into for the host.  A word is  *)
(* the set of the positions of its bits, 0 to 63, a byte of theirs, 0 to 7.*)
(***************************************************************************)
EXTENDS Integers

CONSTANTS
    Buffers,  \* the masks
    Lens,     \* the lengths they may be made with
    Probes    \* the ids the host asks for, beyond the length too

ASSUME MaskAssumption == Lens \subseteq Nat /\ Probes \subseteq Nat

VARIABLES
    len,     \* BitMask.len, the same for every mask of a decoder
    words,   \* BitMask.words of each mask
    tested,  \* what the last test found: the id, or nothing
    buf      \* the bytes last packed

vars == <<len, words, tested, buf>>

WORD_BITS == 64
BYTE_BITS == 8

\* usize::div_ceil
DivCeil(n, d) == (n + d - 1) \div d

WordIndexes(l) == 0 .. DivCeil(l, WORD_BITS) - 1
ByteIndexes(l) == 0 .. DivCeil(l, BYTE_BITS) - 1

\* locate
WordOf(id) == id \div WORD_BITS
BitOf(id)  == id % WORD_BITS

WithLen(l) == [w \in WordIndexes(l) |-> {}]

InRange(id) == id < len

\* iter_ones, as the set of what it yields.
Ones(mask) == UNION {{WORD_BITS * w + b : b \in mask[w]} : w \in DOMAIN mask}
-----------------------------------------------------------------------------
Init ==
    /\ len \in Lens
    /\ words = [m \in Buffers |-> WithLen(len)]
    /\ tested = {}
    /\ buf = [j \in {} |-> {}]

Become(m, mask) ==
    /\ words' = [words EXCEPT ![m] = mask]
    /\ UNCHANGED <<len, tested, buf>>

\* Faulty: an id beyond the length lands in the padding of the last word.
SetUnchecked(m, id) ==
    /\ WordOf(id) \in DOMAIN words[m]
    /\ Become(m, [words[m] EXCEPT ![WordOf(id)] = @ \cup {BitOf(id)}])

\* An id out of range is refused: set and clear change nothing.
Set(m, id) ==
    /\ InRange(id)
    /\ Become(m, [words[m] EXCEPT ![WordOf(id)] = @ \cup {BitOf(id)}])

Clear(m, id) ==
    /\ InRange(id)
    /\ Become(m, [words[m] EXCEPT ![WordOf(id)] = @ \ {BitOf(id)}])

Test(m, id) ==
    /\ tested' = IF InRange(id) /\ BitOf(id) \in words[m][WordOf(id)] THEN {id} ELSE {}
    /\ UNCHANGED <<len, words, buf>>

ClearAll(m) == Become(m, [w \in DOMAIN words[m] |-> {}])

CopyFrom(m, n) ==
    Become(m, [w \in DOMAIN words[m] |->
                 IF w \in DOMAIN words[n] THEN words[n][w] ELSE words[m][w]])

IntersectBy(m, n) ==
    Become(m, [w \in DOMAIN words[m] |->
                 IF w \in DOMAIN words[n] THEN words[m][w] \cap words[n][w]
                                          ELSE words[m][w]])

\* to_le_bytes: the byte at an offset of a word.
ByteAt(word, offset) == {b \in 0 .. BYTE_BITS - 1 : BYTE_BITS * offset + b \in word}

\* Faulty: the length in bytes is rounded down.
PackRoundsDown(m) ==
    /\ buf' = [j \in 0 .. len \div BYTE_BITS - 1 |->
                 ByteAt(words[m][j \div BYTE_BITS], j % BYTE_BITS)]
    /\ UNCHANGED <<len, words, tested>>

\* pack_le_bytes_into: byte j is byte j % 8 of word j \div 8, up to the length.
Pack(m) ==
    /\ buf' = [j \in ByteIndexes(len) |->
                 ByteAt(words[m][j \div BYTE_BITS], j % BYTE_BITS)]
    /\ UNCHANGED <<len, words, tested>>

Next ==
    \E m \in Buffers :
      \/ ClearAll(m) \/ Pack(m)
      \/ \E id \in Probes : Set(m, id) \/ Clear(m, id) \/ Test(m, id)
      \/ \E n \in Buffers : CopyFrom(m, n) \/ IntersectBy(m, n)

Spec == Init /\ [][Next]_vars
-----------------------------------------------------------------------------
(***************************************************************************)
(* Every word keeps its place, and no bit lies in the padding of the last: *)
(* "a stray id can never index past the backing words or flip a padding    *)
(* bit" (mask.rs 24-27).                                                   *)
(***************************************************************************)
TypeOK ==
    /\ len \in Lens
    /\ words \in [Buffers -> [WordIndexes(len) -> SUBSET (0 .. WORD_BITS - 1)]]
    /\ \A m \in Buffers : \A id \in Ones(words[m]) : InRange(id)
    /\ \A j \in DOMAIN buf : buf[j] \subseteq 0 .. BYTE_BITS - 1

\* What a host reads in the packed bytes, by np.unpackbits little-endian.
Unpacked == UNION {{BYTE_BITS * j + b : b \in buf[j]} : j \in DOMAIN buf}

Sets == INSTANCE MaskSets WITH
          sets <- [m \in Buffers |-> Ones(words[m])],
          sent <- Unpacked

(***************************************************************************)
(* The words are sets of ids: what is set, cleared, copied, intersected,   *)
(* tested and packed is so id by id, across word and byte boundaries, the  *)
(* EOS bit at the end of the length included.                              *)
(***************************************************************************)
RefinesSets == Sets!Spec
=============================================================================
