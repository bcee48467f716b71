--------------------------- MODULE BitMask_proofs ---------------------------
(***************************************************************************)
(* The masks of words are sets of ids, for every length and every sequence *)
(* of calls.  The argument is arithmetic: an id is the pair of its word    *)
(* and its bit, and the pair of its byte and its bit in it.                *)
(***************************************************************************)
EXTENDS BitMask, TLAPS

\* The masks of a length, padding included.
Words(l) == [WordIndexes(l) -> SUBSET (0 .. WORD_BITS - 1)]

\* An id is found again from its word and bit, and a word in range holds it.
LEMMA Locate ==
  ASSUME NEW id \in Nat, NEW l \in Nat
  PROVE  /\ WordOf(id) \in Nat /\ BitOf(id) \in 0 .. WORD_BITS - 1
         /\ id = WORD_BITS * WordOf(id) + BitOf(id)
         /\ id < l => WordOf(id) \in WordIndexes(l)
BY DEF WordOf, BitOf, WORD_BITS, WordIndexes, DivCeil

LEMMA LocateBack ==
  ASSUME NEW w \in Nat, NEW b \in 0 .. WORD_BITS - 1
  PROVE  /\ WORD_BITS * w + b \in Nat
         /\ WordOf(WORD_BITS * w + b) = w
         /\ BitOf(WORD_BITS * w + b) = b
BY DEF WordOf, BitOf, WORD_BITS

\* The bits of a mask, seen from the id.
LEMMA OnesMember ==
  ASSUME NEW l \in Nat, NEW mask \in Words(l)
  PROVE  \A id : id \in Ones(mask) <=>
                   /\ id \in Nat
                   /\ WordOf(id) \in WordIndexes(l)
                   /\ BitOf(id) \in mask[WordOf(id)]
<1>. TAKE id
<1>0. DOMAIN mask = WordIndexes(l) /\ WordIndexes(l) \subseteq Nat
  BY DEF Words, WordIndexes, DivCeil, WORD_BITS
<1>1. ASSUME id \in Ones(mask)
      PROVE  /\ id \in Nat /\ WordOf(id) \in WordIndexes(l)
             /\ BitOf(id) \in mask[WordOf(id)]
  <2>1. PICK w \in WordIndexes(l) : id \in {WORD_BITS * w + b : b \in mask[w]}
    BY <1>0, <1>1 DEF Ones
  <2>2. PICK b \in mask[w] : id = WORD_BITS * w + b
    BY <2>1
  <2>3. w \in Nat /\ b \in 0 .. WORD_BITS - 1
    BY <1>0 DEF Words
  <2>. QED BY <2>2, <2>3, LocateBack
<1>2. ASSUME id \in Nat, WordOf(id) \in WordIndexes(l), BitOf(id) \in mask[WordOf(id)]
      PROVE  id \in Ones(mask)
  BY <1>0, <1>2, Locate DEF Ones
<1>. QED BY <1>1, <1>2
-----------------------------------------------------------------------------
(***************************************************************************)
(* What each call does to the ids of a mask.                               *)
(***************************************************************************)
LEMMA EmptyOnes ==
  ASSUME NEW l \in Nat
  PROVE  /\ [w \in WordIndexes(l) |-> {}] \in Words(l)
         /\ Ones([w \in WordIndexes(l) |-> {}]) = {}
BY DEF Words, Ones

LEMMA SetOnes ==
  ASSUME NEW l \in Nat, NEW mask \in Words(l), NEW id \in Nat, id < l
  PROVE  LET next == [mask EXCEPT ![WordOf(id)] = @ \cup {BitOf(id)}]
         IN  next \in Words(l) /\ Ones(next) = Ones(mask) \cup {id}
<1> DEFINE next == [mask EXCEPT ![WordOf(id)] = @ \cup {BitOf(id)}]
<1>1. /\ WordOf(id) \in WordIndexes(l)
      /\ BitOf(id) \in 0 .. WORD_BITS - 1
  BY Locate
<1>2. next \in Words(l)
  BY <1>1 DEF Words
<1>3. \A w \in WordIndexes(l) : next[w] = IF w = WordOf(id) THEN mask[w] \cup {BitOf(id)}
                                                           ELSE mask[w]
  BY DEF Words
<1>4. ASSUME NEW i \in Nat PROVE i \in Ones(next) <=> i \in Ones(mask) \cup {id}
  <2>1. WordOf(i) = WordOf(id) /\ BitOf(i) = BitOf(id) => i = id
    BY Locate
  <2>2. /\ i \in Ones(next) <=> /\ WordOf(i) \in WordIndexes(l)
                                /\ BitOf(i) \in next[WordOf(i)]
        /\ i \in Ones(mask) <=> /\ WordOf(i) \in WordIndexes(l)
                                /\ BitOf(i) \in mask[WordOf(i)]
    BY <1>2, OnesMember
  <2>. QED BY <1>1, <1>3, <2>1, <2>2
<1>5. Ones(next) \subseteq Nat /\ Ones(mask) \subseteq Nat
  BY <1>2, OnesMember
<1>. QED BY <1>2, <1>4, <1>5

LEMMA ClearOnes ==
  ASSUME NEW l \in Nat, NEW mask \in Words(l), NEW id \in Nat, id < l
  PROVE  LET next == [mask EXCEPT ![WordOf(id)] = @ \ {BitOf(id)}]
         IN  next \in Words(l) /\ Ones(next) = Ones(mask) \ {id}
<1> DEFINE next == [mask EXCEPT ![WordOf(id)] = @ \ {BitOf(id)}]
<1>1. WordOf(id) \in WordIndexes(l)
  BY Locate
<1>2. next \in Words(l)
  BY <1>1 DEF Words
<1>3. \A w \in WordIndexes(l) : next[w] = IF w = WordOf(id) THEN mask[w] \ {BitOf(id)}
                                                           ELSE mask[w]
  BY DEF Words
<1>4. ASSUME NEW i \in Nat PROVE i \in Ones(next) <=> i \in Ones(mask) \ {id}
  <2>1. WordOf(i) = WordOf(id) /\ BitOf(i) = BitOf(id) => i = id
    BY Locate
  <2>2. /\ i \in Ones(next) <=> /\ WordOf(i) \in WordIndexes(l)
                                /\ BitOf(i) \in next[WordOf(i)]
        /\ i \in Ones(mask) <=> /\ WordOf(i) \in WordIndexes(l)
                                /\ BitOf(i) \in mask[WordOf(i)]
    BY <1>2, OnesMember
  <2>. QED BY <1>1, <1>3, <2>1, <2>2
<1>5. Ones(next) \subseteq Nat /\ Ones(mask) \subseteq Nat
  BY <1>2, OnesMember
<1>. QED BY <1>2, <1>4, <1>5

LEMMA IntersectOnes ==
  ASSUME NEW l \in Nat, NEW mask \in Words(l), NEW other \in Words(l)
  PROVE  LET next == [w \in WordIndexes(l) |-> mask[w] \cap other[w]]
         IN  next \in Words(l) /\ Ones(next) = Ones(mask) \cap Ones(other)
<1> DEFINE next == [w \in WordIndexes(l) |-> mask[w] \cap other[w]]
<1>1. next \in Words(l)
  BY DEF Words
<1>2. \A id : /\ id \in Ones(next)  <=> /\ id \in Nat /\ WordOf(id) \in WordIndexes(l)
                                        /\ BitOf(id) \in next[WordOf(id)]
              /\ id \in Ones(mask)  <=> /\ id \in Nat /\ WordOf(id) \in WordIndexes(l)
                                        /\ BitOf(id) \in mask[WordOf(id)]
              /\ id \in Ones(other) <=> /\ id \in Nat /\ WordOf(id) \in WordIndexes(l)
                                        /\ BitOf(id) \in other[WordOf(id)]
  BY <1>1, OnesMember
<1>3. \A w \in WordIndexes(l) : next[w] = mask[w] \cap other[w]
  OBVIOUS
<1>4. \A id : id \in Ones(next) <=> id \in Ones(mask) \cap Ones(other)
  BY <1>2, <1>3
<1>. QED BY <1>1, <1>4

\* A packed mask, unpacked by bytes, holds the ids the words hold.
PackedBytes(mask, l) ==
    [j \in ByteIndexes(l) |-> ByteAt(mask[j \div BYTE_BITS], j % BYTE_BITS)]

LEMMA PackOnes ==
  ASSUME NEW l \in Nat, NEW mask \in Words(l), \A id \in Ones(mask) : id < l
  PROVE  LET bytes == PackedBytes(mask, l)
         IN  UNION {{BYTE_BITS * j + b : b \in bytes[j]} : j \in DOMAIN bytes} = Ones(mask)
<1> DEFINE bytes == PackedBytes(mask, l)
           Read  == UNION {{BYTE_BITS * j + b : b \in bytes[j]} : j \in DOMAIN bytes}
<1>1. ASSUME NEW j \in ByteIndexes(l), NEW b \in 0 .. BYTE_BITS - 1
      PROVE  /\ BYTE_BITS * j + b \in Nat
             /\ WordOf(BYTE_BITS * j + b) = j \div BYTE_BITS
             /\ BitOf(BYTE_BITS * j + b) = BYTE_BITS * (j % BYTE_BITS) + b
             /\ j \div BYTE_BITS \in WordIndexes(l)
  BY DEF ByteIndexes, WordIndexes, DivCeil, BYTE_BITS, WORD_BITS, WordOf, BitOf
<1>2. ASSUME NEW id \in Nat, id < l
      PROVE  \E j \in ByteIndexes(l) : \E b \in 0 .. BYTE_BITS - 1 : id = BYTE_BITS * j + b
  <2> DEFINE j == id \div 8
             b == id % 8
  <2>1. j \in Nat /\ b \in 0 .. 7 /\ id = 8 * j + b
    BY <1>2
  <2>2. j \in ByteIndexes(l)
    <3> HIDE DEF j, b
    <3>. QED BY <1>2, <2>1 DEF ByteIndexes, DivCeil, BYTE_BITS
  <2> HIDE DEF j, b
  <2>. QED BY <2>1, <2>2 DEF BYTE_BITS
<1>3. DOMAIN bytes = ByteIndexes(l) /\ \A j \in ByteIndexes(l) :
        bytes[j] = {b \in 0 .. BYTE_BITS - 1 :
                      BYTE_BITS * (j % BYTE_BITS) + b \in mask[j \div BYTE_BITS]}
  BY DEF PackedBytes, ByteAt
<1>4. ASSUME NEW id \in Read PROVE id \in Ones(mask)
  <2>1. PICK j \in ByteIndexes(l) : id \in {BYTE_BITS * j + b : b \in bytes[j]}
    BY <1>3, <1>4
  <2>2. PICK b \in bytes[j] : id = BYTE_BITS * j + b
    BY <2>1
  <2>3. b \in 0 .. BYTE_BITS - 1 /\ BYTE_BITS * (j % BYTE_BITS) + b \in mask[j \div BYTE_BITS]
    BY <1>3, <2>2
  <2>. QED BY <1>1, <2>2, <2>3, OnesMember
<1>5. ASSUME NEW id \in Ones(mask) PROVE id \in Read
  <2>1. id \in Nat /\ BitOf(id) \in mask[WordOf(id)] /\ id < l
    BY OnesMember
  <2>2. PICK j \in ByteIndexes(l), b \in 0 .. BYTE_BITS - 1 : id = BYTE_BITS * j + b
    BY <1>2, <2>1
  <2>3. b \in bytes[j]
    BY <1>1, <1>3, <2>1, <2>2
  <2>. QED BY <1>3, <2>2, <2>3
<1>. QED BY <1>4, <1>5
-----------------------------------------------------------------------------
(***************************************************************************)
(* A step on one mask, in terms of its ids.                                *)
(***************************************************************************)
Ids == [m \in Buffers |-> Ones(words[m])]

LEMMA BecomeIds ==
  ASSUME TypeOK, NEW m \in Buffers, NEW mask, Become(m, mask),
         mask \in Words(len), \A id \in Ones(mask) : id < len
  PROVE  /\ TypeOK'
         /\ Ids' = [Ids EXCEPT ![m] = Ones(mask)]
         /\ len' = len /\ tested' = tested /\ Unpacked' = Unpacked
<1>1. /\ words' = [words EXCEPT ![m] = mask]
      /\ len' = len /\ tested' = tested /\ buf' = buf
  BY DEF Become
<1>2. words \in [Buffers -> Words(len)] /\ words' \in [Buffers -> Words(len)]
  BY <1>1 DEF TypeOK, Words
<1>3. \A n \in Buffers : words'[n] = IF n = m THEN mask ELSE words[n]
  BY <1>1, <1>2
<1>4. TypeOK'
  <2>1. len' \in Lens /\ \A j \in DOMAIN buf' : buf'[j] \subseteq 0 .. BYTE_BITS - 1
    BY <1>1 DEF TypeOK
  <2>2. \A n \in Buffers : \A id \in Ones(words'[n]) : id < len'
    BY <1>1, <1>3 DEF TypeOK, InRange
  <2>. QED BY <1>1, <1>2, <2>1, <2>2 DEF TypeOK, InRange, Words
<1>5. Ids' = [Ids EXCEPT ![m] = Ones(mask)]
  BY <1>3 DEF Ids
<1>6. Unpacked' = Unpacked
  BY <1>1 DEF Unpacked
<1>. QED BY <1>1, <1>4, <1>5, <1>6

LEMMA TypedWords ==
  ASSUME TypeOK
  PROVE  /\ len \in Nat
         /\ \A m \in Buffers : /\ words[m] \in Words(len)
                               /\ DOMAIN words[m] = WordIndexes(len)
                               /\ \A id \in Ones(words[m]) : id < len
BY MaskAssumption DEF TypeOK, Words, InRange

LEMMA StepIds ==
  ASSUME TypeOK, [Next]_vars
  PROVE  TypeOK' /\ [Sets!Next]_(Sets!vars)
<1>. USE TypedWords
<1> DEFINE same == len' = len /\ tested' = tested /\ Unpacked' = Unpacked
<1>0. Ids = [m \in Buffers |-> Ones(words[m])]
  BY DEF Ids
<1>1. ASSUME NEW m \in Buffers, NEW id \in Probes, Set(m, id)
      PROVE  TypeOK' /\ Sets!Set(m, id)
  <2> DEFINE mask == [words[m] EXCEPT ![WordOf(id)] = @ \cup {BitOf(id)}]
  <2>1. id \in Nat /\ id < len /\ Become(m, mask)
    BY <1>1, MaskAssumption DEF Set, InRange
  <2>2. mask \in Words(len) /\ Ones(mask) = Ones(words[m]) \cup {id}
    BY <2>1, SetOnes
  <2>3. TypeOK' /\ Ids' = [Ids EXCEPT ![m] = Ones(mask)] /\ same
    BY <2>1, <2>2, BecomeIds
  <2>. QED BY <2>1, <2>2, <2>3 DEF Sets!Set, Sets!Become, Ids
<1>2. ASSUME NEW m \in Buffers, NEW id \in Probes, Clear(m, id)
      PROVE  TypeOK' /\ Sets!Clear(m, id)
  <2> DEFINE mask == [words[m] EXCEPT ![WordOf(id)] = @ \ {BitOf(id)}]
  <2>1. id \in Nat /\ id < len /\ Become(m, mask)
    BY <1>2, MaskAssumption DEF Clear, InRange
  <2>2. mask \in Words(len) /\ Ones(mask) = Ones(words[m]) \ {id}
    BY <2>1, ClearOnes
  <2>3. TypeOK' /\ Ids' = [Ids EXCEPT ![m] = Ones(mask)] /\ same
    BY <2>1, <2>2, BecomeIds
  <2>. QED BY <2>1, <2>2, <2>3 DEF Sets!Clear, Sets!Become, Ids
<1>3. ASSUME NEW m \in Buffers, ClearAll(m)
      PROVE  TypeOK' /\ Sets!ClearAll(m)
  <2> DEFINE mask == [w \in WordIndexes(len) |-> {}]
  <2>1. Become(m, mask)
    BY <1>3 DEF ClearAll
  <2>2. mask \in Words(len) /\ Ones(mask) = {}
    BY EmptyOnes
  <2>3. TypeOK' /\ Ids' = [Ids EXCEPT ![m] = Ones(mask)] /\ same
    BY <2>1, <2>2, BecomeIds
  <2>. QED BY <2>2, <2>3 DEF Sets!ClearAll, Sets!Become, Ids
<1>4. ASSUME NEW m \in Buffers, NEW n \in Buffers, CopyFrom(m, n)
      PROVE  TypeOK' /\ Sets!CopyFrom(m, n)
  <2>1. words[n] = [w \in WordIndexes(len) |-> words[n][w]]
    BY DEF Words
  <2>2. Become(m, words[n])
    BY <1>4, <2>1 DEF CopyFrom
  <2>3. TypeOK' /\ Ids' = [Ids EXCEPT ![m] = Ones(words[n])] /\ same
    BY <2>2, BecomeIds
  <2>. QED BY <2>3 DEF Sets!CopyFrom, Sets!Become, Ids
<1>5. ASSUME NEW m \in Buffers, NEW n \in Buffers, IntersectBy(m, n)
      PROVE  TypeOK' /\ Sets!IntersectBy(m, n)
  <2> DEFINE mask == [w \in WordIndexes(len) |-> words[m][w] \cap words[n][w]]
  <2>1. Become(m, mask)
    BY <1>5 DEF IntersectBy
  <2>2. mask \in Words(len) /\ Ones(mask) = Ones(words[m]) \cap Ones(words[n])
    BY IntersectOnes
  <2>3. TypeOK' /\ Ids' = [Ids EXCEPT ![m] = Ones(mask)] /\ same
    BY <2>1, <2>2, BecomeIds
  <2>. QED BY <2>2, <2>3 DEF Sets!IntersectBy, Sets!Become, Ids
<1>6. ASSUME NEW m \in Buffers, NEW id \in Probes, Test(m, id)
      PROVE  TypeOK' /\ Sets!Test(m, id)
  <2>1. UNCHANGED <<len, words, buf>>
    BY <1>6 DEF Test
  <2>2. TypeOK' /\ Ids' = Ids /\ Unpacked' = Unpacked
    BY <2>1 DEF TypeOK, Ids, Unpacked, InRange
  <2>3. id \in Ones(words[m]) <=> InRange(id) /\ BitOf(id) \in words[m][WordOf(id)]
    BY MaskAssumption, OnesMember, Locate DEF InRange
  <2>4. tested' = Ones(words[m]) \cap {id}
    BY <1>6, <2>3 DEF Test
  <2>. QED BY <2>1, <2>2, <2>4 DEF Sets!Test, Ids
<1>7. ASSUME NEW m \in Buffers, Pack(m)
      PROVE  TypeOK' /\ Sets!Pack(m)
  <2>1. UNCHANGED <<len, words, tested>> /\ buf' = PackedBytes(words[m], len)
    BY <1>7 DEF Pack, PackedBytes
  <2>2. Ids' = Ids /\ Unpacked' = Ones(words[m])
    BY <2>1, PackOnes DEF Ids, Unpacked
  <2>3. \A j \in DOMAIN buf' : buf'[j] \subseteq 0 .. BYTE_BITS - 1
    BY <2>1 DEF PackedBytes, ByteAt
  <2>4. TypeOK'
    BY <2>1, <2>3 DEF TypeOK, InRange
  <2>. QED BY <2>1, <2>2, <2>4 DEF Sets!Pack, Ids
<1>8. CASE UNCHANGED vars
  <2>1. TypeOK' /\ Ids' = Ids /\ Unpacked' = Unpacked
    BY <1>8 DEF vars, TypeOK, Ids, Unpacked, InRange
  <2>. QED BY <1>8, <2>1 DEF vars, Sets!vars, Ids
<1>9. CASE Next
  <2>1. PICK m \in Buffers :
          \/ ClearAll(m) \/ Pack(m)
          \/ \E id \in Probes : Set(m, id) \/ Clear(m, id) \/ Test(m, id)
          \/ \E n \in Buffers : CopyFrom(m, n) \/ IntersectBy(m, n)
    BY <1>9 DEF Next
  <2>. QED BY <2>1, <1>1, <1>2, <1>3, <1>4, <1>5, <1>6, <1>7 DEF Sets!Next
<1>. QED BY <1>8, <1>9

LEMMA InitIds ==
  ASSUME Init PROVE TypeOK /\ Sets!Init
<1>1. len \in Lens /\ len \in Nat /\ tested = {} /\ buf = [j \in {} |-> {}]
  BY MaskAssumption DEF Init
<1>2. \A m \in Buffers : words[m] \in Words(len) /\ Ones(words[m]) = {}
  BY <1>1, EmptyOnes DEF Init, WithLen
<1>3. words \in [Buffers -> Words(len)] /\ \A j \in DOMAIN buf : FALSE
  BY <1>1, <1>2 DEF Init
<1>4. TypeOK
  BY <1>1, <1>2, <1>3 DEF TypeOK, Words
<1>5. Unpacked = {} /\ [m \in Buffers |-> Ones(words[m])] = [m \in Buffers |-> {}]
  BY <1>2, <1>3 DEF Unpacked
<1>. QED BY <1>1, <1>4, <1>5 DEF Sets!Init

(***************************************************************************)
(* Whatever is set, copied or intersected, at every length, no bit lies in *)
(* the padding of the last word.                                           *)
(***************************************************************************)
THEOREM MaskTypeInvariant == Spec => []TypeOK
BY InitIds, StepIds, PTL DEF Spec

(***************************************************************************)
(* At every length, the masks are sets of ids: membership, intersection,   *)
(* copies and the packed bytes are those of the sets.                      *)
(***************************************************************************)
THEOREM MasksAreSets == Spec => RefinesSets
BY InitIds, StepIds, MaskTypeInvariant, PTL DEF Spec, RefinesSets, Sets!Spec
=============================================================================
