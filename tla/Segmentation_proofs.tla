------------------------ MODULE Segmentation_proofs ------------------------
(***************************************************************************)
(* The lexemes the scope machine sees do not depend on how the stream was  *)
(* cut into tokens: module Segmentation implements module Lexing, for      *)
(* tokens, lexemes and stacks of any size.  Nor does the depth it counts   *)
(* by them, or what it reads in a string.                                  *)
(***************************************************************************)
EXTENDS Segmentation, Pda_proofs

(***************************************************************************)
(* The inductive invariant: the types of the fields the segmentation       *)
(* decides by, and where the bytes of the open lexeme are.  Between two    *)
(* tokens they are in the buffer; while a token is walked they are in the  *)
(* buffer and the segment if the token continues the buffer, and in the    *)
(* segment alone, with the buffer empty, if it does not.                   *)
(***************************************************************************)
FieldsOK ==
    /\ pda \in PdaType
    /\ pending \in PendingType \cup {NoPending}
    /\ walk \in WalkType \cup {Idle}

BufferHoldsLexeme ==
    /\ PendingIsOpenLexeme
    /\ walk.active /\ walk.continuing =>
         /\ pending.kind = Inside
         /\ Inside # NoLexKind
    /\ walk.active /\ ~walk.continuing => pending = NoPending

SegInv == FieldsOK /\ BufferHoldsLexeme

LEMMA LexKindType ==
  ASSUME NEW s
  PROVE  LexKind(s) \in {"Ident", "Number", "Date", "Str", NoLexKind}
  BY DEF LexKind

LEMMA InitSegInv == Init => SegInv
  BY LexKindType, Targets DEF Init, SegInv, FieldsOK, BufferHoldsLexeme, PendingIsOpenLexeme,
     PdaType, PdaNew, Inside, LexKind, Idle, NoPending, NoLexKind, EnvelopeStates,
     NumberStates, DateStates, StringStates

LEMMA WalkFields ==
  ASSUME walk \in WalkType \cup {Idle}, walk.active
  PROVE  /\ walk \in WalkType
         /\ walk.seg \in SegType
         /\ walk.continuing \in BOOLEAN
         /\ walk.anchor \in State
<1>1. walk \in WalkType
  BY DEF Idle
<1> QED
  BY <1>1 DEF WalkType

LEMMA WalkIdle ==
  ASSUME walk \in WalkType \cup {Idle}, ~walk.active
  PROVE  walk = Idle
  BY DEF WalkType

LEMMA WalkingType ==
  ASSUME NEW c \in BOOLEAN, NEW a \in State, NEW seg \in SegType
  PROVE  Walking(c, a, seg) \in WalkType
  BY DEF Walking, WalkType

LEMMA PendingFields ==
  ASSUME pending \in PendingType \cup {NoPending}
  PROVE  /\ pending.buf \in Seq(Byte)
         /\ pending.kind # NoLexKind => pending \in PendingType
         /\ pending.kind = NoLexKind => pending = NoPending
         /\ pending # NoPending => pending.anchor \in State
<1>1. CASE pending \in PendingType
  BY <1>1 DEF PendingType, NoLexKind
<1>2. CASE pending = NoPending
  <2>1. pending.buf = <<>> /\ pending.kind = NoLexKind
    BY <1>2 DEF NoPending
  <2> QED  BY <1>2, <2>1
<1> QED
  BY <1>1, <1>2

LEMMA DrivenByte ==
  ASSUME SegInv, NEW b \in Bytes, Driven(b)
  PROVE  /\ b \in Byte
         /\ pda' \in PdaType
         /\ pda.state \in State
         /\ walk.active
         /\ walk.seg \in SegType
         /\ walk.continuing \in BOOLEAN
         /\ walk.anchor \in State
<1>1. b \in Byte /\ pda \in PdaType /\ walk.active /\ pda' = Advance(pda, b)
      /\ Lives(pda, b)
  BY SegmentationAssumption DEF Driven, SegInv, FieldsOK
<1>2. pda' \in PdaType
  BY <1>1, AdvanceType
<1> QED
  BY <1>1, <1>2, WalkFields DEF SegInv, FieldsOK, PdaType

LEMMA NextSegInv == SegInv /\ [Next]_vars => SegInv'
<1> SUFFICES ASSUME SegInv, [Next]_vars PROVE SegInv'
  OBVIOUS
<1> USE DEF SegInv
<1> USE LexKindType
<1>1. CASE BeginToken
  <2>1. FieldsOK'
    <3>1. pda' = pda /\ pda.state \in State
      BY <1>1 DEF BeginToken, FieldsOK, PdaType
    <3>2. CASE pending # NoPending /\ LexKind(pda.state) = pending.kind
      <4>1. walk' = Walking(TRUE, pending.anchor, <<>>) /\ pending' = pending
        BY <3>2, <1>1 DEF BeginToken
      <4>2. pending.anchor \in State
        BY <3>2, PendingFields DEF FieldsOK
      <4> QED  BY <3>1, <4>1, <4>2, WalkingType, BytesOfNone DEF FieldsOK
    <3>3. CASE ~(pending # NoPending /\ LexKind(pda.state) = pending.kind)
      <4>1. walk' = Walking(FALSE, pda.state, <<>>) /\ pending' = NoPending
        BY <3>3, <1>1 DEF BeginToken
      <4> QED  BY <3>1, <4>1, WalkingType, BytesOfNone DEF FieldsOK
    <3> QED  BY <3>2, <3>3
  <2>2. BufferHoldsLexeme'
    BY <1>1 DEF BeginToken, BufferHoldsLexeme, PendingIsOpenLexeme, Walking, Inside,
       FieldsOK, PendingType, NoPending, NoLexKind
  <2> QED  BY <2>1, <2>2
<1>2. ASSUME NEW b \in Bytes, Accumulate(b) PROVE SegInv'
  <2>0. Driven(b) /\ UNCHANGED pending /\ Inside2 = Inside
    BY <1>2 DEF Accumulate
  <2>1. walk' = Walking(walk.continuing, walk.anchor, Append(walk.seg, Read(b, pda.state)))
    BY <1>2 DEF Accumulate
  <2>2. FieldsOK'
    <3>1. Append(walk.seg, Read(b, pda.state)) \in SegType
      BY <2>0, DrivenByte, BytesOfAppend
    <3>2. walk' \in WalkType
      BY <2>0, <2>1, <3>1, DrivenByte, WalkingType
    <3> QED
      BY <2>0, <3>2, DrivenByte DEF FieldsOK
  <2>3. BufferHoldsLexeme'
    BY <2>0, <2>1, DrivenByte DEF BufferHoldsLexeme, PendingIsOpenLexeme, Walking, Inside,
       Inside2
  <2> QED  BY <2>2, <2>3
<1>3. ASSUME NEW b \in Bytes, CloseLexeme(b) PROVE SegInv'
  <2>1. FieldsOK'
    BY <1>3, DrivenByte, BytesOfOne, WalkingType DEF CloseLexeme, FieldsOK
  <2>2. BufferHoldsLexeme'
    BY <1>3, DrivenByte DEF CloseLexeme, BufferHoldsLexeme, PendingIsOpenLexeme, Walking
  <2> QED  BY <2>1, <2>2
<1>4. ASSUME NEW b \in Bytes, OpenLexeme(b) PROVE SegInv'
  <2>1. FieldsOK'
    BY <1>4, DrivenByte, BytesOfOne, WalkingType DEF OpenLexeme, FieldsOK
  <2>2. BufferHoldsLexeme'
    BY <1>4, DrivenByte DEF OpenLexeme, BufferHoldsLexeme, PendingIsOpenLexeme, Walking
  <2> QED  BY <2>1, <2>2
<1>5. CASE EndToken
  <2>0. /\ walk.seg \in SegType /\ walk.anchor \in State /\ walk.active
        /\ BytesOf(walk.seg) \in Seq(Byte)
    BY <1>5, WalkFields, BytesOfType DEF EndToken, FieldsOK
  <2>1. FieldsOK'
    <3>1. pending' \in PendingType \cup {NoPending}
      <4>1. CASE Inside = NoLexKind
        BY <4>1, <1>5 DEF EndToken, FieldsOK
      <4>2. CASE Inside # NoLexKind /\ walk.continuing
        <5>1. pending \in PendingType
          BY <4>2, <2>0, PendingFields DEF FieldsOK, BufferHoldsLexeme
        <5>2. pending' = [pending EXCEPT !.buf = @ \o BytesOf(walk.seg)]
          BY <4>2, <1>5 DEF EndToken
        <5>3. pending.buf \o BytesOf(walk.seg) \in Seq(Byte)
          BY <5>1, <2>0, PendingFields, ConcatProperties DEF FieldsOK
        <5> QED  BY <5>1, <5>2, <5>3 DEF PendingType
      <4>3. CASE Inside # NoLexKind /\ ~walk.continuing
        BY <4>3, <2>0, <1>5 DEF EndToken, PendingType, Inside
      <4> QED  BY <4>1, <4>2, <4>3
    <3> QED  BY <3>1, <1>5 DEF EndToken, FieldsOK
  <2>2. pending'.kind = Inside
    <3>1. CASE Inside = NoLexKind
      <4>1. ~walk.continuing /\ pending' = pending
        BY <3>1, <2>0, <1>5 DEF EndToken, BufferHoldsLexeme
      <4>2. pending = NoPending
        BY <4>1, <2>0 DEF BufferHoldsLexeme
      <4> QED  BY <3>1, <4>1, <4>2 DEF NoPending
    <3>2. CASE Inside # NoLexKind /\ walk.continuing
      <4>1. pending \in PendingType /\ pending.kind = Inside
        BY <3>2, <2>0, PendingFields DEF FieldsOK, BufferHoldsLexeme
      <4>2. pending' = [pending EXCEPT !.buf = @ \o BytesOf(walk.seg)]
        BY <3>2, <1>5 DEF EndToken
      <4> QED  BY <4>1, <4>2 DEF PendingType
    <3>3. CASE Inside # NoLexKind /\ ~walk.continuing
      BY <3>3, <1>5 DEF EndToken
    <3> QED  BY <3>1, <3>2, <3>3
  <2>3. BufferHoldsLexeme'
    BY <1>5, <2>2 DEF EndToken, BufferHoldsLexeme, PendingIsOpenLexeme, Idle, Inside
  <2> QED  BY <2>1, <2>3
<1>6. CASE Reset
  BY <1>6, Targets DEF Reset, FieldsOK, BufferHoldsLexeme, PendingIsOpenLexeme, PdaType,
     PdaNew, Inside, LexKind, Idle, NoPending, NoLexKind, EnvelopeStates, NumberStates,
     DateStates, StringStates
<1>7. CASE UNCHANGED vars
  BY <1>7 DEF vars, FieldsOK, BufferHoldsLexeme, PendingIsOpenLexeme, Inside
<1> QED
  BY <1>1, <1>2, <1>3, <1>4, <1>5, <1>6, <1>7 DEF Next, ReadByte

(***************************************************************************)
(* The buffer is the lexeme the automaton is inside, between any two       *)
(* tokens: the prefix the narrower walks is never stale, and the flush at  *)
(* the top of `observe` never runs (scope.rs 359-363).                     *)
(***************************************************************************)
THEOREM BufferIsOpenLexeme == Spec => []PendingIsOpenLexeme
<1>1. SegInv => PendingIsOpenLexeme
  BY DEF SegInv, BufferHoldsLexeme
<1> QED
  BY <1>1, InitSegInv, NextSegInv, PTL DEF Spec

\* A fresh stream is inside no lexeme.
LEMMA StartInside == LexKind(PdaNew.state) = NoLexKind
  BY DEF LexKind, PdaNew, NoLexKind, NumberStates, DateStates, StringStates

\* Lexing's names for the same values.
LEMMA LexingNames ==
  /\ Lexing!NoLexeme = NoLexeme
  /\ \A x, y : Lexing!Lexeme(x, y) = Lexeme(x, y)
  BY DEF Lexing!NoLexeme, NoLexeme, Lexing!Lexeme, Lexeme

LEMMA InitLexing == Init => Lexing!Init
  BY StartInside, LexingNames DEF Init, Lexing!Init, InFlight, Inside

LEMMA NextLexing == SegInv /\ SegInv' /\ [Next]_vars => [Lexing!Next]_Lexing!lvars
<1> SUFFICES ASSUME SegInv, SegInv', [Next]_vars PROVE [Lexing!Next]_Lexing!lvars
  OBVIOUS
<1> USE LexingNames
<1>1. CASE BeginToken
  <2>1. ~walk.active /\ walk = Idle /\ pda' = pda
    BY <1>1, WalkIdle DEF BeginToken, SegInv, FieldsOK
  <2>2. emitted' = NoLexeme /\ InFlight' = InFlight
    <3>1. CASE pending # NoPending /\ LexKind(pda.state) = pending.kind
      BY <3>1, <2>1, <1>1 DEF BeginToken, Quiet, InFlight, Inside, Walking, Idle
    <3>2. CASE ~(pending # NoPending /\ LexKind(pda.state) = pending.kind)
      <4>1. pending = NoPending /\ Inside = NoLexKind
        BY <3>2, <2>1 DEF SegInv, FieldsOK, BufferHoldsLexeme, PendingIsOpenLexeme, Inside,
           NoPending
      <4> QED
        BY <3>2, <4>1, <2>1, <1>1 DEF BeginToken, Quiet, InFlight, Inside
    <3> QED  BY <3>1, <3>2
  <2> QED
    BY <2>1, <2>2 DEF Lexing!Next, Lexing!Taken
<1>2. ASSUME NEW b \in Bytes, Driven(b), ReadByte(b)
      PROVE  Lexing!Next
  <2>0. /\ b \in Byte /\ pda' \in PdaType /\ pda.state \in State /\ walk.active
        /\ walk.seg \in SegType /\ walk.continuing \in BOOLEAN
        /\ BytesOf(walk.seg) \in Seq(Byte)
        /\ pending.buf \in Seq(Byte)
    BY <1>2, DrivenByte, BytesOfType, PendingFields DEF SegInv, FieldsOK
  <2>1. Lives(pda, b) /\ pda' = Advance(pda, b)
    BY <1>2 DEF Driven
  <2>2. CASE Accumulate(b)
    <3>1. /\ walk' = Walking(walk.continuing, walk.anchor,
                             Append(walk.seg, Read(b, pda.state)))
          /\ pending' = pending /\ Inside' = Inside /\ emitted' = NoLexeme
      BY <2>2 DEF Accumulate, Quiet, Inside, Inside2
    <3>2. BytesOf(walk'.seg) = Append(BytesOf(walk.seg), b)
      BY <3>1, <2>0, BytesOfAppend DEF Walking
    <3>3. InFlight' = IF Inside = NoLexKind THEN NoLexeme
                      ELSE Lexeme(Append(InFlight.bytes, b), InFlight.anchor)
      <4>1. CASE Inside = NoLexKind
        BY <4>1, <3>1 DEF InFlight
      <4>2. CASE Inside # NoLexKind /\ ~walk.continuing
        BY <4>2, <3>1, <3>2, <2>0 DEF InFlight, Walking, Lexeme
      <4>3. CASE Inside # NoLexKind /\ walk.continuing
        <5>1. walk'.active /\ walk'.continuing
          BY <4>3, <3>1, <2>0 DEF Walking
        <5>2. pending.buf \o Append(BytesOf(walk.seg), b)
                = Append(pending.buf \o BytesOf(walk.seg), b)
          BY <2>0, ConcatFacts
        <5> QED  BY <4>3, <3>1, <3>2, <5>1, <5>2 DEF InFlight, Lexeme
      <4> QED  BY <4>1, <4>2, <4>3, <2>0
    <3> QED
      BY <3>1, <3>3, <2>0, <2>1
      DEF Lexing!Next, Lexing!Read, Lexing!Stay, Inside
  <2>3. CASE CloseLexeme(b)
    <3>1. /\ walk' = Walking(FALSE, pda.state, <<Read(b, pda.state)>>)
          /\ Inside # NoLexKind /\ Inside' # Inside
          /\ emitted' = InFlight
      BY <2>3, <2>0 DEF CloseLexeme, Emits, InFlight, Inside, Inside2
    <3>2. InFlight' = IF Inside' = NoLexKind THEN NoLexeme ELSE Lexeme(<<b>>, pda.state)
      BY <3>1, <2>0, BytesOfOne DEF InFlight, Walking
    <3> QED
      BY <3>1, <3>2, <2>0, <2>1 DEF Lexing!Next, Lexing!Read, Lexing!Cross, Inside
  <2>4. CASE OpenLexeme(b)
    <3>1. /\ walk' = Walking(FALSE, pda.state, <<Read(b, pda.state)>>)
          /\ Inside = NoLexKind /\ Inside' # NoLexKind
          /\ emitted' = NoLexeme /\ InFlight = NoLexeme
      BY <2>4, <2>0 DEF OpenLexeme, Munches, InFlight, Inside, Inside2
    <3>2. InFlight' = Lexeme(<<b>>, pda.state)
      BY <3>1, <2>0, BytesOfOne DEF InFlight, Walking
    <3> QED
      BY <3>1, <3>2, <2>0, <2>1 DEF Lexing!Next, Lexing!Read, Lexing!Cross, Inside
  <2> QED  BY <2>2, <2>3, <2>4, <1>2 DEF ReadByte
<1>3. CASE EndToken
  <2>0. /\ walk.active /\ walk' = Idle /\ pda' = pda /\ walk.seg \in SegType
        /\ BytesOf(walk.seg) \in Seq(Byte) /\ pending.buf \in Seq(Byte)
        /\ walk.continuing \in BOOLEAN
    BY <1>3, WalkFields, BytesOfType, PendingFields DEF EndToken, SegInv, FieldsOK
  <2>1. emitted' = NoLexeme
    BY <1>3 DEF EndToken, Munches, Quiet
  <2>2. InFlight' = InFlight
    <3>1. CASE Inside = NoLexKind
      BY <3>1, <2>0 DEF InFlight, Inside
    <3>2. CASE Inside # NoLexKind /\ walk.continuing
      <4>1. pending' = [pending EXCEPT !.buf = @ \o BytesOf(walk.seg)]
        BY <3>2, <1>3 DEF EndToken
      <4>2. pending \in PendingType
        BY <3>2, <2>0 DEF SegInv, FieldsOK, BufferHoldsLexeme, NoPending
      <4>3. /\ pending'.buf = pending.buf \o BytesOf(walk.seg)
            /\ pending'.anchor = pending.anchor
        BY <4>1, <4>2 DEF PendingType
      <4> QED
        <5>1. ~walk'.active /\ BytesOf(walk'.seg) = <<>>
          BY <2>0, BytesOfNone DEF Idle
        <5>2. (pending.buf \o BytesOf(walk.seg)) \o <<>> = pending.buf \o BytesOf(walk.seg)
          BY <2>0, ConcatFacts
        <5> QED  BY <3>2, <2>0, <4>3, <5>1, <5>2 DEF InFlight, Inside
    <3>3. CASE Inside # NoLexKind /\ ~walk.continuing
      <4>1. ~walk'.active /\ BytesOf(walk'.seg) = <<>>
        BY <2>0, BytesOfNone DEF Idle
      <4>2. pending'.buf = BytesOf(walk.seg) /\ pending'.anchor = walk.anchor
        BY <3>3, <1>3 DEF EndToken
      <4>3. BytesOf(walk.seg) \o <<>> = BytesOf(walk.seg)
        BY <2>0, ConcatFacts
      <4> QED  BY <3>3, <2>0, <4>1, <4>2, <4>3 DEF InFlight, Inside
    <3> QED  BY <3>1, <3>2, <3>3, <2>0
  <2> QED
    BY <2>0, <2>1, <2>2 DEF Lexing!Next, Lexing!Taken
<1>4. CASE Reset
  BY <1>4, StartInside DEF Reset, Lexing!Next, Lexing!Restart, InFlight, Inside
<1>5. CASE UNCHANGED vars
  BY <1>5 DEF vars, Lexing!lvars, InFlight, Inside
<1> QED
  BY <1>1, <1>2, <1>3, <1>4, <1>5
  DEF Next, ReadByte, Accumulate, CloseLexeme, OpenLexeme

(***************************************************************************)
(* Every lexeme the scope machine is given is the one the automaton cuts,  *)
(* whole and with the state it opened from, however the stream was grouped *)
(* into tokens (scope.rs 491-495).                                         *)
(***************************************************************************)
THEOREM SplitIndependence == Spec => RefinesLexing
<1>1. SegInv /\ SegInv' /\ [Next]_vars => [Lexing!Next]_Lexing!lvars
  BY NextLexing
<1> QED
  BY <1>1, InitSegInv, NextSegInv, InitLexing, PTL DEF Spec, RefinesLexing, Lexing!Spec

-----------------------------------------------------------------------------
(***************************************************************************)
(* Counting delimiters: the depths a sequence of tokens goes through.      *)
(***************************************************************************)
IsCount(g, d, tokens) ==
  /\ g \in [0 .. Len(tokens) -> Nat]
  /\ g[0] = d
  /\ \A n \in 1 .. Len(tokens) : g[n] = Recounted(g[n - 1], tokens[n])

LEMMA RecountedType ==
  ASSUME NEW d \in Nat, NEW token
  PROVE  Recounted(d, token) \in Nat
  BY DEF Recounted

LEMMA CountExists ==
  ASSUME NEW T, NEW tokens \in Seq(T), NEW d \in Nat
  PROVE  \E g : IsCount(g, d, tokens)
<1> DEFINE F == [q \in Nat |-> [t \in T |-> Recounted(q, t)]]
<1>1. F \in StepFunction(Nat, T)
  BY RecountedType DEF StepFunction
<1>2. PICK g : IsTrace(g, Nat, F, d, tokens)
  <2> HIDE DEF F
  <2> QED  BY <1>1, TraceExists
<1>3. ASSUME NEW n \in 1 .. Len(tokens)
      PROVE  g[n] = Recounted(g[n - 1], tokens[n])
  <2>1. g[n] = F[g[n - 1]][tokens[n]] /\ g[n - 1] \in Nat /\ tokens[n] \in T
    <3> HIDE DEF F
    <3> QED  BY <1>2 DEF IsTrace
  <2> QED  BY <2>1
<1> QED  BY <1>2, <1>3 DEF IsTrace, IsCount

LEMMA CountedIs ==
  ASSUME NEW T, NEW tokens \in Seq(T), NEW d \in Nat, NEW g, IsCount(g, d, tokens)
  PROVE  Counted(d, tokens) = g[Len(tokens)]
<1> DEFINE N == Len(tokens)
           Run(h) == h = [n \in 0 .. N |-> IF n = 0 THEN d ELSE Recounted(h[n - 1], tokens[n])]
           after == CHOOSE h : Run(h)
<1>1. N \in Nat /\ N \in 0 .. N
  OBVIOUS
<1>2. ASSUME NEW n \in 0 .. N
      PROVE  g[n] = IF n = 0 THEN d ELSE Recounted(g[n - 1], tokens[n])
  <2>1. n # 0 => n \in 1 .. N
    BY <1>1
  <2> QED  BY <2>1 DEF IsCount
<1>3. Run(g)
  <2> DEFINE same == [n \in 0 .. N |-> IF n = 0 THEN d ELSE Recounted(g[n - 1], tokens[n])]
  <2>1. g = same
    BY <1>2 DEF IsCount
  <2> QED  BY <2>1
<1>4. Run(after)
  BY <1>3
<1>5. Counted(d, tokens) = after[N]
  BY DEF Counted
<1> HIDE DEF after
<1> DEFINE X == {n \in 0 .. N : after[n] = g[n]}
<1>6. 0 \in X
  BY <1>1, <1>4 DEF IsCount
<1>7. ASSUME NEW n \in 1 .. N, n - 1 \in X PROVE n \in X
  <2>1. n \in 0 .. N /\ n # 0 /\ n - 1 \in 0 .. N
    BY <1>1
  <2>2. after[n] = Recounted(after[n - 1], tokens[n])
    BY <1>4, <2>1
  <2>3. g[n] = Recounted(g[n - 1], tokens[n])
    BY <1>2, <2>1
  <2> QED  BY <1>7, <2>1, <2>2, <2>3
<1>8. N \in X
  <2> HIDE DEF X, N
  <2> QED  BY <1>1, <1>6, <1>7, InductionUpTo
<1> QED  BY <1>5, <1>8

LEMMA CountedType ==
  ASSUME NEW T, NEW tokens \in Seq(T), NEW d \in Nat
  PROVE  Counted(d, tokens) \in Nat
<1>1. PICK g : IsCount(g, d, tokens)
  BY CountExists
<1>2. Counted(d, tokens) = g[Len(tokens)]
  BY <1>1, CountedIs
<1>3. Len(tokens) \in 0 .. Len(tokens)
  OBVIOUS
<1> QED  BY <1>1, <1>2, <1>3 DEF IsCount

LEMMA CountedNone ==
  ASSUME NEW d \in Nat
  PROVE  Counted(d, <<>>) = d
<1> DEFINE none == <<>>
<1>1. none \in Seq({}) /\ Len(none) = 0
  OBVIOUS
<1> HIDE DEF none
<1>2. PICK g : IsCount(g, d, none)
  BY <1>1, CountExists
<1>3. Counted(d, none) = g[0]
  BY <1>1, <1>2, CountedIs
<1> QED  BY <1>2, <1>3 DEF IsCount, none

LEMMA CountedFirst ==
  ASSUME NEW T, NEW t \in T, NEW tokens \in Seq(T), NEW d \in Nat
  PROVE  Counted(d, <<t>> \o tokens) = Counted(Recounted(d, t), tokens)
<1> DEFINE all == <<t>> \o tokens
           N   == Len(tokens)
<1>1. /\ all \in Seq(T) /\ Len(all) = N + 1 /\ N \in Nat /\ all[1] = t
      /\ \A n \in 1 .. N : all[n + 1] = tokens[n]
  OBVIOUS
<1> HIDE DEF all
<1>2. PICK g : IsCount(g, d, all)
  BY <1>1, CountExists
<1> DEFINE h == [n \in 0 .. N |-> g[n + 1]]
<1>3. \A n \in 0 .. N : n + 1 \in 0 .. N + 1 /\ n + 1 \in 1 .. N + 1 /\ (n + 1) - 1 = n
  BY <1>1
<1>4. g \in [0 .. N + 1 -> Nat] /\ g[0] = d /\ \A n \in 1 .. N + 1 : g[n] = Recounted(g[n - 1], all[n])
  BY <1>1, <1>2 DEF IsCount
<1>5. h[0] = Recounted(d, t)
  <2>1. g[1] = Recounted(g[1 - 1], all[1]) /\ 1 - 1 = 0 /\ 0 + 1 = 1
    BY <1>1, <1>4
  <2> QED  BY <1>1, <1>4, <2>1
<1>6. ASSUME NEW n \in 1 .. N PROVE h[n] = Recounted(h[n - 1], tokens[n])
  <2>1. n \in 0 .. N /\ n - 1 \in 0 .. N /\ (n - 1) + 1 = n
    BY <1>1
  <2>2. g[n + 1] = Recounted(g[(n + 1) - 1], all[n + 1])
    BY <1>3, <1>4, <2>1
  <2>3. h[n] = g[n + 1] /\ h[n - 1] = g[n]
    BY <2>1
  <2> QED  BY <1>1, <1>3, <2>1, <2>2, <2>3
<1>7. h \in [0 .. N -> Nat]
  BY <1>3, <1>4
<1> HIDE DEF h
<1>8. IsCount(h, Recounted(d, t), tokens)
  BY <1>5, <1>6, <1>7 DEF IsCount
<1>9. Counted(Recounted(d, t), tokens) = h[N]
  BY <1>8, CountedIs, RecountedType
<1>10. Counted(d, all) = g[N + 1]
  BY <1>1, <1>2, CountedIs
<1>11. h[N] = g[N + 1]
  BY <1>1 DEF h
<1> QED  BY <1>9, <1>10, <1>11 DEF all

LEMMA CountedLast ==
  ASSUME NEW T, NEW t \in T, NEW tokens \in Seq(T), NEW d \in Nat
  PROVE  Counted(d, Append(tokens, t)) = Recounted(Counted(d, tokens), t)
<1> DEFINE all == Append(tokens, t)
           N   == Len(tokens)
<1>1. /\ all \in Seq(T) /\ Len(all) = N + 1 /\ N \in Nat /\ all[N + 1] = t
      /\ \A n \in 1 .. N : all[n] = tokens[n]
  OBVIOUS
<1> HIDE DEF all
<1>2. PICK g : IsCount(g, d, all)
  BY <1>1, CountExists
<1> DEFINE h == [n \in 0 .. N |-> g[n]]
<1>3. /\ \A n \in 0 .. N : n \in 0 .. N + 1
      /\ \A n \in 1 .. N : n \in 1 .. N + 1 /\ n \in 0 .. N /\ n - 1 \in 0 .. N
      /\ N \in 0 .. N /\ 0 \in 0 .. N /\ N + 1 \in 1 .. N + 1 /\ (N + 1) - 1 = N
  BY <1>1
<1>4. g \in [0 .. N + 1 -> Nat] /\ g[0] = d /\ \A n \in 1 .. N + 1 : g[n] = Recounted(g[n - 1], all[n])
  BY <1>1, <1>2 DEF IsCount
<1>5. IsCount(h, d, tokens)
  <2>1. h \in [0 .. N -> Nat] /\ h[0] = d
    BY <1>3, <1>4
  <2>2. ASSUME NEW n \in 1 .. N PROVE h[n] = Recounted(h[n - 1], tokens[n])
    <3> HIDE DEF N
    <3> QED  BY <1>1, <1>3, <1>4
  <2> HIDE DEF h
  <2> QED  BY <2>1, <2>2 DEF IsCount
<1>6. Counted(d, tokens) = h[N] /\ h[N] = g[N]
  <2>1. h[N] = g[N]
    BY <1>3
  <2> HIDE DEF h
  <2> QED  BY <1>5, <2>1, CountedIs
<1>7. Counted(d, all) = g[N + 1]
  BY <1>1, <1>2, CountedIs
<1> HIDE DEF h, N
<1> QED  BY <1>1, <1>3, <1>4, <1>6, <1>7 DEF all

(***************************************************************************)
(* However a gap is munched, its tokens count the delimiters its bytes     *)
(* would count one by one: the two-byte operators and the words hold none. *)
(***************************************************************************)
OneByte(r)    == GapToken(<<r.byte>>, "none", r.at)
OneByOne(seg) == [i \in DOMAIN seg |-> OneByte(seg[i])]

LEMMA PlainRecounted ==
  ASSUME NEW d \in Nat, NEW token, token.bytes \notin OpenerToken, token.bytes \notin CloserToken
  PROVE  Recounted(d, token) = d
  BY DEF Recounted

LEMMA OneByteRecounted ==
  ASSUME NEW d \in Nat, NEW r, r.byte \notin Delims
  PROVE  Recounted(d, OneByte(r)) = d
<1> DEFINE b == r.byte
<1>1. b \notin {"(", "[", "{"} /\ b \notin Closer
  BY DEF Delims, Closer
<1> HIDE DEF b
<1>2. <<b>> \notin OpenerToken /\ <<b>> \notin CloserToken
  BY <1>1 DEF OpenerToken, CloserToken
<1>3. OneByte(r).bytes = <<b>>
  BY DEF OneByte, GapToken, b
<1> QED  BY <1>2, <1>3, PlainRecounted

LEMMA OneByOneFacts ==
  ASSUME NEW seg \in SegType
  PROVE  /\ OneByOne(seg) \in Seq([bytes : Seq(Byte), anchor : {"none"}, at : State])
         /\ Len(OneByOne(seg)) = Len(seg)
         /\ \A i \in 1 .. Len(seg) : OneByOne(seg)[i] = OneByte(seg[i])
<1>1. /\ Len(seg) \in Nat /\ DOMAIN seg = 1 .. Len(seg)
      /\ \A i \in 1 .. Len(seg) : seg[i] \in [byte : Byte, at : State]
  BY LenProperties, ElementOfSeq DEF SegType
<1>2. OneByOne(seg) \in [1 .. Len(seg) -> [bytes : Seq(Byte), anchor : {"none"}, at : State]]
  BY <1>1 DEF OneByOne, OneByte, GapToken
<1>3. \A i \in 1 .. Len(seg) : OneByOne(seg)[i] = OneByte(seg[i])
  BY <1>1 DEF OneByOne
<1> HIDE DEF OneByOne
<1>4. OneByOne(seg) \in Seq([bytes : Seq(Byte), anchor : {"none"}, at : State])
  <2> DEFINE T == [bytes : Seq(Byte), anchor : {"none"}, at : State]
             q == OneByOne(seg)
             N == Len(seg)
  <2>1. q \in [1 .. N -> T] /\ N \in Nat
    BY <1>1, <1>2
  <2> HIDE DEF T, q, N
  <2>2. q \in Seq(T)
    BY <2>1, SeqDef
  <2> QED  BY <2>2 DEF T, q
<1>5. Len(OneByOne(seg)) = Len(seg)
  BY <1>1, <1>2, <1>4, LenProperties
<1> QED  BY <1>3, <1>4, <1>5

LEMMA CountedMunch ==
  ASSUME NEW seg \in SegType, NEW anchor \in State, NEW d \in Nat
  PROVE  Counted(d, FlushGap(seg, anchor)) = Counted(d, OneByOne(seg))
<1> DEFINE N == Len(seg)
           T == [bytes : Seq(Byte), anchor : {"none"}, at : State]
<1>1. N \in Nat
  BY DEF SegType
<1>2. PICK m : FlushRun(m, seg, anchor) /\ FlushGap(seg, anchor) = m[1]
  BY FlushGapRuns
<1>3. PICK c : IsCount(c, d, OneByOne(seg))
  BY OneByOneFacts, CountExists
<1>4. /\ c \in [0 .. N -> Nat] /\ c[0] = d
      /\ \A n \in 1 .. N : c[n] = Recounted(c[n - 1], OneByte(seg[n]))
  BY <1>3, OneByOneFacts DEF IsCount
<1>5. Counted(d, OneByOne(seg)) = c[N]
  <2> HIDE DEF T
  <2>1. OneByOne(seg) \in Seq(T) /\ Len(OneByOne(seg)) = N
    BY OneByOneFacts DEF T
  <2> QED  BY <1>3, <2>1, CountedIs
<1> DEFINE X == {i \in 1 .. N + 1 : Counted(c[i - 1], m[i]) = c[N]}
<1>6. N + 1 \in X
  <2>1. (N + 1) - 1 = N /\ N \in 0 .. N /\ N + 1 \in 1 .. N + 1
    BY <1>1
  <2>2. m[N + 1] = <<>> /\ c[N] \in Nat
    BY <1>2, <1>4, <2>1 DEF FlushRun
  <2> HIDE DEF N
  <2> QED  BY <2>1, <2>2, CountedNone
<1>7. ASSUME NEW i \in 1 .. N, \A j \in i + 1 .. N + 1 : j \in X PROVE i \in X
  <2> DEFINE j == Ahead(seg, i)
  <2>1. j \in i + 1 .. N + 1 /\ i \in 1 .. N + 1 /\ i - 1 \in 0 .. N /\ j - 1 \in 0 .. N /\ j \in 1 .. N + 1
    BY <1>1, AheadType
  <2>2. Counted(c[j - 1], m[j]) = c[N]
    BY <1>7, <2>1
  <2>3. m[i] = TokensAt(seg, anchor, i) \o m[j] /\ m[j] \in Seq(GapTokenType) /\ c[i - 1] \in Nat
    <3>1. m[j] \in Seq(GapOf(anchor)) /\ GapOf(anchor) \subseteq GapTokenType
      BY <1>2, <2>1 DEF FlushRun, GapOf, GapTokenType
    <3>2. m[j] \in Seq(GapTokenType)
      <4> DEFINE R == GapOf(anchor)
                 T2 == GapTokenType
      <4> HIDE DEF R, T2
      <4> QED  BY <3>1 DEF R, T2
    <3>3. m[i] = TokensAt(seg, anchor, i) \o m[j] /\ c[i - 1] \in Nat
      BY <1>2, <1>4, <2>1 DEF FlushRun
    <3> QED  BY <3>2, <3>3
  <2>4. c[i] = Recounted(c[i - 1], OneByte(seg[i]))
    BY <1>4
  <2>5. CASE seg[i].byte \in WS
    <3>1. TokensAt(seg, anchor, i) = <<>> /\ j = i + 1 /\ j - 1 = i
      BY <1>1, <2>5 DEF TokensAt, Ahead
    <3>2. c[i] = c[i - 1]
      BY <2>3, <2>4, <2>5, OneByteRecounted, ClassesPlain
    <3>3. m[i] = m[j]
      BY <2>3, <3>1
    <3> HIDE DEF j, N
    <3> QED  BY <2>1, <2>2, <3>1, <3>2, <3>3
  <2>6. CASE seg[i].byte \notin WS
    <3> DEFINE t == TokenAt(seg, anchor, i)
               n == MunchLength(seg, i)
    <3>1. TokensAt(seg, anchor, i) = <<t>> /\ j = i + n
      BY <2>6 DEF TokensAt, Ahead
    <3>2. t \in GapTokenType
      BY TokensAtType DEF GapOf, GapTokenType
    <3>3. Counted(c[i - 1], m[i]) = Counted(Recounted(c[i - 1], t), m[j])
      <4> HIDE DEF t, j
      <4> QED  BY <2>3, <3>1, <3>2, CountedFirst
    <3>4. Recounted(c[i - 1], t) = c[j - 1]
      <4>1. n \in Nat /\ n >= 1 /\ i + n <= N + 1 /\ n \in 0 .. n
            /\ (n # 1 => \A k \in i .. i + n - 1 : seg[k].byte \notin Delims)
        BY MunchLengthFacts
      <4>2. Len(t.bytes) = n /\ t.bytes[1] = seg[i].byte /\ t.bytes \in Seq(Byte)
        BY GapTokenBytes
      <4> HIDE DEF t, n
      <4>3. CASE n = 1
        <5>1. t.bytes = <<seg[i].byte>>
          BY <4>2, <4>3
        <5>2. Recounted(c[i - 1], t) = Recounted(c[i - 1], OneByte(seg[i]))
          BY <5>1 DEF Recounted, OneByte, GapToken
        <5>3. j - 1 = i
          BY <1>1, <3>1, <4>3
        <5> HIDE DEF j, N
        <5> QED  BY <2>4, <5>2, <5>3
      <4>4. CASE n # 1
        <5>1. t.bytes \notin OpenerToken /\ t.bytes \notin CloserToken
          <6>1. Len(t.bytes) # 1
            BY <4>2, <4>4
          <6>2. \A q \in OpenerToken \cup CloserToken : Len(q) = 1
            <7>1. \A q \in OpenerToken : Len(q) = 1
              <8>1. \A x : Len(<<x>>) = 1
                OBVIOUS
              <8>2. \A q \in OpenerToken : \E x : q = <<x>>
                BY DEF OpenerToken
              <8> QED  BY <8>1, <8>2
            <7>2. \A q \in CloserToken : Len(q) = 1
              BY DEF CloserToken
            <7> QED  BY <7>1, <7>2
          <6> QED  BY <6>1, <6>2
        <5>2. Recounted(c[i - 1], t) = c[i - 1]
          BY <2>3, <5>1, PlainRecounted
        <5> DEFINE Y == {k \in 0 .. n : c[i - 1 + k] = c[i - 1]}
        <5>3. 0 \in Y
          <6>1. i - 1 + 0 = i - 1 /\ 0 \in 0 .. n
            BY <1>1, <4>1
          <6> QED  BY <6>1
        <5>4. ASSUME NEW k \in 1 .. n, k - 1 \in Y PROVE k \in Y
          <6> DEFINE p == i - 1 + k
          <6>1. p \in 1 .. N /\ p - 1 = i - 1 + (k - 1) /\ p \in i .. i + n - 1 /\ k \in 0 .. n
            BY <1>1, <4>1
          <6>2. c[p - 1] = c[i - 1] /\ c[p] = Recounted(c[p - 1], OneByte(seg[p]))
            BY <1>4, <5>4, <6>1
          <6>3. seg[p].byte \notin Delims
            BY <4>1, <4>4, <6>1
          <6> HIDE DEF p
          <6>4. c[p] = c[i - 1]
            BY <2>3, <6>2, <6>3, OneByteRecounted
          <6> QED  BY <6>1, <6>4 DEF p
        <5>5. n \in Y
          <6> HIDE DEF Y
          <6> QED  BY <4>1, <5>3, <5>4, InductionUpTo
        <5>6. j - 1 = i - 1 + n
          BY <1>1, <3>1, <4>1
        <5> HIDE DEF j, N
        <5> QED  BY <5>2, <5>5, <5>6
      <4> QED  BY <4>3, <4>4
    <3> HIDE DEF t, j, N
    <3> QED  BY <2>1, <2>2, <3>3, <3>4
  <2> QED  BY <2>5, <2>6
<1>8. 1 \in X
  <2>1. 1 \in 1 .. N + 1
    BY <1>1
  <2> HIDE DEF X
  <2> QED  BY <1>1, <1>6, <1>7, <2>1, InductionDownFrom
<1> QED
  <2>1. 1 - 1 = 0
    OBVIOUS
  <2> HIDE DEF N
  <2> QED BY <1>2, <1>4, <1>5, <1>8, <2>1

LEMMA StepCounts ==
  ASSUME NEW p \in PdaType, NEW b, Lives(p, b), NEW r, r.byte = b
  PROVE  /\ p.state # "StrBody" => Len(Advance(p, b).stack) = Recounted(Len(p.stack), OneByte(r))
         /\ LexKind(Advance(p, b).state) # NoLexKind => Advance(p, b).stack = p.stack
<1>0. Len(p.stack) \in Nat
  BY DEF PdaType
<1>1. CASE p.state = "StrBody"
  BY <1>1, TextStep
<1>2. CASE p.state # "StrBody"
  <2> DEFINE q == Advance(p, b)
             n == Len(p.stack)
             t == OneByte(r)
  <2>1. t.bytes = <<b>>
    BY DEF OneByte, GapToken
  <2>2. /\ b = "'" => q.stack = p.stack
        /\ b \notin Delims => q.stack = p.stack
        /\ b \in {"(", "[", "{"} => Len(q.stack) = n + 1 /\ LexKind(q.state) = NoLexKind
        /\ b \in Closer => n > 0 /\ Len(q.stack) = n - 1 /\ LexKind(q.state) = NoLexKind
    BY <1>2, PlainStep
  <2> HIDE DEF q, t
  <2>3. CASE b \in {"(", "[", "{"}
    <3>1. <<b>> \in OpenerToken
      BY <2>3 DEF OpenerToken
    <3>2. <<b>> \notin CloserToken
      BY <2>3 DEF CloserToken, Closer
    <3>3. Recounted(n, t) = n + 1
      BY <2>1, <3>1, <3>2 DEF Recounted
    <3> QED  BY <1>2, <2>2, <2>3, <3>3 DEF q, t
  <2>4. CASE b \in Closer
    <3>1. <<b>> \in CloserToken
      BY <2>4 DEF CloserToken
    <3>2. <<b>> \notin OpenerToken
      BY <2>4 DEF OpenerToken, Closer
    <3>3. Recounted(n, t) = n - 1
      BY <2>1, <2>2, <2>4, <3>1, <3>2 DEF Recounted
    <3> QED  BY <1>2, <2>2, <2>4, <3>3 DEF q, t
  <2>5. CASE b \notin {"(", "[", "{"} /\ b \notin Closer
    <3>1. q.stack = p.stack
      BY <2>2, <2>5 DEF Delims, Closer
    <3>2. <<b>> \notin OpenerToken /\ <<b>> \notin CloserToken
      BY <2>5 DEF OpenerToken, CloserToken
    <3>3. Recounted(n, t) = n
      BY <2>1, <3>2 DEF Recounted
    <3> QED  BY <1>2, <3>1, <3>3 DEF q, t
  <2> QED  BY <2>3, <2>4, <2>5
<1> QED  BY <1>1, <1>2

(***************************************************************************)
(* What dispatching leaves behind has its type, in every step.             *)
(***************************************************************************)
Dispatches ==
    /\ emitted \in [bytes : Seq(Byte), anchor : State] \cup {NoLexeme}
    /\ munched \in Seq(GapTokenType)

LEMMA QuietDispatches ==
  /\ Quiet => Dispatches'
  /\ \A bytes \in Seq(Byte), anchor \in State : Emits(bytes, anchor) => Dispatches'
  /\ \A seg \in SegType, anchor \in State : Munches(FlushGap(seg, anchor)) => Dispatches'
<1>1. <<>> \in Seq(GapTokenType)
  OBVIOUS
<1>2. Quiet => Dispatches'
  BY <1>1 DEF Quiet, Dispatches
<1>3. \A bytes \in Seq(Byte), anchor \in State : Emits(bytes, anchor) => Dispatches'
  BY <1>1 DEF Emits, Dispatches, Lexeme
<1>4. \A seg \in SegType, anchor \in State : Munches(FlushGap(seg, anchor)) => Dispatches'
  BY FlushGapType DEF Munches, Dispatches
<1> QED  BY <1>2, <1>3, <1>4

LEMMA NextDispatches == SegInv /\ Dispatches /\ [Next]_vars => Dispatches'
<1> SUFFICES ASSUME SegInv, Dispatches, [Next]_vars PROVE Dispatches'
  OBVIOUS
<1>0. /\ pending.buf \in Seq(Byte) /\ (pending # NoPending => pending.anchor \in State)
      /\ (pending.kind = NoLexKind => pending = NoPending)
  BY PendingFields DEF SegInv, FieldsOK
<1>1. CASE BeginToken
  <2>1. Quiet \/ (Emits(pending.buf, pending.anchor) /\ pending # NoPending)
    BY <1>1 DEF BeginToken
  <2> QED  BY <1>0, <2>1, QuietDispatches
<1>2. ASSUME NEW b \in Bytes, ReadByte(b), Driven(b) PROVE Dispatches'
  <2>0. /\ walk.seg \in SegType /\ walk.anchor \in State /\ walk.active
        /\ BytesOf(walk.seg) \in Seq(Byte)
        /\ pending.buf \o BytesOf(walk.seg) \in Seq(Byte)
    BY <1>0, <1>2, DrivenByte, BytesOfType, ConcatFacts
  <2>1. CASE Accumulate(b)
    BY <2>1, QuietDispatches DEF Accumulate
  <2>2. CASE CloseLexeme(b)
    <3>1. CASE walk.continuing
      <4>1. Emits(pending.buf \o BytesOf(walk.seg), pending.anchor) /\ Inside # NoLexKind
        BY <2>2, <3>1 DEF CloseLexeme
      <4>2. pending # NoPending
        BY <2>0, <3>1, <4>1 DEF SegInv, BufferHoldsLexeme, NoPending
      <4> QED  BY <1>0, <2>0, <4>1, <4>2, QuietDispatches
    <3>2. CASE ~walk.continuing
      BY <2>0, <2>2, <3>2, QuietDispatches DEF CloseLexeme
    <3> QED  BY <3>1, <3>2
  <2>3. CASE OpenLexeme(b)
    BY <2>0, <2>3, QuietDispatches DEF OpenLexeme
  <2> QED  BY <1>2, <2>1, <2>2, <2>3 DEF ReadByte
<1>3. CASE EndToken
  <2>1. walk.seg \in SegType /\ walk.anchor \in State
    <3>1. Idle.seg \in SegType
      BY BytesOfNone DEF Idle
    <3> QED  BY <1>3, WalkFields DEF EndToken, SegInv, FieldsOK
  <2> QED  BY <1>3, <2>1, QuietDispatches DEF EndToken
<1>4. CASE Reset
  <2>1. <<>> \in Seq(GapTokenType)
    OBVIOUS
  <2> QED  BY <1>4, <2>1 DEF Reset, Dispatches
<1>5. CASE UNCHANGED vars
  BY <1>5 DEF vars, Dispatches
<1> QED
  BY <1>1, <1>2, <1>3, <1>4, <1>5
  DEF Next, ReadByte, Accumulate, CloseLexeme, OpenLexeme

(***************************************************************************)
(* The tracker's depth in the middle of a token: it lags behind the frames *)
(* by the delimiters of the gap not yet dispatched.                        *)
(***************************************************************************)
DepthInv ==
    /\ depth \in Nat
    /\ Len(pda.stack) = IF walk.active /\ Inside = NoLexKind
                        THEN Counted(depth, OneByOne(walk.seg)) ELSE depth

LEMMA CountedSegment ==
  ASSUME NEW d \in Nat
  PROVE  /\ Counted(d, OneByOne(<<>>)) = d
         /\ \A r \in [byte : Byte, at : State] :
              Counted(d, OneByOne(<<r>>)) = Recounted(d, OneByte(r))
         /\ \A seg \in SegType, r \in [byte : Byte, at : State] :
              Counted(d, OneByOne(Append(seg, r))) = Recounted(Counted(d, OneByOne(seg)), OneByte(r))
<1> DEFINE T == [bytes : Seq(Byte), anchor : {"none"}, at : State]
           R == [byte : Byte, at : State]
<1>1. OneByOne(<<>>) = <<>>
  BY DEF OneByOne
<1>2. Counted(d, OneByOne(<<>>)) = d
  BY <1>1, CountedNone
<1>3. ASSUME NEW seg \in SegType, NEW r \in R
      PROVE  Counted(d, OneByOne(Append(seg, r))) = Recounted(Counted(d, OneByOne(seg)), OneByte(r))
  <2> DEFINE long == Append(seg, r)
             n    == Len(seg)
  <2>1. seg \in Seq(R)
    BY DEF SegType
  <2>2. OneByte(r) \in T
    BY DEF OneByte, GapToken
  <2> HIDE DEF R
  <2>3. long \in Seq(R) /\ Len(long) = n + 1 /\ n \in Nat /\ long[n + 1] = r
        /\ \A i \in 1 .. n : long[i] = seg[i]
    BY <2>1
  <2> HIDE DEF long
  <2>4. /\ OneByOne(long) \in Seq(T) /\ Len(OneByOne(long)) = n + 1
        /\ \A i \in 1 .. n + 1 : OneByOne(long)[i] = OneByte(long[i])
    BY <2>3, OneByOneFacts DEF SegType, R
  <2>5. /\ OneByOne(seg) \in Seq(T) /\ Len(OneByOne(seg)) = n
        /\ \A i \in 1 .. n : OneByOne(seg)[i] = OneByte(seg[i])
    BY OneByOneFacts
  <2> HIDE DEF T, n
  <2>6. OneByOne(long) = Append(OneByOne(seg), OneByte(r))
    <3> DEFINE q == OneByOne(long)
               u == OneByOne(seg)
               t == OneByte(r)
    <3>1. q \in Seq(T) /\ Len(q) = n + 1 /\ u \in Seq(T) /\ Len(u) = n /\ t \in T /\ n \in Nat
      BY <2>2, <2>3, <2>4, <2>5
    <3>2. \A i \in 1 .. n : q[i] = u[i]
      <4>1. \A i \in 1 .. n : i \in 1 .. n + 1
        BY <2>3
      <4> QED  BY <2>3, <2>4, <2>5, <4>1
    <3>3. q[n + 1] = t
      <4>1. n + 1 \in 1 .. n + 1
        BY <2>3
      <4> QED  BY <2>3, <2>4, <4>1
    <3> HIDE DEF q, u, t
    <3>4. q = Append(u, t)
      BY <3>1, <3>2, <3>3
    <3> QED  BY <3>4 DEF q, u, t
  <2> QED  BY <2>2, <2>5, <2>6, CountedLast DEF long
<1>4. ASSUME NEW r \in R PROVE Counted(d, OneByOne(<<r>>)) = Recounted(d, OneByte(r))
  <2>1. <<r>> = Append(<<>>, r)
    OBVIOUS
  <2>2. <<>> \in SegType
    BY BytesOfNone
  <2>3. Counted(d, OneByOne(Append(<<>>, r))) = Recounted(Counted(d, OneByOne(<<>>)), OneByte(r))
    BY <1>3, <2>2
  <2> QED  BY <1>2, <2>1, <2>3
<1> QED  BY <1>2, <1>3, <1>4

LEMMA NextDepth == SegInv /\ DepthInv /\ [Next]_vars => DepthInv'
<1> SUFFICES ASSUME SegInv, DepthInv, [Next]_vars PROVE DepthInv'
  OBVIOUS
<1>0. pda \in PdaType /\ depth \in Nat /\ Len(pda.stack) \in Nat
  BY DEF SegInv, FieldsOK, PdaType, DepthInv
<1>1. CASE BeginToken
  <2>1. pda' = pda /\ depth' = depth /\ ~walk.active /\ walk'.seg = <<>>
    BY <1>1 DEF BeginToken, Quiet, Emits, Walking
  <2> QED  BY <1>0, <2>1, CountedSegment DEF DepthInv, Inside
<1>2. ASSUME NEW b \in Bytes, ReadByte(b), Driven(b) PROVE DepthInv'
  <2> DEFINE r == Read(b, pda.state)
  <2>0. /\ walk.seg \in SegType /\ walk.anchor \in State /\ walk.active /\ b \in Byte
        /\ pda.state \in State /\ pda' \in PdaType
    BY <1>2, DrivenByte
  <2>1. r \in [byte : Byte, at : State] /\ r.byte = b
    BY <2>0 DEF Read
  <2>2. Lives(pda, b) /\ pda' = Advance(pda, b)
    BY <1>2 DEF Driven
  <2> HIDE DEF r
  <2>3. /\ pda.state # "StrBody" => Len(pda'.stack) = Recounted(Len(pda.stack), OneByte(r))
        /\ Inside2 # NoLexKind => pda'.stack = pda.stack
    BY <1>0, <2>1, <2>2, StepCounts DEF Inside2
  <2>4. pda.state = "StrBody" => Inside = "Str" /\ Inside2 = "Str"
    <3> SUFFICES ASSUME pda.state = "StrBody" PROVE Inside = "Str" /\ Inside2 = "Str"
      OBVIOUS
    <3>1. pda'.state \in StringStates /\ pda.state \in StringStates
      BY <1>0, <2>2, TextStep DEF StringStates
    <3> QED  BY <2>0, <3>1, StringKind DEF Inside, Inside2, PdaType
  <2>5. NoLexKind # "Str"
    BY DEF NoLexKind
  <2>6. Inside' = Inside2
    BY DEF Inside, Inside2
  <2>7. CASE Accumulate(b)
    <3>1. /\ walk' = Walking(walk.continuing, walk.anchor, Append(walk.seg, r))
          /\ depth' = depth /\ Inside2 = Inside
      BY <2>7 DEF Accumulate, Quiet, r
    <3>2. walk'.active /\ walk'.seg = Append(walk.seg, r)
      BY <3>1 DEF Walking
    <3>3. CASE Inside = NoLexKind
      <4>1. Len(pda'.stack) = Recounted(Len(pda.stack), OneByte(r))
        BY <2>3, <2>4, <2>5, <3>3
      <4>2. Len(pda.stack) = Counted(depth, OneByOne(walk.seg))
        BY <2>0, <3>3 DEF DepthInv
      <4>3. Counted(depth, OneByOne(Append(walk.seg, r))) = Recounted(Len(pda.stack), OneByte(r))
        BY <1>0, <2>0, <2>1, <4>2, CountedSegment
      <4> QED  BY <1>0, <2>6, <3>1, <3>2, <3>3, <4>1, <4>3 DEF DepthInv
    <3>4. CASE Inside # NoLexKind
      BY <1>0, <2>3, <2>6, <3>1, <3>4 DEF DepthInv
    <3> QED  BY <3>3, <3>4
  <2>8. CASE CloseLexeme(b)
    <3>1. /\ walk' = Walking(FALSE, pda.state, <<r>>)
          /\ depth' = depth /\ Inside # NoLexKind /\ Inside2 # Inside
      BY <2>8 DEF CloseLexeme, Emits, r
    <3>2. walk'.active /\ walk'.seg = <<r>> /\ Len(pda.stack) = depth
      BY <3>1 DEF Walking, DepthInv
    <3>3. CASE Inside2 = NoLexKind
      <4>1. Len(pda'.stack) = Recounted(depth, OneByte(r))
        BY <2>3, <2>4, <2>5, <3>2, <3>3
      <4>2. Counted(depth, OneByOne(<<r>>)) = Recounted(depth, OneByte(r))
        BY <1>0, <2>1, CountedSegment
      <4> QED  BY <1>0, <2>6, <3>1, <3>2, <3>3, <4>1, <4>2 DEF DepthInv
    <3>4. CASE Inside2 # NoLexKind
      BY <1>0, <2>3, <2>6, <3>1, <3>2, <3>4 DEF DepthInv
    <3> QED  BY <3>3, <3>4
  <2>9. CASE OpenLexeme(b)
    <3>1. /\ depth' = Counted(depth, FlushGap(walk.seg, walk.anchor))
          /\ Inside = NoLexKind /\ Inside2 # NoLexKind
      BY <2>9 DEF OpenLexeme, Munches
    <3>2. depth' = Len(pda.stack)
      BY <1>0, <2>0, <3>1, CountedMunch DEF DepthInv
    <3> QED  BY <1>0, <2>3, <2>6, <3>1, <3>2 DEF DepthInv
  <2> QED  BY <1>2, <2>7, <2>8, <2>9 DEF ReadByte
<1>3. CASE EndToken
  <2>0. walk.seg \in SegType /\ walk.anchor \in State /\ walk.active
    BY <1>3, WalkFields DEF EndToken, SegInv, FieldsOK
  <2>1. pda' = pda /\ ~walk'.active
    BY <1>3 DEF EndToken, Idle
  <2>2. depth' = Len(pda.stack)
    <3>1. CASE Inside = NoLexKind
      <4>1. depth' = Counted(depth, FlushGap(walk.seg, walk.anchor))
        BY <1>3, <3>1 DEF EndToken, Munches
      <4> QED  BY <1>0, <2>0, <3>1, <4>1, CountedMunch DEF DepthInv
    <3>2. CASE Inside # NoLexKind
      BY <1>3, <3>2 DEF EndToken, Quiet, DepthInv
    <3> QED  BY <3>1, <3>2
  <2> QED  BY <1>0, <2>1, <2>2 DEF DepthInv
<1>4. CASE Reset
  BY <1>4 DEF Reset, DepthInv, PdaNew, Idle
<1>5. CASE UNCHANGED vars
  BY <1>5 DEF vars, DepthInv, Inside
<1> QED
  BY <1>1, <1>2, <1>3, <1>4, <1>5
  DEF Next, ReadByte, Accumulate, CloseLexeme, OpenLexeme

(***************************************************************************)
(* The open lexeme and the one just completed, as strings: said of what    *)
(* module Lexing sees, so its steps are the ones to check.                 *)
(***************************************************************************)
Bare(bytes) == bytes # <<>> /\ bytes[1] # "'"

Whole(l) == \/ l = NoLexeme
            \/ /\ l.bytes \in Seq(Byte)
               /\ Bare(l.bytes) \/ IsString(l.bytes)

StringInv ==
    /\ InFlight.bytes \in Seq(Byte)
    /\ pda.state = "StrBody"  => OpensString(InFlight.bytes)
    /\ pda.state = "StrQuote" => IsString(InFlight.bytes)
    /\ Inside \notin {"Str", NoLexKind} => Bare(InFlight.bytes)
    /\ Whole(emitted)

LEMMA NextStrings == SegInv /\ StringInv /\ [Lexing!Next]_Lexing!lvars => StringInv'
<1> SUFFICES ASSUME SegInv, StringInv, [Lexing!Next]_Lexing!lvars PROVE StringInv'
  OBVIOUS
<1> USE LexingNames
<1> DEFINE c == "'"
<1>0. pda \in PdaType /\ pda.state \in State /\ InFlight.bytes \in Seq(Byte)
  BY DEF SegInv, FieldsOK, PdaType, StringInv
<1>1. NoLexeme.bytes = <<>> /\ <<>> \in Seq(Byte) /\ Whole(NoLexeme)
  BY DEF NoLexeme, Lexeme, Whole
<1>2. ASSUME NEW b \in Byte, Lexing!Read(b) PROVE StringInv'
  <2>1. Lives(pda, b) /\ pda' = Advance(pda, b) /\ pda' \in PdaType /\ pda'.state \in State
    BY <1>0, <1>2, AdvanceType DEF Lexing!Read, PdaType
  <2>2. pda.state = "StrBody" => pda'.state = IF b = c THEN "StrQuote" ELSE "StrBody"
    BY <1>0, <2>1, TextStep
  <2>3. pda.state # "StrBody" => /\ b = c => pda'.state = "StrBody"
                                 /\ b # c => pda'.state \notin StringStates
    BY <1>0, <2>1, PlainStep
  <2>4. /\ Inside = "Str" <=> pda.state \in {"StrBody", "StrQuote"}
        /\ Inside' = "Str" <=> pda'.state \in {"StrBody", "StrQuote"}
    BY <1>0, <2>1, StringKind DEF Inside, StringStates
  <2>5. NoLexKind # "Str"
    BY DEF NoLexKind
  <2> DEFINE x == InFlight.bytes
  <2>6. CASE Lexing!Stay(b)
    <3>1. /\ Inside' = Inside /\ emitted' = NoLexeme
          /\ InFlight' = IF Inside = NoLexKind THEN NoLexeme ELSE Lexeme(Append(x, b), InFlight.anchor)
      BY <2>6 DEF Lexing!Stay, Inside
    <3>2. CASE Inside = NoLexKind
      <4>1. InFlight'.bytes = <<>>
        BY <1>1, <3>1, <3>2
      <4> QED  BY <1>1, <2>4, <2>5, <3>1, <3>2, <4>1 DEF StringInv
    <3>3. CASE Inside # NoLexKind /\ Inside # "Str"
      <4>1. InFlight'.bytes = Append(x, b) /\ Bare(x) /\ x \in Seq(Byte)
        BY <3>1, <3>3 DEF Lexeme, StringInv
      <4>2. Append(x, b) \in Seq(Byte) /\ Bare(Append(x, b))
        <5> HIDE DEF x
        <5>1. Append(x, b) \in Seq(Byte) /\ Append(x, b) # <<>> /\ Append(x, b)[1] = x[1]
          BY <4>1 DEF Bare
        <5> QED  BY <4>1, <5>1 DEF Bare
      <4> QED  BY <1>1, <2>4, <3>1, <3>3, <4>1, <4>2 DEF StringInv
    <3>4. CASE Inside = "Str"
      <4>1. InFlight'.bytes = Append(x, b) /\ x \in Seq(Byte) /\ Append(x, b) \in Seq(Byte)
        BY <1>0, <2>5, <3>1, <3>4 DEF Lexeme
      <4>2. CASE pda.state = "StrBody"
        <5>1. OpensString(x)
          BY <4>2 DEF StringInv
        <5>2. /\ b # c => OpensString(Append(x, b))
              /\ b = c => IsString(Append(x, b))
          BY <5>1, StringGrows
        <5> HIDE DEF c
        <5> QED  BY <1>1, <2>2, <3>1, <3>4, <4>1, <4>2, <5>2 DEF StringInv
      <4>3. CASE pda.state = "StrQuote"
        <5>1. b = c /\ pda'.state = "StrBody"
          BY <2>3, <2>4, <3>1, <3>4, <4>3 DEF StringStates
        <5>2. IsString(x)
          BY <4>3 DEF StringInv
        <5>3. OpensString(Append(x, b))
          BY <5>1, <5>2, StringReopens
        <5> HIDE DEF c
        <5> QED  BY <1>1, <3>1, <3>4, <4>1, <5>1, <5>3 DEF StringInv
      <4> QED  BY <2>4, <3>4, <4>2, <4>3
    <3> QED  BY <3>2, <3>3, <3>4
  <2>7. CASE Lexing!Cross(b)
    <3>1. /\ Inside' # Inside /\ emitted' = InFlight
          /\ InFlight' = IF Inside' = NoLexKind THEN NoLexeme ELSE Lexeme(<<b>>, pda.state)
      BY <2>7 DEF Lexing!Cross, Inside
    <3>2. pda.state # "StrBody"
      BY <2>2, <2>4, <3>1
    <3>3. Whole(emitted')
      <4>1. CASE Inside = NoLexKind
        BY <1>1, <3>1, <4>1 DEF InFlight
      <4>2. CASE Inside = "Str"
        <5>1. IsString(x) /\ x \in Seq(Byte)
          BY <2>4, <3>2, <4>2 DEF StringInv
        <5> QED  BY <3>1, <5>1 DEF Whole
      <4>3. CASE Inside \notin {"Str", NoLexKind}
        BY <3>1, <4>3 DEF StringInv, Whole
      <4> QED  BY <4>1, <4>2, <4>3
    <3>4. CASE Inside' = NoLexKind
      BY <1>1, <2>4, <2>5, <3>1, <3>3, <3>4 DEF StringInv
    <3>5. CASE Inside' # NoLexKind
      <4>1. InFlight'.bytes = <<b>> /\ <<b>> \in Seq(Byte) /\ <<b>> # <<>> /\ <<b>>[1] = b
        BY <3>1, <3>5 DEF Lexeme
      <4>2. CASE b = c
        <5>1. OpensString(<<b>>) /\ pda'.state = "StrBody"
          BY <2>3, <3>2, <4>2, StringOpens
        <5> QED  BY <2>4, <3>3, <4>1, <5>1 DEF StringInv
      <4>3. CASE b # c
        <5>1. Bare(<<b>>) /\ pda'.state \notin StringStates
          BY <2>3, <3>2, <4>1, <4>3 DEF Bare
        <5> QED  BY <2>4, <3>3, <4>1, <5>1 DEF StringInv, StringStates
      <4> QED  BY <4>2, <4>3
    <3> QED  BY <3>4, <3>5
  <2> QED  BY <1>2, <2>6, <2>7 DEF Lexing!Read
<1>3. CASE Lexing!Taken
  BY <1>1, <1>3 DEF Lexing!Taken, StringInv, Inside
<1>4. CASE Lexing!Restart
  <2>1. Inside' = NoLexKind /\ pda'.state \notin StringStates
    BY <1>4, StartInside DEF Lexing!Restart, Inside, PdaNew, StringStates
  <2> QED  BY <1>1, <1>4, <2>1 DEF Lexing!Restart, StringInv, StringStates
<1>5. CASE UNCHANGED Lexing!lvars
  BY <1>5 DEF Lexing!lvars, StringInv, Inside
<1> QED
  BY <1>2, <1>3, <1>4, <1>5 DEF Lexing!Next

LEMMA InitMore == Init => Dispatches /\ DepthInv /\ StringInv
<1> SUFFICES ASSUME Init PROVE Dispatches /\ DepthInv /\ StringInv
  OBVIOUS
<1>1. <<>> \in Seq(GapTokenType) /\ <<>> \in Seq(Byte)
  OBVIOUS
<1>2. emitted = NoLexeme /\ munched = <<>> /\ depth = 0 /\ pda = PdaNew /\ walk = Idle
  BY DEF Init
<1>3. Dispatches
  BY <1>1, <1>2 DEF Dispatches
<1>4. DepthInv
  BY <1>2 DEF DepthInv, PdaNew, Idle
<1>5. Inside = NoLexKind
  BY <1>2, StartInside DEF Inside
<1>6. InFlight = NoLexeme /\ NoLexeme.bytes = <<>>
  BY <1>5 DEF InFlight, NoLexeme, Lexeme
<1>7. StringInv
  BY <1>1, <1>2, <1>5, <1>6 DEF StringInv, Whole, PdaNew
<1> QED  BY <1>3, <1>4, <1>7

(***************************************************************************)
(* Every state has its type, whatever the bounds.                          *)
(***************************************************************************)
THEOREM SegmentationTypeInvariant == Spec => []TypeOK
<1>1. SegInv /\ Dispatches /\ DepthInv => TypeOK
  BY DEF SegInv, FieldsOK, Dispatches, DepthInv, TypeOK, GapTokenType
<1> QED
  BY <1>1, InitSegInv, NextSegInv, InitMore, NextDispatches, NextDepth, PTL DEF Spec

(***************************************************************************)
(* Between two tokens the tracker's count of open delimiters is the number *)
(* of the automaton's frames, however deep, and however the tokens cut     *)
(* gaps and literals (scope.rs 753-815).                                   *)
(***************************************************************************)
THEOREM DepthInvariant == Spec => []DepthInStep
<1>1. DepthInv => DepthInStep
  BY DEF DepthInv, DepthInStep
<1> QED
  BY <1>1, InitSegInv, NextSegInv, InitMore, NextDepth, PTL DEF Spec

(***************************************************************************)
(* A string literal handed to the scope machine is what quoting its        *)
(* unquoted content gives, for literals of any length (scope.rs 111-133,   *)
(* narrow.rs 364-378).                                                     *)
(***************************************************************************)
THEOREM StringsInvariant == Spec => []StringsRoundTrip
<1>1. StringInv => StringsRoundTrip
  <2> SUFFICES ASSUME StringInv, emitted # NoLexeme, Head(emitted.bytes) = "'"
               PROVE  Quote(Unquote(emitted.bytes)) = emitted.bytes
    BY DEF StringsRoundTrip
  <2>1. emitted.bytes \in Seq(Byte) /\ (Bare(emitted.bytes) \/ IsString(emitted.bytes))
    BY DEF StringInv, Whole
  <2>2. ~Bare(emitted.bytes)
    BY <2>1 DEF Bare
  <2> QED  BY <2>1, <2>2, StringReopens
<1>2. SegInv /\ SegInv' /\ StringInv /\ [Next]_vars => StringInv'
  BY NextLexing, NextStrings
<1> QED
  BY <1>1, <1>2, InitSegInv, NextSegInv, InitMore, PTL DEF Spec
=============================================================================
