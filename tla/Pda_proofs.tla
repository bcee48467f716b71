----------------------------- MODULE Pda_proofs -----------------------------
(***************************************************************************)
(* What the theorems of the other modules rest on.  First the transition   *)
(* function, for every state, frame and byte class; then induction over    *)
(* the bytes of a token, and with it the folds `admits` and `probe`; then  *)
(* the lexical helpers of the scope machine, quoting and the cutting of a  *)
(* gap.  An induction theorem cannot be given a predicate here, so each is *)
(* stated of a set and cited with the set of what satisfies it.            *)
(***************************************************************************)
EXTENDS Lexemes, TLAPS, WellFoundedInduction, SequenceTheorems

Top == Frame \cup {NoFrame}

(***************************************************************************)
(* Every outcome is well formed: `step` is total over its own states, and  *)
(* a Pop is only ever returned over a frame (pda.rs 433-436).              *)
(***************************************************************************)
WellFormed(o, top) == o \in Outcome /\ (o.kind = "pop" => top # NoFrame)

LEMMA Targets ==
  /\ EnvelopeStates \cup BlockStates \cup HubStates \cup SourceStates \cup LetStates
       \cup BinderStates \cup NumberStates \cup StringStates \cup DateStates
       \cup NavStates \cup ColonStates \cup OperatorStates \subseteq State
  /\ {"AfterValue", "InIdent", "InMultiplicity", "ExpectBraceBinder", "SawTilde"} \subseteq State
  BY DEF State

LEMMA NextWellFormed ==
  ASSUME NEW s \in State, NEW top
  PROVE  WellFormed(StepNext(s), top)
  BY DEF WellFormed, Outcome, StepNext

LEMMA PushWellFormed ==
  ASSUME NEW f \in Frame, NEW s \in State, NEW top
  PROVE  WellFormed(StepPush(f, s), top)
  BY DEF WellFormed, Outcome, StepPush

LEMMA DeadWellFormed ==
  ASSUME NEW top
  PROVE  WellFormed(StepDead, top)
  BY DEF WellFormed, Outcome, StepDead

LEMMA CloseWellFormed ==
  ASSUME NEW top \in Top, NEW b
  PROVE  WellFormed(Close(top, b), top)
  BY DeadWellFormed, Targets
  DEF WellFormed, Close, Matches, Outcome, StepPop, Frame, NoFrame, Top

LEMMA ValuePositionWellFormed ==
  ASSUME NEW s \in HubStates, NEW top \in Top, NEW b
  PROVE  WellFormed(ValuePosition(s, top, b), top)
  BY CloseWellFormed, NextWellFormed, PushWellFormed, DeadWellFormed, Targets
  DEF ValuePosition, HubStates, NumberStates, StringStates, DateStates, NavStates, Frame

LEMMA AfterValueWellFormed ==
  ASSUME NEW top \in Top, NEW b
  PROVE  WellFormed(AfterValueStep(top, b), top)
  BY CloseWellFormed, NextWellFormed, PushWellFormed, DeadWellFormed, Targets
  DEF AfterValueStep, HubStates, OperatorStates, BlockStates, NavStates, ColonStates, Frame

(***************************************************************************)
(* Which operator decides a step, for each group of states.                *)
(***************************************************************************)
Dispatched(s, top, b, o) ==
  \/ s \in EnvelopeStates /\ o = EnvelopeStep(s, b)
  \/ s \in BlockStates    /\ o = BlockStmtStep(s, top, b)
  \/ s \in HubStates      /\ o = ValuePosition(s, top, b)
  \/ s \in SourceStates   /\ o = SourceStep(s, b)
  \/ s \in LetStates      /\ o = LetStep(s, b)
  \/ s \in BinderStates   /\ o = BinderStep(s, b)
  \/ s \in NumberStates   /\ o = NumberStep(s, top, b)
  \/ s \in StringStates   /\ o = StringStep(s, top, b)
  \/ s \in DateStates     /\ o = DateStep(s, top, b)
  \/ s \in NavStates      /\ o = NavStep(s, b)
  \/ s \in ColonStates    /\ o = ColonStep(s, b)
  \/ s \in OperatorStates /\ o = OperatorStep(s, top, b)
  \/ s = "AfterValue"     /\ o = AfterValueStep(top, b)
  \/ s = "InIdent"        /\ o = IdentStep(top, b)
  \/ s = "InMultiplicity" /\ o = MultiplicityStep(top, b)
  \/ s = "ExpectBraceBinder" /\ o = BraceBinderStep(b)
  \/ s = "SawTilde"       /\ o = TildeStep(b)

LEMMA Dispatch ==
  ASSUME NEW s \in State, NEW top, NEW b
  PROVE  Dispatched(s, top, b, Step(s, top, b))
  BY DEF Dispatched, Step, State, EnvelopeStates, BlockStates, HubStates, SourceStates,
         LetStates, BinderStates, NumberStates, StringStates, DateStates, NavStates,
         ColonStates, OperatorStates

\* `step` is total: every outcome is one of the four, it leads to a state of
\* the automaton, and a pop finds a frame (pda.rs 574-1038, 433-436).
THEOREM StepWellFormed ==
  ASSUME NEW s \in State, NEW top \in Top, NEW b
  PROVE  WellFormed(Step(s, top, b), top)
<1> USE NextWellFormed, PushWellFormed, DeadWellFormed, Targets
<1>1. s \in EnvelopeStates => WellFormed(EnvelopeStep(s, b), top)
  BY DEF EnvelopeStep, EnvelopeStates, SourceStates, BlockStates, Frame
<1>2. s \in BlockStates => WellFormed(BlockStmtStep(s, top, b), top)
  BY CloseWellFormed
  DEF BlockStmtStep, BlockStates, LetStates, SourceStates, NavStates
<1>3. s \in HubStates => WellFormed(ValuePosition(s, top, b), top)
  BY ValuePositionWellFormed
<1>4. WellFormed(InSourceIdentStep(b), top)
  BY DEF InSourceIdentStep, SourceStates, NavStates
<1>5. s \in SourceStates => WellFormed(SourceStep(s, b), top)
  BY <1>4 DEF SourceStep, SourceStates, NavStates
<1>6. s \in LetStates => WellFormed(LetStep(s, b), top)
  BY <1>4 DEF LetStep, LetStates, BinderStates
<1>7. s \in BinderStates => WellFormed(BinderStep(s, b), top)
  BY DEF BinderStep, BinderStates, EnvelopeStates
<1>8. WellFormed(AfterValueStep(top, b), top)
  BY AfterValueWellFormed
<1>9. s \in NumberStates => WellFormed(NumberStep(s, top, b), top)
  BY <1>8 DEF NumberStep, NumberStates
<1>10. s \in StringStates => WellFormed(StringStep(s, top, b), top)
  BY <1>8 DEF StringStep, StringStates
<1>11. s \in DateStates => WellFormed(DateStep(s, top, b), top)
  BY <1>8 DEF DateStep, DateStates
<1>12. s \in NavStates => WellFormed(NavStep(s, b), top)
  BY DEF NavStep, NavStates, StringStates
<1>13. s \in ColonStates => WellFormed(ColonStep(s, b), top)
  BY DEF ColonStep, ColonStates, NavStates, Frame
<1>14. s \in OperatorStates => WellFormed(OperatorStep(s, top, b), top)
  BY ValuePositionWellFormed DEF OperatorStep, NavStates, HubStates
<1>15. WellFormed(IdentStep(top, b), top)
  BY <1>8 DEF IdentStep
<1>16. WellFormed(MultiplicityStep(top, b), top)
  BY CloseWellFormed DEF MultiplicityStep
<1>17. WellFormed(TildeStep(b), top)
  BY DEF TildeStep, HubStates, StringStates, Frame
<1>18. WellFormed(BraceBinderStep(b), top)
  BY DEF BraceBinderStep
<1> QED
  BY <1>1, <1>2, <1>3, <1>5, <1>6, <1>7, <1>8, <1>9, <1>10, <1>11, <1>12,
     <1>13, <1>14, <1>15, <1>16, <1>17, <1>18, Dispatch DEF Dispatched

(***************************************************************************)
(* A step never lives because there is NO frame: a byte that lives over    *)
(* the empty stack does the same over every frame.  The probe over an      *)
(* empty scratch stack is exact because of it (pda.rs 1043-1051).          *)
(***************************************************************************)
LEMMA CloseMonotone ==
  ASSUME NEW b
  PROVE  Close(NoFrame, b) = StepDead
  BY DEF Close, Matches, NoFrame

LEMMA ValuePositionMonotone ==
  ASSUME NEW s, NEW f, NEW b, ValuePosition(s, NoFrame, b) # StepDead
  PROVE  ValuePosition(s, f, b) = ValuePosition(s, NoFrame, b)
  BY CloseMonotone DEF ValuePosition, NoFrame, WS, IdentStart, Lower, Digit, Closer

LEMMA AfterValueMonotone ==
  ASSUME NEW f, NEW b, AfterValueStep(NoFrame, b) # StepDead
  PROVE  AfterValueStep(f, b) = AfterValueStep(NoFrame, b)
  BY CloseMonotone DEF AfterValueStep, NoFrame

THEOREM StepMonotone ==
  ASSUME NEW s \in State, NEW f, NEW b, Step(s, NoFrame, b) # StepDead
  PROVE  Step(s, f, b) = Step(s, NoFrame, b)
<1> USE CloseMonotone, ValuePositionMonotone, AfterValueMonotone
<1>1. BlockStmtStep(s, NoFrame, b) # StepDead
        => BlockStmtStep(s, f, b) = BlockStmtStep(s, NoFrame, b)
  BY DEF BlockStmtStep, WS, IdentStart, Lower
<1>2. NumberStep(s, NoFrame, b) # StepDead
        => NumberStep(s, f, b) = NumberStep(s, NoFrame, b)
  BY DEF NumberStep
<1>3. StringStep(s, NoFrame, b) # StepDead
        => StringStep(s, f, b) = StringStep(s, NoFrame, b)
  BY DEF StringStep
<1>4. DateStep(s, NoFrame, b) # StepDead
        => DateStep(s, f, b) = DateStep(s, NoFrame, b)
  BY DEF DateStep
<1>5. OperatorStep(s, NoFrame, b) # StepDead
        => OperatorStep(s, f, b) = OperatorStep(s, NoFrame, b)
  BY DEF OperatorStep
<1>6. IdentStep(NoFrame, b) # StepDead => IdentStep(f, b) = IdentStep(NoFrame, b)
  BY DEF IdentStep
<1>7. MultiplicityStep(NoFrame, b) = StepDead
  BY DEF MultiplicityStep
<1> QED
  BY <1>1, <1>2, <1>3, <1>4, <1>5, <1>6, <1>7
  DEF Step, State, EnvelopeStates, BlockStates, HubStates, SourceStates,
      LetStates, BinderStates, NumberStates, StringStates, DateStates,
      NavStates, ColonStates, OperatorStates

\* The frame on top of a stack is a frame.
LEMMA StackTopType ==
  ASSUME NEW stack \in Seq(Frame)
  PROVE  /\ StackTop(stack) \in Top
         /\ stack # <<>> => StackTop(stack) \in Frame
         /\ StackTop(stack) = NoFrame <=> stack = <<>>
  BY DEF StackTop, Top, Frame, NoFrame

\* `advance` keeps a configuration a configuration.
LEMMA AdvanceType ==
  ASSUME NEW p \in PdaType, NEW b, Lives(p, b)
  PROVE  Advance(p, b) \in PdaType
<1> DEFINE top == StackTop(p.stack)
           o   == Step(p.state, top, b)
<1>1. p.state \in State /\ p.stack \in Seq(Frame)
  BY DEF PdaType
<1>2. WellFormed(o, top) /\ o # StepDead
  BY <1>1, StackTopType, StepWellFormed DEF Lives
<1>3. o.to \in State
  BY <1>2 DEF WellFormed, Outcome
<1>4. Applied(p.stack, o) \in Seq(Frame)
  <2>1. CASE o.kind = "push"
    BY <1>1, <1>2, <2>1, o.frame \in Frame DEF WellFormed, Outcome, Applied, StepDead
  <2>2. CASE o.kind = "pop"
    BY <1>1, <1>2, <2>2, StackTopType DEF WellFormed, Applied, Front
  <2>3. CASE o.kind \notin {"push", "pop"}
    BY <1>1, <2>3 DEF Applied
  <2> QED  BY <2>1, <2>2, <2>3
<1> QED
  BY <1>3, <1>4 DEF Advance, PdaType

(***************************************************************************)
(* One byte read over a stack laid on another: what is underneath shows    *)
(* only when the upper stack is empty.                                     *)
(***************************************************************************)
LEMMA StackTopOver ==
  ASSUME NEW lower \in Seq(Frame), NEW upper \in Seq(Frame)
  PROVE  /\ upper # <<>> => StackTop(lower \o upper) = StackTop(upper)
         /\ upper = <<>> => StackTop(lower \o upper) = StackTop(lower)
  BY DEF StackTop

LEMMA AppliedOver ==
  ASSUME NEW lower \in Seq(Frame), NEW upper \in Seq(Frame), NEW o \in Outcome,
         o.kind = "pop" => upper # <<>>
  PROVE  Applied(lower \o upper, o) = lower \o Applied(upper, o)
<1>1. CASE o.kind = "push"
  <2>1. o.frame \in Frame
    BY <1>1 DEF Outcome, StepDead
  <2> QED  BY <1>1, <2>1 DEF Applied
<1>2. CASE o.kind = "pop"
  <2>1. Front(lower \o upper) = lower \o Front(upper)
    BY <1>2 DEF Front
  <2> QED  BY <1>2, <2>1 DEF Applied
<1>3. CASE o.kind \notin {"push", "pop"}
  BY <1>3 DEF Applied
<1> QED  BY <1>1, <1>2, <1>3

(***************************************************************************)
(* One round of the two loops: if the replay carries the probe's frames on *)
(* top of the ambient stack, it still does after a byte the probe survives *)
(***************************************************************************)
LEMMA LockStep ==
  ASSUME NEW amb \in Seq(Frame), NEW p \in PdaType, NEW q \in PdaType, NEW b,
         q.state = p.state, q.stack = amb \o p.stack, Lives(p, b)
  PROVE  /\ Lives(q, b)
         /\ Advance(q, b).state = Advance(p, b).state
         /\ Advance(q, b).stack = amb \o Advance(p, b).stack
<1> DEFINE o == Step(p.state, StackTop(p.stack), b)
<1>1. p.state \in State /\ p.stack \in Seq(Frame)
  BY DEF PdaType
<1>2. o # StepDead /\ o \in Outcome /\ (o.kind = "pop" => p.stack # <<>>)
  BY <1>1, StackTopType, StepWellFormed DEF Lives, WellFormed
<1>3. Step(q.state, StackTop(q.stack), b) = o
  <2>1. CASE p.stack = <<>>
    <3>1. StackTop(p.stack) = NoFrame
      BY <1>1, <2>1, StackTopType
    <3> QED  BY <1>1, <1>2, <3>1, StepMonotone
  <2>2. CASE p.stack # <<>>
    BY <1>1, <2>2, StackTopOver
  <2> QED  BY <2>1, <2>2
<1>4. Applied(amb \o p.stack, o) = amb \o Applied(p.stack, o)
  BY <1>1, <1>2, AppliedOver
<1> QED
  BY <1>2, <1>3, <1>4 DEF Lives, Advance

\* A byte the probe dies at without consulting the ambient stack kills the
\* replay too; so does one it dies at when there is no ambient stack.
LEMMA DeadTogether ==
  ASSUME NEW amb \in Seq(Frame), NEW p \in PdaType, NEW q \in PdaType, NEW b,
         q.state = p.state, q.stack = amb \o p.stack, ~Lives(p, b),
         ~(p.stack = <<>> /\ WouldLiveInSomeFrame(p.state, b)) \/ amb = <<>>
  PROVE  ~Lives(q, b)
<1>1. p.state \in State /\ p.stack \in Seq(Frame)
  BY DEF PdaType
<1>2. CASE p.stack # <<>>
  BY <1>1, <1>2, StackTopOver DEF Lives
<1>3. CASE p.stack = <<>> /\ amb = <<>>
  BY <1>1, <1>3, StackTopOver DEF Lives
<1>4. CASE p.stack = <<>> /\ amb # <<>>
  <2>1. StackTop(q.stack) \in Frame
    BY <1>1, <1>4, StackTopOver, StackTopType
  <2> QED  BY <1>1, <1>4, <2>1 DEF Lives, WouldLiveInSomeFrame
<1> QED  BY <1>2, <1>3, <1>4

(***************************************************************************)
(* What a step outside a string literal makes of a delimiter: a quote      *)
(* starts text, an opener pushes its frame, a closer pops the frame of its *)
(* partner, and no other byte touches frames or quoting.                   *)
(***************************************************************************)
Delims == {"(", "[", "{", ")", "]", "}", "'"}

Quotes(b, top, o) ==
  /\ o.kind = "next" =>
       \/ b = "'" /\ o.to = "StrBody"
       \/ b \notin Delims /\ o.to \notin StringStates
  /\ o.kind = "push" =>
       /\ o.to \in {"AfterBraceOpen", "ExpectValue", "ExpectBraceBinder"}
       /\ \/ o.frame = "Paren" /\ b = "("
          \/ o.frame = "Bracket" /\ b = "["
          \/ o.frame \in {"Brace", "BraceLambda"} /\ b = "{"
  /\ o.kind = "pop"  =>
       /\ o.to = "AfterValue"
       /\ \/ top = "Paren" /\ b = ")"
          \/ top = "Bracket" /\ b = "]"
          \/ top \in {"Brace", "BraceLambda"} /\ b = "}"

LEMMA PlainQuotes ==
  ASSUME NEW b, b \notin Delims, NEW top, NEW t, t \notin StringStates
  PROVE  Quotes(b, top, StepNext(t))
  BY DEF Quotes, StepNext

LEMMA TextQuotes ==
  ASSUME NEW top
  PROVE  Quotes("'", top, StepNext("StrBody"))
  BY DEF Quotes, StepNext

LEMMA DeadQuotes ==
  ASSUME NEW b, NEW top
  PROVE  Quotes(b, top, StepDead)
  BY DEF Quotes, StepDead

LEMMA OpenQuotes ==
  ASSUME NEW top, NEW t \in {"AfterBraceOpen", "ExpectValue", "ExpectBraceBinder"}
  PROVE  /\ Quotes("(", top, StepPush("Paren", t))
         /\ Quotes("[", top, StepPush("Bracket", t))
         /\ Quotes("{", top, StepPush("Brace", t))
         /\ Quotes("{", top, StepPush("BraceLambda", t))
  BY DEF Quotes, StepPush

LEMMA CloseQuotes ==
  ASSUME NEW b, NEW top
  PROVE  Quotes(b, top, Close(top, b))
  BY DEF Quotes, Close, Matches, StepPop, StepDead

\* The bytes the arms name by class are no delimiters.
LEMMA ClassesPlain ==
  WS \cap Delims = {} /\ IdentTail \cap Delims = {} /\ IdentStart \cap Delims = {}
    /\ Digit \cap Delims = {} /\ DateChar \cap Delims = {} /\ Lower \cap Delims = {}
  BY DEF WS, IdentTail, IdentStart, Lower, Digit, DateChar, Delims

LEMMA AfterValueQuotes ==
  ASSUME NEW b, NEW top
  PROVE  Quotes(b, top, AfterValueStep(top, b))
  BY PlainQuotes, DeadQuotes, OpenQuotes, CloseQuotes, ClassesPlain
  DEF AfterValueStep, StringStates, Delims

LEMMA ValuePositionQuotes ==
  ASSUME NEW s \in HubStates, NEW b, NEW top
  PROVE  Quotes(b, top, ValuePosition(s, top, b))
  BY PlainQuotes, TextQuotes, DeadQuotes, OpenQuotes, CloseQuotes, ClassesPlain
  DEF ValuePosition, HubStates, StringStates, Delims

LEMMA StepQuotes ==
  ASSUME NEW s \in State, s # "StrBody", NEW top, NEW b
  PROVE  Quotes(b, top, Step(s, top, b))
<1> USE PlainQuotes, TextQuotes, DeadQuotes, OpenQuotes, CloseQuotes, ClassesPlain
<1>1. s \in EnvelopeStates => Quotes(b, top, EnvelopeStep(s, b))
  BY DEF EnvelopeStep, EnvelopeStates, StringStates, Delims
<1>2. s \in BlockStates => Quotes(b, top, BlockStmtStep(s, top, b))
  BY DEF BlockStmtStep, BlockStates, StringStates, Delims, IdentStart, Lower
<1>3. s \in HubStates => Quotes(b, top, ValuePosition(s, top, b))
  BY ValuePositionQuotes
<1>4. Quotes(b, top, InSourceIdentStep(b))
  BY DEF InSourceIdentStep, StringStates, Delims
<1>5. s \in SourceStates => Quotes(b, top, SourceStep(s, b))
  BY <1>4 DEF SourceStep, StringStates, Delims
<1>6. s \in LetStates => Quotes(b, top, LetStep(s, b))
  BY <1>4 DEF LetStep, StringStates, Delims
<1>7. s \in BinderStates => Quotes(b, top, BinderStep(s, b))
  BY DEF BinderStep, BinderStates, StringStates, Delims
<1>8. Quotes(b, top, AfterValueStep(top, b))
  BY AfterValueQuotes
<1>9. s \in NumberStates => Quotes(b, top, NumberStep(s, top, b))
  BY <1>8 DEF NumberStep, StringStates, Delims
<1>10. s \in StringStates => Quotes(b, top, StringStep(s, top, b))
  BY <1>8 DEF StringStep, StringStates
<1>11. s \in DateStates => Quotes(b, top, DateStep(s, top, b))
  BY <1>8 DEF DateStep, StringStates, Delims
<1>12. s \in NavStates => Quotes(b, top, NavStep(s, b))
  BY DEF NavStep, NavStates, StringStates
<1>13. s \in ColonStates => Quotes(b, top, ColonStep(s, b))
  BY DEF ColonStep, StringStates, Delims
<1>14. s \in OperatorStates => Quotes(b, top, OperatorStep(s, top, b))
  <2>1. SecondByte(s) \notin Delims
    BY DEF SecondByte, Delims
  <2> QED
    BY <2>1, ValuePositionQuotes DEF OperatorStep, HubStates, StringStates
<1>15. Quotes(b, top, IdentStep(top, b))
  BY <1>8 DEF IdentStep, StringStates
<1>16. Quotes(b, top, MultiplicityStep(top, b))
  BY DEF MultiplicityStep
<1>17. Quotes(b, top, TildeStep(b))
  BY DEF TildeStep, StringStates
<1>18. Quotes(b, top, BraceBinderStep(b))
  BY DEF BraceBinderStep, StringStates
<1>19. Dispatched(s, top, b, Step(s, top, b))
  BY Dispatch
<1> HIDE PlainQuotes, TextQuotes, DeadQuotes, OpenQuotes, CloseQuotes, ClassesPlain
<1> QED
  BY <1>1, <1>2, <1>3, <1>5, <1>6, <1>7, <1>8, <1>9, <1>10, <1>11, <1>12, <1>13,
     <1>14, <1>15, <1>16, <1>17, <1>18, <1>19 DEF Dispatched

-----------------------------------------------------------------------------
(***************************************************************************)
(* Induction, said of a set instead of a predicate.                        *)
(***************************************************************************)
LEMMA NatInductionOnSet ==
  ASSUME NEW X, 0 \in X, \A n \in Nat : n \in X => n + 1 \in X
  PROVE  Nat \subseteq X
<1> DEFINE R == OpToRel(<, Nat)
           T == Nat \ X
<1>1. IsWellFoundedOn(R, Nat)
  BY NatLessThanWellFounded
<1> SUFFICES ASSUME T # {} PROVE FALSE
  OBVIOUS
<1>2. PICK x \in T : \A y \in T : ~(<<y, x>> \in R)
  <2> HIDE DEF R
  <2> QED BY <1>1, WFMin
<1>3. <<x - 1, x>> \in R <=> x - 1 \in Nat
  BY DEF OpToRel
<1> HIDE DEF R
<1>4. x \in Nat /\ x \notin X /\ x # 0
  BY <1>2
<1>5. x - 1 \in Nat /\ x - 1 \in X
  BY <1>2, <1>3, <1>4
<1> QED
  BY <1>4, <1>5

\* A nonempty set of naturals has a least member.
LEMMA NatHasLeast ==
  ASSUME NEW T, T \subseteq Nat, T # {}
  PROVE  \E x \in T : \A y \in T : x <= y
<1> DEFINE X == {n \in Nat : \A m \in 0 .. n : m \notin T}
<1> SUFFICES ASSUME \A x \in T : \E y \in T : ~(x <= y) PROVE FALSE
  OBVIOUS
<1>1. 0 \in X
  OBVIOUS
<1>2. ASSUME NEW n \in Nat, n \in X PROVE n + 1 \in X
  BY <1>2
<1>3. Nat \subseteq X
  <2> HIDE DEF X
  <2> QED  BY <1>1, <1>2, NatInductionOnSet
<1>4. PICK x \in T : TRUE
  OBVIOUS
<1>5. x \in X /\ x \in 0 .. x
  BY <1>3
<1> QED
  BY <1>5

LEMMA SeqInductionOnSet ==
  ASSUME NEW S, NEW X, <<>> \in X,
         \A t \in Seq(S) : t \in X => \A b \in S : Append(t, b) \in X
  PROVE  Seq(S) \subseteq X
<1> DEFINE N == {n \in Nat : \A t \in Seq(S) : Len(t) = n => t \in X}
<1>1. 0 \in N
  OBVIOUS
<1>2. ASSUME NEW n \in Nat, n \in N PROVE n + 1 \in N
  <2> SUFFICES ASSUME NEW t \in Seq(S), Len(t) = n + 1 PROVE t \in X
    OBVIOUS
  <2> DEFINE init == SubSeq(t, 1, n)
  <2>1. init \in Seq(S) /\ Len(init) = n /\ t[n + 1] \in S
    OBVIOUS
  <2>2. t = Append(init, t[n + 1])
    OBVIOUS
  <2>3. init \in X
    BY <1>2, <2>1
  <2> HIDE DEF init
  <2> QED BY <2>1, <2>2, <2>3
<1>3. Nat \subseteq N
  <2> HIDE DEF N
  <2> QED BY <1>1, <1>2, NatInductionOnSet
<1> QED
  BY <1>3

LEMMA InductionUpTo ==
  ASSUME NEW N \in Nat, NEW X, 0 \in X, \A n \in 1 .. N : n - 1 \in X => n \in X
  PROVE  0 .. N \subseteq X
<1> DEFINE Y == {n \in Nat : n <= N => n \in X}
<1>1. 0 \in Y
  OBVIOUS
<1>2. ASSUME NEW n \in Nat, n \in Y PROVE n + 1 \in Y
  <2>1. n + 1 <= N => n \in X /\ n + 1 \in 1 .. N /\ (n + 1) - 1 = n
    BY <1>2
  <2> QED BY <2>1
<1>3. Nat \subseteq Y
  <2> HIDE DEF Y
  <2> QED BY <1>1, <1>2, NatInductionOnSet
<1> QED BY <1>3

\* A fold by a total function can always be run.
StepFunction(D, S) == [D -> [S -> D]]

IsTrace(g, D, F, p, t) ==
  /\ g \in [0 .. Len(t) -> D]
  /\ g[0] = p
  /\ \A n \in 1 .. Len(t) : g[n] = F[g[n - 1]][t[n]]

LEMMA TraceExists ==
  ASSUME NEW D, NEW S, NEW F \in StepFunction(D, S), NEW p \in D, NEW t \in Seq(S)
  PROVE  \E g : IsTrace(g, D, F, p, t)
<1> USE DEF StepFunction
<1> DEFINE Runs(g, n) == /\ g \in [0 .. n -> D] /\ g[0] = p
                         /\ \A i \in 1 .. n : g[i] = F[g[i - 1]][t[i]]
           X == {n \in Nat : \E g : Runs(g, n)}
<1>1. 0 \in X
  <2>1. Runs([n \in 0 .. 0 |-> p], 0)
    OBVIOUS
  <2> QED BY <2>1
<1>2. ASSUME NEW n \in 1 .. Len(t), n - 1 \in X PROVE n \in X
  <2>1. PICK g : Runs(g, n - 1)
    BY <1>2
  <2>2. t[n] \in S /\ g[n - 1] \in D /\ n \in Nat
    BY <2>1
  <2> DEFINE last == F[g[n - 1]][t[n]]
             h    == [i \in 0 .. n |-> IF i < n THEN g[i] ELSE last]
  <2>3. last \in D
    BY <2>2
  <2> HIDE DEF last
  <2>4. h \in [0 .. n -> D] /\ h[n] = last /\ \A i \in 0 .. n - 1 : h[i] = g[i]
    BY <2>1, <2>2, <2>3
  <2> HIDE DEF h
  <2>5. h[0] = p
    BY <2>1, <2>2, <2>4
  <2>6. ASSUME NEW i \in 1 .. n PROVE h[i] = F[h[i - 1]][t[i]]
    <3>1. h[i - 1] = g[i - 1] /\ i - 1 \in 0 .. n - 1
      BY <2>4
    <3>2. CASE i = n
      BY <2>4, <3>1, <3>2 DEF last
    <3>3. CASE i # n
      <4>1. i \in 1 .. n - 1 /\ i \in 0 .. n - 1
        BY <3>3
      <4> QED BY <2>1, <2>4, <3>1, <4>1
    <3> QED BY <3>2, <3>3
  <2>7. Runs(h, n)
    BY <2>4, <2>5, <2>6
  <2> QED BY <2>2, <2>7
<1>3. 0 .. Len(t) \subseteq X /\ Len(t) \in 0 .. Len(t)
  <2> HIDE DEF X
  <2>1. Len(t) \in Nat
    OBVIOUS
  <2>2. 0 .. Len(t) \subseteq X
    BY <1>1, <1>2, <2>1, InductionUpTo
  <2> QED BY <2>1, <2>2
<1> QED BY <1>3 DEF IsTrace

Configs == PdaType \cup {DeadPda}

LEMMA FedType ==
  ASSUME NEW p \in Configs, NEW b PROVE Fed(p, b) \in Configs
  BY AdvanceType DEF Fed, Configs

FeedTrace(g, p, t) ==
  /\ g[0] = p
  /\ \A n \in 1 .. Len(t) : g[n] = Fed(g[n - 1], t[n])
  /\ \A k \in 0 .. Len(t) : g[k] \in Configs /\ FeedAll(p, SubSeq(t, 1, k)) = g[k]

LEMMA FeedAllRuns ==
  ASSUME NEW p \in Configs, NEW t \in Seq(Byte)
  PROVE  \E g : FeedTrace(g, p, t)
<1> DEFINE F == [q \in Configs |-> [b \in Byte |-> Fed(q, b)]]
<1>1. F \in StepFunction(Configs, Byte)
  BY FedType DEF StepFunction
<1>2. PICK g : IsTrace(g, Configs, F, p, t)
  <2> HIDE DEF F
  <2> QED BY <1>1, TraceExists
<1>3. ASSUME NEW n \in 1 .. Len(t)
      PROVE  g[n] = Fed(g[n - 1], t[n])
  <2>1. g[n] = F[g[n - 1]][t[n]] /\ g[n - 1] \in Configs /\ t[n] \in Byte
    <3> HIDE DEF F
    <3> QED  BY <1>2 DEF IsTrace
  <2> QED BY <2>1
<1> HIDE DEF F
<1>4. ASSUME NEW k \in 0 .. Len(t)
      PROVE  FeedAll(p, SubSeq(t, 1, k)) = g[k]
  <2> DEFINE u == SubSeq(t, 1, k)
             Run(h) == h = [n \in 0 .. Len(u) |-> IF n = 0 THEN p ELSE Fed(h[n - 1], u[n])]
             after == CHOOSE h : Run(h)
  <2>1. Len(u) = k /\ k \in Nat /\ \A n \in 1 .. k : u[n] = t[n] /\ n - 1 \in 0 .. k
    OBVIOUS
  <2> HIDE DEF u
  <2>2. Run([n \in 0 .. k |-> g[n]])
    BY <1>2, <1>3, <2>1 DEF IsTrace
  <2>3. Run(after)
    BY <2>2
  <2> HIDE DEF after
  <2> DEFINE Same == {n \in 0 .. k : after[n] = g[n]}
  <2>4. 0 .. k \subseteq Same
    <3>1. 0 \in Same
      BY <1>2, <2>1, <2>3 DEF IsTrace
    <3>2. ASSUME NEW n \in 1 .. k, n - 1 \in Same
          PROVE  n \in Same
      <4>1. n \in 0 .. Len(u) /\ n # 0 /\ n \in 1 .. Len(t)
        BY <2>1
      <4>2. after[n] = Fed(after[n - 1], u[n])
        BY <2>3, <4>1
      <4> QED BY <1>3, <2>1, <3>2, <4>1, <4>2
    <3> HIDE DEF Same
    <3> QED BY <2>1, <3>1, <3>2, InductionUpTo
  <2>5. FeedAll(p, u) = after[Len(u)]
    BY DEF FeedAll, after
  <2> QED BY <2>1, <2>4, <2>5 DEF u
<1> QED BY <1>2, <1>3, <1>4 DEF IsTrace, FeedTrace

LEMMA FeedAllEmpty ==
  ASSUME NEW p \in Configs
  PROVE  FeedAll(p, <<>>) = p
<1> DEFINE none == <<>>
<1>1. none \in Seq(Byte) /\ Len(none) = 0 /\ SubSeq(none, 1, 0) = none
  OBVIOUS
<1> HIDE DEF none
<1>2. PICK g : FeedTrace(g, p, none)
  BY <1>1, FeedAllRuns
<1>3. FeedAll(p, none) = g[0]
  <2>1. 0 \in 0 .. Len(none)
    BY <1>1
  <2>2. FeedAll(p, SubSeq(none, 1, 0)) = g[0]
    BY <1>2, <2>1 DEF FeedTrace
  <2> QED  BY <1>1, <2>2
<1> QED  BY <1>2, <1>3 DEF FeedTrace, none

LEMMA FeedAllType ==
  ASSUME NEW p \in Configs, NEW t \in Seq(Byte)
  PROVE  FeedAll(p, t) \in Configs
<1>1. Len(t) \in 0 .. Len(t) /\ SubSeq(t, 1, Len(t)) = t
  OBVIOUS
<1>2. PICK g : FeedTrace(g, p, t)
  BY <1>1, FeedAllRuns
<1> QED  BY <1>1, <1>2 DEF FeedTrace

LEMMA FeedAllAppend ==
  ASSUME NEW p \in Configs, NEW t \in Seq(Byte), NEW b \in Byte
  PROVE  FeedAll(p, Append(t, b)) = Fed(FeedAll(p, t), b)
<1> DEFINE u == Append(t, b)
           n == Len(t)
<1>1. /\ u \in Seq(Byte) /\ Len(u) = n + 1 /\ n \in 0 .. Len(u) /\ n + 1 \in 1 .. Len(u)
      /\ SubSeq(u, 1, n) = t /\ SubSeq(u, 1, n + 1) = u /\ u[n + 1] = b
      /\ (n + 1) - 1 = n /\ n + 1 \in 0 .. Len(u)
  OBVIOUS
<1> HIDE DEF u, n
<1>2. PICK g : FeedTrace(g, p, u)
  BY <1>1, FeedAllRuns
<1>3. g[n + 1] = Fed(g[n], b)
  BY <1>1, <1>2 DEF FeedTrace
<1>4. FeedAll(p, t) = g[n] /\ FeedAll(p, u) = g[n + 1]
  BY <1>1, <1>2 DEF FeedTrace
<1> QED  BY <1>3, <1>4 DEF u

\* The same for the probe.
ProbeType == [pda : PdaType, fate : Fate]

ProbeStart(s) == [pda |-> PdaAt(s), fate |-> "alive"]

LEMMA ProbedType ==
  ASSUME NEW l \in ProbeType, NEW b
  PROVE  Probed(l, b) \in ProbeType
  BY AdvanceType DEF ProbeType, Probed, Fate

ProbeTrace(g, s, t) ==
  /\ g[0] = ProbeStart(s)
  /\ \A n \in 1 .. Len(t) : g[n] = Probed(g[n - 1], t[n])
  /\ \A k \in 0 .. Len(t) : g[k] \in ProbeType /\ ProbeAll(s, SubSeq(t, 1, k)) = g[k]

LEMMA ProbeAllRuns ==
  ASSUME NEW s \in State, NEW t \in Seq(Byte)
  PROVE  \E g : ProbeTrace(g, s, t)
<1> DEFINE F == [l \in ProbeType |-> [b \in Byte |-> Probed(l, b)]]
<1>1. F \in StepFunction(ProbeType, Byte) /\ ProbeStart(s) \in ProbeType
  BY ProbedType DEF StepFunction, ProbeStart, ProbeType, PdaType, PdaAt, Fate
<1>2. PICK g : IsTrace(g, ProbeType, F, ProbeStart(s), t)
  <2> HIDE DEF F
  <2> QED BY <1>1, TraceExists
<1>3. ASSUME NEW n \in 1 .. Len(t)
      PROVE  g[n] = Probed(g[n - 1], t[n])
  <2>1. g[n] = F[g[n - 1]][t[n]] /\ g[n - 1] \in ProbeType /\ t[n] \in Byte
    <3> HIDE DEF F
    <3> QED  BY <1>2 DEF IsTrace
  <2> QED BY <2>1
<1> HIDE DEF F
<1>4. ASSUME NEW k \in 0 .. Len(t)
      PROVE  ProbeAll(s, SubSeq(t, 1, k)) = g[k]
  <2> DEFINE u == SubSeq(t, 1, k)
             Run(h) == h = [n \in 0 .. Len(u) |->
                              IF n = 0 THEN ProbeStart(s) ELSE Probed(h[n - 1], u[n])]
             after == CHOOSE h : Run(h)
             Same == {n \in 0 .. k : after[n] = g[n]}
  <2>1. Len(u) = k /\ k \in Nat /\ \A n \in 1 .. k : u[n] = t[n] /\ n - 1 \in 0 .. k
    OBVIOUS
  <2> HIDE DEF u
  <2>2. Run([n \in 0 .. k |-> g[n]])
    BY <1>2, <1>3, <2>1 DEF IsTrace
  <2>3. Run(after)
    BY <2>2
  <2> HIDE DEF after
  <2>4. 0 .. k \subseteq Same
    <3>1. 0 \in Same
      BY <1>2, <2>1, <2>3 DEF IsTrace
    <3>2. ASSUME NEW n \in 1 .. k, n - 1 \in Same
          PROVE  n \in Same
      <4>1. n \in 0 .. Len(u) /\ n # 0 /\ n \in 1 .. Len(t)
        BY <2>1
      <4>2. after[n] = Probed(after[n - 1], u[n])
        BY <2>3, <4>1
      <4> QED BY <1>3, <2>1, <3>2, <4>1, <4>2
    <3> HIDE DEF Same
    <3> QED BY <2>1, <3>1, <3>2, InductionUpTo
  <2>5. ProbeAll(s, u) = after[Len(u)]
    BY DEF ProbeAll, after, ProbeStart
  <2> QED BY <2>1, <2>4, <2>5 DEF u
<1> QED BY <1>2, <1>3, <1>4 DEF IsTrace, ProbeTrace

LEMMA ProbeAllEmpty ==
  ASSUME NEW s \in State
  PROVE  ProbeAll(s, <<>>) = ProbeStart(s)
<1> DEFINE none == <<>>
<1>1. none \in Seq(Byte) /\ Len(none) = 0 /\ SubSeq(none, 1, 0) = none
  OBVIOUS
<1> HIDE DEF none
<1>2. PICK g : ProbeTrace(g, s, none)
  BY <1>1, ProbeAllRuns
<1>3. ProbeAll(s, none) = g[0]
  <2>1. 0 \in 0 .. Len(none)
    BY <1>1
  <2>2. ProbeAll(s, SubSeq(none, 1, 0)) = g[0]
    BY <1>2, <2>1 DEF ProbeTrace
  <2> QED  BY <1>1, <2>2
<1> QED  BY <1>2, <1>3 DEF ProbeTrace, none

LEMMA ProbeAllType ==
  ASSUME NEW s \in State, NEW t \in Seq(Byte)
  PROVE  ProbeAll(s, t) \in ProbeType
<1>1. Len(t) \in 0 .. Len(t) /\ SubSeq(t, 1, Len(t)) = t
  OBVIOUS
<1>2. PICK g : ProbeTrace(g, s, t)
  BY <1>1, ProbeAllRuns
<1> QED  BY <1>1, <1>2 DEF ProbeTrace

LEMMA ProbeAllAppend ==
  ASSUME NEW s \in State, NEW t \in Seq(Byte), NEW b \in Byte
  PROVE  ProbeAll(s, Append(t, b)) = Probed(ProbeAll(s, t), b)
<1> DEFINE u == Append(t, b)
           n == Len(t)
<1>1. /\ u \in Seq(Byte) /\ Len(u) = n + 1 /\ n \in 0 .. Len(u) /\ n + 1 \in 1 .. Len(u)
      /\ SubSeq(u, 1, n) = t /\ SubSeq(u, 1, n + 1) = u /\ u[n + 1] = b
      /\ (n + 1) - 1 = n /\ n + 1 \in 0 .. Len(u)
  OBVIOUS
<1> HIDE DEF u, n
<1>2. PICK g : ProbeTrace(g, s, u)
  BY <1>1, ProbeAllRuns
<1>3. g[n + 1] = Probed(g[n], b)
  BY <1>1, <1>2 DEF ProbeTrace
<1>4. ProbeAll(s, t) = g[n] /\ ProbeAll(s, u) = g[n + 1]
  BY <1>1, <1>2 DEF ProbeTrace
<1> QED  BY <1>3, <1>4 DEF u

LEMMA DeadIsNoConfig == DeadPda \notin PdaType
  BY DEF DeadPda, PdaType, State, EnvelopeStates, BlockStates, HubStates, SourceStates,
     LetStates, BinderStates, NumberStates, StringStates, DateStates, NavStates,
     ColonStates, OperatorStates

(***************************************************************************)
(* A token fed after a text is the text continued: the session may commit  *)
(* token by token what the grammar reads byte by byte.                     *)
(***************************************************************************)
LEMMA FeedAllConcat ==
  ASSUME NEW p \in Configs, NEW t \in Seq(Byte), NEW u \in Seq(Byte)
  PROVE  FeedAll(p, t \o u) = FeedAll(FeedAll(p, t), u)
<1> DEFINE X == {v \in Seq(Byte) : FeedAll(p, t \o v) = FeedAll(FeedAll(p, t), v)}
<1>0. FeedAll(p, t) \in Configs
  BY FeedAllType
<1>1. <<>> \in X
  <2>1. <<>> \in Seq(Byte) /\ t \o <<>> = t
    OBVIOUS
  <2> QED  BY <1>0, <2>1, FeedAllEmpty
<1>2. ASSUME NEW v \in Seq(Byte), v \in X, NEW b \in Byte PROVE Append(v, b) \in X
  <2>1. t \o Append(v, b) = Append(t \o v, b) /\ t \o v \in Seq(Byte) /\ Append(v, b) \in Seq(Byte)
    OBVIOUS
  <2>2. FeedAll(p, t \o Append(v, b)) = Fed(FeedAll(p, t \o v), b)
    BY <2>1, FeedAllAppend
  <2>3. FeedAll(FeedAll(p, t), Append(v, b)) = Fed(FeedAll(FeedAll(p, t), v), b)
    BY <1>0, FeedAllAppend
  <2> QED BY <1>2, <2>1, <2>2, <2>3
<1>3. Seq(Byte) \subseteq X
  <2> HIDE DEF X
  <2> QED BY <1>1, <1>2, SeqInductionOnSet
<1> QED BY <1>3

(***************************************************************************)
(* The verdict of a token's probe, read over a live stack: alive, it is    *)
(* admissible over every stack; dead, over none; consulted, not over the   *)
(* empty one.                                                              *)
(***************************************************************************)
ProbeVerdict(l, amb, q) ==
  /\ l.fate = "alive" =>
       /\ q \in PdaType
       /\ q.state = l.pda.state
       /\ q.stack = amb \o l.pda.stack
  /\ l.fate = "dead" => q = DeadPda
  /\ l.fate = "consulted" /\ amb = <<>> => q = DeadPda

LEMMA ProbeReplays ==
  ASSUME NEW p \in PdaType, NEW t \in Seq(Byte)
  PROVE  ProbeVerdict(ProbeAll(p.state, t), p.stack, FeedAll(p, t))
<1> DEFINE V(v) == ProbeVerdict(ProbeAll(p.state, v), p.stack, FeedAll(p, v))
           X    == {v \in Seq(Byte) : V(v)}
<1>0. p.state \in State /\ p.stack \in Seq(Frame) /\ p \in Configs
  BY DEF PdaType, Configs
<1>1. <<>> \in X
  <2>1. FeedAll(p, <<>>) = p /\ ProbeAll(p.state, <<>>) = ProbeStart(p.state)
    BY <1>0, FeedAllEmpty, ProbeAllEmpty
  <2>2. p.stack \o <<>> = p.stack /\ <<>> \in Seq(Byte)
    BY <1>0
  <2>3. ProbeVerdict(ProbeStart(p.state), p.stack, p)
    BY <2>2 DEF ProbeVerdict, ProbeStart, PdaAt
  <2> QED BY <2>1, <2>2, <2>3
<1>2. ASSUME NEW v \in Seq(Byte), v \in X, NEW b \in Byte PROVE Append(v, b) \in X
  <2> DEFINE l == ProbeAll(p.state, v)
             q == FeedAll(p, v)
  <2>1. /\ ProbeAll(p.state, Append(v, b)) = Probed(l, b)
        /\ FeedAll(p, Append(v, b)) = Fed(q, b)
        /\ l \in ProbeType /\ q \in Configs /\ Append(v, b) \in Seq(Byte)
    BY <1>0, FeedAllAppend, FeedAllType, ProbeAllAppend, ProbeAllType
  <2>2. ProbeVerdict(l, p.stack, q)
    BY <1>2
  <2> HIDE DEF l, q
  <2>3. l.pda \in PdaType /\ l.fate \in Fate
    BY <2>1 DEF ProbeType
  <2>4. CASE l.fate = "alive" /\ Lives(l.pda, b)
    <3>1. /\ Lives(q, b)
          /\ Advance(q, b).state = Advance(l.pda, b).state
          /\ Advance(q, b).stack = p.stack \o Advance(l.pda, b).stack
      <4>1. q \in PdaType /\ q.state = l.pda.state /\ q.stack = p.stack \o l.pda.stack
        BY <2>2, <2>4 DEF ProbeVerdict
      <4> DEFINE amb == p.stack
                 m   == l.pda
      <4>2. amb \in Seq(Frame) /\ m \in PdaType /\ Lives(m, b)
        BY <1>0, <2>3, <2>4
      <4>3. q.state = m.state /\ q.stack = amb \o m.stack
        BY <4>1
      <4> HIDE DEF amb, m
      <4>4. /\ Lives(q, b)
            /\ Advance(q, b).state = Advance(m, b).state
            /\ Advance(q, b).stack = amb \o Advance(m, b).stack
        BY <4>1, <4>2, <4>3, LockStep
      <4> QED  BY <4>4 DEF amb, m
    <3>2. q # DeadPda /\ Fed(q, b) = Advance(q, b) /\ Advance(q, b) \in PdaType
      BY <2>2, <2>4, <3>1, DeadIsNoConfig, AdvanceType DEF ProbeVerdict, Fed
    <3>3. Probed(l, b) = [l EXCEPT !.pda = Advance(l.pda, b)]
      BY <2>4 DEF Probed
    <3>4. Probed(l, b).fate = "alive" /\ Probed(l, b).pda = Advance(l.pda, b)
      BY <2>1, <2>4, <3>3 DEF ProbeType
    <3> QED BY <2>1, <3>1, <3>2, <3>4 DEF ProbeVerdict
  <2>5. CASE l.fate = "alive" /\ ~Lives(l.pda, b)
    <3> DEFINE wants == l.pda.stack = <<>> /\ WouldLiveInSomeFrame(l.pda.state, b)
    <3>1. Probed(l, b).fate = IF wants THEN "consulted" ELSE "dead"
      BY <2>1, <2>5 DEF Probed, ProbeType
    <3>2. ~wants \/ p.stack = <<>> => ~Lives(q, b)
      BY <1>0, <2>2, <2>3, <2>5, DeadTogether DEF ProbeVerdict
    <3>3. ~Lives(q, b) => Fed(q, b) = DeadPda
      BY DEF Fed
    <3> HIDE DEF wants
    <3> QED BY <2>1, <3>1, <3>2, <3>3 DEF ProbeVerdict
  <2>6. CASE l.fate # "alive"
    BY <2>1, <2>2, <2>6 DEF ProbeVerdict, Probed, Fed
  <2> QED BY <2>4, <2>5, <2>6
<1>3. Seq(Byte) \subseteq X
  <2> HIDE DEF X
  <2> QED BY <1>1, <1>2, SeqInductionOnSet
<1> QED BY <1>3

(***************************************************************************)
(* What a probe over an empty stack says of a token holds over every live  *)
(* stack (`probe` and `admits`, pda.rs 1223-1266): the one exception is    *)
(* the token that consulted a frame, when there is one.                    *)
(***************************************************************************)
THEOREM ProbeIsExact ==
  ASSUME NEW p \in PdaType, NEW t \in Seq(Byte)
  PROVE  /\ ProbeFate(p.state, t) \in Fate
         /\ ProbeFate(p.state, t) = "alive" => Admits(p, t)
         /\ ProbeFate(p.state, t) = "dead"  => ~Admits(p, t)
         /\ ProbeFate(p.state, t) = "consulted" /\ p.stack = <<>> => ~Admits(p, t)
<1> DEFINE l == ProbeAll(p.state, t)
           q == FeedAll(p, t)
<1>1. ProbeVerdict(l, p.stack, q)
  BY ProbeReplays
<1>2. l.fate \in Fate
  <2>1. p.state \in State
    BY DEF PdaType
  <2> QED  BY <2>1, ProbeAllType DEF ProbeType
<1>3. ProbeFate(p.state, t) = l.fate /\ (Admits(p, t) <=> q # DeadPda)
  BY DEF ProbeFate, Admits
<1> HIDE DEF l, q
<1> QED
  BY <1>1, <1>2, <1>3, DeadIsNoConfig DEF ProbeVerdict

\* A fold that has died stays dead.
LEMMA FeedAllDead ==
  ASSUME NEW t \in Seq(Byte)
  PROVE  FeedAll(DeadPda, t) = DeadPda
<1> DEFINE X == {v \in Seq(Byte) : FeedAll(DeadPda, v) = DeadPda}
<1>0. DeadPda \in Configs
  BY DEF Configs
<1>1. <<>> \in X
  <2>1. <<>> \in Seq(Byte)
    OBVIOUS
  <2> QED  BY <1>0, <2>1, FeedAllEmpty
<1>2. ASSUME NEW v \in Seq(Byte), v \in X, NEW b \in Byte PROVE Append(v, b) \in X
  <2>1. FeedAll(DeadPda, Append(v, b)) = Fed(DeadPda, b) /\ Append(v, b) \in Seq(Byte)
    BY <1>0, <1>2, FeedAllAppend
  <2> QED  BY <2>1 DEF Fed
<1>3. Seq(Byte) \subseteq X
  <2> HIDE DEF X
  <2> QED  BY <1>1, <1>2, SeqInductionOnSet
<1> QED  BY <1>3

-----------------------------------------------------------------------------
(***************************************************************************)
(* What one live byte does to the frames and to the string states.         *)
(***************************************************************************)
LEMMA StringKind ==
  ASSUME NEW s \in State
  PROVE  LexKind(s) = "Str" <=> s \in StringStates
  BY DEF LexKind, NumberStates, DateStates, StringStates, NoLexKind

LEMMA TextStep ==
  ASSUME NEW p \in PdaType, p.state = "StrBody", NEW b
  PROVE  Advance(p, b) = [state |-> IF b = "'" THEN "StrQuote" ELSE "StrBody",
                          stack |-> p.stack]
<1> DEFINE o == Step(p.state, StackTop(p.stack), b)
<1>1. p.state \in State /\ p.state \in StringStates
  BY DEF PdaType, StringStates
<1>2. o = StringStep(p.state, StackTop(p.stack), b)
  BY <1>1, Dispatch
  DEF Dispatched, EnvelopeStates, BlockStates, HubStates, SourceStates, LetStates,
      BinderStates, NumberStates, StringStates, DateStates, NavStates, ColonStates,
      OperatorStates
<1>3. o = StepNext(IF b = "'" THEN "StrQuote" ELSE "StrBody")
  BY <1>2 DEF StringStep
<1> HIDE DEF o
<1>4. o.kind = "next" /\ o.to = IF b = "'" THEN "StrQuote" ELSE "StrBody"
  BY <1>3 DEF StepNext
<1>5. Applied(p.stack, o) = p.stack
  BY <1>4 DEF Applied
<1> QED  BY <1>4, <1>5 DEF Advance, o

LEMMA PlainStep ==
  ASSUME NEW p \in PdaType, p.state # "StrBody", NEW b, Lives(p, b)
  PROVE  LET q == Advance(p, b)
         IN  /\ b = "'" => q.state = "StrBody" /\ q.stack = p.stack
             /\ b # "'" => q.state \notin StringStates
             /\ b \notin Delims => q.stack = p.stack
             /\ b \in {"(", "[", "{"} => Len(q.stack) = Len(p.stack) + 1 /\ LexKind(q.state) = NoLexKind
             /\ b \in Closer => /\ Len(p.stack) > 0
                                /\ Len(q.stack) = Len(p.stack) - 1
                                /\ LexKind(q.state) = NoLexKind
<1> DEFINE top == StackTop(p.stack)
           o   == Step(p.state, top, b)
           q   == Advance(p, b)
<1>1. p.state \in State /\ p.stack \in Seq(Frame)
  BY DEF PdaType
<1>2. o \in Outcome /\ o # StepDead /\ (o.kind = "pop" => top # NoFrame)
  BY <1>1, StackTopType, StepWellFormed DEF Lives, WellFormed
<1>3. Quotes(b, top, o)
  BY <1>1, StepQuotes
<1>4. q.state = o.to /\ q.stack = Applied(p.stack, o)
  BY DEF Advance
<1>5. top = NoFrame <=> p.stack = <<>>
  BY <1>1, StackTopType
<1> HIDE DEF o, top, q
<1>6. o.kind \in {"next", "push", "pop"}
  BY <1>2 DEF Outcome, StepDead
<1>7. \A s \in {"AfterBraceOpen", "ExpectValue", "ExpectBraceBinder", "AfterValue"} :
        LexKind(s) = NoLexKind /\ s \notin StringStates
  BY DEF LexKind, NumberStates, DateStates, StringStates, NoLexKind
<1>8. CASE o.kind = "next"
  <2>1. q.stack = p.stack
    BY <1>4, <1>8 DEF Applied
  <2>2. (b = "'" /\ o.to = "StrBody") \/ (b \notin Delims /\ o.to \notin StringStates)
    BY <1>3, <1>8 DEF Quotes
  <2> QED  BY <1>4, <2>1, <2>2 DEF Delims, Closer, q
<1>9. CASE o.kind = "push"
  <2>1. b \in {"(", "[", "{"} /\ o.to \in {"AfterBraceOpen", "ExpectValue", "ExpectBraceBinder"}
        /\ o.frame \in Frame
    BY <1>3, <1>9 DEF Quotes, Frame
  <2>2. Len(q.stack) = Len(p.stack) + 1
    <3>1. q.stack = Append(p.stack, o.frame)
      BY <1>4, <1>9 DEF Applied
    <3>2. \A st \in Seq(Frame), f \in Frame : Len(Append(st, f)) = Len(st) + 1
      OBVIOUS
    <3> QED  BY <1>1, <2>1, <3>1, <3>2
  <2>3. b # "'" /\ b \in Delims /\ b \notin Closer
    BY <2>1 DEF Delims, Closer
  <2> QED  BY <1>4, <1>7, <2>1, <2>2, <2>3 DEF q
<1>10. CASE o.kind = "pop"
  <2>1. b \in Closer /\ o.to = "AfterValue"
    BY <1>3, <1>10 DEF Quotes, Closer
  <2>2. p.stack # <<>>
    BY <1>2, <1>5, <1>10
  <2>3. Len(p.stack) > 0 /\ Len(q.stack) = Len(p.stack) - 1
    BY <1>1, <1>4, <1>10, <2>2 DEF Applied, Front
  <2>4. b # "'" /\ b \in Delims /\ b \notin {"(", "[", "{"}
    BY <2>1 DEF Delims, Closer
  <2> QED  BY <1>4, <1>7, <2>1, <2>3, <2>4 DEF q
<1> QED  BY <1>6, <1>8, <1>9, <1>10

-----------------------------------------------------------------------------
(***************************************************************************)
(* A walk over the positions 1 .. N that puts a sequence down at each      *)
(* position it stops at and skips ahead: what it has put down from each    *)
(* position on.                                                            *)
(***************************************************************************)
Skips(N, skip) == skip \in [1 .. N -> Nat] /\ \A i \in 1 .. N : skip[i] \in i + 1 .. N + 1

Unrolls(m, N, put, skip) ==
  /\ m[N + 1] = <<>>
  /\ \A i \in 1 .. N : m[i] = put[i] \o m[skip[i]]

LEMMA UnrollExists ==
  ASSUME NEW T, NEW N \in Nat, NEW put \in [1 .. N -> Seq(T)], NEW skip, Skips(N, skip)
  PROVE  \E m : m \in [1 .. N + 1 -> Seq(T)] /\ Unrolls(m, N, put, skip)
<1> DEFINE Runs(m, k) == /\ m \in [N + 1 - k .. N + 1 -> Seq(T)] /\ m[N + 1] = <<>>
                         /\ \A i \in N + 1 - k .. N : m[i] = put[i] \o m[skip[i]]
           X == {k \in 0 .. N : \E m : Runs(m, k)}
<1>1. 0 \in X
  <2> DEFINE m == [i \in {N + 1} |-> <<>>]
  <2>1. N + 1 - 0 .. N + 1 = {N + 1} /\ N + 1 - 0 .. N = {} /\ 0 \in 0 .. N
    OBVIOUS
  <2>2. m \in [{N + 1} -> Seq(T)] /\ m[N + 1] = <<>>
    OBVIOUS
  <2>3. Runs(m, 0)
    BY <2>1, <2>2
  <2> QED  BY <2>1, <2>3
<1>2. ASSUME NEW k \in 1 .. N, k - 1 \in X PROVE k \in X
  <2>1. PICK m : Runs(m, k - 1)
    BY <1>2
  <2> DEFINE j == N + 1 - k
             h == [i \in j .. N + 1 |-> IF i = j THEN put[j] \o m[skip[j]] ELSE m[i]]
  <2>2. /\ j \in 1 .. N /\ k \in 0 .. N /\ N + 1 - (k - 1) = j + 1
        /\ skip[j] \in j + 1 .. N + 1 /\ N + 1 \in j .. N + 1 /\ N + 1 # j
    BY DEF Skips
  <2>3. m \in [j + 1 .. N + 1 -> Seq(T)] /\ m[N + 1] = <<>>
        /\ \A i \in j + 1 .. N : m[i] = put[i] \o m[skip[i]]
    BY <2>1, <2>2
  <2>4. put[j] \in Seq(T) /\ m[skip[j]] \in Seq(T)
    BY <2>2, <2>3
  <2> HIDE DEF j
  <2> DEFINE first == put[j] \o m[skip[j]]
  <2>5. first \in Seq(T)
    BY <2>4
  <2> HIDE DEF first
  <2>6. /\ j \in j .. N + 1
        /\ \A i \in j .. N + 1 : i = j \/ i \in j + 1 .. N + 1
        /\ \A i \in j + 1 .. N + 1 : i # j /\ i \in j .. N + 1
    BY <2>2
  <2>7. \A i \in j .. N + 1 : (IF i = j THEN first ELSE m[i]) \in Seq(T)
    <3> SUFFICES ASSUME NEW i \in j .. N + 1, i # j PROVE m[i] \in Seq(T)
      BY <2>5
    <3>1. i \in j + 1 .. N + 1
      BY <2>6
    <3> QED  BY <2>3, <3>1
  <2>8. h \in [j .. N + 1 -> Seq(T)]
    BY <2>7 DEF first
  <2>9. /\ h \in [j .. N + 1 -> Seq(T)]
        /\ h[j] = put[j] \o m[skip[j]]
        /\ \A i \in j + 1 .. N + 1 : h[i] = m[i]
    BY <2>6, <2>8 DEF first
  <2> HIDE DEF h
  <2>10. ASSUME NEW i \in j .. N PROVE h[i] = put[i] \o h[skip[i]]
    <3>1. CASE i = j
      BY <2>2, <2>9, <3>1
    <3>2. CASE i # j
      <4>1. i \in j + 1 .. N /\ i \in 1 .. N /\ i \in j + 1 .. N + 1
        BY <2>2, <3>2
      <4>2. skip[i] \in i + 1 .. N + 1
        BY <4>1 DEF Skips
      <4>3. skip[i] \in j + 1 .. N + 1
        BY <2>2, <4>1, <4>2
      <4> QED  BY <2>3, <2>9, <4>1, <4>3
    <3> QED  BY <3>1, <3>2
  <2>11. h[N + 1] = <<>>
    BY <2>2, <2>3, <2>9
  <2>12. Runs(h, k)
    BY <2>9, <2>10, <2>11 DEF j
  <2> QED  BY <2>2, <2>12
<1>3. N \in X
  <2>1. N \in 0 .. N
    OBVIOUS
  <2> HIDE DEF X
  <2> QED  BY <1>1, <1>2, <2>1, InductionUpTo
<1>4. PICK m : Runs(m, N)
  BY <1>3
<1>5. N + 1 - N = 1
  OBVIOUS
<1>6. m \in [1 .. N + 1 -> Seq(T)] /\ m[N + 1] = <<>> /\ \A i \in 1 .. N : m[i] = put[i] \o m[skip[i]]
  BY <1>4, <1>5
<1> QED  BY <1>6 DEF Unrolls

LEMMA UnrollUnique ==
  ASSUME NEW N \in Nat, NEW put, NEW skip, Skips(N, skip),
         NEW m, Unrolls(m, N, put, skip), NEW h, Unrolls(h, N, put, skip)
  PROVE  \A i \in 1 .. N + 1 : h[i] = m[i]
<1> DEFINE X == {k \in 0 .. N : \A i \in N + 1 - k .. N + 1 : h[i] = m[i]}
<1>1. 0 \in X
  BY DEF Unrolls
<1>2. ASSUME NEW k \in 1 .. N, k - 1 \in X PROVE k \in X
  <2> DEFINE j == N + 1 - k
  <2>1. j \in 1 .. N /\ k \in 0 .. N /\ skip[j] \in j + 1 .. N + 1 /\ N + 1 - (k - 1) = j + 1
    BY DEF Skips
  <2>2. \A i \in j + 1 .. N + 1 : h[i] = m[i]
    BY <1>2, <2>1
  <2>3. h[j] = m[j]
    BY <2>1, <2>2 DEF Unrolls
  <2>4. \A i \in j .. N + 1 : h[i] = m[i]
    BY <2>1, <2>2, <2>3
  <2> QED  BY <2>1, <2>4
<1>3. N \in X
  <2>1. N \in 0 .. N
    OBVIOUS
  <2> HIDE DEF X
  <2> QED  BY <1>1, <1>2, <2>1, InductionUpTo
<1> QED  BY <1>3

\* Induction from the last position to the first.
LEMMA InductionDownFrom ==
  ASSUME NEW N \in Nat, NEW X, N + 1 \in X,
         \A i \in 1 .. N : (\A j \in i + 1 .. N + 1 : j \in X) => i \in X
  PROVE  1 .. N + 1 \subseteq X
<1> DEFINE Y == {k \in 0 .. N : \A i \in N + 1 - k .. N + 1 : i \in X}
<1>1. 0 \in Y
  OBVIOUS
<1>2. ASSUME NEW k \in 1 .. N, k - 1 \in Y PROVE k \in Y
  <2> DEFINE j == N + 1 - k
  <2>1. j \in 1 .. N /\ k \in 0 .. N /\ N + 1 - (k - 1) = j + 1
    OBVIOUS
  <2>2. \A i \in j + 1 .. N + 1 : i \in X
    BY <1>2, <2>1
  <2>3. j \in X
    BY <2>1, <2>2
  <2>4. \A i \in j .. N + 1 : i \in X
    BY <2>1, <2>2, <2>3
  <2> QED  BY <2>1, <2>4
<1>3. N \in Y
  <2>1. N \in 0 .. N
    OBVIOUS
  <2> HIDE DEF Y
  <2> QED  BY <1>1, <1>2, <2>1, InductionUpTo
<1> QED  BY <1>3

\* The same walk over a string, a doubled quote being skipped as one.
Pairs(s, i) == i < Len(s) /\ s[i] = "'" /\ s[i + 1] = "'"

UndoubledRun(m, s) ==
  /\ m \in [1 .. Len(s) + 1 -> Seq(Byte)]
  /\ m[Len(s) + 1] = <<>>
  /\ \A i \in 1 .. Len(s) : m[i] = <<s[i]>> \o m[IF Pairs(s, i) THEN i + 2 ELSE i + 1]

LEMMA UndoubledRuns ==
  ASSUME NEW s \in Seq(Byte)
  PROVE  \E m : UndoubledRun(m, s) /\ Undoubled(s) = m[1]
<1> DEFINE N    == Len(s)
           put  == [i \in 1 .. N |-> <<s[i]>>]
           skip == [i \in 1 .. N |-> IF Pairs(s, i) THEN i + 2 ELSE i + 1]
           Run(h) == h = [i \in 1 .. N + 1 |->
                            CASE i > N -> <<>>
                              [] OTHER -> <<s[i]>> \o
                                   h[IF i < N /\ s[i] = "'" /\ s[i + 1] = "'" THEN i + 2 ELSE i + 1]]
           rest == CHOOSE h : Run(h)
<1>1. N \in Nat /\ put \in [1 .. N -> Seq(Byte)] /\ Skips(N, skip)
  BY DEF Skips, Pairs
<1>2. \A i \in 1 .. N : put[i] = <<s[i]>> /\ skip[i] = IF Pairs(s, i) THEN i + 2 ELSE i + 1
  OBVIOUS
<1> HIDE DEF put, skip
<1>3. PICK m : m \in [1 .. N + 1 -> Seq(Byte)] /\ Unrolls(m, N, put, skip)
  BY <1>1, UnrollExists
<1>4. Run(m)
  <2>1. \A i \in 1 .. N + 1 : i > N <=> i = N + 1
    BY <1>1
  <2>2. \A i \in 1 .. N + 1 : i = N + 1 \/ i \in 1 .. N
    BY <1>1
  <2> HIDE DEF N
  <2> QED  BY <1>2, <1>3, <2>1, <2>2 DEF Unrolls, Pairs, N
<1>5. Run(rest)
  BY <1>4
<1> HIDE DEF rest
<1>6. Unrolls(rest, N, put, skip)
  <2>1. rest[N + 1] = <<>>
    BY <1>1, <1>5
  <2>2. ASSUME NEW i \in 1 .. N PROVE rest[i] = put[i] \o rest[skip[i]]
    <3>1. i \in 1 .. N + 1 /\ ~(i > N)
      BY <1>1
    <3> QED  BY <1>2, <1>5, <3>1 DEF Pairs
  <2> QED  BY <2>1, <2>2 DEF Unrolls
<1>7. rest[1] = m[1]
  <2>1. 1 \in 1 .. N + 1
    BY <1>1
  <2> QED  BY <1>1, <1>3, <1>6, <2>1, UnrollUnique
<1>8. Undoubled(s) = rest[1]
  BY DEF Undoubled, rest
<1>9. UndoubledRun(m, s)
  BY <1>2, <1>3 DEF UndoubledRun, Unrolls
<1> QED  BY <1>7, <1>8, <1>9

DoubledRun(g, s) ==
  /\ g \in [0 .. Len(s) -> Seq(Byte)] /\ g[0] = <<>>
  /\ \A n \in 1 .. Len(s) : g[n] = g[n - 1] \o Escaped(s[n])

LEMMA EscapedType ==
  ASSUME NEW b \in Byte
  PROVE  Escaped(b) \in Seq(Byte)
  BY DEF Escaped

LEMMA DoubledRuns ==
  ASSUME NEW s \in Seq(Byte)
  PROVE  \E g : DoubledRun(g, s) /\ \A k \in 0 .. Len(s) : Doubled(SubSeq(s, 1, k)) = g[k]
<1> DEFINE F == [q \in Seq(Byte) |-> [b \in Byte |-> q \o Escaped(b)]]
           none == <<>>
<1>1. F \in StepFunction(Seq(Byte), Byte) /\ none \in Seq(Byte)
  BY EscapedType DEF StepFunction
<1>2. PICK g : IsTrace(g, Seq(Byte), F, none, s)
  <2> HIDE DEF F, none
  <2> QED BY <1>1, TraceExists
<1>3. ASSUME NEW n \in 1 .. Len(s)
      PROVE  g[n] = g[n - 1] \o Escaped(s[n])
  <2>1. g[n] = F[g[n - 1]][s[n]] /\ g[n - 1] \in Seq(Byte) /\ s[n] \in Byte
    <3> HIDE DEF F, none
    <3> QED  BY <1>2 DEF IsTrace
  <2> QED BY <2>1
<1> HIDE DEF F
<1>4. ASSUME NEW k \in 0 .. Len(s)
      PROVE  Doubled(SubSeq(s, 1, k)) = g[k]
  <2> DEFINE u == SubSeq(s, 1, k)
             Run(h) == h = [n \in 0 .. Len(u) |-> IF n = 0 THEN <<>> ELSE h[n - 1] \o Escaped(u[n])]
             out == CHOOSE h : Run(h)
  <2>1. Len(u) = k /\ k \in Nat /\ \A n \in 1 .. k : u[n] = s[n] /\ n - 1 \in 0 .. k
    OBVIOUS
  <2> HIDE DEF u
  <2> DEFINE cut == [n \in 0 .. k |-> g[n]]
  <2>2. ASSUME NEW n \in 0 .. k PROVE cut[n] = IF n = 0 THEN <<>> ELSE cut[n - 1] \o Escaped(u[n])
    <3>1. CASE n = 0
      BY <1>2, <3>1 DEF IsTrace
    <3>2. CASE n # 0
      <4>1. n \in 1 .. Len(s) /\ n \in 1 .. k /\ n - 1 \in 0 .. k
        BY <2>1, <3>2
      <4> QED  BY <1>3, <2>1, <3>2, <4>1
    <3> QED  BY <3>1, <3>2
  <2>3. cut = [n \in 0 .. k |-> cut[n]]
    OBVIOUS
  <2> HIDE DEF cut
  <2>4. Run(cut)
    BY <2>1, <2>2, <2>3
  <2>5. Run(out)
    BY <2>4
  <2> HIDE DEF out
  <2> DEFINE Same == {n \in 0 .. k : out[n] = g[n]}
  <2>6. 0 .. k \subseteq Same
    <3>1. 0 \in Same
      BY <1>2, <2>1, <2>5 DEF IsTrace
    <3>2. ASSUME NEW n \in 1 .. k, n - 1 \in Same
          PROVE  n \in Same
      <4>1. n \in 0 .. Len(u) /\ n # 0 /\ n \in 1 .. Len(s)
        BY <2>1
      <4>2. out[n] = out[n - 1] \o Escaped(u[n])
        BY <2>5, <4>1
      <4> QED BY <1>3, <2>1, <3>2, <4>1, <4>2
    <3> HIDE DEF Same
    <3> QED BY <2>1, <3>1, <3>2, InductionUpTo
  <2>7. Doubled(u) = out[Len(u)]
    BY DEF Doubled, out
  <2> QED BY <2>1, <2>6, <2>7 DEF u
<1>5. DoubledRun(g, s)
  BY <1>2, <1>3 DEF IsTrace, DoubledRun
<1> QED BY <1>4, <1>5

LEMMA DoubledFacts ==
  /\ Doubled(<<>>) = <<>>
  /\ \A s \in Seq(Byte) :
       /\ Doubled(s) \in Seq(Byte)
       /\ \A b \in Byte : Doubled(Append(s, b)) = Doubled(s) \o Escaped(b)
<1>1. Doubled(<<>>) = <<>>
  <2> DEFINE none == <<>>
  <2>1. none \in Seq(Byte) /\ Len(none) = 0 /\ SubSeq(none, 1, 0) = none /\ 0 \in 0 .. 0
    OBVIOUS
  <2> HIDE DEF none
  <2>2. PICK g : DoubledRun(g, none) /\ \A k \in 0 .. Len(none) : Doubled(SubSeq(none, 1, k)) = g[k]
    BY <2>1, DoubledRuns
  <2>3. Doubled(none) = <<>>
    BY <2>1, <2>2 DEF DoubledRun
  <2> QED  BY <2>3 DEF none
<1>2. ASSUME NEW s \in Seq(Byte) PROVE Doubled(s) \in Seq(Byte)
  <2>1. Len(s) \in 0 .. Len(s) /\ SubSeq(s, 1, Len(s)) = s
    OBVIOUS
  <2>2. PICK g : DoubledRun(g, s) /\ \A k \in 0 .. Len(s) : Doubled(SubSeq(s, 1, k)) = g[k]
    BY DoubledRuns
  <2> QED  BY <2>1, <2>2 DEF DoubledRun
<1>3. ASSUME NEW s \in Seq(Byte), NEW b \in Byte
      PROVE  Doubled(Append(s, b)) = Doubled(s) \o Escaped(b)
  <2> DEFINE u == Append(s, b)
             n == Len(s)
  <2>1. /\ u \in Seq(Byte) /\ Len(u) = n + 1 /\ n \in 0 .. Len(u) /\ n + 1 \in 1 .. Len(u)
        /\ SubSeq(u, 1, n) = s /\ SubSeq(u, 1, n + 1) = u /\ u[n + 1] = b
        /\ (n + 1) - 1 = n /\ n + 1 \in 0 .. Len(u)
    OBVIOUS
  <2> HIDE DEF u, n
  <2>2. PICK g : DoubledRun(g, u) /\ \A k \in 0 .. Len(u) : Doubled(SubSeq(u, 1, k)) = g[k]
    BY <2>1, DoubledRuns
  <2>3. g[n + 1] = g[n] \o Escaped(b)
    BY <2>1, <2>2 DEF DoubledRun
  <2>4. Doubled(s) = g[n] /\ Doubled(u) = g[n + 1]
    BY <2>1, <2>2
  <2> QED  BY <2>3, <2>4 DEF u
<1> QED  BY <1>1, <1>2, <1>3

\* What unquoting reads of a doubled string is the string: at the end of
\* what k of its bytes were doubled to, the bytes after the k-th are left.
LEMMA UndoubledDoubled ==
  ASSUME NEW x \in Seq(Byte)
  PROVE  Undoubled(Doubled(x)) = x
<1> DEFINE N == Len(x)
           s == Doubled(x)
<1>1. N \in Nat /\ s \in Seq(Byte) /\ SubSeq(x, 1, N) = x /\ N \in 0 .. N
  BY DoubledFacts
<1>2. PICK g : DoubledRun(g, x) /\ \A k \in 0 .. N : Doubled(SubSeq(x, 1, k)) = g[k]
  BY DoubledRuns
<1>3. g[N] = s /\ g \in [0 .. N -> Seq(Byte)] /\ g[0] = <<>>
      /\ \A n \in 1 .. N : g[n] = g[n - 1] \o Escaped(x[n])
  BY <1>1, <1>2 DEF DoubledRun
<1> HIDE DEF s
<1> DEFINE At(k) == Len(g[k])
           Starts(k) == At(k) <= Len(s) /\ \A i \in 1 .. At(k) : s[i] = g[k][i]
           P == {j \in 0 .. N : Starts(N - j)}
<1>4. ASSUME NEW k \in 1 .. N
      PROVE  /\ g[k - 1] \in Seq(Byte) /\ g[k] \in Seq(Byte) /\ x[k] \in Byte
             /\ At(k) = At(k - 1) + (IF x[k] = "'" THEN 2 ELSE 1)
             /\ \A i \in 1 .. At(k - 1) : g[k][i] = g[k - 1][i]
             /\ g[k][At(k - 1) + 1] = x[k]
             /\ x[k] = "'" => g[k][At(k - 1) + 2] = "'"
  <2> DEFINE e == Escaped(x[k])
  <2>1. g[k - 1] \in Seq(Byte) /\ g[k] \in Seq(Byte) /\ x[k] \in Byte /\ g[k] = g[k - 1] \o e
    <3>1. k \in 0 .. N /\ k - 1 \in 0 .. N /\ k \in 1 .. Len(x)
      BY <1>1
    <3>2. x[k] \in Byte
      BY <3>1
    <3>3. g[k] = g[k - 1] \o e
      BY <1>3
    <3> HIDE DEF N, e
    <3> QED  BY <1>3, <3>1, <3>2, <3>3
  <2>2. e \in Seq(Byte) /\ Len(e) = (IF x[k] = "'" THEN 2 ELSE 1) /\ e[1] = x[k]
        /\ (x[k] = "'" => e[2] = "'")
    BY <2>1 DEF Escaped
  <2> HIDE DEF e
  <2> DEFINE f == g[k - 1]
  <2>3. f \in Seq(Byte) /\ g[k] = f \o e
    BY <2>1
  <2> HIDE DEF f
  <2>4. /\ Len(f \o e) = Len(f) + Len(e) /\ Len(f) \in Nat
        /\ \A i \in 1 .. Len(f) : (f \o e)[i] = f[i]
        /\ \A i \in 1 .. Len(e) : (f \o e)[Len(f) + i] = e[i]
    <3>1. Len(f \o e) = Len(f) + Len(e) /\ Len(f) \in Nat
      BY <2>2, <2>3
    <3>2. \A i \in 1 .. Len(f) : (f \o e)[i] = f[i]
      BY <2>2, <2>3
    <3>3. \A i \in 1 .. Len(e) : (f \o e)[Len(f) + i] = e[i]
      BY <2>2, <2>3
    <3> QED  BY <3>1, <3>2, <3>3
  <2>5. /\ Len(g[k]) = Len(f) + (IF x[k] = "'" THEN 2 ELSE 1)
        /\ \A i \in 1 .. Len(f) : g[k][i] = f[i]
        /\ g[k][Len(f) + 1] = x[k]
        /\ x[k] = "'" => g[k][Len(f) + 2] = "'"
    BY <2>2, <2>3, <2>4
  <2> QED  BY <2>1, <2>5 DEF f
<1>5. 0 .. N \subseteq P
  <2>1. 0 \in P
    <3>1. N - 0 = N /\ 0 \in 0 .. N /\ Len(s) \in Nat
      BY <1>1
    <3> HIDE DEF N
    <3>2. Starts(N)
      BY <1>3, <3>1
    <3> QED  BY <3>1, <3>2
  <2>2. ASSUME NEW j \in 1 .. N, j - 1 \in P PROVE j \in P
    <3> DEFINE k == N - (j - 1)
    <3>1. k \in 1 .. N /\ k - 1 = N - j /\ Starts(k) /\ j \in 0 .. N
      BY <1>1, <2>2
    <3> HIDE DEF k
    <3>2. Starts(k - 1)
      <4>1. /\ At(k - 1) \in Nat /\ At(k) = At(k - 1) + (IF x[k] = "'" THEN 2 ELSE 1)
            /\ \A i \in 1 .. At(k - 1) : g[k][i] = g[k - 1][i]
        <5>1. g[k - 1] \in Seq(Byte)
          BY <1>4, <3>1
        <5>2. At(k - 1) \in Nat
          BY <5>1
        <5>3. k \in 1 .. N
          BY <3>1
        <5> HIDE DEF Starts, At, N
        <5> QED  BY <1>4, <5>2, <5>3
      <4>2. At(k) <= Len(s) /\ \A i \in 1 .. At(k) : s[i] = g[k][i]
        BY <3>1
      <4> HIDE DEF At
      <4>3. \A i \in 1 .. At(k - 1) : i \in 1 .. At(k)
        BY <4>1
      <4>4. At(k - 1) <= Len(s)
        BY <1>1, <4>1, <4>2
      <4>5. \A i \in 1 .. At(k - 1) : s[i] = g[k - 1][i]
        BY <4>1, <4>2, <4>3
      <4> QED  BY <4>4, <4>5
    <3> QED  BY <3>1, <3>2
  <2> HIDE DEF P
  <2> QED  BY <1>1, <2>1, <2>2, InductionUpTo
<1>6. ASSUME NEW k \in 0 .. N PROVE Starts(k)
  <2>1. N - k \in 0 .. N /\ N - (N - k) = k
    BY <1>1
  <2>2. N - k \in P
    <3> HIDE DEF P
    <3> QED  BY <1>5, <2>1
  <2> HIDE DEF Starts
  <2> QED  BY <2>1, <2>2
<1>7. PICK m : UndoubledRun(m, s) /\ Undoubled(s) = m[1]
  BY <1>1, UndoubledRuns
<1> DEFINE Left(k) == SubSeq(x, k + 1, N)
           Q == {j \in 0 .. N : m[At(N - j) + 1] = Left(N - j)}
<1> HIDE DEF Starts
<1>8. 0 \in Q
  <2>1. N - 0 = N /\ At(N) = Len(s) /\ Left(N) = <<>> /\ 0 \in 0 .. N
    BY <1>1, <1>3
  <2>2. m[Len(s) + 1] = <<>>
    BY <1>7 DEF UndoubledRun
  <2> HIDE DEF At, Left, N
  <2> QED  BY <2>1, <2>2
<1>9. ASSUME NEW j \in 1 .. N, j - 1 \in Q PROVE j \in Q
  <2> DEFINE k == N - (j - 1)
             i == At(k - 1) + 1
  <2>1. k \in 1 .. N /\ k - 1 = N - j /\ m[At(k) + 1] = Left(k) /\ j \in 0 .. N /\ k \in 0 .. N
    BY <1>1, <1>9
  <2> HIDE DEF k
  <2>2. /\ At(k) <= Len(s) /\ \A n \in 1 .. At(k) : s[n] = g[k][n]
        /\ At(k - 1) \in Nat /\ At(k) = At(k - 1) + (IF x[k] = "'" THEN 2 ELSE 1)
        /\ g[k][i] = x[k] /\ (x[k] = "'" => g[k][At(k - 1) + 2] = "'")
    <3>1. Starts(k)
      BY <1>6, <2>1
    <3>2. At(k) <= Len(s) /\ \A n \in 1 .. At(k) : s[n] = g[k][n]
      BY <3>1 DEF Starts
    <3> HIDE DEF Starts
    <3>3. g[k - 1] \in Seq(Byte)
      BY <1>4, <2>1
    <3>4. At(k - 1) \in Nat
      BY <3>3
    <3>5. /\ At(k) = At(k - 1) + (IF x[k] = "'" THEN 2 ELSE 1)
          /\ g[k][i] = x[k] /\ (x[k] = "'" => g[k][At(k - 1) + 2] = "'")
      BY <1>4, <2>1
    <3> HIDE DEF At
    <3> QED  BY <3>2, <3>4, <3>5
  <2> HIDE DEF At
  <2>3. i \in 1 .. Len(s) /\ i \in 1 .. At(k) /\ s[i] = x[k]
    BY <1>1, <2>2
  <2>4. (IF Pairs(s, i) THEN i + 2 ELSE i + 1) = At(k) + 1
    <3>1. CASE x[k] = "'"
      <4>1. i + 1 = At(k - 1) + 2 /\ i + 1 \in 1 .. At(k) /\ i < Len(s) /\ i + 2 = At(k) + 1
        BY <1>1, <2>2, <3>1
      <4>2. s[i + 1] = "'"
        BY <2>2, <3>1, <4>1
      <4> QED  BY <2>3, <3>1, <4>1, <4>2 DEF Pairs
    <3>2. CASE x[k] # "'"
      BY <2>2, <2>3, <3>2 DEF Pairs
    <3> QED  BY <3>1, <3>2
  <2>5. m[i] = <<x[k]>> \o Left(k)
    BY <1>7, <2>1, <2>3, <2>4 DEF UndoubledRun
  <2>6. <<x[k]>> \o Left(k) = Left(k - 1)
    BY <1>1, <2>1
  <2> QED  BY <2>1, <2>5, <2>6
<1>10. N \in Q
  <2> HIDE DEF Q
  <2> QED  BY <1>1, <1>8, <1>9, InductionUpTo
<1>11. m[1] = Left(0)
  <2>1. N - N = 0 /\ At(0) = 0
    BY <1>1, <1>3
  <2> QED  BY <1>10, <2>1
<1>12. Left(0) = x
  BY <1>1
<1> QED  BY <1>7, <1>11, <1>12 DEF s

LEMMA ConcatFacts ==
  ASSUME NEW x \in Seq(Byte), NEW y \in Seq(Byte), NEW b \in Byte
  PROVE  /\ x \o <<>> = x
         /\ x \o y \in Seq(Byte)
         /\ x \o Append(y, b) = Append(x \o y, b)
  OBVIOUS

(***************************************************************************)
(* The strings the automaton lets through: what is open in the body of a   *)
(* literal is a quote and a string with its quotes doubled, and at a quote *)
(* that may close it, a whole literal.                                     *)
(***************************************************************************)
OpensString(bytes) == \E y \in Seq(Byte) : bytes = <<"'">> \o Doubled(y)
IsString(bytes)    == \E y \in Seq(Byte) : bytes = Quote(y)

LEMMA UnquoteQuote ==
  ASSUME NEW y \in Seq(Byte)
  PROVE  /\ Quote(y) \in Seq(Byte)
         /\ Quote(y) # <<>>
         /\ Unquote(Quote(y)) = y
<1> DEFINE c == "'"
           D == Doubled(y)
           q == <<c>> \o D \o <<c>>
<1>1. c \in Byte
  BY DEF Byte
<1>2. D \in Seq(Byte) /\ Quote(y) = q /\ Undoubled(D) = y
  BY DoubledFacts, UndoubledDoubled DEF Quote
<1>3. Unquote(q) = Undoubled(IF Len(q) >= 2 /\ q[1] = c /\ Last(q) = c
                             THEN SubSeq(q, 2, Len(q) - 1) ELSE q)
  BY DEF Unquote
<1> HIDE DEF c, D
<1>4. q \in Seq(Byte) /\ Len(q) = Len(D) + 2 /\ Len(D) \in Nat
  BY <1>1, <1>2
<1>5. q[1] = c /\ q[Len(q)] = c /\ \A i \in 1 .. Len(D) : q[i + 1] = D[i]
  BY <1>1, <1>2
<1>6. Last(q) = c
  BY <1>5 DEF Last
<1>7. SubSeq(q, 2, Len(q) - 1) = D
  BY <1>1, <1>2
<1>8. Len(q) >= 2 /\ q # <<>>
  BY <1>4
<1> HIDE DEF q
<1>9. Unquote(q) = Undoubled(D)
  BY <1>3, <1>5, <1>6, <1>7, <1>8
<1> QED  BY <1>2, <1>4, <1>8, <1>9

LEMMA StringOpens == OpensString(<<"'">>)
<1> DEFINE c == "'"
<1>1. c \in Byte
  BY DEF Byte
<1> HIDE DEF c
<1>2. <<c>> = <<c>> \o <<>>
  BY <1>1
<1>3. <<c>> = <<c>> \o Doubled(<<>>) /\ <<>> \in Seq(Byte)
  BY <1>2, DoubledFacts
<1> QED  BY <1>3 DEF OpensString, c

LEMMA StringGrows ==
  ASSUME NEW x, OpensString(x), NEW b \in Byte
  PROVE  /\ x \in Seq(Byte)
         /\ b # "'" => OpensString(Append(x, b))
         /\ b = "'" => IsString(Append(x, b))
<1> DEFINE c == "'"
<1>1. PICK y \in Seq(Byte) : x = <<c>> \o Doubled(y)
  BY DEF OpensString
<1> DEFINE D == Doubled(y)
<1>2. D \in Seq(Byte) /\ c \in Byte /\ Append(y, b) \in Seq(Byte)
  <2>1. c \in Byte
    BY DEF Byte
  <2>2. D \in Seq(Byte)
    BY DoubledFacts
  <2> HIDE DEF c, D
  <2> QED  BY <2>1, <2>2
<1>3. b # c => Doubled(Append(y, b)) = D \o <<b>>
  BY DoubledFacts DEF Escaped
<1>4. Quote(y) = <<c>> \o D \o <<c>>
  BY DEF Quote
<1> HIDE DEF c, D
<1>5. /\ <<c>> \o D \in Seq(Byte)
      /\ Append(<<c>> \o D, b) = <<c>> \o (D \o <<b>>)
      /\ Append(<<c>> \o D, b) = <<c>> \o D \o <<b>>
  <2>1. <<c>> \in Seq(Byte) /\ <<c>> \o D \in Seq(Byte)
    BY <1>2
  <2>2. D \o <<b>> = Append(D, b)
    BY <1>2
  <2>3. Append(<<c>> \o D, b) = <<c>> \o (D \o <<b>>)
    <3>1. <<c>> \o Append(D, b) = Append(<<c>> \o D, b)
      BY <1>2, <2>1, ConcatFacts
    <3> QED  BY <2>2, <3>1
  <2> DEFINE e == <<c>> \o D
  <2>4. e \in Seq(Byte)
    BY <2>1
  <2> HIDE DEF e
  <2>5. Append(e, b) = e \o <<b>>
    BY <2>4
  <2> QED  BY <2>1, <2>3, <2>5 DEF e
<1>6. x = <<c>> \o D
  BY <1>1 DEF D
<1>7. b # c => Append(x, b) = <<c>> \o Doubled(Append(y, b))
  BY <1>3, <1>5, <1>6
<1>8. b = c => Append(x, b) = Quote(y)
  BY <1>4, <1>5, <1>6
<1> QED  BY <1>2, <1>5, <1>6, <1>7, <1>8 DEF OpensString, IsString, c

LEMMA StringReopens ==
  ASSUME NEW x, IsString(x)
  PROVE  /\ x \in Seq(Byte)
         /\ x # <<>>
         /\ Quote(Unquote(x)) = x
         /\ OpensString(Append(x, "'"))
<1> DEFINE c == "'"
<1>1. PICK y \in Seq(Byte) : x = Quote(y)
  BY DEF IsString
<1> DEFINE D == Doubled(y)
<1>2. D \in Seq(Byte) /\ c \in Byte /\ Append(y, c) \in Seq(Byte)
  <2>1. c \in Byte
    BY DEF Byte
  <2>2. D \in Seq(Byte)
    BY DoubledFacts
  <2> HIDE DEF c, D
  <2> QED  BY <2>1, <2>2
<1>3. Doubled(Append(y, c)) = D \o <<c, c>>
  BY <1>2, DoubledFacts DEF Escaped
<1>4. Quote(y) = <<c>> \o D \o <<c>>
  BY DEF Quote
<1> HIDE DEF c, D
<1>5. Append(<<c>> \o D \o <<c>>, c) = <<c>> \o (D \o <<c, c>>)
  BY <1>2
<1>6. Append(x, c) = <<c>> \o Doubled(Append(y, c))
  BY <1>1, <1>3, <1>4, <1>5
<1> QED  BY <1>1, <1>2, <1>6, UnquoteQuote DEF OpensString, c

-----------------------------------------------------------------------------
LEMMA BytesOfType ==
  ASSUME NEW seg \in SegType
  PROVE  BytesOf(seg) \in Seq(Byte)
<1>1. /\ Len(seg) \in Nat /\ DOMAIN seg = 1 .. Len(seg)
      /\ \A i \in 1 .. Len(seg) : seg[i] \in [byte : Byte, at : State]
  BY LenProperties, ElementOfSeq DEF SegType
<1>2. BytesOf(seg) \in [1 .. Len(seg) -> Byte]
  BY <1>1 DEF BytesOf
<1> QED
  BY <1>1, <1>2, SeqDef

LEMMA BytesOfAppend ==
  ASSUME NEW seg \in SegType, NEW b \in Byte, NEW at \in State
  PROVE  /\ Append(seg, Read(b, at)) \in SegType
         /\ BytesOf(Append(seg, Read(b, at))) = Append(BytesOf(seg), b)
<1>1. Append(seg, Read(b, at)) \in SegType
  BY DEF SegType, Read
<1> DEFINE long == Append(seg, Read(b, at))
<1>2. BytesOf(long) \in Seq(Byte) /\ Append(BytesOf(seg), b) \in Seq(Byte)
  BY <1>1, BytesOfType
<1>3. Len(BytesOf(long)) = Len(seg) + 1 /\ Len(Append(BytesOf(seg), b)) = Len(seg) + 1
  BY <1>1, BytesOfType DEF BytesOf, SegType, Read
<1>4. \A i \in 1 .. Len(seg) + 1 : BytesOf(long)[i] = Append(BytesOf(seg), b)[i]
  BY <1>1, BytesOfType DEF BytesOf, SegType, Read
<1> QED
  BY <1>1, <1>2, <1>3, <1>4

LEMMA BytesOfOne ==
  ASSUME NEW b \in Byte, NEW at \in State
  PROVE  <<Read(b, at)>> \in SegType /\ BytesOf(<<Read(b, at)>>) = <<b>>
  BY DEF SegType, BytesOf, Read

LEMMA BytesOfNone == <<>> \in SegType /\ BytesOf(<<>>) = <<>>
  BY DEF SegType, BytesOf

LEMMA MaxExists ==
  ASSUME NEW M \in Nat, NEW S, S \subseteq 1 .. M, S # {}
  PROVE  Max(S) \in S /\ \A y \in S : Max(S) >= y
<1> DEFINE T == {n \in Nat : \E x \in S : n = M - x}
<1>1. T # {} /\ T \subseteq Nat
  <2>1. PICK x \in S : TRUE
    OBVIOUS
  <2>2. M - x \in T
    BY <2>1
  <2> QED  BY <2>2
<1>2. PICK n \in T : \A y \in T : n <= y
  <2> HIDE DEF T
  <2> QED  BY <1>1, NatHasLeast
<1>3. PICK x \in S : n = M - x
  BY <1>2
<1>4. ASSUME NEW y \in S PROVE x >= y
  <2>1. M - y \in T
    OBVIOUS
  <2>2. n <= M - y
    BY <1>2, <2>1
  <2> QED  BY <1>3, <2>2
<1> QED  BY <1>4 DEF Max

(***************************************************************************)
(* The munch of a gap takes at least one byte and never more than there    *)
(* are, and a token of several bytes holds no delimiter.                   *)
(***************************************************************************)
LEMMA MunchLengthFacts ==
  ASSUME NEW seg \in SegType, NEW i \in 1 .. Len(seg)
  PROVE  /\ MunchLength(seg, i) \in Nat
         /\ MunchLength(seg, i) >= 1
         /\ i + MunchLength(seg, i) <= Len(seg) + 1
         /\ MunchLength(seg, i) # 1 =>
              \A j \in i .. i + MunchLength(seg, i) - 1 : seg[j].byte \notin Delims
<1> DEFINE S == {n \in 1 .. Len(seg) - i + 1 :
                   n = 1 \/ \A j \in i .. i + n - 1 : seg[j].byte \in IdentTail}
<1>1. Len(seg) \in Nat
  BY DEF SegType
<1>2. CASE i < Len(seg) /\ TwoByteOp(seg[i].byte, seg[i + 1].byte)
  <2> DEFINE x == seg[i].byte
             y == seg[i + 1].byte
  <2>1. MunchLength(seg, i) = 2
    BY <1>2 DEF MunchLength, TwoByteOp, IdentStart, Lower
  <2>2. x \notin Delims /\ y \notin Delims
    BY <1>2 DEF TwoByteOp, Delims
  <2>3. \A j \in i .. i + 2 - 1 : j = i \/ j = i + 1
    BY <1>1
  <2>4. \A j \in i .. i + 2 - 1 : seg[j].byte \notin Delims
    BY <2>2, <2>3
  <2> QED  BY <1>1, <1>2, <2>1, <2>4
<1>3. CASE ~(i < Len(seg) /\ TwoByteOp(seg[i].byte, seg[i + 1].byte)) /\ seg[i].byte \in IdentStart
  <2>1. MunchLength(seg, i) = WordLength(seg, i)
    BY <1>3 DEF MunchLength
  <2>2. 1 \in S /\ S \subseteq 1 .. Len(seg) - i + 1 /\ Len(seg) - i + 1 \in Nat
    BY <1>1
  <2>3. WordLength(seg, i) = Max(S)
    BY DEF WordLength
  <2>4. Max(S) \in S
    <3> HIDE DEF S
    <3> QED  BY <2>2, MaxExists
  <2> DEFINE n == MunchLength(seg, i)
  <2>5. /\ n \in 1 .. Len(seg) - i + 1
        /\ n = 1 \/ \A j \in i .. i + n - 1 : seg[j].byte \in IdentTail
    BY <2>1, <2>3, <2>4
  <2> HIDE DEF n
  <2>6. n \in Nat /\ n >= 1 /\ i + n <= Len(seg) + 1
    BY <1>1, <2>5
  <2>7. n # 1 => \A j \in i .. i + n - 1 : seg[j].byte \notin Delims
    BY <2>5, ClassesPlain
  <2> QED  BY <2>6, <2>7 DEF n
<1>4. CASE /\ ~(i < Len(seg) /\ TwoByteOp(seg[i].byte, seg[i + 1].byte))
           /\ seg[i].byte \notin IdentStart
  BY <1>1, <1>4 DEF MunchLength
<1> QED  BY <1>2, <1>3, <1>4

(***************************************************************************)
(* flush_gap as a walk over the positions of the gap.                      *)
(***************************************************************************)
Ahead(seg, i) == IF seg[i].byte \in WS THEN i + 1 ELSE i + MunchLength(seg, i)

TokenAt(seg, anchor, i) ==
  GapToken(BytesOf(SubSeq(seg, i, i + MunchLength(seg, i) - 1)), anchor, seg[i].at)

TokensAt(seg, anchor, i) ==
  IF seg[i].byte \in WS THEN <<>> ELSE <<TokenAt(seg, anchor, i)>>

GapOf(anchor) == [bytes : Seq(Byte), anchor : {anchor}, at : State]

FlushRun(m, seg, anchor) ==
  /\ m \in [1 .. Len(seg) + 1 -> Seq(GapOf(anchor))]
  /\ m[Len(seg) + 1] = <<>>
  /\ \A i \in 1 .. Len(seg) : m[i] = TokensAt(seg, anchor, i) \o m[Ahead(seg, i)]

LEMMA AheadType ==
  ASSUME NEW seg \in SegType, NEW i \in 1 .. Len(seg)
  PROVE  Ahead(seg, i) \in i + 1 .. Len(seg) + 1
<1>1. Len(seg) \in Nat
  BY DEF SegType
<1> QED  BY <1>1, MunchLengthFacts DEF Ahead

LEMMA TokensAtType ==
  ASSUME NEW seg \in SegType, NEW anchor, NEW i \in 1 .. Len(seg)
  PROVE  /\ TokenAt(seg, anchor, i) \in GapOf(anchor)
         /\ TokensAt(seg, anchor, i) \in Seq(GapOf(anchor))
<1>1. /\ Len(seg) \in Nat /\ seg[i].at \in State
      /\ SubSeq(seg, i, i + MunchLength(seg, i) - 1) \in SegType
  <2> DEFINE n == i + MunchLength(seg, i) - 1
  <2>1. n \in Int /\ i <= n /\ n <= Len(seg) /\ Len(seg) \in Nat
    <3>1. Len(seg) \in Nat
      BY DEF SegType
    <3> QED  BY <3>1, MunchLengthFacts
  <2> HIDE DEF n
  <2>2. SubSeq(seg, i, n) \in SegType
    <3> DEFINE R == [byte : Byte, at : State]
    <3>1. \A j \in i .. n : j \in 1 .. Len(seg)
      BY <2>1
    <3>2. seg \in Seq(R)
      BY DEF SegType
    <3> HIDE DEF R
    <3>3. \A j \in i .. n : seg[j] \in R
      BY <3>1, <3>2
    <3>4. SubSeq(seg, i, n) \in Seq(R)
      BY <2>1, <3>3, SubSeqProperties
    <3> QED  BY <3>4 DEF R, SegType
  <2>3. seg[i].at \in State
    <3>1. seg[i] \in [byte : Byte, at : State]
      BY ElementOfSeq DEF SegType
    <3> QED  BY <3>1
  <2> QED  BY <2>1, <2>2, <2>3 DEF n
<1>2. TokenAt(seg, anchor, i) \in GapOf(anchor)
  BY <1>1, BytesOfType DEF TokenAt, GapOf, GapToken
<1> QED  BY <1>2 DEF TokensAt

LEMMA FlushGapRuns ==
  ASSUME NEW seg \in SegType, NEW anchor
  PROVE  \E m : FlushRun(m, seg, anchor) /\ FlushGap(seg, anchor) = m[1]
<1> DEFINE N    == Len(seg)
           put  == [i \in 1 .. N |-> TokensAt(seg, anchor, i)]
           skip == [i \in 1 .. N |-> Ahead(seg, i)]
           Run(h) == h = [i \in 1 .. N + 1 |->
                            CASE i > N -> <<>>
                              [] i \in DOMAIN seg /\ seg[i].byte \in WS -> h[i + 1]
                              [] OTHER ->
                                   LET n == MunchLength(seg, i)
                                   IN  <<GapToken(BytesOf(SubSeq(seg, i, i + n - 1)), anchor,
                                                  seg[i].at)>> \o h[i + n]]
           munch == CHOOSE h : Run(h)
           Put(h, i) == IF i = N + 1 THEN <<>> ELSE TokensAt(seg, anchor, i) \o h[Ahead(seg, i)]
<1>1. N \in Nat /\ DOMAIN seg = 1 .. N
  BY DEF SegType
<1>2. put \in [1 .. N -> Seq(GapOf(anchor))] /\ Skips(N, skip)
  <2>1. \A i \in 1 .. N : Ahead(seg, i) \in Nat
    BY <1>1, AheadType
  <2>2. \A i \in 1 .. N : skip[i] \in i + 1 .. N + 1
    BY AheadType
  <2> QED BY <2>1, <2>2, TokensAtType DEF Skips
<1>3. \A i \in 1 .. N : put[i] = TokensAt(seg, anchor, i) /\ skip[i] = Ahead(seg, i)
  OBVIOUS
<1> HIDE DEF put, skip
<1>4. PICK m : m \in [1 .. N + 1 -> Seq(GapOf(anchor))] /\ Unrolls(m, N, put, skip)
  BY <1>1, <1>2, UnrollExists
<1> DEFINE Value(h, i) ==
             CASE i > N -> <<>>
               [] i \in DOMAIN seg /\ seg[i].byte \in WS -> h[i + 1]
               [] OTHER ->
                    LET n == MunchLength(seg, i)
                    IN  <<GapToken(BytesOf(SubSeq(seg, i, i + n - 1)), anchor,
                                   seg[i].at)>> \o h[i + n]
\* Both readings of the definition at a position inside the gap.
<1>5. ASSUME NEW h, NEW i \in 1 .. N
      PROVE  Value(h, i) = IF seg[i].byte \in WS THEN h[Ahead(seg, i)]
                           ELSE <<TokenAt(seg, anchor, i)>> \o h[Ahead(seg, i)]
  <2>1. ~(i > N) /\ i \in DOMAIN seg
    BY <1>1
  <2> HIDE DEF N
  <2>2. CASE seg[i].byte \in WS
    BY <2>1, <2>2 DEF Ahead
  <2>3. CASE seg[i].byte \notin WS
    BY <2>1, <2>3 DEF Ahead, TokenAt
  <2> QED  BY <2>2, <2>3
<1>6. \A h : Value(h, N + 1) = <<>>
  BY <1>1
<1>7. ASSUME NEW i \in 1 .. N + 1 PROVE m[i] = Value(m, i)
  <2>1. CASE i = N + 1
    BY <1>4, <1>6, <2>1 DEF Unrolls
  <2>2. CASE i # N + 1
    <3>1. i \in 1 .. N
      BY <1>1, <2>2
    <3>2. m[i] = TokensAt(seg, anchor, i) \o m[Ahead(seg, i)]
      BY <1>3, <1>4, <3>1 DEF Unrolls
    <3>3. Ahead(seg, i) \in 1 .. N + 1
      BY <1>1, <3>1, AheadType
    <3>4. m[Ahead(seg, i)] \in Seq(GapOf(anchor))
      BY <1>4, <3>3
    <3>5. <<>> \o m[Ahead(seg, i)] = m[Ahead(seg, i)]
      BY <3>4
    <3>6. m[i] = IF seg[i].byte \in WS THEN m[Ahead(seg, i)]
                 ELSE <<TokenAt(seg, anchor, i)>> \o m[Ahead(seg, i)]
      BY <3>2, <3>5 DEF TokensAt
    <3> HIDE DEF Value, N
    <3> QED  BY <1>5, <3>1, <3>6
  <2> QED  BY <2>1, <2>2
<1>8. Run(m)
  <2> DEFINE same == [i \in 1 .. N + 1 |-> Value(m, i)]
  <2>1. m = same
    <3> HIDE DEF Value, N
    <3> QED  BY <1>4, <1>7
  <2> QED  BY <2>1
<1>9. Run(munch)
  BY <1>8
<1>10. FlushGap(seg, anchor) = munch[1]
  BY DEF FlushGap
<1> HIDE DEF munch
<1>11. ASSUME NEW i \in 1 .. N + 1 PROVE munch[i] = Value(munch, i)
  BY <1>9
<1> HIDE DEF Value, Run
<1> DEFINE X == {i \in 1 .. N + 1 : munch[i] = m[i]}
<1>12. N + 1 \in X
  <2>1. N + 1 \in 1 .. N + 1
    BY <1>1
  <2> QED  BY <1>6, <1>7, <1>11, <2>1
<1>13. ASSUME NEW i \in 1 .. N, \A j \in i + 1 .. N + 1 : j \in X PROVE i \in X
  <2>1. Ahead(seg, i) \in i + 1 .. N + 1 /\ i \in 1 .. N + 1
    BY <1>1, AheadType
  <2>2. munch[Ahead(seg, i)] = m[Ahead(seg, i)]
    BY <1>13, <2>1
  <2> HIDE DEF N
  <2>3. munch[i] = IF seg[i].byte \in WS THEN munch[Ahead(seg, i)]
                   ELSE <<TokenAt(seg, anchor, i)>> \o munch[Ahead(seg, i)]
    BY <1>5, <1>11, <2>1
  <2>4. m[i] = IF seg[i].byte \in WS THEN m[Ahead(seg, i)]
               ELSE <<TokenAt(seg, anchor, i)>> \o m[Ahead(seg, i)]
    BY <1>5, <1>7, <2>1
  <2> QED  BY <2>1, <2>2, <2>3, <2>4
<1>14. munch[1] = m[1]
  <2>1. 1 \in 1 .. N + 1
    BY <1>1
  <2> HIDE DEF X
  <2>2. 1 .. N + 1 \subseteq X
    BY <1>1, <1>12, <1>13, InductionDownFrom
  <2> QED  BY <2>1, <2>2 DEF X
<1>15. FlushRun(m, seg, anchor)
  BY <1>3, <1>4 DEF FlushRun, Unrolls
<1> QED  BY <1>10, <1>14, <1>15

LEMMA FlushGapType ==
  ASSUME NEW seg \in SegType, NEW anchor
  PROVE  /\ FlushGap(seg, anchor) \in Seq(GapOf(anchor))
         /\ anchor \in State => FlushGap(seg, anchor) \in Seq(GapTokenType)
<1>1. 1 \in 1 .. Len(seg) + 1
  BY DEF SegType
<1>2. FlushGap(seg, anchor) \in Seq(GapOf(anchor))
  <2>1. PICK m : FlushRun(m, seg, anchor) /\ FlushGap(seg, anchor) = m[1]
    BY FlushGapRuns
  <2> QED  BY <1>1, <2>1 DEF FlushRun
<1>3. anchor \in State => GapOf(anchor) \subseteq GapTokenType
  BY DEF GapOf, GapTokenType
<1> DEFINE R == GapOf(anchor)
<1> HIDE DEF R
<1> QED  BY <1>2, <1>3 DEF R

LEMMA GapTokenBytes ==
  ASSUME NEW seg \in SegType, NEW anchor \in State, NEW i \in 1 .. Len(seg)
  PROVE  LET t == TokenAt(seg, anchor, i)
         IN  /\ t.bytes \in Seq(Byte)
             /\ Len(t.bytes) = MunchLength(seg, i)
             /\ t.bytes[1] = seg[i].byte
<1> DEFINE n    == MunchLength(seg, i)
           cut  == SubSeq(seg, i, i + n - 1)
           R    == [byte : Byte, at : State]
<1>1. n \in Nat /\ n >= 1 /\ i + n <= Len(seg) + 1 /\ Len(seg) \in Nat
  <2>1. Len(seg) \in Nat
    BY DEF SegType
  <2> QED  BY <2>1, MunchLengthFacts
<1> HIDE DEF n
<1>2. seg \in Seq(R)
  BY DEF SegType
<1> HIDE DEF R
<1>3. \A j \in i .. i + n - 1 : j \in 1 .. Len(seg)
  BY <1>1
<1>4. \A j \in i .. i + n - 1 : seg[j] \in R
  BY <1>2, <1>3
<1>5. i + n - 1 \in Int /\ i \in Int /\ i <= i + n - 1 /\ (i + n - 1) - i + 1 = n /\ 1 \in 1 .. n
      /\ i + 1 - 1 = i
  BY <1>1
<1>6. cut \in Seq(R) /\ Len(cut) = n /\ cut[1] = seg[i]
  BY <1>4, <1>5, SubSeqProperties
<1> HIDE DEF cut
<1>7. BytesOf(cut) \in Seq(Byte)
  BY <1>6, BytesOfType DEF SegType, R
<1>8. DOMAIN cut = 1 .. n
  BY <1>6
<1>9. Len(BytesOf(cut)) = n /\ BytesOf(cut)[1] = seg[i].byte
  BY <1>1, <1>5, <1>6, <1>7, <1>8, LenProperties DEF BytesOf
<1>10. TokenAt(seg, anchor, i).bytes = BytesOf(cut)
  BY DEF TokenAt, GapToken, cut, n
<1> QED  BY <1>7, <1>9, <1>10 DEF n
=============================================================================
