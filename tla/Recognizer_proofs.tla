-------------------------- MODULE Recognizer_proofs --------------------------
(***************************************************************************)
(* Safety of the byte recognizer, for streams of any length and stacks of  *)
(* any depth.                                                              *)
(***************************************************************************)
EXTENDS Recognizer, Pda_proofs, SequenceTheorems

\* In no configuration does a byte ask for a pop of an empty stack.
LEMMA PopsAlwaysFind ==
  ASSUME NEW p \in PdaType
  PROVE  PopsFindAFrame(p)
<1> SUFFICES ASSUME NEW b \in Byte, Step(p.state, StackTop(p.stack), b).kind = "pop"
             PROVE  p.stack # <<>>
  BY DEF PopsFindAFrame
<1>1. p.state \in State /\ p.stack \in Seq(Frame)
  BY DEF PdaType
<1> QED
  BY <1>1, StepWellFormed, StackTopType DEF WellFormed

\* The recognizer's fields keep their types, and wherever the automaton stands
\* a byte that pops finds a frame to pop (pda.rs 1105-1110).
THEOREM RecognizerTypeInvariant == Spec => []TypeOK
<1>1. PdaNew \in PdaType /\ Offered("none", TRUE) \in [byte : Byte \cup {"none", "eos"}, ok : BOOLEAN]
  BY Targets DEF PdaNew, PdaType, Offered, EnvelopeStates
<1>2. Init => TypeOK
  BY <1>1, PopsAlwaysFind DEF Init, TypeOK
<1>3. TypeOK /\ [Next]_vars => TypeOK'
  <2> SUFFICES ASSUME TypeOK, [Next]_vars PROVE TypeOK'
    OBVIOUS
  <2> USE DEF TypeOK
  <2>1. ASSUME NEW b \in Byte, AcceptByte(b)
        PROVE  TypeOK'
    BY <2>1, AdvanceType, PopsAlwaysFind DEF AcceptByte, Offered
  <2>2. ASSUME NEW b \in Byte, RejectByte(b)
        PROVE  TypeOK'
    BY <2>2 DEF RejectByte, Offered
  <2>3. CASE SignalEos
    BY <2>3 DEF SignalEos, Offered, IsAccepting
  <2>4. CASE Reset
    BY <2>4, <1>1, PopsAlwaysFind DEF Reset
  <2>5. CASE UNCHANGED vars
    BY <2>5 DEF vars
  <2> QED
    BY <2>1, <2>2, <2>3, <2>4, <2>5 DEF Next
<1> QED
  BY <1>2, <1>3, PTL DEF Spec

(***************************************************************************)
(* From where a step may arrive at a state the scope rules speak of, and   *)
(* what it may push.                                                       *)
(***************************************************************************)
ArrivesInScope(s, top, o) ==
  /\ o.kind = "next" =>
       /\ o.to = "ExpectValue" => s = "ExpectValue"
       /\ o.to = "InMultiplicity" => top = "Bracket"
       /\ o.to \in {"Start", "ExpectBraceBinder", "AfterBraceOpen"} => s = o.to
       /\ o.to \in StatementStates =>
            s \in StatementStates \/ (top = "Brace" /\ o.to = "BlockStmtClose")
       /\ o.to \in SourceStates \cup {"ExpectSource"} =>
            s \in SourceStates \cup {"ExpectSource", "Start"} \cup StatementStates
  /\ o.kind = "push" =>
       \/ o.frame = "Brace" /\ s = "Start" /\ o.to = "AfterBraceOpen"
       \/ o.frame = "BraceLambda" /\ o.to = "ExpectBraceBinder"
       \/ o.frame \in {"Paren", "Bracket"} /\ o.to = "ExpectValue"
  /\ o.kind = "pop" => o.to = "AfterValue"

\* The states ArrivesInScope watches for, as one list.
Watched == {"ExpectValue", "InMultiplicity", "Start", "ExpectBraceBinder",
            "ExpectSource"} \cup StatementStates \cup SourceStates

LEMMA UnwatchedNext ==
  ASSUME NEW s, NEW top, NEW t, t \notin Watched
  PROVE  ArrivesInScope(s, top, StepNext(t))
  BY DEF ArrivesInScope, StepNext, Watched, StatementStates

LEMMA DeadArrives ==
  ASSUME NEW s, NEW top
  PROVE  ArrivesInScope(s, top, StepDead)
  BY DEF ArrivesInScope, StepDead

LEMMA OpenArrives ==
  ASSUME NEW s, NEW top
  PROVE  /\ ArrivesInScope(s, top, StepPush("Paren", "ExpectValue"))
         /\ ArrivesInScope(s, top, StepPush("Bracket", "ExpectValue"))
         /\ ArrivesInScope(s, top, StepPush("BraceLambda", "ExpectBraceBinder"))
  BY DEF ArrivesInScope, StepPush

LEMMA CloseArrives ==
  ASSUME NEW s, NEW top, NEW b
  PROVE  ArrivesInScope(s, top, Close(top, b))
  BY DEF ArrivesInScope, Close, StepPop, StepDead

LEMMA AfterValueArrives ==
  ASSUME NEW s, NEW top, NEW b
  PROVE  ArrivesInScope(s, top, AfterValueStep(top, b))
<1>1. top = "Brace" => ArrivesInScope(s, top, StepNext("BlockStmtClose"))
  BY DEF ArrivesInScope, StepNext, StatementStates, BlockStates, SourceStates
<1> QED
  BY <1>1, UnwatchedNext, DeadArrives, OpenArrives, CloseArrives
  DEF AfterValueStep, Watched, StatementStates, BlockStates, LetStates,
      BinderStates, SourceStates

LEMMA ValuePositionArrives ==
  ASSUME NEW s \in State, NEW top, NEW b, NEW hub \in HubStates,
         hub = "ExpectValue" => s = "ExpectValue"
  PROVE  ArrivesInScope(s, top, ValuePosition(hub, top, b))
<1>1. hub = "ExpectValue" => ArrivesInScope(s, top, StepNext(hub))
  BY DEF ArrivesInScope, StepNext, StatementStates, BlockStates, SourceStates,
         LetStates, BinderStates
<1>2. top = "Bracket" => ArrivesInScope(s, top, StepNext("InMultiplicity"))
  BY DEF ArrivesInScope, StepNext, StatementStates, BlockStates, SourceStates,
         LetStates, BinderStates
<1> QED
  BY <1>1, <1>2, UnwatchedNext, DeadArrives, OpenArrives, CloseArrives
  DEF ValuePosition, Watched, StatementStates, BlockStates, LetStates,
      BinderStates, SourceStates, HubStates

LEMMA InSourceIdentArrives ==
  ASSUME NEW s \in SourceStates \cup LetStates, NEW top, NEW b
  PROVE  ArrivesInScope(s, top, InSourceIdentStep(b))
  BY DEF ArrivesInScope, InSourceIdentStep, StepNext, StepDead, StatementStates,
         BlockStates, SourceStates, LetStates, BinderStates

LEMMA StepArrives ==
  ASSUME NEW s \in State, NEW top, NEW b
  PROVE  ArrivesInScope(s, top, Step(s, top, b))
<1> USE UnwatchedNext, DeadArrives, OpenArrives, CloseArrives
<1>1. s \in EnvelopeStates => ArrivesInScope(s, top, EnvelopeStep(s, b))
  <2>1. s \in EnvelopeStates => ArrivesInScope(s, top, StepNext(s))
    BY DEF ArrivesInScope, StepNext, EnvelopeStates, StatementStates, BlockStates,
           LetStates, BinderStates, SourceStates
  <2>2. s = "Start" =>
          /\ ArrivesInScope(s, top, StepNext("ExpectSource"))
          /\ ArrivesInScope(s, top, StepPush("Brace", "AfterBraceOpen"))
    BY DEF ArrivesInScope, StepNext, StepPush, StatementStates, BlockStates,
           LetStates, BinderStates, SourceStates
  <2>3. s = "ExpectSource" => ArrivesInScope(s, top, StepNext("InSourceIdent"))
    BY DEF ArrivesInScope, StepNext, StatementStates, BlockStates, LetStates,
           BinderStates, SourceStates
  <2>4. s = "AfterBraceOpen" => ArrivesInScope(s, top, StepNext("BlockStmt"))
    BY DEF ArrivesInScope, StepNext, StatementStates, BlockStates, LetStates,
           BinderStates, SourceStates
  <2> QED  BY <2>1, <2>2, <2>3, <2>4 DEF EnvelopeStep
<1>2. s \in BlockStates => ArrivesInScope(s, top, BlockStmtStep(s, top, b))
  <2>1. s \in BlockStates =>
          /\ ArrivesInScope(s, top, StepNext(s))
          /\ \A t \in {"LetL", "InSourceIdent", "AfterDollar"} :
               ArrivesInScope(s, top, StepNext(t))
    BY DEF ArrivesInScope, StepNext, StatementStates, BlockStates, LetStates,
           BinderStates, SourceStates
  <2> QED  BY <2>1 DEF BlockStmtStep
<1>3. s \in HubStates => ArrivesInScope(s, top, ValuePosition(s, top, b))
  BY ValuePositionArrives
<1>4. s \in SourceStates => ArrivesInScope(s, top, SourceStep(s, b))
  <2>1. s \in SourceStates =>
          /\ ArrivesInScope(s, top, StepNext("SourceColon2"))
          /\ ArrivesInScope(s, top, StepNext("InSourceIdent"))
    BY DEF ArrivesInScope, StepNext, StatementStates, BlockStates, LetStates,
           BinderStates, SourceStates
  <2>2. "AfterArrow" \notin Watched
    BY DEF Watched, StatementStates, BlockStates, LetStates, BinderStates, SourceStates
  <2> QED  BY <2>1, <2>2, InSourceIdentArrives DEF SourceStep
<1>5. s \in LetStates => ArrivesInScope(s, top, LetStep(s, b))
  <2>1. s \in LetStates =>
          \A t \in {"LetLe", "LetLet", "ExpectBinder"} : ArrivesInScope(s, top, StepNext(t))
    BY DEF ArrivesInScope, StepNext, StatementStates, BlockStates, LetStates,
           BinderStates, SourceStates
  <2> QED  BY <2>1, InSourceIdentArrives DEF LetStep
<1>6. s \in BinderStates => ArrivesInScope(s, top, BinderStep(s, b))
  BY DEF ArrivesInScope, BinderStep, BinderStates, StepNext, StepDead, StatementStates,
         BlockStates, LetStates, SourceStates
<1>7. ArrivesInScope(s, top, AfterValueStep(top, b))
  BY AfterValueArrives
<1>8. {"InNumberInt", "InNumberFrac", "InExp", "NeedFracDigit", "SawExp", "NeedExpDigit",
       "StrBody", "StrQuote", "InDateLit", "InMilestoneLit", "InIdent", "AfterDollar",
       "AfterDot", "AfterArrow", "AfterColonWs", "AfterColon2", "ExpectValueReq"}
        \cap Watched = {}
  BY DEF Watched, StatementStates, BlockStates, LetStates, BinderStates, SourceStates
<1>9. s \in NumberStates => ArrivesInScope(s, top, NumberStep(s, top, b))
  BY <1>7, <1>8 DEF NumberStep
<1>10. s \in StringStates => ArrivesInScope(s, top, StringStep(s, top, b))
  BY <1>7, <1>8 DEF StringStep
<1>11. s \in DateStates => ArrivesInScope(s, top, DateStep(s, top, b))
  BY <1>7, <1>8 DEF DateStep
<1>12. s \in NavStates => ArrivesInScope(s, top, NavStep(s, b))
  BY <1>8 DEF NavStep, NavStates
<1>13. s \in ColonStates => ArrivesInScope(s, top, ColonStep(s, b))
  BY <1>8 DEF ColonStep
<1>14. s \in OperatorStates => ArrivesInScope(s, top, OperatorStep(s, top, b))
  BY <1>8, ValuePositionArrives DEF OperatorStep, HubStates
<1>15. ArrivesInScope(s, top, IdentStep(top, b))
  BY <1>7, <1>8 DEF IdentStep
<1>16. ArrivesInScope(s, top, MultiplicityStep(top, b))
  BY DEF MultiplicityStep
<1>17. ArrivesInScope(s, top, TildeStep(b))
  BY <1>8 DEF TildeStep
<1>18. s = "ExpectBraceBinder" => ArrivesInScope(s, top, BraceBinderStep(b))
  <2>1. s = "ExpectBraceBinder" => ArrivesInScope(s, top, StepNext(s))
    BY DEF ArrivesInScope, StepNext, StatementStates, BlockStates, LetStates,
           BinderStates, SourceStates
  <2> QED  BY <1>8, <2>1 DEF BraceBinderStep
<1> QED
  BY <1>1, <1>2, <1>3, <1>4, <1>5, <1>6, <1>7, <1>9, <1>10, <1>11, <1>12,
     <1>13, <1>14, <1>15, <1>16, <1>17, <1>18, Dispatch DEF Dispatched

\* The scope rules say nothing of AfterValue.
LEMMA AfterValueFree ==
  /\ "AfterValue" \notin StatementStates \cup SourceStates
  /\ "ExpectValue" \notin StatementStates \cup SourceStates
  /\ "ExpectBraceBinder" \notin StatementStates \cup SourceStates
  /\ "AfterBraceOpen" \notin SourceStates
  BY DEF StatementStates, BlockStates, LetStates, BinderStates, SourceStates

\* An accepted byte keeps the scope rules, by the kind of its outcome.
LEMMA AcceptKeepsScope ==
  ASSUME TypeOK, ScopeOK, NEW b \in Byte, AcceptByte(b)
  PROVE  ScopeOK'
<1> DEFINE top == StackTop(pda.stack)
           o   == Step(pda.state, top, b)
<1> USE DEF ScopeOK, BraceOutermost, StatementsInBlock, SourceAtTop, HubOnItsFrame
<1>1. pda.state \in State /\ pda.stack \in Seq(Frame)
  BY DEF TypeOK, PdaType
<1>2. /\ ArrivesInScope(pda.state, top, o)
      /\ o \in Outcome /\ o # StepDead
      /\ o.kind = "pop" => pda.stack # <<>>
  BY <1>1, StepArrives, StepWellFormed, StackTopType DEF WellFormed, AcceptByte, Lives
<1>3. pda'.state = o.to /\ pda'.stack = Applied(pda.stack, o)
  BY DEF AcceptByte, Advance
<1> HIDE DEF top, o
<1>4. CASE o.kind = "next"
  <2>1. pda'.stack = pda.stack
    BY <1>3, <1>4 DEF Applied
  <2>2. top = "Brace" => pda.stack = <<"Brace">>
    BY <1>1 DEF top, StackTop, NoFrame
  <2>3. (pda'.state = "BlockStmtClose" /\ top = "Brace") => pda'.stack = <<"Brace">>
    BY <2>1, <2>2
  <2>4. StatementsInBlock'
    BY <1>2, <1>3, <1>4, <2>1, <2>3 DEF ArrivesInScope
  <2>5. SourceAtTop'
    BY <1>2, <1>3, <1>4, <2>1 DEF ArrivesInScope
  <2>6. HubOnItsFrame'
    BY <1>2, <1>3, <1>4, <2>1 DEF ArrivesInScope, top
  <2> QED  BY <2>1, <2>4, <2>5, <2>6
<1>5. CASE o.kind = "push"
  <2>1. o.frame \in Frame /\ pda'.stack = Append(pda.stack, o.frame)
    BY <1>2, <1>3, <1>5 DEF Applied, Outcome, StepDead
  <2>2. CASE o.frame = "Brace"
    <3>1. pda'.stack = <<"Brace">> /\ pda'.state = "AfterBraceOpen"
      <4>1. pda.state = "Start" /\ pda'.state = "AfterBraceOpen"
        BY <1>2, <1>3, <1>5, <2>2 DEF ArrivesInScope
      <4>2. pda.stack = <<>>
        BY <4>1
      <4> QED  BY <2>1, <2>2, <4>1, <4>2
    <3> QED  BY <3>1, AfterValueFree
  <2>3. CASE o.frame # "Brace"
    <3>1. BraceOutermost'
      BY <1>1, <2>1, <2>3
    <3>2. StackTop(pda'.stack) = o.frame
      BY <1>1, <2>1 DEF StackTop
    <3> QED
      BY <1>2, <1>3, <1>5, <2>3, <3>1, <3>2, AfterValueFree DEF ArrivesInScope
  <2> QED  BY <2>2, <2>3
<1>6. CASE o.kind = "pop"
  <2>1. pda'.state = "AfterValue" /\ pda'.stack = Front(pda.stack)
    BY <1>2, <1>3, <1>6 DEF ArrivesInScope, Applied
  <2>2. BraceOutermost'
    BY <1>1, <1>2, <1>6, <2>1 DEF Front
  <2> QED  BY <2>1, <2>2, AfterValueFree
<1> QED
  BY <1>2, <1>4, <1>5, <1>6 DEF Outcome

(***************************************************************************)
(* The rules of a block query never leak into an inner scope, however deep *)
(* the query nests and however long it is.                                 *)
(***************************************************************************)
THEOREM ScopeInvariant == Spec => []ScopeOK
<1> USE DEF ScopeOK, BraceOutermost, StatementsInBlock, SourceAtTop, HubOnItsFrame
<1>1. ASSUME pda = PdaNew PROVE ScopeOK
  BY <1>1 DEF PdaNew, StatementStates, BlockStates, LetStates, BinderStates, SourceStates
<1>2. TypeOK /\ ScopeOK /\ [Next]_vars => ScopeOK'
  <2> SUFFICES ASSUME TypeOK, ScopeOK, [Next]_vars PROVE ScopeOK'
    OBVIOUS
  <2>1. ASSUME NEW b \in Byte, AcceptByte(b)
        PROVE  ScopeOK'
    BY <2>1, AcceptKeepsScope
  <2>2. ASSUME UNCHANGED pda
        PROVE  ScopeOK'
    BY <2>2
  <2>3. CASE Reset
    <3>1. pda' = PdaNew
      BY <2>3 DEF Reset
    <3> QED
      BY <3>1 DEF PdaNew, StatementStates, BlockStates, LetStates, BinderStates, SourceStates
  <2> QED
    BY <2>1, <2>2, <2>3 DEF Next, RejectByte, SignalEos, vars
<1> QED
  BY <1>1, <1>2, RecognizerTypeInvariant, PTL DEF Spec, Init
-----------------------------------------------------------------------------
(***************************************************************************)
(* Before the first navigation the automaton is in the envelope, at the    *)
(* first statement, in a source or in a `let` with its binder, and none of *)
(* these is accepting.                                                     *)
(***************************************************************************)
BeforeNavigation == EnvelopeStates \cup {"BlockStmt"} \cup SourceStates
                      \cup LetStates \cup BinderStates

LEMMA SourceStaysBefore ==
  ASSUME NEW b, ~Navigates(b), InSourceIdentStep(b) # StepDead
  PROVE  InSourceIdentStep(b).to \in BeforeNavigation
  BY DEF InSourceIdentStep, Navigates, StepNext, StepDead, BeforeNavigation, SourceStates

LEMMA StaysBefore ==
  ASSUME NEW s \in BeforeNavigation, NEW top, NEW b, ~Navigates(b),
         Step(s, top, b) # StepDead
  PROVE  Step(s, top, b).to \in BeforeNavigation
<1>1. s \in State
  BY Targets DEF BeforeNavigation, BlockStates
<1>2. s \in EnvelopeStates /\ EnvelopeStep(s, b) # StepDead
        => EnvelopeStep(s, b).to \in BeforeNavigation
  BY DEF EnvelopeStep, EnvelopeStates, StepNext, StepPush, StepDead,
         BeforeNavigation, SourceStates
<1>3. s = "BlockStmt" /\ BlockStmtStep(s, top, b) # StepDead
        => BlockStmtStep(s, top, b).to \in BeforeNavigation
  BY DEF BlockStmtStep, Navigates, StepNext, StepDead, BeforeNavigation,
         SourceStates, LetStates
<1>4. s \in SourceStates /\ SourceStep(s, b) # StepDead
        => SourceStep(s, b).to \in BeforeNavigation
  BY SourceStaysBefore
  DEF SourceStep, Navigates, StepNext, StepDead, BeforeNavigation, SourceStates
<1>5. s \in LetStates /\ LetStep(s, b) # StepDead
        => LetStep(s, b).to \in BeforeNavigation
  BY SourceStaysBefore
  DEF LetStep, StepNext, StepDead, BeforeNavigation, LetStates, BinderStates
<1>6. s \in BinderStates /\ BinderStep(s, b) # StepDead
        => BinderStep(s, b).to \in BeforeNavigation
  BY DEF BinderStep, BinderStates, StepNext, StepDead, BeforeNavigation, EnvelopeStates
<1>7. Dispatched(s, top, b, Step(s, top, b))
  BY <1>1, Dispatch
<1> HIDE DEF BeforeNavigation
<1> QED
  BY <1>2, <1>3, <1>4, <1>5, <1>6, <1>7
  DEF Dispatched, BeforeNavigation, EnvelopeStates, BlockStates, SourceStates, LetStates,
      BinderStates, HubStates, NumberStates, StringStates, DateStates, NavStates,
      ColonStates, OperatorStates

LEMMA NotAcceptingBefore ==
  ASSUME NEW p, p.state \in BeforeNavigation
  PROVE  ~IsAccepting(p)
<1> DEFINE Accepts(o) == o = StepNext("AfterValue")
<1>1. p.state \in State
  BY Targets DEF BeforeNavigation, BlockStates
<1>2. p.state \in EnvelopeStates => ~Accepts(EnvelopeStep(p.state, " "))
  BY DEF EnvelopeStep, StepNext, WS, EnvelopeStates
<1>3. p.state = "BlockStmt" => ~Accepts(BlockStmtStep(p.state, NoFrame, " "))
  BY DEF BlockStmtStep, StepNext, WS
<1>4. ~Accepts(InSourceIdentStep(" "))
  BY DEF InSourceIdentStep, StepNext, StepDead, IdentTail, IdentStart, Lower, Digit
<1>5. ~Accepts(SourceStep(p.state, " "))
  BY <1>4 DEF SourceStep, StepNext, StepDead
<1>6. ~Accepts(LetStep(p.state, " "))
  BY <1>4 DEF LetStep, StepNext
<1>7. p.state \in BinderStates => ~Accepts(BinderStep(p.state, " "))
  BY DEF BinderStep, StepNext, StepDead, WS, BinderStates
<1>8. Dispatched(p.state, NoFrame, " ", Step(p.state, NoFrame, " "))
  BY <1>1, Dispatch
<1>9. ~Accepts(Step(p.state, NoFrame, " "))
  <2> HIDE DEF Accepts
  <2> QED
    BY <1>2, <1>3, <1>5, <1>6, <1>7, <1>8
    DEF Dispatched, BeforeNavigation, EnvelopeStates, BlockStates, SourceStates, LetStates,
        BinderStates, HubStates, NumberStates, StringStates, DateStates, NavStates,
        ColonStates, OperatorStates
<1> QED
  BY <1>9 DEF IsAccepting

BeforeInv == ~navigated => pda.state \in BeforeNavigation

(***************************************************************************)
(* A bare classpath is never a query, for streams of any length: to accept *)
(* is to have navigated (is_accepting, pda.rs 1120-1153).                  *)
(***************************************************************************)
THEOREM NoBareSourceInvariant == Spec => []NoBareSource
<1>1. ASSUME pda = PdaNew PROVE BeforeInv
  BY <1>1 DEF PdaNew, BeforeInv, BeforeNavigation, EnvelopeStates
<1>2. BeforeInv /\ [Next]_vars => BeforeInv'
  <2> SUFFICES ASSUME BeforeInv, [Next]_vars PROVE BeforeInv'
    OBVIOUS
  <2>1. ASSUME NEW b \in Byte, AcceptByte(b)
        PROVE  BeforeInv'
    BY <2>1, StaysBefore DEF AcceptByte, Lives, Advance, BeforeInv
  <2>2. CASE UNCHANGED <<pda, navigated>>
    BY <2>2 DEF BeforeInv
  <2>3. CASE Reset
    BY <2>3 DEF Reset, PdaNew, BeforeInv, BeforeNavigation, EnvelopeStates
  <2> QED
    BY <2>1, <2>2, <2>3 DEF Next, RejectByte, SignalEos, vars
<1>3. BeforeInv => NoBareSource
  BY NotAcceptingBefore DEF BeforeInv, NoBareSource
<1> QED
  BY <1>1, <1>2, <1>3, PTL DEF Spec, Init
-----------------------------------------------------------------------------
\* The refinement mapping of frames, and what a push and a pop make of it.
Openers(stack) == [i \in DOMAIN stack |-> OpenerOf(stack[i])]

Opening == {"(", "[", "{"}

LEMMA OpenersType ==
  ASSUME NEW stack \in Seq(Frame)
  PROVE  Openers(stack) \in Seq(Opening) /\ Len(Openers(stack)) = Len(stack)
<1>1. Len(stack) \in Nat /\ DOMAIN stack = 1 .. Len(stack)
  BY LenProperties
<1>2. Openers(stack) \in [1 .. Len(stack) -> Opening]
  BY <1>1 DEF Openers, OpenerOf, Opening
<1>3. Openers(stack) \in Seq(Opening)
  BY <1>1, <1>2, SeqDef
<1> QED
  BY <1>1, <1>2, <1>3, LenProperties

LEMMA OpenersPush ==
  ASSUME NEW stack \in Seq(Frame), NEW f \in Frame
  PROVE  Openers(Append(stack, f)) = Append(Openers(stack), OpenerOf(f))
<1> DEFINE long == Append(stack, f)
           more == Append(Openers(stack), OpenerOf(f))
<1>1. long \in Seq(Frame) /\ Len(long) = Len(stack) + 1 /\ OpenerOf(f) \in Opening
  BY DEF OpenerOf, Opening
<1>2. Openers(long) \in Seq(Opening) /\ Len(Openers(long)) = Len(stack) + 1
  BY <1>1, OpenersType
<1>3. more \in Seq(Opening) /\ Len(more) = Len(stack) + 1
  BY <1>1, OpenersType
<1>4. \A i \in 1 .. Len(stack) + 1 : Openers(long)[i] = more[i]
  BY <1>1, OpenersType DEF Openers
<1> QED
  BY <1>2, <1>3, <1>4, SeqEqual

LEMMA OpenersPop ==
  ASSUME NEW stack \in Seq(Frame), stack # <<>>
  PROVE  /\ Openers(Front(stack)) = Front(Openers(stack))
         /\ Openers(stack) # <<>>
         /\ Openers(stack)[Len(Openers(stack))] = OpenerOf(StackTop(stack))
<1> DEFINE less == Openers(Front(stack))
           rest == Front(Openers(stack))
<1>1. Len(stack) \in Nat \ {0} /\ DOMAIN stack = 1 .. Len(stack)
  OBVIOUS
<1>2. Openers(stack) \in Seq(Opening) /\ Len(Openers(stack)) = Len(stack)
  BY OpenersType
<1>3. /\ Front(stack) \in Seq(Frame)
      /\ Len(Front(stack)) = Len(stack) - 1
      /\ \A i \in 1 .. Len(stack) - 1 : Front(stack)[i] = stack[i]
  BY <1>1 DEF Front
<1>4. /\ rest \in Seq(Opening)
      /\ Len(rest) = Len(stack) - 1
      /\ \A i \in 1 .. Len(stack) - 1 : rest[i] = Openers(stack)[i]
  BY <1>1, <1>2 DEF Front
<1>5. less \in Seq(Opening) /\ Len(less) = Len(stack) - 1
  BY <1>3, OpenersType
<1>6. \A i \in 1 .. Len(stack) - 1 : less[i] = rest[i]
  <2>1. DOMAIN Front(stack) = 1 .. Len(stack) - 1
    BY <1>3
  <2> QED
    BY <1>1, <1>3, <1>4, <2>1 DEF Openers
<1>7. less = rest
  BY <1>4, <1>5, <1>6, SeqEqual
<1>8. Openers(stack) # <<>>
  BY <1>1, <1>2
<1>9. Openers(stack)[Len(Openers(stack))] = OpenerOf(StackTop(stack))
  BY <1>1, <1>2 DEF Openers, StackTop
<1> QED
  BY <1>7, <1>8, <1>9

LEMMA StrBodyStep ==
  ASSUME NEW top, NEW b
  PROVE  Step("StrBody", top, b) = StepNext(IF b = "'" THEN "StrQuote" ELSE "StrBody")
<1>1. Dispatched("StrBody", top, b, Step("StrBody", top, b))
  BY Dispatch, Targets DEF StringStates
<1>2. Step("StrBody", top, b) = StringStep("StrBody", top, b)
  BY <1>1
  DEF Dispatched, EnvelopeStates, BlockStates, HubStates, SourceStates, LetStates,
      BinderStates, NumberStates, DateStates, NavStates, ColonStates, OperatorStates
<1> QED
  BY <1>2 DEF StringStep

LEMMA Unquoted ==
  /\ QuotingOf("StrBody") = "text" /\ QuotingOf("StrQuote") = "quote"
  /\ \A t : t \notin StringStates => QuotingOf(t) = "code"
  /\ \A t : QuotingOf(t) = "text" <=> t = "StrBody"
  BY DEF QuotingOf, StringStates

LEMMA AcceptingOutsideText ==
  ASSUME NEW p \in PdaType, IsAccepting(p)
  PROVE  p.stack = <<>> /\ p.state # "StrBody"
<1>1. StepNext("StrBody") # StepNext("AfterValue")
  BY DEF StepNext
<1>2. Step("StrBody", NoFrame, " ") = StepNext("StrBody")
  BY StrBodyStep
<1> QED
  BY <1>1, <1>2 DEF IsAccepting

\* An accepted byte is a byte of text, a plain one, a quote, an opener or
\* the closer of the innermost delimiter.
LEMMA AcceptNests ==
  ASSUME TypeOK, MaxDepth \in Nat, NEW b \in Byte, AcceptByte(b)
  PROVE  D!Accept(b)
<1> DEFINE top == StackTop(pda.stack)
           o   == Step(pda.state, top, b)
<1>1. pda.state \in State /\ pda.stack \in Seq(Frame)
  BY DEF TypeOK, PdaType
<1>2. o \in Outcome /\ o # StepDead /\ (o.kind = "pop" => pda.stack # <<>>)
  BY <1>1, StepWellFormed, StackTopType DEF WellFormed, AcceptByte, Lives
<1>3. pda'.state = o.to /\ pda'.stack = Applied(pda.stack, o)
  BY DEF AcceptByte, Advance
<1>4. Len(pda'.stack) <= MaxDepth /\ input' = D!Offered(b, TRUE)
  BY DEF AcceptByte, D!Offered, Offered
<1>5. CASE pda.state = "StrBody"
  <2>1. o = StepNext(IF b = "'" THEN "StrQuote" ELSE "StrBody")
    BY <1>5, StrBodyStep
  <2>2. pda'.stack = pda.stack /\ pda'.state = IF b = "'" THEN "StrQuote" ELSE "StrBody"
    BY <1>3, <2>1 DEF StepNext, Applied
  <2> QED
    BY <1>4, <1>5, <2>2, Unquoted DEF D!Accept, D!Text, D!Quote
<1>6. CASE pda.state # "StrBody"
  <2>1. Quotes(b, top, o)
    BY <1>1, <1>6, StepQuotes
  <2>2. QuotingOf(pda.state) # "text"
    BY <1>6, Unquoted
  <2> HIDE DEF top, o
  <2>3. CASE o.kind = "next"
    <3>1. pda'.stack = pda.stack
      BY <1>3, <2>3 DEF Applied
    <3> QED
      BY <1>3, <1>4, <2>1, <2>2, <2>3, <3>1, Unquoted
      DEF Quotes, Delims, D!Accept, D!Plain, D!Quote, D!Delimiter, D!Opener
  <2>4. CASE o.kind = "push"
    <3>1. o.frame \in Frame /\ b = OpenerOf(o.frame) /\ o.to \notin StringStates
      BY <2>1, <2>4 DEF Quotes, OpenerOf, Frame, StringStates
    <3>2. pda'.stack = Append(pda.stack, o.frame)
      BY <1>3, <2>4 DEF Applied
    <3>3. Openers(pda'.stack) = Append(Openers(pda.stack), b)
      BY <1>1, <3>1, <3>2, OpenersPush
    <3>4. Len(Openers(pda.stack)) < MaxDepth
      BY <1>1, <1>4, <3>1, <3>2, OpenersType
    <3>5. b \in {"(", "[", "{"}
      BY <3>1 DEF OpenerOf
    <3>6. QuotingOf(pda'.state) = "code"
      BY <1>3, <3>1, Unquoted
    <3> QED
      BY <1>4, <2>2, <3>3, <3>4, <3>5, <3>6 DEF D!Accept, D!Open, D!Opener, Openers
  <2>5. CASE o.kind = "pop"
    <3>1. pda'.stack = Front(pda.stack) /\ pda.stack # <<>>
      BY <1>2, <1>3, <2>5 DEF Applied
    <3>2. /\ Openers(pda'.stack) = Front(Openers(pda.stack))
          /\ Openers(pda.stack) # <<>>
          /\ Openers(pda.stack)[Len(Openers(pda.stack))] = OpenerOf(top)
      BY <1>1, <3>1, OpenersPop DEF top
    <3>3. b \in {")", "]", "}"} /\ OpenerOf(top) = D!Partner(b)
      BY <2>1, <2>5 DEF Quotes, OpenerOf, D!Partner
    <3>4. QuotingOf(pda'.state) = "code"
      BY <1>3, <2>1, <2>5, Unquoted DEF Quotes, StringStates
    <3>5. Openers(pda'.stack) = D!Front(Openers(pda.stack))
      BY <3>2 DEF Front, D!Front
    <3> QED
      BY <1>4, <2>2, <3>2, <3>3, <3>4, <3>5 DEF D!Accept, D!Shut, Openers
  <2> QED
    BY <1>2, <2>3, <2>4, <2>5 DEF Outcome
<1> QED
  BY <1>5, <1>6

(***************************************************************************)
(* The recognizer implements the delimiter discipline: for streams of any  *)
(* length and nesting, what it accepts nests, literals hide delimiters,    *)
(* and a stream ends only with nothing open (close, pda.rs 485-497).       *)
(***************************************************************************)
THEOREM ImplementsDelimiters == Spec => RefinesDelimiters
<1>1. Init => D!Init
  <2>1. Openers(<<>>) = <<>>
    BY DEF Openers
  <2> QED
    BY <2>1, Unquoted DEF Init, PdaNew, D!Init, D!Offered, Offered, Openers, StringStates
<1>2. TypeOK /\ [Next]_vars => [D!Next]_(D!dvars)
  <2> SUFFICES ASSUME TypeOK, [Next]_vars PROVE [D!Next]_(D!dvars)
    OBVIOUS
  <2>1. ASSUME NEW b \in Byte, AcceptByte(b)
        PROVE  D!Next
    BY <2>1, AcceptNests, MaxDepthAssumption DEF D!Next
  <2>2. ASSUME NEW b \in Byte, RejectByte(b)
        PROVE  D!Next
    BY <2>2 DEF RejectByte, D!Next, D!Refuse, D!Offered, Offered
  <2>3. CASE SignalEos
    <3>1. CASE IsAccepting(pda)
      <4>1. pda.stack = <<>> /\ pda.state # "StrBody" /\ pda' = pda
        BY <2>3, <3>1, AcceptingOutsideText DEF TypeOK, SignalEos
      <4>2. input' = D!Offered("eos", TRUE)
        BY <2>3, <3>1 DEF SignalEos, D!Offered, Offered
      <4>3. Openers(pda.stack) = <<>>
        BY <4>1 DEF Openers
      <4> QED
        BY <4>1, <4>2, <4>3, Unquoted DEF D!Next, D!End, Openers
    <3>2. CASE ~IsAccepting(pda)
      BY <2>3, <3>2 DEF SignalEos, D!Next, D!Refuse, D!Offered, Offered, IsAccepting
    <3> QED
      BY <3>1, <3>2
  <2>4. CASE Reset
    <3>1. Openers(<<>>) = <<>>
      BY DEF Openers
    <3> QED
      BY <2>4, <3>1, Unquoted
      DEF Reset, PdaNew, D!Next, D!Restart, D!Offered, Offered, Openers, StringStates
  <2>5. CASE UNCHANGED vars
    BY <2>5 DEF vars, D!dvars
  <2> QED
    BY <2>1, <2>2, <2>3, <2>4, <2>5 DEF Next
<1> QED
  BY <1>1, <1>2, RecognizerTypeInvariant, PTL DEF Spec, D!Spec, RefinesDelimiters
-----------------------------------------------------------------------------
(***************************************************************************)
(* Completing a live prefix: what finishes the open token, and what closes *)
(* the open frames.                                                        *)
(***************************************************************************)
\* The states a frame may be closed from, whatever the frame, and after which
\* a stream with no frame left may end.
ClosableStates == {"AfterValue", "InIdent", "InNumberInt", "InNumberFrac", "InExp",
                   "StrQuote", "InDateLit", "InMilestoneLit"}

\* Which operator reads a byte in a named state, by its group.
LEMMA StepOfGroup ==
  ASSUME NEW s, NEW top, NEW b
  PROVE  /\ s \in EnvelopeStates => Step(s, top, b) = EnvelopeStep(s, b)
         /\ s \in BlockStates    => Step(s, top, b) = BlockStmtStep(s, top, b)
         /\ s \in HubStates      => Step(s, top, b) = ValuePosition(s, top, b)
         /\ s \in SourceStates   => Step(s, top, b) = SourceStep(s, b)
         /\ s \in LetStates      => Step(s, top, b) = LetStep(s, b)
         /\ s \in BinderStates   => Step(s, top, b) = BinderStep(s, b)
         /\ s \in NumberStates   => Step(s, top, b) = NumberStep(s, top, b)
         /\ s \in StringStates   => Step(s, top, b) = StringStep(s, top, b)
         /\ s \in DateStates     => Step(s, top, b) = DateStep(s, top, b)
         /\ s \in NavStates      => Step(s, top, b) = NavStep(s, b)
         /\ s \in ColonStates    => Step(s, top, b) = ColonStep(s, b)
         /\ s \in OperatorStates => Step(s, top, b) = OperatorStep(s, top, b)
         /\ Step("AfterValue", top, b) = AfterValueStep(top, b)
         /\ Step("InIdent", top, b) = IdentStep(top, b)
         /\ Step("InMultiplicity", top, b) = MultiplicityStep(top, b)
         /\ Step("ExpectBraceBinder", top, b) = BraceBinderStep(b)
         /\ Step("SawTilde", top, b) = TildeStep(b)
  BY DEF Step, EnvelopeStates, BlockStates, HubStates, SourceStates,
         LetStates, BinderStates, NumberStates, StringStates, DateStates, NavStates,
         ColonStates, OperatorStates

LEMMA CloserOfFrame ==
  ASSUME NEW f \in Frame
  PROVE  CloserOf(f) \in Closer /\ CloserOf(f) \in Byte /\ Close(f, CloserOf(f)) = StepPop("AfterValue")
  BY DEF CloserOf, Frame, Closer, Byte, Close, Matches

LEMMA AfterValueCloses ==
  ASSUME NEW f \in Frame
  PROVE  AfterValueStep(f, CloserOf(f)) = StepPop("AfterValue")
<1>1. CloserOf(f) \in Closer
  BY CloserOfFrame
<1>2. AfterValueStep(f, CloserOf(f)) = Close(f, CloserOf(f))
  BY <1>1 DEF AfterValueStep, Closer, WS
<1> QED  BY <1>2, CloserOfFrame

LEMMA ClosableCloses ==
  ASSUME NEW s \in ClosableStates, NEW f \in Frame
  PROVE  Step(s, f, CloserOf(f)) = StepPop("AfterValue")
<1> DEFINE b == CloserOf(f)
<1>1. b \in Closer /\ AfterValueStep(f, b) = StepPop("AfterValue")
  BY CloserOfFrame, AfterValueCloses
<1> HIDE DEF b
<1>2. b \notin IdentTail /\ b \notin DateChar /\ b \notin Lower /\ b \notin Digit
      /\ b \notin {".", "'", "e", "E", "+", "-"}
  BY <1>1 DEF Closer, IdentTail, IdentStart, Lower, Digit, DateChar
<1>3. CASE s \in NumberStates
  BY <1>1, <1>2, <1>3, StepOfGroup DEF NumberStep, ClosableStates, NumberStates, b
<1>4. CASE s \in StringStates
  BY <1>1, <1>2, <1>4, StepOfGroup DEF StringStep, ClosableStates, StringStates, b
<1>5. CASE s \in DateStates
  BY <1>1, <1>2, <1>5, StepOfGroup DEF DateStep, ClosableStates, DateStates, b
<1>6. CASE s \in {"AfterValue", "InIdent"}
  BY <1>1, <1>2, <1>6, StepOfGroup DEF IdentStep, b
<1> QED  BY <1>3, <1>4, <1>5, <1>6 DEF ClosableStates, NumberStates, StringStates, DateStates


\* After any state a frame may be closed from, a blank finishes the value: the
\* stream may end there once no frame is open.
LEMMA ClosableAccepts ==
  ASSUME NEW s \in ClosableStates
  PROVE  Step(s, NoFrame, " ") = StepNext("AfterValue")
<1> DEFINE b == " "
<1>1. b \in WS
  BY DEF WS
<1>2. b \notin IdentTail /\ b \notin DateChar /\ b \notin Lower /\ b \notin Digit
      /\ b \notin {".", "'", "e", "E", "+", "-"}
  BY DEF IdentTail, IdentStart, Lower, Digit, DateChar
<1>3. b \notin Closer /\ b \notin {"-", ">", "<", "=", "!", "&", "|", "+", "*", "/", ".", ":",
                                "(", "[", ",", ";"}
  BY DEF Closer
<1> HIDE DEF b
<1>4. AfterValueStep(NoFrame, b) = StepNext("AfterValue")
  BY <1>1, <1>3 DEF AfterValueStep
<1>5. Step(s, NoFrame, b) = StepNext("AfterValue")
  <2>1. CASE s \in NumberStates
    BY <1>2, <1>4, <2>1, StepOfGroup DEF NumberStep, ClosableStates, NumberStates
  <2>2. CASE s \in StringStates
    BY <1>2, <1>4, <2>2, StepOfGroup DEF StringStep, ClosableStates, StringStates
  <2>3. CASE s \in DateStates
    BY <1>2, <1>4, <2>3, StepOfGroup DEF DateStep, ClosableStates, DateStates
  <2>4. CASE s \in {"AfterValue", "InIdent"}
    BY <1>2, <1>4, <2>4, StepOfGroup DEF IdentStep
  <2> QED  BY <2>1, <2>2, <2>3, <2>4 DEF ClosableStates, NumberStates, StringStates, DateStates
<1> QED  BY <1>5 DEF b

LEMMA ClosingWordType ==
  ASSUME NEW k \in Seq(Frame)
  PROVE  /\ ClosingWord(k) \in Seq(Byte)
         /\ Len(ClosingWord(k)) = Len(k)
         /\ \A i \in 1 .. Len(k) : ClosingWord(k)[i] = CloserOf(k[Len(k) + 1 - i])
<1>1. Len(k) \in Nat /\ DOMAIN k = 1 .. Len(k)
  OBVIOUS
<1>2. \A i \in 1 .. Len(k) : Len(k) + 1 - i \in 1 .. Len(k)
  BY <1>1
<1>3. ClosingWord(k) \in [1 .. Len(k) -> Byte]
  BY <1>1, <1>2, CloserOfFrame DEF ClosingWord
<1> QED
  BY <1>1, <1>3 DEF ClosingWord

\* Closing the open frames, innermost first, empties the stack.
LEMMA ClosingWordCloses ==
  ASSUME NEW p \in PdaType,
         p.stack # <<>> => Step(p.state, StackTop(p.stack), CloserOf(StackTop(p.stack)))
                             = StepPop("AfterValue")
  PROVE  FeedAll(p, ClosingWord(p.stack)) =
           [state |-> IF p.stack = <<>> THEN p.state ELSE "AfterValue", stack |-> <<>>]
<1> DEFINE k == p.stack
           N == Len(k)
           w == ClosingWord(k)
           Left(n) == [state |-> IF n = 0 THEN p.state ELSE "AfterValue",
                       stack |-> SubSeq(k, 1, N - n)]
<1>1. k \in Seq(Frame) /\ N \in Nat /\ p.state \in State /\ p \in Configs
  BY DEF PdaType, Configs
<1>2. w \in Seq(Byte) /\ Len(w) = N /\ \A i \in 1 .. N : w[i] = CloserOf(k[N + 1 - i])
  BY <1>1, ClosingWordType
<1>3. PICK g : FeedTrace(g, p, w)
  BY <1>1, <1>2, FeedAllRuns
<1> DEFINE X == {n \in 0 .. N : g[n] = Left(n)}
<1>4. 0 \in X
  <2>1. SubSeq(k, 1, N - 0) = k
    BY <1>1
  <2>2. p = [state |-> p.state, stack |-> k]
    BY DEF PdaType
  <2> QED  BY <1>1, <1>3, <2>1, <2>2 DEF FeedTrace
<1>5. ASSUME NEW n \in 1 .. N, n - 1 \in X PROVE n \in X
  <2> DEFINE q == Left(n - 1)
             f == k[N + 1 - n]
  <2>1. /\ n - 1 \in 0 .. N /\ N - (n - 1) = N + 1 - n /\ N + 1 - n \in 1 .. N
        /\ N - n \in 0 .. N
    BY <1>1
  <2>2. q.stack \in Seq(Frame) /\ Len(q.stack) = N + 1 - n /\ q.stack # <<>>
    <3>1. q.stack = SubSeq(k, 1, N + 1 - n)
      BY <2>1
    <3> DEFINE m == N + 1 - n
    <3>2. m \in 1 .. N
      BY <2>1
    <3> HIDE DEF q, m
    <3>3. SubSeq(k, 1, m) \in Seq(Frame) /\ Len(SubSeq(k, 1, m)) = m
      BY <1>1, <3>2
    <3>4. q.stack \in Seq(Frame) /\ Len(q.stack) = m
      BY <3>1, <3>3 DEF m
    <3> QED  BY <1>1, <3>2, <3>4 DEF m
  <2>3. StackTop(q.stack) = f /\ f \in Frame
    BY <1>1, <2>1, <2>2 DEF StackTop
  <2>4. Front(q.stack) = SubSeq(k, 1, N - n)
    <3>1. Front(q.stack) = SubSeq(q.stack, 1, Len(q.stack) - 1)
      BY DEF Front
    <3> QED  BY <1>1, <2>1, <2>2, <3>1
  <2>5. Step(q.state, f, CloserOf(f)) = StepPop("AfterValue")
    <3>1. CASE n = 1
      <4>1. q.state = p.state /\ f = StackTop(k) /\ k # <<>>
        BY <1>1, <3>1 DEF StackTop
      <4> QED  BY <4>1
    <3>2. CASE n # 1
      <4>1. q.state = "AfterValue"
        BY <3>2
      <4> QED  BY <4>1, <2>3, ClosableCloses DEF ClosableStates
    <3> QED  BY <3>1, <3>2
  <2>6. g[n] = Fed(q, CloserOf(f))
    BY <1>2, <1>3, <1>5, <2>1 DEF FeedTrace
  <2>7. q # DeadPda
    BY <2>2 DEF DeadPda
  <2> HIDE DEF q, f
  <2>8. Fed(q, CloserOf(f)) = [state |-> "AfterValue", stack |-> Front(q.stack)]
    BY <2>3, <2>5, <2>7 DEF Fed, Lives, Advance, Applied, StepPop, StepDead
  <2>9. n \in 0 .. N /\ n # 0
    BY <1>1
  <2> QED  BY <2>4, <2>6, <2>8, <2>9
<1>6. N \in X
  <2>1. N \in 0 .. N
    BY <1>1
  <2> HIDE DEF X, N
  <2> QED  BY <1>1, <1>4, <1>5, <2>1, InductionUpTo
<1> HIDE DEF X
<1>7. FeedAll(p, w) = g[N]
  <2>1. N \in 0 .. Len(w) /\ SubSeq(w, 1, N) = w
    BY <1>1, <1>2
  <2> QED  BY <1>3, <2>1 DEF FeedTrace
<1>8. SubSeq(k, 1, N - N) = <<>> /\ (N = 0 <=> k = <<>>)
  BY <1>1
<1> QED  BY <1>6, <1>7, <1>8 DEF X

(***************************************************************************)
(* The states a word leads through when none of its bytes opens or closes  *)
(* a frame.                                                                *)
(***************************************************************************)
Passes(path, top, w) ==
  /\ path \in Seq(State)
  /\ Len(path) = Len(w) + 1
  /\ \A i \in 1 .. Len(w) : Step(path[i], top, w[i]) = StepNext(path[i + 1])

LEMMA PassesFeeds ==
  ASSUME NEW p \in PdaType, NEW w \in Seq(Byte), NEW path,
         Passes(path, StackTop(p.stack), w), path[1] = p.state
  PROVE  FeedAll(p, w) = [state |-> path[Len(path)], stack |-> p.stack]
<1> DEFINE N == Len(w)
           At(n) == [state |-> path[n + 1], stack |-> p.stack]
<1>1. N \in Nat /\ p \in Configs
  BY DEF Configs
<1>2. PICK g : FeedTrace(g, p, w)
  BY <1>1, FeedAllRuns
<1> DEFINE X == {n \in 0 .. N : g[n] = At(n)}
<1>3. 0 \in X
  <2>1. p = At(0)
    BY DEF PdaType
  <2> QED  BY <1>1, <1>2, <2>1 DEF FeedTrace
<1>4. ASSUME NEW n \in 1 .. N, n - 1 \in X PROVE n \in X
  <2> DEFINE q == At(n - 1)
  <2>1. (n - 1) + 1 = n /\ n \in 0 .. N
    BY <1>1
  <2>2. q.state = path[n] /\ q.stack = p.stack
    BY <2>1
  <2>3. Step(q.state, StackTop(q.stack), w[n]) = StepNext(path[n + 1])
    BY <2>2 DEF Passes
  <2>4. g[n] = Fed(q, w[n])
    BY <1>2, <1>4 DEF FeedTrace
  <2>5. q # DeadPda
    <3>1. path[n] \in State
      BY <1>1 DEF Passes
    <3>2. q \in PdaType
      BY <2>1, <3>1 DEF PdaType
    <3> QED  BY <3>2, DeadIsNoConfig
  <2> HIDE DEF q
  <2>6. Fed(q, w[n]) = [state |-> path[n + 1], stack |-> p.stack]
    BY <2>2, <2>3, <2>5 DEF Fed, Lives, Advance, Applied, StepNext, StepDead
  <2> QED  BY <2>1, <2>4, <2>6
<1>5. N \in X
  <2>1. N \in 0 .. N
    BY <1>1
  <2> HIDE DEF X, N
  <2> QED  BY <1>1, <1>3, <1>4, <2>1, InductionUpTo
<1>6. FeedAll(p, w) = g[N]
  <2>1. N \in 0 .. Len(w) /\ SubSeq(w, 1, N) = w
    BY <1>1
  <2> QED  BY <1>2, <2>1 DEF FeedTrace
<1>7. N + 1 = Len(path)
  BY DEF Passes
<1> QED  BY <1>5, <1>6, <1>7

\* The word finishes the token open in state s over a frame `top`: it leads,
\* leaving the frames alone, to a state a frame may be closed from.
Finishes(s, top, w) ==
  /\ w \in Seq(Byte)
  /\ \E path : Passes(path, top, w) /\ path[1] = s /\ path[Len(path)] \in ClosableStates

\* An identifier may start in every one of these states.
WordStates == HubStates \cup NavStates \cup ColonStates
         \cup {"ExpectBraceBinder", "SawTilde", "SawDash", "SawPipe", "SawGt", "SawLt"}

LEMMA ReadsWord ==
  ASSUME NEW s \in WordStates, NEW top
  PROVE  Step(s, top, "a") = StepNext("InIdent")
<1> DEFINE b == "a"
<1>1. b \in IdentStart /\ b \notin WS /\ b \notin Digit /\ b \notin Closer
      /\ b \notin {"-", ".", "'", "%", "$", "~", "(", "[", "{", "|", "!", "*", ">", "=", "&", ":"}
  BY DEF IdentStart, Lower, WS, Digit, Closer
<1> HIDE DEF b
<1>2. ValuePosition("ExpectValueReq", top, b) = StepNext("InIdent")
      /\ ValuePosition("ExpectValue", top, b) = StepNext("InIdent")
  BY <1>1 DEF ValuePosition
<1>3. Step(s, top, b) = StepNext("InIdent")
  <2>1. CASE s \in HubStates
    BY <1>2, <2>1, StepOfGroup DEF HubStates
  <2>2. CASE s \in NavStates
    BY <1>1, <2>2, StepOfGroup DEF NavStep
  <2>3. CASE s \in ColonStates
    BY <1>1, <2>3, StepOfGroup DEF ColonStep
  <2>4. CASE s = "ExpectBraceBinder"
    BY <1>1, <2>4, StepOfGroup DEF BraceBinderStep
  <2>5. CASE s = "SawTilde"
    BY <1>1, <2>5, StepOfGroup DEF TildeStep
  <2>6. CASE s \in {"SawDash", "SawPipe", "SawGt", "SawLt"}
    <3>1. b # SecondByte(s)
      BY <1>1 DEF SecondByte
    <3>2. s \in OperatorStates /\ s \notin {"SawEq", "SawBang", "SawAmp"}
      BY <2>6 DEF OperatorStates
    <3> QED  BY <1>2, <3>1, <3>2, StepOfGroup DEF OperatorStep
  <2> QED  BY <2>1, <2>2, <2>3, <2>4, <2>5, <2>6 DEF WordStates
<1> QED  BY <1>3 DEF b

\* A name of a source may start in every one of these states.
NameStates == BlockStates \cup {"ExpectSource", "SourceColon2"}

LEMMA ReadsName ==
  ASSUME NEW s \in NameStates, NEW top
  PROVE  Step(s, top, "a") = StepNext("InSourceIdent")
<1> DEFINE b == "a"
<1>1. b \in IdentStart /\ b \in IdentStart \ {"l"} /\ b \notin WS /\ b \notin {"l", "|", "{", "$", "}", ":", ">"}
  BY DEF IdentStart, Lower, WS
<1> HIDE DEF b
<1>2. Step(s, top, b) = StepNext("InSourceIdent")
  <2>1. CASE s \in BlockStates
    BY <1>1, <2>1, StepOfGroup DEF BlockStmtStep
  <2>2. CASE s = "ExpectSource"
    BY <1>1, <2>2, StepOfGroup DEF EnvelopeStep, EnvelopeStates
  <2>3. CASE s = "SourceColon2"
    <3>1. SourceStep("SourceColon2", b) = StepNext("InSourceIdent")
      BY <1>1 DEF SourceStep
    <3> QED  BY <2>3, <3>1, StepOfGroup DEF SourceStates
  <2> QED  BY <2>1, <2>2, <2>3 DEF NameStates
<1> QED  BY <1>2 DEF b

LEMMA ReadsDot ==
  ASSUME NEW s \in LetStates \cup {"InSourceIdent"}, NEW top
  PROVE  Step(s, top, ".") = StepNext("AfterDot")
<1> DEFINE b == "."
<1>1. b \notin IdentTail /\ b \notin WS /\ b \notin {"e", "t", "-", ":", ">"} /\ b = "."
  BY DEF IdentTail, IdentStart, Lower, Digit, WS
<1>2. InSourceIdentStep(b) = StepNext("AfterDot")
  <2> HIDE DEF b
  <2> QED  BY <1>1 DEF InSourceIdentStep
<1> HIDE DEF b
<1>3. Step(s, top, b) = StepNext("AfterDot")
  <2>1. CASE s \in LetStates
    BY <1>1, <1>2, <2>1, StepOfGroup DEF LetStep
  <2>2. CASE s = "InSourceIdent"
    BY <1>1, <1>2, <2>2, StepOfGroup DEF SourceStep, SourceStates
  <2> QED  BY <2>1, <2>2
<1> QED  BY <1>3 DEF b

LEMMA ReadsBar ==
  ASSUME NEW top
  PROVE  /\ Step("Start", top, "|") = StepNext("ExpectSource")
         /\ Step("AfterBraceOpen", top, "|") = StepNext("BlockStmt")
<1> DEFINE b == "|"
<1>1. b \notin IdentStart /\ b \notin WS /\ b # "{" /\ b = "|"
  BY DEF IdentStart, Lower, WS
<1> HIDE DEF b
<1>2. EnvelopeStep("Start", b) = StepNext("ExpectSource")
      /\ EnvelopeStep("AfterBraceOpen", b) = StepNext("BlockStmt")
  BY <1>1 DEF EnvelopeStep
<1> QED  BY <1>1, <1>2, StepOfGroup DEF EnvelopeStates

LEMMA ReadsBinder ==
  ASSUME NEW top
  PROVE  /\ Step("ExpectBinder", top, "a") = StepNext("InBinder")
         /\ \A s \in {"InBinder", "AfterBinder"} : Step(s, top, "=") = StepNext("ExpectSource")
<1> DEFINE b == "a"
           e == "="
<1>1. b \in IdentStart /\ b \notin WS /\ b # "=" /\ e \notin IdentTail /\ e \notin IdentStart
      /\ e \notin WS /\ e = "="
  BY DEF IdentStart, IdentTail, Lower, Digit, WS
<1> HIDE DEF b, e
<1>2. BinderStep("ExpectBinder", b) = StepNext("InBinder")
  BY <1>1 DEF BinderStep
<1>3. \A s \in {"InBinder", "AfterBinder"} : BinderStep(s, e) = StepNext("ExpectSource")
  BY <1>1 DEF BinderStep
<1>4. Step("ExpectBinder", top, b) = StepNext("InBinder")
  BY <1>2, StepOfGroup DEF BinderStates
<1> QED  BY <1>1, <1>3, <1>4, StepOfGroup DEF BinderStates, b

LEMMA ReadsSource ==
  ASSUME NEW top
  PROVE  /\ Step("SourceColon", top, ":") = StepNext("SourceColon2")
         /\ Step("SourceDash", top, ">") = StepNext("AfterArrow")
<1>1. SourceStep("SourceColon", ":") = StepNext("SourceColon2")
  BY DEF SourceStep
<1>2. SourceStep("SourceDash", ">") = StepNext("AfterArrow")
  BY DEF SourceStep
<1> QED  BY <1>1, <1>2, StepOfGroup DEF SourceStates

LEMMA ReadsSecond ==
  ASSUME NEW s \in {"SawEq", "SawBang", "SawAmp"}, NEW top
  PROVE  /\ Step(s, top, SecondByte(s)) = StepNext("ExpectValueReq")
         /\ SecondByte(s) \in Byte
<1>1. OperatorStep(s, top, SecondByte(s)) = StepNext("ExpectValueReq")
  BY DEF OperatorStep
<1>2. SecondByte(s) \in Byte
  BY DEF SecondByte, Byte
<1> QED  BY <1>1, <1>2, StepOfGroup DEF OperatorStates

\* What a digit makes of each number or date that still needs one.
Digited == [s \in {"SawNumSign", "NeedFracDigit", "SawExp", "NeedExpDigit", "SawPercent"} |->
              CASE s = "SawNumSign" -> "InNumberInt" [] s = "NeedFracDigit" -> "InNumberFrac"
                [] s = "SawPercent" -> "InDateLit"   [] OTHER -> "InExp"]

LEMMA ReadsDigit ==
  ASSUME NEW s \in DOMAIN Digited, NEW top
  PROVE  Step(s, top, "0") = StepNext(Digited[s]) /\ Digited[s] \in ClosableStates
<1> DEFINE b == "0"
<1>1. b \in Digit /\ b \in DateChar /\ b \notin Lower /\ b \notin {".", "e", "E", "+", "-"}
  BY DEF Digit, DateChar, Lower
<1> HIDE DEF b
<1>2. CASE s \in NumberStates
  BY <1>1, <1>2, StepOfGroup DEF NumberStep, NumberStates, Digited, ClosableStates, b
<1>3. CASE s = "SawPercent"
  BY <1>1, <1>3, StepOfGroup DEF DateStep, DateStates, Digited, ClosableStates, b
<1> QED  BY <1>2, <1>3 DEF Digited, NumberStates

LEMMA ReadsQuote ==
  ASSUME NEW top
  PROVE  Step("StrBody", top, "'") = StepNext("StrQuote")
<1>1. StringStep("StrBody", top, "'") = StepNext("StrQuote")
  BY DEF StringStep
<1> QED  BY <1>1, StepOfGroup DEF StringStates

LEMMA FinishesNow ==
  ASSUME NEW s \in ClosableStates, s \in State, NEW top
  PROVE  Finishes(s, top, <<>>)
<1> DEFINE path == <<s>>
           w == <<>>
<1>1. w \in Seq(Byte) /\ Len(w) = 0
  OBVIOUS
<1>2. path \in Seq(State) /\ Len(path) = 1 /\ path[1] = s
  OBVIOUS
<1> HIDE DEF path, w
<1>3. Passes(path, top, w)
  BY <1>1, <1>2 DEF Passes
<1>4. Finishes(s, top, w)
  BY <1>1, <1>2, <1>3 DEF Finishes
<1> QED  BY <1>4 DEF w

LEMMA FinishesAfter ==
  ASSUME NEW s \in State, NEW top, NEW t, NEW word \in Seq(Byte), word # <<>>,
         Step(s, top, word[1]) = StepNext(t), Finishes(t, top, Tail(word))
  PROVE  Finishes(s, top, word)
<1> DEFINE w == Tail(word)
<1>1. PICK path : Passes(path, top, w) /\ path[1] = t /\ path[Len(path)] \in ClosableStates
  BY DEF Finishes
<1>2. w \in Seq(Byte) /\ path \in Seq(State) /\ Len(path) = Len(w) + 1
  BY <1>1 DEF Passes
<1> DEFINE longer == <<s>> \o path
<1>3. /\ longer \in Seq(State) /\ Len(longer) = Len(path) + 1 /\ longer[1] = s
      /\ \A i \in 1 .. Len(path) : longer[i + 1] = path[i]
  BY <1>2
<1>4. /\ Len(word) = Len(w) + 1
      /\ \A i \in 1 .. Len(w) : word[i + 1] = w[i]
  OBVIOUS
<1> HIDE DEF longer, w
<1>5. Len(w) \in Nat /\ Len(path) \in 1 .. Len(path)
  BY <1>2
<1>6. ASSUME NEW i \in 1 .. Len(word) PROVE Step(longer[i], top, word[i]) = StepNext(longer[i + 1])
  <2>1. CASE i = 1
    <3>1. longer[1 + 1] = t
      BY <1>1, <1>2, <1>3, <1>5
    <3> QED  BY <1>3, <2>1, <3>1
  <2>2. CASE i # 1
    <3>1. i - 1 \in 1 .. Len(w) /\ (i - 1) + 1 = i /\ i \in 1 .. Len(path)
      BY <1>2, <1>4, <1>5, <2>2
    <3>2. i - 1 \in 1 .. Len(path)
      BY <1>2, <1>5, <3>1
    <3>4. longer[(i - 1) + 1] = path[i - 1] /\ longer[i + 1] = path[i]
      BY <1>3, <3>1, <3>2
    <3>5. word[(i - 1) + 1] = w[i - 1]
      BY <1>4, <3>1
    <3>3. Step(path[i - 1], top, w[i - 1]) = StepNext(path[(i - 1) + 1])
      BY <1>1, <3>1 DEF Passes
    <3> QED  BY <3>1, <3>3, <3>4, <3>5
  <2> QED  BY <2>1, <2>2
<1>7. Passes(longer, top, word)
  BY <1>2, <1>3, <1>4, <1>6 DEF Passes
<1>8. longer[Len(longer)] \in ClosableStates
  BY <1>1, <1>3, <1>5
<1> QED  BY <1>3, <1>7, <1>8 DEF Finishes

\* The words FinishWord is put together from.
LEMMA WordsFinish ==
  ASSUME NEW top
  PROVE  /\ \A s \in WordStates : Finishes(s, top, <<"a">>)
         /\ \A s \in LetStates \cup {"InSourceIdent"} : Finishes(s, top, <<".", "a">>)
         /\ \A s \in NameStates : Finishes(s, top, <<"a", ".", "a">>)
<1>1. "InIdent" \in State /\ "InIdent" \in ClosableStates /\ WordStates \subseteq State
      /\ LetStates \cup {"InSourceIdent"} \subseteq State /\ NameStates \subseteq State
      /\ "AfterDot" \in WordStates /\ "InSourceIdent" \in LetStates \cup {"InSourceIdent"}
  BY DEF State, ClosableStates, WordStates, NameStates, HubStates, NavStates, ColonStates, OperatorStates,
         EnvelopeStates, SourceStates
<1>2. {"a", "."} \subseteq Byte
  BY DEF Byte, IdentTail, IdentStart, Lower
<1>3. ASSUME NEW s \in WordStates PROVE Finishes(s, top, <<"a">>)
  <2> DEFINE w == <<"a">>
  <2>1. w \in Seq(Byte) /\ w # <<>> /\ w[1] = "a" /\ Tail(w) = <<>>
    BY <1>2
  <2> HIDE DEF w
  <2>2. Finishes(s, top, w)
    BY <1>1, <2>1, ReadsWord, FinishesNow, FinishesAfter
  <2> QED  BY <2>2 DEF w
<1>4. ASSUME NEW s \in LetStates \cup {"InSourceIdent"} PROVE Finishes(s, top, <<".", "a">>)
  <2> DEFINE w == <<".", "a">>
  <2>1. w \in Seq(Byte) /\ w # <<>> /\ w[1] = "." /\ Tail(w) = <<"a">>
    BY <1>2
  <2> HIDE DEF w
  <2>2. Finishes(s, top, w)
    BY <1>1, <1>3, <2>1, ReadsDot, FinishesAfter
  <2> QED  BY <2>2 DEF w
<1>5. ASSUME NEW s \in NameStates PROVE Finishes(s, top, <<"a", ".", "a">>)
  <2> DEFINE w == <<"a", ".", "a">>
  <2>1. w \in Seq(Byte) /\ w # <<>> /\ w[1] = "a" /\ Tail(w) = <<".", "a">>
    BY <1>2
  <2> HIDE DEF w
  <2>2. Finishes(s, top, w)
    BY <1>1, <1>4, <2>1, ReadsName, FinishesAfter
  <2> QED  BY <2>2 DEF w
<1> QED  BY <1>3, <1>4, <1>5

LEMMA FinishWordFinishes ==
  ASSUME NEW s \in State, s # "InMultiplicity", NEW top
  PROVE  Finishes(s, top, FinishWord(s))
<1> DEFINE w == FinishWord(s)
<1>0. {"a", ".", "|", "=", ":", ">", "0", "'"} \subseteq Byte
  BY DEF Byte, IdentTail, IdentStart, Lower, Digit
<1>1. /\ {"ExpectSource", "BlockStmt", "SourceColon2"} \subseteq NameStates
      /\ {"ExpectValueReq", "AfterArrow"} \subseteq WordStates
      /\ ClosableStates \subseteq State
  BY DEF NameStates, WordStates, BlockStates, HubStates, NavStates, ClosableStates, State,
         NumberStates, StringStates, DateStates
<1>2. CASE s \in {"Start", "AfterBraceOpen"}
  <2>1. w = <<"|", "a", ".", "a">>
    BY <1>2 DEF FinishWord, BlockStates, LetStates, HubStates, NavStates, ColonStates
  <2>2. w \in Seq(Byte) /\ w # <<>> /\ w[1] = "|" /\ Tail(w) = <<"a", ".", "a">>
    BY <1>0, <2>1
  <2> HIDE DEF w
  <2> QED  BY <1>1, <1>2, <2>2, ReadsBar, WordsFinish, FinishesAfter DEF w
<1>3. CASE s \in NameStates
  <2>1. w = <<"a", ".", "a">>
    BY <1>3 DEF FinishWord, BlockStates, LetStates, HubStates, NavStates, ColonStates, NameStates
  <2> QED  BY <1>3, <2>1, WordsFinish
<1>4. CASE s \in LetStates \cup {"InSourceIdent"}
  <2>1. w = <<".", "a">>
    BY <1>4 DEF FinishWord, BlockStates, LetStates, HubStates, NavStates, ColonStates
  <2> QED  BY <1>4, <2>1, WordsFinish
<1>5. CASE s = "SourceColon"
  <2>1. w = <<":", "a", ".", "a">>
    BY <1>5 DEF FinishWord, BlockStates, LetStates, HubStates, NavStates, ColonStates
  <2>2. w \in Seq(Byte) /\ w # <<>> /\ w[1] = ":" /\ Tail(w) = <<"a", ".", "a">>
    BY <1>0, <2>1
  <2> HIDE DEF w
  <2> QED  BY <1>1, <1>5, <2>2, ReadsSource, WordsFinish, FinishesAfter DEF w
<1>6. CASE s = "SourceDash"
  <2>1. w = <<">", "a">>
    BY <1>6 DEF FinishWord, BlockStates, LetStates, HubStates, NavStates, ColonStates
  <2>2. w \in Seq(Byte) /\ w # <<>> /\ w[1] = ">" /\ Tail(w) = <<"a">>
    BY <1>0, <2>1
  <2> HIDE DEF w
  <2> QED  BY <1>1, <1>6, <2>2, ReadsSource, WordsFinish, FinishesAfter DEF w
<1>7. \A t \in {"InBinder", "AfterBinder"} : t \in State => Finishes(t, top, <<"=", "a", ".", "a">>)
  <2> DEFINE v == <<"=", "a", ".", "a">>
  <2>1. v \in Seq(Byte) /\ v # <<>> /\ v[1] = "=" /\ Tail(v) = <<"a", ".", "a">>
    BY <1>0
  <2> HIDE DEF v
  <2>2. \A t \in {"InBinder", "AfterBinder"} : t \in State => Finishes(t, top, v)
    BY <1>1, <2>1, ReadsBinder, WordsFinish, FinishesAfter
  <2> QED  BY <2>2 DEF v
<1>8. CASE s \in BinderStates
  <2>1. CASE s = "ExpectBinder"
    <3>1. w = <<"a", "=", "a", ".", "a">>
      BY <2>1 DEF FinishWord, BlockStates, LetStates, HubStates, NavStates, ColonStates
    <3>2. w \in Seq(Byte) /\ w # <<>> /\ w[1] = "a" /\ Tail(w) = <<"=", "a", ".", "a">>
      BY <1>0, <3>1
    <3>3. "InBinder" \in State
      BY DEF State, BinderStates
    <3> HIDE DEF w
    <3> QED  BY <1>7, <2>1, <3>2, <3>3, ReadsBinder, FinishesAfter DEF w
  <2>2. CASE s # "ExpectBinder"
    <3>1. w = <<"=", "a", ".", "a">>
      BY <1>8, <2>2 DEF FinishWord, BlockStates, LetStates, HubStates, NavStates, ColonStates, BinderStates
    <3> QED  BY <1>7, <1>8, <2>2, <3>1 DEF BinderStates
  <2> QED  BY <2>1, <2>2
<1>9. CASE s \in {"SawEq", "SawBang", "SawAmp"}
  <2>1. w = <<SecondByte(s), "a">>
    BY <1>9 DEF FinishWord, BlockStates, LetStates, HubStates, NavStates, ColonStates
  <2>2. w \in Seq(Byte) /\ w # <<>> /\ w[1] = SecondByte(s) /\ Tail(w) = <<"a">>
    BY <1>0, <1>9, <2>1, ReadsSecond
  <2> HIDE DEF w
  <2> QED  BY <1>1, <1>9, <2>2, ReadsSecond, WordsFinish, FinishesAfter DEF w
<1>10. CASE s \in WordStates
  <2>1. w = <<"a">>
    BY <1>10 DEF FinishWord, BlockStates, LetStates, HubStates, NavStates, ColonStates, WordStates
  <2> QED  BY <1>10, <2>1, WordsFinish
<1>11. CASE s \in DOMAIN Digited
  <2>1. w = <<"0">>
    BY <1>11 DEF FinishWord, BlockStates, LetStates, HubStates, NavStates, ColonStates, Digited
  <2>2. w \in Seq(Byte) /\ w # <<>> /\ w[1] = "0" /\ Tail(w) = <<>>
    BY <1>0, <2>1
  <2> HIDE DEF w
  <2> QED  BY <1>1, <1>11, <2>2, ReadsDigit, FinishesNow, FinishesAfter DEF w
<1>12. CASE s = "StrBody"
  <2>1. w = <<"'">>
    BY <1>12 DEF FinishWord, BlockStates, LetStates, HubStates, NavStates, ColonStates
  <2>2. w \in Seq(Byte) /\ w # <<>> /\ w[1] = "'" /\ Tail(w) = <<>>
    BY <1>0, <2>1
  <2>3. "StrQuote" \in ClosableStates
    BY DEF ClosableStates
  <2> HIDE DEF w
  <2> QED  BY <1>1, <1>12, <2>2, <2>3, ReadsQuote, FinishesNow, FinishesAfter DEF w
<1>13. CASE s \in ClosableStates
  <2>1. w = <<>>
    BY <1>13 DEF FinishWord, BlockStates, LetStates, HubStates, NavStates, ColonStates, ClosableStates
  <2> QED  BY <1>13, <2>1, FinishesNow
<1> QED
  BY <1>2, <1>3, <1>4, <1>5, <1>6, <1>8, <1>9, <1>10, <1>11, <1>12, <1>13
  DEF State, EnvelopeStates, NameStates, BlockStates, LetStates, SourceStates, BinderStates,
      WordStates, HubStates, NavStates, ColonStates, OperatorStates, NumberStates, DateStates,
      StringStates, ClosableStates, Digited

(***************************************************************************)
(* No configuration is a trap, for any state and any stack: the only thing *)
(* asked of it is that a multiplicity is read inside its own bracket.      *)
(***************************************************************************)
THEOREM NoConfigurationIsATrap ==
  ASSUME NEW p \in PdaType, p.state = "InMultiplicity" => StackTop(p.stack) = "Bracket"
  PROVE  Completes(p, FinishWord(p.state) \o ClosingWord(p.stack))
<1> DEFINE s   == p.state
           k   == p.stack
           top == StackTop(k)
           w   == FinishWord(s)
           c   == ClosingWord(k)
<1>1. s \in State /\ k \in Seq(Frame) /\ p \in Configs /\ c \in Seq(Byte)
  BY ClosingWordType DEF PdaType, Configs
<1>2. k # <<>> => top \in Frame
  BY <1>1, StackTopType
<1>3. CASE s = "InMultiplicity"
  <2>1. w = <<>>
    BY <1>3 DEF FinishWord, BlockStates, LetStates, HubStates, NavStates, ColonStates
  <2>2. <<>> \o c = c
    BY <1>1
  <2>3. k # <<>> /\ CloserOf(top) = "]"
    BY <1>1, <1>3, StackTopType DEF CloserOf, NoFrame
  <2>4. Step(s, top, CloserOf(top)) = StepPop("AfterValue")
    <3>1. MultiplicityStep(top, "]") = StepPop("AfterValue")
      BY <1>3 DEF MultiplicityStep, Close, Matches
    <3> QED  BY <1>3, <2>3, <3>1, StepOfGroup
  <2>5. FeedAll(p, c) = [state |-> "AfterValue", stack |-> <<>>]
    BY <2>3, <2>4, ClosingWordCloses
  <2>6. IsAccepting([state |-> "AfterValue", stack |-> <<>>])
    BY ClosableAccepts DEF IsAccepting, ClosableStates
  <2>7. FeedAll(p, c) # DeadPda
    BY <2>5 DEF DeadPda
  <2>8. FeedAll(p, w \o c) = [state |-> "AfterValue", stack |-> <<>>]
    BY <2>1, <2>2, <2>5
  <2> HIDE DEF w, c
  <2> QED  BY <2>5, <2>6, <2>7, <2>8 DEF Completes, w, c
<1>4. CASE s # "InMultiplicity"
  <2>1. Finishes(s, top, w)
    BY <1>1, <1>4, FinishWordFinishes
  <2>2. PICK path : Passes(path, top, w) /\ path[1] = s /\ path[Len(path)] \in ClosableStates
    BY <2>1 DEF Finishes
  <2> DEFINE t == path[Len(path)]
             q == [state |-> t, stack |-> k]
  <2>3. w \in Seq(Byte) /\ t \in ClosableStates /\ ClosableStates \subseteq State
    BY <2>1, <2>2 DEF Finishes, ClosableStates, State, NumberStates, StringStates, DateStates
  <2> HIDE DEF w
  <2>4. FeedAll(p, w) = q
    BY <2>2, <2>3, PassesFeeds
  <2> HIDE DEF t
  <2>5. q \in PdaType /\ q.state = t /\ q.stack = k
    BY <1>1, <2>3 DEF PdaType
  <2> HIDE DEF q
  <2>6. q.stack # <<>> => Step(q.state, StackTop(q.stack), CloserOf(StackTop(q.stack))) = StepPop("AfterValue")
    BY <1>2, <2>3, <2>5, ClosableCloses
  <2>7. FeedAll(q, c) = [state |-> IF k = <<>> THEN t ELSE "AfterValue", stack |-> <<>>]
    BY <2>5, <2>6, ClosingWordCloses
  <2>8. FeedAll(p, w \o c) = FeedAll(q, c)
    BY <1>1, <2>3, <2>4, FeedAllConcat
  <2> DEFINE e == [state |-> IF k = <<>> THEN t ELSE "AfterValue", stack |-> <<>>]
  <2>9. e.state \in ClosableStates /\ e.stack = <<>>
    BY <2>3 DEF ClosableStates
  <2> HIDE DEF k
  <2>10. e # DeadPda
    <3>1. e.state \in State
      BY <2>3, <2>9
    <3>2. e \in PdaType
      BY <3>1 DEF PdaType
    <3> QED  BY <3>2, DeadIsNoConfig
  <2> HIDE DEF e
  <2>11. IsAccepting(e)
    BY <2>9, ClosableAccepts DEF IsAccepting
  <2>12. FeedAll(p, w \o c) = e
    BY <2>7, <2>8 DEF e
  <2> QED  BY <2>10, <2>11, <2>12 DEF Completes, w, k
<1> QED  BY <1>3, <1>4

(***************************************************************************)
(* From every configuration the recognizer can reach, over a stream of any *)
(* length, the query can still be completed (session.rs 121-124).          *)
(***************************************************************************)
THEOREM CompletableInvariant == Spec => []Completable
<1>1. TypeOK /\ ScopeOK => Completable
  BY NoConfigurationIsATrap DEF TypeOK, ScopeOK, HubOnItsFrame, Completable
<1> QED
  BY <1>1, RecognizerTypeInvariant, ScopeInvariant, PTL
=============================================================================
