-------------------------------- MODULE Pda --------------------------------
(***************************************************************************)
(* The byte pushdown automaton of src/src/grammar/pda.rs: its states, its  *)
(* frames, the pure transition function `step`, and what the driver `Pda`  *)
(* makes of a step.  A configuration is the pair of fields of `struct      *)
(* Pda`: the state and the frame stack, bottom first.                      *)
(*                                                                         *)
(* The input alphabet is the quotient of the 256 bytes by the tests `step` *)
(* makes: two bytes are in one class exactly when every arm of `step`      *)
(* treats them alike.  " " stands for the four blanks, "a" and "A" for the *)
(* letters `step` never names, "0" for the digits and "?" for every byte   *)
(* no arm names.                                                           *)
(***************************************************************************)
EXTENDS SequencesExt

WS         == {" "}
Lower      == {"a", "e", "l", "t"}
IdentStart == Lower \cup {"A", "E", "T", "_"}
Digit      == {"0"}
IdentTail  == IdentStart \cup Digit
DateChar   == Digit \cup {"-", "T", ":"}
Closer     == {")", "]", "}"}
Byte       == WS \cup IdentTail \cup Closer \cup
                {"|", "{", "(", "[", "-", ".", "'", "%", "$", "~", "!", "*",
                 ">", "<", "=", "&", "+", "/", ":", ",", ";", "?"}

Frame   == {"Paren", "Bracket", "Brace", "BraceLambda"}
NoFrame == "none"

(***************************************************************************)
(* The states, grouped by the part of the query they read.  StrBody and    *)
(* StrQuote are the two values of `InStrLit { escaped }`.                  *)
(***************************************************************************)
EnvelopeStates == {"Start", "ExpectSource", "AfterBraceOpen"}
BlockStates    == {"BlockStmt", "BlockStmtClose"}
HubStates      == {"ExpectValue", "ExpectValueReq"}
SourceStates   == {"InSourceIdent", "SourceColon", "SourceColon2",
                   "SourceDash"}
LetStates      == {"LetL", "LetLe", "LetLet"}
BinderStates   == {"ExpectBinder", "InBinder", "AfterBinder"}
NumberStates   == {"SawNumSign", "InNumberInt", "NeedFracDigit",
                   "InNumberFrac", "SawExp", "NeedExpDigit", "InExp"}
StringStates   == {"StrBody", "StrQuote"}
DateStates     == {"SawPercent", "InDateLit", "InMilestoneLit"}
NavStates      == {"AfterDollar", "AfterDot", "AfterArrow"}
ColonStates    == {"AfterColon", "AfterColonWs", "AfterColon2"}
OperatorStates == {"SawDash", "SawPipe", "SawEq", "SawBang", "SawGt",
                   "SawLt", "SawAmp"}
State == EnvelopeStates \cup BlockStates \cup HubStates \cup SourceStates
           \cup LetStates \cup BinderStates \cup NumberStates
           \cup StringStates \cup DateStates \cup NavStates
           \cup ColonStates \cup OperatorStates
           \cup {"AfterValue", "InIdent", "InMultiplicity", "ExpectBraceBinder",
                 "SawTilde"}

(***************************************************************************)
(* The lexeme class a state is inside, if any.  Inside a lexeme the scope  *)
(* machine buffers; every other position is a structural gap.  The states  *)
(* of a candidate `let` are inside no lexeme, although they hold letters.  *)
(***************************************************************************)
NoLexKind == "none"

LexKind(s) ==
  CASE s \in {"InIdent", "InBinder", "InSourceIdent", "SourceColon",
                "SourceColon2"} -> "Ident"
    [] s \in NumberStates -> "Number"
    [] s \in DateStates   -> "Date"
    [] s \in StringStates -> "Str"
    [] OTHER              -> NoLexKind

(***************************************************************************)
(* The outcomes of one step.                                               *)
(***************************************************************************)
StepNext(s)    == [kind |-> "next", to |-> s]
StepPush(f, s) == [kind |-> "push", frame |-> f, to |-> s]
StepPop(s)     == [kind |-> "pop",  to |-> s]
StepDead       == [kind |-> "dead"]

Outcome == [kind : {"next", "pop"}, to : State]
             \cup [kind : {"push"}, frame : Frame, to : State]
             \cup {StepDead}

\* Faulty: any closer closes any frame.
MatchesAnyFrame(top, b) == top # NoFrame /\ b \in Closer

\* The one place a closer is matched with the frame it closes.
Matches(top, b) == \/ top = "Paren"   /\ b = ")"
                   \/ top = "Bracket" /\ b = "]"
                   \/ top \in {"Brace", "BraceLambda"} /\ b = "}"

\* Faulty: a closer pops whatever is below, a frame or nothing.
CloseUnchecked(top, b) == StepPop("AfterValue")

Close(top, b) == IF Matches(top, b) THEN StepPop("AfterValue") ELSE StepDead

(***************************************************************************)
(* `step`, one operator per group of states.  A group that delegates a     *)
(* byte to another hub uses that hub's operator, so the hubs come first.   *)
(***************************************************************************)
ValuePosition(s, top, b) ==
  CASE b \in WS         -> StepNext(s)
    [] b \in IdentStart -> StepNext("InIdent")
    [] b \in Digit      -> StepNext("InNumberInt")
    [] b = "-"          -> StepNext("SawNumSign")
    [] b = "."          -> StepNext("NeedFracDigit")
    [] b = "'"          -> StepNext("StrBody")
    [] b = "%"          -> StepNext("SawPercent")
    [] b = "$"          -> StepNext("AfterDollar")
    [] b = "~"          -> StepNext("SawTilde")
    [] b = "("          -> StepPush("Paren", "ExpectValue")
    [] b = "["          -> StepPush("Bracket", "ExpectValue")
    [] b = "{"          -> StepPush("BraceLambda", "ExpectBraceBinder")
    [] b \in {"|", "!"} -> StepNext("ExpectValueReq")
    [] b = "*" /\ s = "ExpectValue" /\ top = "Bracket"
                        -> StepNext("InMultiplicity")
    [] b \in Closer /\ s = "ExpectValue" -> Close(top, b)
    [] OTHER            -> StepDead

AfterValueStep(top, b) ==
  CASE b \in WS              -> StepNext("AfterValue")
    [] b = "-"               -> StepNext("SawDash")
    [] b = ">"               -> StepNext("SawGt")
    [] b = "<"               -> StepNext("SawLt")
    [] b = "="               -> StepNext("SawEq")
    [] b = "!"               -> StepNext("SawBang")
    [] b = "&"               -> StepNext("SawAmp")
    [] b = "|"               -> StepNext("SawPipe")
    [] b \in {"+", "*", "/"} -> StepNext("ExpectValueReq")
    [] b = "."               -> StepNext("AfterDot")
    [] b = ":"               -> StepNext("AfterColon")
    [] b = "("               -> StepPush("Paren", "ExpectValue")
    [] b = "["               -> StepPush("Bracket", "ExpectValue")
    [] b = "," /\ top # NoFrame -> StepNext("ExpectValueReq")
    [] b = ";" /\ top = "Brace" -> StepNext("BlockStmtClose")
    [] b \in Closer          -> Close(top, b)
    [] OTHER                 -> StepDead

EnvelopeStep(s, b) ==
  CASE b \in WS                               -> StepNext(s)
    [] s = "Start" /\ b = "|"                 -> StepNext("ExpectSource")
    [] s = "Start" /\ b = "{"                 -> StepPush("Brace", "AfterBraceOpen")
    [] s = "ExpectSource" /\ b \in IdentStart -> StepNext("InSourceIdent")
    [] s = "AfterBraceOpen" /\ b = "|"        -> StepNext("BlockStmt")
    [] OTHER                                  -> StepDead

BlockStmtStep(s, top, b) ==
  CASE b \in WS                 -> StepNext(s)
    [] b = "l"                  -> StepNext("LetL")
    [] b \in IdentStart \ {"l"} -> StepNext("InSourceIdent")
    [] b = "$"                  -> StepNext("AfterDollar")
    [] b = "}" /\ s = "BlockStmtClose" -> Close(top, b)
    [] OTHER                    -> StepDead

\* Faulty: a blank ends a bare source as it ends an identifier.
InSourceIdentStepEndsOnBlank(b) ==
  CASE b \in IdentTail -> StepNext("InSourceIdent")
    [] b \in WS        -> StepNext("AfterValue")
    [] b = "."         -> StepNext("AfterDot")
    [] b = "-"         -> StepNext("SourceDash")
    [] b = ":"         -> StepNext("SourceColon")
    [] OTHER           -> StepDead

InSourceIdentStep(b) ==
  CASE b \in IdentTail -> StepNext("InSourceIdent")
    [] b = "."         -> StepNext("AfterDot")
    [] b = "-"         -> StepNext("SourceDash")
    [] b = ":"         -> StepNext("SourceColon")
    [] OTHER           -> StepDead

SourceStep(s, b) ==
  CASE s = "InSourceIdent"                    -> InSourceIdentStep(b)
    [] s = "SourceColon" /\ b = ":"           -> StepNext("SourceColon2")
    [] s = "SourceColon2" /\ b \in IdentStart -> StepNext("InSourceIdent")
    [] s = "SourceDash" /\ b = ">"            -> StepNext("AfterArrow")
    [] OTHER                                  -> StepDead

\* The candidate keyword `let` falls back to a source that shares its prefix.
LetStep(s, b) ==
  CASE s = "LetL"   /\ b = "e"   -> StepNext("LetLe")
    [] s = "LetLe"  /\ b = "t"   -> StepNext("LetLet")
    [] s = "LetLet" /\ b \in WS  -> StepNext("ExpectBinder")
    [] OTHER                     -> InSourceIdentStep(b)

\* Faulty: a blank after the binder name leaves no way to its `=`.
BinderStepTrapsAfterBlank(s, b) ==
  CASE s = "InBinder" /\ b \in WS            -> StepNext("AfterBinder")
    [] s # "InBinder" /\ b \in WS            -> StepNext(s)
    [] s = "ExpectBinder" /\ b \in IdentStart -> StepNext("InBinder")
    [] s = "InBinder" /\ b \in IdentTail     -> StepNext("InBinder")
    [] s = "InBinder" /\ b = "="             -> StepNext("ExpectSource")
    [] OTHER                                 -> StepDead

BinderStep(s, b) ==
  CASE s = "InBinder" /\ b \in WS            -> StepNext("AfterBinder")
    [] s # "InBinder" /\ b \in WS            -> StepNext(s)
    [] s = "ExpectBinder" /\ b \in IdentStart -> StepNext("InBinder")
    [] s = "InBinder" /\ b \in IdentTail     -> StepNext("InBinder")
    [] s # "ExpectBinder" /\ b = "="         -> StepNext("ExpectSource")
    [] OTHER                                 -> StepDead

MultiplicityStep(top, b) == IF b = "]" THEN Close(top, b) ELSE StepDead

BraceBinderStep(b) ==
  CASE b \in IdentStart -> StepNext("InIdent")
    [] b \in WS         -> StepNext("ExpectBraceBinder")
    [] OTHER            -> StepDead

IdentStep(top, b) ==
  IF b \in IdentTail THEN StepNext("InIdent") ELSE AfterValueStep(top, b)

\* A finished number hands the byte to AfterValue; an unfinished one dies.
NumberStep(s, top, b) ==
  CASE b \in Digit /\ s \in {"SawNumSign", "InNumberInt"} -> StepNext("InNumberInt")
    [] b \in Digit /\ s \in {"NeedFracDigit", "InNumberFrac"} -> StepNext("InNumberFrac")
    [] b \in Digit /\ s \in {"SawExp", "NeedExpDigit", "InExp"} -> StepNext("InExp")
    [] b = "." /\ s \in {"SawNumSign", "InNumberInt"} -> StepNext("NeedFracDigit")
    [] b \in {"e", "E"} /\ s = "InNumberFrac"         -> StepNext("SawExp")
    [] b \in {"+", "-"} /\ s = "SawExp"               -> StepNext("NeedExpDigit")
    [] OTHER -> IF s \in {"InNumberInt", "InNumberFrac", "InExp"}
                THEN AfterValueStep(top, b)
                ELSE StepDead

\* StrQuote has read a quote inside a string: a second one doubles it.
StringStep(s, top, b) ==
  CASE s = "StrBody"              -> StepNext(IF b = "'" THEN "StrQuote" ELSE "StrBody")
    [] s = "StrQuote" /\ b = "'"  -> StepNext("StrBody")
    [] OTHER                      -> AfterValueStep(top, b)

DateStep(s, top, b) ==
  CASE s # "InMilestoneLit" /\ b \in DateChar -> StepNext("InDateLit")
    [] s = "InDateLit" /\ b = "."             -> StepNext("InDateLit")
    [] s # "InDateLit" /\ b \in Lower         -> StepNext("InMilestoneLit")
    [] OTHER -> IF s = "SawPercent" THEN StepDead ELSE AfterValueStep(top, b)

NavStep(s, b) ==
  CASE b \in IdentStart                -> StepNext("InIdent")
    [] b \in WS /\ s # "AfterDollar"   -> StepNext(s)
    [] b = "'" /\ s = "AfterDot"       -> StepNext("StrBody")
    [] OTHER                           -> StepDead

\* Faulty: a brace lambda shares the block query's frame.
ColonStepSharesBrace(s, b) ==
  CASE b \in IdentStart              -> StepNext("InIdent")
    [] b \in WS /\ s # "AfterColon2" -> StepNext("AfterColonWs")
    [] b = ":" /\ s = "AfterColon"   -> StepNext("AfterColon2")
    [] b = "{" /\ s # "AfterColon2"  -> StepPush("Brace", "ExpectBraceBinder")
    [] OTHER                         -> StepDead

ColonStep(s, b) ==
  CASE b \in IdentStart              -> StepNext("InIdent")
    [] b \in WS /\ s # "AfterColon2" -> StepNext("AfterColonWs")
    [] b = ":" /\ s = "AfterColon"   -> StepNext("AfterColon2")
    [] b = "{" /\ s # "AfterColon2"  -> StepPush("BraceLambda", "ExpectBraceBinder")
    [] OTHER                         -> StepDead

\* The byte that completes a two-byte operator in each operator state.
SecondByte(s) ==
  CASE s = "SawDash" -> ">"
    [] s = "SawPipe" -> "|"
    [] s = "SawAmp"  -> "&"
    [] OTHER         -> "="

\* One-byte operators hand any other byte to the operand; `=`, `!` and `&`
\* exist only doubled.
OperatorStep(s, top, b) ==
  CASE b = SecondByte(s) ->
         StepNext(IF s = "SawDash" THEN "AfterArrow" ELSE "ExpectValueReq")
    [] OTHER -> IF s \in {"SawEq", "SawBang", "SawAmp"}
                THEN StepDead
                ELSE ValuePosition("ExpectValueReq", top, b)

TildeStep(b) ==
  CASE b = "["          -> StepPush("Bracket", "ExpectValue")
    [] b = "'"          -> StepNext("StrBody")
    [] b \in IdentStart -> StepNext("InIdent")
    [] OTHER            -> StepDead

Step(s, top, b) ==
  CASE s \in EnvelopeStates -> EnvelopeStep(s, b)
    [] s \in BlockStates    -> BlockStmtStep(s, top, b)
    [] s \in HubStates      -> ValuePosition(s, top, b)
    [] s \in SourceStates   -> SourceStep(s, b)
    [] s \in LetStates      -> LetStep(s, b)
    [] s \in BinderStates   -> BinderStep(s, b)
    [] s \in NumberStates   -> NumberStep(s, top, b)
    [] s \in StringStates   -> StringStep(s, top, b)
    [] s \in DateStates     -> DateStep(s, top, b)
    [] s \in NavStates      -> NavStep(s, b)
    [] s \in ColonStates    -> ColonStep(s, b)
    [] s \in OperatorStates -> OperatorStep(s, top, b)
    [] s = "AfterValue"     -> AfterValueStep(top, b)
    [] s = "InIdent"        -> IdentStep(top, b)
    [] s = "InMultiplicity" -> MultiplicityStep(top, b)
    [] s = "ExpectBraceBinder" -> BraceBinderStep(b)
    [] s = "SawTilde"       -> TildeStep(b)

(***************************************************************************)
(* The driver: `struct Pda` and what `advance` makes of a step.            *)
(***************************************************************************)
PdaType == [state : State, stack : Seq(Frame)]

PdaNew   == [state |-> "Start", stack |-> <<>>]
PdaAt(s) == [state |-> s, stack |-> <<>>]

StackTop(stack) == IF stack = <<>> THEN NoFrame ELSE stack[Len(stack)]

\* Faulty: a push repeats the enclosing frame.
AppliedRepeatsTop(stack, o) ==
  CASE o.kind = "push" -> Append(stack, StackTop(stack))
    [] o.kind = "pop"  -> Front(stack)
    [] OTHER           -> stack

Applied(stack, o) ==
  CASE o.kind = "push" -> Append(stack, o.frame)
    [] o.kind = "pop"  -> Front(stack)
    [] OTHER           -> stack

Lives(p, b) == Step(p.state, StackTop(p.stack), b) # StepDead

\* The configuration after a live byte.
Advance(p, b) ==
  LET o == Step(p.state, StackTop(p.stack), b)
  IN  [state |-> o.to, stack |-> Applied(p.stack, o)]

IsAccepting(p) ==
  /\ p.stack = <<>>
  /\ Step(p.state, NoFrame, " ") = StepNext("AfterValue")

(***************************************************************************)
(* Folding a token's bytes through the automaton.  A fold that dies stays  *)
(* dead, as the early returns of `admits`, `probe` and `accept_token` do.  *)
(***************************************************************************)
DeadPda == [state |-> "Dead", stack |-> <<>>]

Fed(p, b) == IF p = DeadPda \/ ~Lives(p, b) THEN DeadPda ELSE Advance(p, b)

FeedAll(p, bytes) ==
    LET after[n \in 0 .. Len(bytes)] ==
          IF n = 0 THEN p ELSE Fed(after[n - 1], bytes[n])
    IN  after[Len(bytes)]

Admits(p, bytes) == FeedAll(p, bytes) # DeadPda

\* The bytes lead from p to a configuration where the stream may end.
Completes(p, bytes) ==
    LET q == FeedAll(p, bytes) IN q # DeadPda /\ IsAccepting(q)

(***************************************************************************)
(* The probe: the same fold, stopping at the first dead byte and noting    *)
(* whether that byte wanted a frame beneath the token's own.  `admits`     *)
(* ends "alive" or "dead", `probe` may also end "consulted".               *)
(***************************************************************************)
Fate == {"alive", "dead", "consulted"}

\* Faulty: only the first of ALL_FRAMES is asked.
WouldLiveInParen(s, b) == Step(s, "Paren", b) # StepDead

WouldLiveInSomeFrame(s, b) == \E f \in Frame : Step(s, f, b) # StepDead

\* One iteration of the probe loop.
Probed(l, b) ==
  IF l.fate # "alive" THEN l
  ELSE IF Lives(l.pda, b) THEN [l EXCEPT !.pda = Advance(l.pda, b)]
  ELSE [l EXCEPT !.fate = IF /\ l.pda.stack = <<>>
                             /\ WouldLiveInSomeFrame(l.pda.state, b)
                          THEN "consulted" ELSE "dead"]

\* A probe of a token from a state over an empty stack, and what it comes to.
ProbeAll(s, bytes) ==
    LET after[n \in 0 .. Len(bytes)] ==
          IF n = 0 THEN [pda |-> PdaAt(s), fate |-> "alive"]
                   ELSE Probed(after[n - 1], bytes[n])
    IN  after[Len(bytes)]

ProbeFate(s, bytes) == ProbeAll(s, bytes).fate
=============================================================================
