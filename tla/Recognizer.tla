----------------------------- MODULE Recognizer -----------------------------
(***************************************************************************)
(* The byte recognizer: the automaton of module Pda driven one byte at a   *)
(* time, as `ByteRecognizer` (src/src/recognizer.rs) is implemented over   *)
(* `Pda` (src/src/grammar/pda.rs).  The stream may be of any length; only  *)
(* the number of delimiters open at once is bounded, by MaxDepth.          *)
(***************************************************************************)
EXTENDS Pda

CONSTANT MaxDepth   \* bound on the frame stack, which the code leaves unbounded

ASSUME MaxDepthAssumption == MaxDepth \in Nat \ {0}

VARIABLES
    pda,        \* struct Pda: [state, stack]
    input,      \* the last byte offered and whether it was accepted
    navigated   \* history variable: whether a byte that navigates was read

vars == <<pda, input, navigated>>

Offered(b, ok) == [byte |-> b, ok |-> ok]

\* Kept for the properties only: a `.`, the `>` of `->`, or a `$` was read.
Navigates(b) == b \in {".", ">", "$"}
-----------------------------------------------------------------------------
Init ==
    /\ pda = PdaNew
    /\ input = Offered("none", TRUE)
    /\ navigated = FALSE

\* accept_byte, Ok: the byte has a continuation.
AcceptByte(b) ==
    /\ Lives(pda, b)
    /\ Len(Advance(pda, b).stack) <= MaxDepth
    /\ pda' = Advance(pda, b)
    /\ input' = Offered(b, TRUE)
    /\ navigated' = (navigated \/ Navigates(b))

\* accept_byte, Err(DeadState): the automaton is left as it was.
RejectByte(b) ==
    /\ ~Lives(pda, b)
    /\ input' = Offered(b, FALSE)
    /\ UNCHANGED <<pda, navigated>>

\* The caller signals the end of the stream; is_complete decides.
SignalEos ==
    /\ input' = Offered("eos", IsAccepting(pda))
    /\ UNCHANGED <<pda, navigated>>

Reset ==
    /\ pda' = PdaNew
    /\ input' = Offered("none", TRUE)
    /\ navigated' = FALSE

Next ==
    \/ \E b \in Byte : AcceptByte(b)
    \/ \E b \in Byte : RejectByte(b)
    \/ SignalEos
    \/ Reset

Spec == Init /\ [][Next]_vars
-----------------------------------------------------------------------------
\* At p no byte asks for a pop of an empty stack.
PopsFindAFrame(p) ==
    \A b \in Byte : Step(p.state, StackTop(p.stack), b).kind = "pop" => p.stack # <<>>

(***************************************************************************)
(* Type invariant: `advance` never leaves the automaton's own states and   *)
(* frames, and wherever it stands a byte that pops finds a frame: `advance`*)
(* (pda.rs 1105-1110) pops without a test.                                 *)
(***************************************************************************)
TypeOK ==
    /\ pda \in PdaType
    /\ PopsFindAFrame(pda)
    /\ input \in [byte : Byte \cup {"none", "eos"}, ok : BOOLEAN]
    /\ navigated \in BOOLEAN

\* Only the block query's own brace is a Brace frame, and it is outermost.
BraceOutermost ==
    \A i \in DOMAIN pda.stack : pda.stack[i] = "Brace" => i = 1

\* Statements, `let` and its binder are read at the top of a block only.
StatementStates == {"AfterBraceOpen"} \cup BlockStates \cup LetStates
                     \cup BinderStates

StatementsInBlock == pda.state \in StatementStates => pda.stack = <<"Brace">>

\* A pipeline source starts a query or a statement, never an argument.
SourceAtTop ==
    /\ pda.state = "Start" => pda.stack = <<>>
    /\ pda.state \in SourceStates \cup {"ExpectSource"}
         => pda.stack \in {<<>>, <<"Brace">>}

\* The positions right after an opener sit on the frame that opener pushed.
HubOnItsFrame ==
    /\ pda.state = "ExpectValue" =>
         StackTop(pda.stack) \in {"Paren", "Bracket"}
    /\ pda.state = "InMultiplicity" => StackTop(pda.stack) = "Bracket"
    /\ pda.state = "ExpectBraceBinder" =>
         StackTop(pda.stack) = "BraceLambda"

(***************************************************************************)
(* The rules of a block query (`let`, `;`, the single `=`) never leak into *)
(* a brace lambda, an argument list or a bracket: pda.rs 405-417 gives the *)
(* brace lambda a frame of its own for this.                               *)
(***************************************************************************)
ScopeOK ==
    /\ BraceOutermost
    /\ StatementsInBlock
    /\ SourceAtTop
    /\ HubOnItsFrame

(***************************************************************************)
(* A bare classpath is not a query: every stream that may end has          *)
(* navigated or produced something (pda.rs 593-597, InSourceIdent).        *)
(***************************************************************************)
NoBareSource == IsAccepting(pda) => navigated

(***************************************************************************)
(* No live prefix is a trap: from every configuration the automaton can    *)
(* reach, finishing the open token and closing the open frames, innermost  *)
(* first, completes the query.  The mask's "on a path to a valid query"    *)
(* (session.rs 121-124) rests on it.                                       *)
(***************************************************************************)
FinishWord(s) ==
  CASE s \in {"Start", "AfterBraceOpen"} -> <<"|", "a", ".", "a">>
    [] s \in BlockStates \cup {"ExpectSource", "SourceColon2"} -> <<"a", ".", "a">>
    [] s \in LetStates \cup {"InSourceIdent"} -> <<".", "a">>
    [] s = "SourceColon"  -> <<":", "a", ".", "a">>
    [] s = "SourceDash"   -> <<">", "a">>
    [] s = "ExpectBinder" -> <<"a", "=", "a", ".", "a">>
    [] s \in {"InBinder", "AfterBinder"} -> <<"=", "a", ".", "a">>
    [] s \in {"SawEq", "SawBang", "SawAmp"} -> <<SecondByte(s), "a">>
    [] s \in HubStates \cup NavStates \cup ColonStates
         \cup {"ExpectBraceBinder", "SawTilde", "SawDash", "SawPipe", "SawGt", "SawLt"} -> <<"a">>
    [] s \in {"SawNumSign", "NeedFracDigit", "SawExp", "NeedExpDigit", "SawPercent"} -> <<"0">>
    [] s = "StrBody" -> <<"'">>
    [] OTHER         -> <<>>

CloserOf(f) == CASE f = "Paren" -> ")" [] f = "Bracket" -> "]" [] OTHER -> "}"

ClosingWord(stack) ==
    [i \in DOMAIN stack |-> CloserOf(stack[Len(stack) + 1 - i])]

Completable ==
    Completes(pda, FinishWord(pda.state) \o ClosingWord(pda.stack))

(***************************************************************************)
(* The recognizer implements the delimiter discipline.                     *)
(***************************************************************************)
OpenerOf(f) == CASE f = "Paren" -> "(" [] f = "Bracket" -> "[" [] OTHER -> "{"

QuotingOf(s) ==
  CASE s = "StrBody" -> "text" [] s = "StrQuote" -> "quote" [] OTHER -> "code"

D == INSTANCE Delimiters WITH
       Bytes   <- Byte,
       MaxOpen <- MaxDepth,
       open    <- [i \in DOMAIN pda.stack |-> OpenerOf(pda.stack[i])],
       quoting <- QuotingOf(pda.state),
       input   <- input

\* Every byte the recognizer takes is one the delimiter discipline allows
\* (pda.rs 485-497, `close`; 834-849, string literals).
RefinesDelimiters == D!Spec
=============================================================================
