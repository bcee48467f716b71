---------------------------- MODULE Segmentation ----------------------------
(***************************************************************************)
(* How the schema scope machine cuts a committed token into lexemes:       *)
(* `ScopeTracker::observe` (src/src/schema/scope.rs).  A token may start   *)
(* or end anywhere, inside an identifier or across several lexemes.  The   *)
(* loop of `observe` re-drives the automaton over the token; each action   *)
(* here is its prologue, one iteration, or its epilogue, so that a token   *)
(* of any length and any bytes is a behaviour.  Nothing else touches the   *)
(* tracker while the loop runs, and `accept_token` calls it only with a    *)
(* token all of whose bytes live.                                          *)
(*                                                                         *)
(* A gap is dispatched byte by byte or operator by operator under ONE      *)
(* anchor, the state where the gap began.  Each byte of the segment        *)
(* carries in `at` the state it was really read from, for the properties.  *)
(***************************************************************************)
EXTENDS Lexemes

CONSTANTS
    Bytes,      \* the bytes offered, some classes of module Pda
    MaxDepth,   \* bound on the frame stack, which the code leaves unbounded
    StringBytes,\* the bytes offered inside a string literal
    MaxLexeme,  \* bound on the bytes of a lexeme
    MaxGap      \* bound on the bytes of a gap within one token

ASSUME SegmentationAssumption ==
    /\ Bytes \subseteq Byte /\ StringBytes \subseteq Byte
    /\ MaxDepth \in Nat /\ MaxLexeme \in Nat /\ MaxGap \in Nat

VARIABLES
    pda,        \* the automaton after the bytes read
    pending,    \* Option<Pending>: the lexeme buffered across tokens
    depth,      \* ScopeTracker::depth, the tracker's own delimiter count
    walk,       \* the locals of `observe`
    emitted,    \* the lexeme the last step passed to dispatch_token, if any
    munched     \* the gap tokens the last step passed to it, in order

vars == <<pda, pending, depth, walk, emitted, munched>>

NoPending == [kind |-> NoLexKind, buf |-> <<>>, anchor |-> "none"]

Idle == [active |-> FALSE, continuing |-> FALSE, anchor |-> "none", seg |-> <<>>]

Walking(continuing, anchor, seg) ==
    [active |-> TRUE, continuing |-> continuing, anchor |-> anchor, seg |-> seg]

Lexeme(bytes, anchor) == [bytes |-> bytes, anchor |-> anchor]
NoLexeme == Lexeme(<<>>, "none")

(***************************************************************************)
(* What on_open and on_close make of the tracker's depth; the other fields *)
(* of the scope are not modelled here.                                     *)
(***************************************************************************)
Recounted(d, token) ==
    CASE token.bytes \in OpenerToken -> d + 1
      [] token.bytes \in CloserToken /\ d > 0 -> d - 1
      [] OTHER -> d

\* The depth once the tokens of a gap are dispatched, in order.
Counted(d, tokens) ==
    LET after[n \in 0 .. Len(tokens)] ==
          IF n = 0 THEN d ELSE Recounted(after[n - 1], tokens[n])
    IN  after[Len(tokens)]

\* dispatch_token on a lexeme, on the tokens of a gap, on nothing.
Emits(bytes, anchor) ==
    emitted' = Lexeme(bytes, anchor) /\ munched' = <<>> /\ UNCHANGED depth

Munches(tokens) ==
    /\ emitted' = NoLexeme
    /\ munched' = tokens
    /\ depth' = Counted(depth, tokens)

Quiet == emitted' = NoLexeme /\ munched' = <<>> /\ UNCHANGED depth
-----------------------------------------------------------------------------
Init ==
    /\ pda = PdaNew
    /\ pending = NoPending
    /\ depth = 0
    /\ walk = Idle
    /\ emitted = NoLexeme
    /\ munched = <<>>

\* Faulty: every token starts afresh, so a fragment is dispatched as a name.
BeginTokenAfresh ==
    /\ ~walk.active
    /\ walk' = Walking(FALSE, pda.state, <<>>)
    /\ IF pending = NoPending THEN Quiet ELSE Emits(pending.buf, pending.anchor)
    /\ pending' = NoPending
    /\ UNCHANGED pda

\* observe, up to the loop: does this token continue the buffered lexeme?
\* A buffer it does not continue is dispatched.
BeginToken ==
    /\ ~walk.active
    /\ IF pending # NoPending /\ LexKind(pda.state) = pending.kind
       THEN walk' = Walking(TRUE, pending.anchor, <<>>) /\ Quiet /\ UNCHANGED pending
       ELSE /\ walk' = Walking(FALSE, pda.state, <<>>)
            /\ IF pending = NoPending THEN Quiet
               ELSE Emits(pending.buf, pending.anchor)
            /\ pending' = NoPending
    /\ UNCHANGED pda

\* The lexeme class before a byte, and after it.
Inside  == LexKind(pda.state)
Inside2 == LexKind(pda'.state)

\* The open lexeme: what is buffered, and what this token has added to it.
InFlight ==
    IF Inside = NoLexKind THEN NoLexeme
    ELSE IF walk.active /\ ~walk.continuing
         THEN Lexeme(BytesOf(walk.seg), walk.anchor)
         ELSE Lexeme(pending.buf \o BytesOf(walk.seg), pending.anchor)

\* A byte of the token is re-driven; the bounds are the model's.
Driven(b) ==
    /\ walk.active
    /\ Lives(pda, b)
    /\ pda' = Advance(pda, b)
    /\ Len(pda'.stack) <= MaxDepth
    /\ IF Inside = NoLexKind THEN Len(walk.seg) < MaxGap
       ELSE Inside2 = Inside => Len(InFlight.bytes) < MaxLexeme
    /\ pda.state = "StrBody" => b \in StringBytes

\* The byte stays in the segment's lexeme, or in its gap.
Accumulate(b) ==
    /\ Driven(b)
    /\ Inside2 = Inside
    /\ walk' = Walking(walk.continuing, walk.anchor,
                       Append(walk.seg, Read(b, pda.state)))
    /\ Quiet
    /\ UNCHANGED pending

\* Faulty: the buffer is read and not taken.
CloseLexemeKeepsBuffer(b) ==
    /\ Driven(b)
    /\ Inside # NoLexKind /\ Inside2 # Inside
    /\ IF walk.continuing
       THEN Emits(pending.buf \o BytesOf(walk.seg), pending.anchor)
       ELSE Emits(BytesOf(walk.seg), walk.anchor)
    /\ walk' = Walking(FALSE, pda.state, <<Read(b, pda.state)>>)
    /\ UNCHANGED pending

\* emit_lexeme, and a new segment at the byte that closed the lexeme.
CloseLexeme(b) ==
    /\ Driven(b)
    /\ Inside # NoLexKind /\ Inside2 # Inside
    /\ IF walk.continuing
       THEN /\ Emits(pending.buf \o BytesOf(walk.seg), pending.anchor)
            /\ pending' = NoPending
       ELSE Emits(BytesOf(walk.seg), walk.anchor) /\ UNCHANGED pending
    /\ walk' = Walking(FALSE, pda.state, <<Read(b, pda.state)>>)

\* The gap is flushed and the byte starts a lexeme segment.
OpenLexeme(b) ==
    /\ Driven(b)
    /\ Inside = NoLexKind /\ Inside2 # NoLexKind
    /\ Munches(FlushGap(walk.seg, walk.anchor))
    /\ walk' = Walking(FALSE, pda.state, <<Read(b, pda.state)>>)
    /\ UNCHANGED pending

\* observe, after the loop: buffer_trailing, or flush_gap for a gap.
EndToken ==
    /\ walk.active
    /\ walk' = Idle
    /\ IF Inside = NoLexKind
       THEN Munches(FlushGap(walk.seg, walk.anchor)) /\ UNCHANGED pending
       ELSE /\ Quiet
            /\ pending' =
                 IF walk.continuing
                 THEN [pending EXCEPT !.buf = @ \o BytesOf(walk.seg)]
                 ELSE [kind |-> Inside, buf |-> BytesOf(walk.seg),
                       anchor |-> walk.anchor]
    /\ UNCHANGED pda

\* DecoderSession::reset, between two tokens.
Reset ==
    /\ ~walk.active
    /\ pda' = PdaNew
    /\ pending' = NoPending
    /\ walk' = Idle
    /\ depth' = 0
    /\ emitted' = NoLexeme
    /\ munched' = <<>>

ReadByte(b) == Accumulate(b) \/ CloseLexeme(b) \/ OpenLexeme(b)

Next ==
    \/ BeginToken
    \/ \E b \in Bytes : ReadByte(b)
    \/ EndToken
    \/ Reset

Spec == Init /\ [][Next]_vars
-----------------------------------------------------------------------------
PendingType == [kind : {"Ident", "Number", "Date", "Str"}, buf : Seq(Byte),
                anchor : State]

WalkType == [active : {TRUE}, continuing : BOOLEAN, anchor : State, seg : SegType]

TypeOK ==
    /\ pda \in PdaType
    /\ pending \in PendingType \cup {NoPending}
    /\ depth \in Nat
    /\ walk \in WalkType \cup {Idle}
    /\ emitted \in [bytes : Seq(Byte), anchor : State] \cup {NoLexeme}
    /\ munched \in Seq(GapTokenType)

(***************************************************************************)
(* Between two tokens a lexeme is buffered exactly when the automaton is   *)
(* inside one, and of its class: the narrower reads the buffer as the      *)
(* prefix of what the next token continues (`position`, `narrow_prefix`),  *)
(* and the flush at the top of `observe`, of a buffer the token does not   *)
(* continue, never runs (scope.rs 359-363).                                *)
(***************************************************************************)
PendingIsOpenLexeme == ~walk.active => pending.kind = Inside

(***************************************************************************)
(* The tracker counts delimiters from the gaps it dispatches; the frames   *)
(* of the automaton are another count.  They agree between tokens, however *)
(* the tokens cut strings, lambdas and closers: binders and enclosing      *)
(* pipelines are restored at the delimiter that really closes them         *)
(* (on_close, scope.rs 753-815).                                           *)
(***************************************************************************)
DepthInStep == ~walk.active => depth = Len(pda.stack)

(***************************************************************************)
(* Column names are stored unquoted and matched quoted again, so the two   *)
(* conversions must be inverse on every string the automaton lets through, *)
(* doubled quotes and fragments included (unquote, scope.rs 111-133;       *)
(* quote, narrow.rs 364-378).                                              *)
(***************************************************************************)
StringsRoundTrip ==
    emitted # NoLexeme /\ Head(emitted.bytes) = "'"
      => Quote(Unquote(emitted.bytes)) = emitted.bytes

(***************************************************************************)
(* Lexemes are dispatched as the automaton cuts them, whole and under the  *)
(* state they opened from, whatever the tokens were: `a fragmented and a   *)
(* whole identifier drive scope identically` (scope.rs 491-495).           *)
(***************************************************************************)
Lexing == INSTANCE Lexing WITH open <- InFlight, closed <- emitted

RefinesLexing == Lexing!Spec

(***************************************************************************)
(* The comment on flush_gap: every token of a gap shares the anchor, but   *)
(* `only | (on_pipe) and the let-path ident read it` (scope.rs 435-437).   *)
(* An opener reads it too: on_open asks whether it follows a tilde.        *)
(***************************************************************************)
OpenersClassifyAlike ==
    \A i \in DOMAIN munched :
      munched[i].bytes \in OpenerToken
        => (munched[i].anchor = "SawTilde" <=> munched[i].at = "SawTilde")
=============================================================================
