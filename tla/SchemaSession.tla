--------------------------- MODULE SchemaSession ---------------------------
(***************************************************************************)
(* A decode session under a schema (src/src/session.rs, with_schema), and  *)
(* a host that writes queries with it.  The session masks, and commits     *)
(* whole tokens to the automaton and the scope machine in step; the host   *)
(* spells a query that is legal over the schema, in any tokens of the      *)
(* vocabulary that spell it, and may leave the query for any other token   *)
(* the automaton admits (accept_token does not check the schema), or feed  *)
(* a single byte, which moves the automaton and not the scope machine.     *)
(*                                                                         *)
(* A query is a sequence of pieces, lexemes and blanks.  A piece says what *)
(* the schema allows in its place: the names, or the type of the literal.  *)
(***************************************************************************)
EXTENDS Narrowing

CONSTANTS
    Queries,    \* the queries the host writes
    Strays,     \* the ids the host may leave its query with
    StrayBytes, \* the single bytes it may leave it with
    MaxStray    \* bound on the calls after the host has left its query

Piece == [bytes : Seq(Byte), legal : SUBSET Seq(Byte),
          type : {"Str", "Number", "Date", NoType}]

ASSUME SchemaSessionAssumption ==
    /\ Vocab \in Seq(Seq(Byte))
    /\ Queries \subseteq Seq(Piece)
    /\ Strays \subseteq Ids /\ StrayBytes \subseteq Byte
    /\ MaxStray \in Nat

VARIABLES
    pda,        \* DecoderSession.pda
    tracker,    \* DecoderSession.tracker
    memo,       \* DecoderSession.narrow_cache
    answer,     \* the mask last returned, if none was committed to since
    host        \* the host: its query, the bytes of it written, its strays

vars == <<pda, tracker, memo, answer, host>>

NoAnswer == [known |-> FALSE, mask |-> {}]
Masked(mask) == [known |-> TRUE, mask |-> mask]

Text == [query \in Queries |->
           LET upTo[k \in 0 .. Len(query)] ==
                 IF k = 0 THEN <<>> ELSE upTo[k - 1] \o query[k].bytes
           IN  upTo[Len(query)]]

Writing(query) == [query |-> query, text |-> Text[query], at |-> 0, strays |-> <<>>]

OnQuery   == host.strays = <<>>
OnlyTokens == \A i \in DOMAIN host.strays : host.strays[i] = "token"

L1Mask(p) == Assembled(Build(p.state), p)
-----------------------------------------------------------------------------
Init ==
    /\ pda = PdaNew
    /\ tracker = NewTracker
    /\ memo = NoMemo
    /\ answer = NoAnswer
    /\ \E query \in Queries : host = Writing(query)

Answered(overlay) ==
    /\ answer' = Masked(overlay.mask)
    /\ memo' = overlay.memo

AllowedMask ==
    /\ ~answer.known
    /\ Answered(Overlay(L1Mask(pda), tracker, pda, memo))
    /\ UNCHANGED <<pda, tracker, host>>

Commit(id) ==
    /\ Admits(pda, TokenBytes(id))
    /\ pda' = FeedAll(pda, TokenBytes(id))
    /\ tracker' = Observe(tracker, TokenBytes(id), pda)
    /\ answer' = NoAnswer
    /\ UNCHANGED memo

\* The piece of the query the host is at or in, and how far in.
Begun(query, at) ==
    LET before[k \in 0 .. Len(query)] ==
          IF k = 0 THEN 0 ELSE before[k - 1] + Len(query[k].bytes)
        k == Max({0} \cup {j \in 1 .. Len(query) - 1 : before[j] <= at})
    IN  [piece |-> k + 1, typed |-> at - before[k]]

\* A tokenizer cuts names and literals anywhere, and operators nowhere
\* (`fragment`, src/tests/bpe_split_soundness.rs).
CutsWell(query, at) ==
    LET here == Begun(query, at)
    IN  \/ here.typed \in {0, Len(query[here.piece].bytes)}
        \/ query[here.piece].bytes[1] \in IdentTail \cup {"'"}

\* The tokens that go on spelling the query.
SpellsOn(id) ==
    LET to == host.at + Len(TokenBytes(id))
    IN  /\ TokenBytes(id) # <<>>
        /\ to <= Len(host.text)
        /\ SubSeq(host.text, host.at + 1, to) = TokenBytes(id)
        /\ CutsWell(host.query, to)

\* The host masks first, and samples a token of its query.
AcceptToken(id) ==
    /\ OnQuery /\ answer.known
    /\ SpellsOn(id)
    /\ Commit(id)
    /\ host' = [host EXCEPT !.at = @ + Len(TokenBytes(id))]

\* ... or another one, and is then on its own.
AcceptStray(id) ==
    /\ answer.known
    /\ Len(host.strays) < MaxStray
    /\ Commit(id)
    /\ host' = [host EXCEPT !.strays = Append(@, "token")]

AcceptByte(b) ==
    /\ Len(host.strays) < MaxStray
    /\ Lives(pda, b)
    /\ pda' = Advance(pda, b)
    /\ answer' = NoAnswer
    /\ host' = [host EXCEPT !.strays = Append(@, "byte")]
    /\ UNCHANGED <<tracker, memo>>

Reset(query) ==
    /\ pda' = PdaNew
    /\ tracker' = NewTracker
    /\ memo' = NoMemo
    /\ answer' = NoAnswer
    /\ host' = Writing(query)

Next ==
    \/ AllowedMask
    \/ \E id \in Ids : AcceptToken(id)
    \/ \E id \in Strays : AcceptStray(id)
    \/ \E b \in StrayBytes : AcceptByte(b)
    \/ \E query \in Queries : Reset(query)

Spec == Init /\ [][Next]_vars
-----------------------------------------------------------------------------
TypeOK ==
    /\ pda \in PdaType
    /\ answer.mask \subseteq Ids \cup {EosBit}
    /\ DOMAIN tracker = DOMAIN NewTracker
    /\ tracker.depth \in Nat
    /\ host.at \in 0 .. Len(host.text)

(***************************************************************************)
(* No shipped rule masks a token of the query being written, however the   *)
(* tokenizer cut it (the property of tests/l2_soundness.rs and tests/      *)
(* bpe_split_soundness.rs, over one tokenization each): every token that   *)
(* goes on spelling the query is in the mask, and EOS is at its end.  It   *)
(* holds of the queries of run schema_session, and is false of three other *)
(* legal queries (runs nav_claim, let_claim and binder_claim).             *)
(***************************************************************************)
GoldAdmitted ==
    answer.known /\ OnQuery =>
      /\ \A id \in Ids : SpellsOn(id) => id \in answer.mask
      /\ host.at = Len(host.text) => EosBit \in answer.mask

\* A token that begins the name or string of a piece, or goes on with it.
GoesOn(piece, typed, bytes) ==
    /\ bytes # <<>>
    /\ IF piece.bytes[1] = "'" THEN typed # <<>> \/ bytes[1] = "'"
                               ELSE bytes[1] \in IdentTail

(***************************************************************************)
(* Where the schema allows only some names, or literals of one type, the   *)
(* mask holds no other, however the text before was cut into tokens; and a *)
(* dot fused with the name after it is no way round (tests/l2_precision.rs *)
(* and tests/fused_tokenizer_precision.rs).  What is allowed is said by    *)
(* the query, not by the scope machine.                                    *)
(***************************************************************************)
PhantomsMasked ==
    answer.known /\ OnQuery /\ host.at < Len(host.text) =>
      LET here  == Begun(host.query, host.at)
          piece == host.query[here.piece]
          next  == IF here.piece < Len(host.query) THEN host.query[here.piece + 1] ELSE piece
          typed == SubSeq(piece.bytes, 1, here.typed)
      IN  \A bytes \in {TokenBytes(id) : id \in answer.mask \ {EosBit}} :
            /\ piece.legal # {} /\ GoesOn(piece, typed, bytes)
                 => Extends(typed \o bytes, piece.legal)
            /\ piece.bytes = <<".">> /\ next.legal # {} /\ IsFusedNav(bytes)
                 => Extends(Tail(bytes), next.legal)
            /\ piece.type # NoType /\ typed = <<>>
                 => Classify(bytes) \notin {"Str", "Number", "Date"} \ {piece.type}

(***************************************************************************)
(* The mask is a function of the text: what was fragmented or fused, which *)
(* masks were asked for and what the memo already held make no difference  *)
(* (`a fragmented and a whole identifier drive scope identically`,         *)
(* scope.rs 491-495).  The reference commits the query piece by piece, and *)
(* remembers nothing.                                                      *)
(***************************************************************************)
Fragments(query, at) ==
    LET here == Begun(query, at)
    IN  [k \in 1 .. here.piece - 1 |-> query[k].bytes]
          \o (IF here.typed = 0 THEN <<>>
              ELSE <<SubSeq(query[here.piece].bytes, 1, here.typed)>>)

MaskOf(s) == Overlay(L1Mask(s.pda), s.tracker, s.pda, NoMemo).mask

TextMask(query, at) ==
    MaskOf(FoldLeft(LAMBDA s, bytes :
                      [pda     |-> FeedAll(s.pda, bytes),
                       tracker |-> Observe(s.tracker, bytes, s.pda)],
                    [pda |-> PdaNew, tracker |-> NewTracker], Fragments(query, at)))

MaskIsOfTheText ==
    answer.known /\ OnQuery => answer.mask = TextMask(host.query, host.at)

(***************************************************************************)
(* What the memo holds is never seen in an answer: off the query as well,  *)
(* after single bytes, a mask is the one an empty memo would have led to   *)
(* (what a CacheKey tells apart, narrow.rs 64-89).                         *)
(***************************************************************************)
MemoIsInvisible ==
    answer.known => answer.mask = MaskOf([pda |-> pda, tracker |-> tracker])

(***************************************************************************)
(* Whatever the scope machine has seen, a token it is given in two parts   *)
(* that meet inside a lexeme leaves it as the whole token does: the class, *)
(* the anchor and the position a lexeme was opened with are those of its   *)
(* first byte (observe and buffer_trailing, scope.rs 342-494).             *)
(***************************************************************************)
InLexeme(p) == LexKind(p.state) # NoLexKind

ObserveInTwo(t, head, tail, p) == Observe(Observe(t, head, p), tail, FeedAll(p, head))

FragmentsDriveAlike ==
    answer.known => \A id \in Ids : \A n \in 1 .. Len(TokenBytes(id)) - 1 :
      LET bytes == TokenBytes(id)
          head  == SubSeq(bytes, 1, n)
      IN  Admits(pda, bytes) /\ InLexeme(FeedAll(pda, head)) =>
            ObserveInTwo(tracker, head, SubSeq(bytes, n + 1, Len(bytes)), pda)
              = Observe(tracker, bytes, pda)

(***************************************************************************)
(* The overlay only clears tokens and agrees on EOS, on a legal query or   *)
(* off it, after single bytes too, and whatever the memo has kept: a mask  *)
(* memoised without EOS would, much later, end no query (session.rs        *)
(* 158-197, narrow.rs 4-8).                                                *)
(***************************************************************************)
NarrowsOnly ==
    answer.known =>
      /\ answer.mask \subseteq L1Mask(pda)
      /\ EosBit \in answer.mask <=> EosBit \in L1Mask(pda)

(***************************************************************************)
(* Where the automaton lets the text go on, the overlay does not leave the *)
(* host with blanks alone, even after tokens that are on no legal query    *)
(* (narrow.rs 104-121: a prefix that has left the trie is not narrowed).   *)
(* A host that feeds single bytes as well is not promised this.            *)
(***************************************************************************)
Blank(id) == id # EosBit /\ \A i \in DOMAIN TokenBytes(id) : TokenBytes(id)[i] \in WS

NotStranded ==
    answer.known /\ OnlyTokens /\ (\A id \in answer.mask : Blank(id))
      => \A id \in L1Mask(pda) : Blank(id)

(***************************************************************************)
(* When a mask is answered, each memoised one is what its rule keeps over  *)
(* the names it was built from: those of the schema, or the columns emitted*)
(* by then in this stream (narrow.rs 67-71, session.rs 286-298).  The      *)
(* reference is the set of names; the prefix typed is read off the trie.   *)
(***************************************************************************)
KeptOver(names, typed, kind) ==
    {id \in Ids : IsCandidate(TokenBytes(id), kind, typed # <<>>)
                    => Extends(typed \o TokenBytes(id), names)} \cup {EosBit}

KeptFused(names) ==
    {id \in Ids : IsFusedNav(TokenBytes(id)) => Extends(Tail(TokenBytes(id)), names)}
      \cup {EosBit}

MemoFresh ==
    answer.known => \A key \in DOMAIN memo.tries :
      LET entry == memo.tries[key]
          pos   == [Position(key.rule) EXCEPT !.class = key.class]
          names == ToSet(LegalNames(pos, SubSeq(tracker.emitted_strings, 1, key.count)))
          typed == (UNION {Prefixes(name) : name \in names}) \cup {<<>>}
      IN  /\ key.count <= Len(tracker.emitted_strings)
          /\ \A cursor \in DOMAIN entry.masks :
               \E part \in typed :
                 /\ Walk(entry.trie, Root, part) = Stay(cursor)
                 /\ entry.masks[cursor] =
                      IF key.fused THEN KeptFused(names)
                      ELSE KeptOver(names, part, TrieKind(pos))

(***************************************************************************)
(* A binder never outlives its delimiter, nor a shadowed binding gets      *)
(* lost: undoing all that is saved leaves no binding at all, and the saves *)
(* lie in the order of their delimiters, so that a closer undoes exactly   *)
(* its own (on_close, scope.rs 753-815).  Single bytes may leave the depth *)
(* behind the automaton's; the saves stay consistent with the depth.       *)
(***************************************************************************)
Nested(saves) ==
    /\ \A i \in DOMAIN saves : saves[i].depth \in 0 .. tracker.depth
    /\ \A i \in 1 .. Len(saves) - 1 : saves[i].depth <= saves[i + 1].depth

BindingsUnwind ==
    /\ DOMAIN Unwound(tracker, 0).vars = {} /\ Unwound(tracker, 0).rows = {}
    /\ Nested(tracker.binder_saves) /\ Nested(tracker.scope_saves)
=============================================================================
