------------------------------ MODULE Lexemes ------------------------------
(***************************************************************************)
(* The lexical helpers of src/src/schema/scope.rs, free of state: how a    *)
(* structural gap is munched into tokens, what class of lexeme a token is, *)
(* and how a string literal is unquoted and (narrow.rs) quoted again.      *)
(***************************************************************************)
EXTENDS Pda

Read(b, at) == [byte |-> b, at |-> at]

\* A gap token; `at` is the state its first byte was really read from.
GapToken(bytes, anchor, at) == [bytes |-> bytes, anchor |-> anchor, at |-> at]

SegType      == Seq([byte : Byte, at : State])
GapTokenType == [bytes : Seq(Byte), anchor : State, at : State]

BytesOf(seg) == [i \in DOMAIN seg |-> seg[i].byte]

TwoByteOp(x, y) == \/ <<x, y>> = <<"-", ">">>
                   \/ x \in {"=", "!", "<", ">"} /\ y = "="
                   \/ x \in {"&", "|"} /\ y = x

(***************************************************************************)
(* flush_gap: the maximal munch of a structural gap.                       *)
(***************************************************************************)
WordLength(seg, i) ==
    Max({n \in 1 .. Len(seg) - i + 1 :
           n = 1 \/ \A j \in i .. i + n - 1 : seg[j].byte \in IdentTail})

MunchLength(seg, i) ==
    CASE i < Len(seg) /\ TwoByteOp(seg[i].byte, seg[i + 1].byte) -> 2
      [] seg[i].byte \in IdentStart -> WordLength(seg, i)
      [] OTHER -> 1

\* Faulty: the walk ends at the first blank.
FlushGapEndsAtBlank(seg, anchor) ==
    LET munch[i \in 1 .. Len(seg) + 1] ==
          CASE i > Len(seg) -> <<>>
            [] i \in DOMAIN seg /\ seg[i].byte \in WS -> <<>>
            [] OTHER ->
                 LET n == MunchLength(seg, i)
                 IN  <<GapToken(BytesOf(SubSeq(seg, i, i + n - 1)), anchor,
                                seg[i].at)>> \o munch[i + n]
    IN  munch[1]

FlushGap(seg, anchor) ==
    LET munch[i \in 1 .. Len(seg) + 1] ==
          CASE i > Len(seg) -> <<>>
            [] i \in DOMAIN seg /\ seg[i].byte \in WS -> munch[i + 1]
            [] OTHER ->
                 LET n == MunchLength(seg, i)
                 IN  <<GapToken(BytesOf(SubSeq(seg, i, i + n - 1)), anchor,
                                seg[i].at)>> \o munch[i + n]
    IN  munch[1]

(***************************************************************************)
(* unquote (scope.rs) and quote (narrow.rs): a quote inside a string is    *)
(* written twice.                                                          *)
(***************************************************************************)
Undoubled(s) ==
    LET rest[i \in 1 .. Len(s) + 1] ==
          CASE i > Len(s) -> <<>>
            [] OTHER -> <<s[i]>> \o
                 rest[IF i < Len(s) /\ s[i] = "'" /\ s[i + 1] = "'" THEN i + 2 ELSE i + 1]
    IN  rest[1]

\* Faulty: the quotes are stripped and the doubled ones inside kept.
UnquoteKeepsDoubles(s) ==
    IF Len(s) >= 2 /\ s[1] = "'" /\ Last(s) = "'" THEN SubSeq(s, 2, Len(s) - 1) ELSE s

Unquote(s) ==
    Undoubled(IF Len(s) >= 2 /\ s[1] = "'" /\ Last(s) = "'"
              THEN SubSeq(s, 2, Len(s) - 1) ELSE s)

Escaped(b) == IF b = "'" THEN <<b, b>> ELSE <<b>>

Doubled(s) ==
    LET out[n \in 0 .. Len(s)] ==
          IF n = 0 THEN <<>> ELSE out[n - 1] \o Escaped(s[n])
    IN  out[Len(s)]

Quote(s) == <<"'">> \o Doubled(s) \o <<"'">>

(***************************************************************************)
(* classify: the class of a whole token.  An Ident carries its bytes, a    *)
(* Str its unquoted content.                                               *)
(***************************************************************************)
OpenerToken == {<<"(">>, <<"[">>, <<"{">>}
CloserToken == {<<b>> : b \in Closer}

CmpToken == {<<"=", "=">>, <<"!", "=">>, <<"<", "=">>, <<">", "=">>, <<"<">>, <<">">>}

Classify(bytes) ==
  CASE \A i \in DOMAIN bytes : bytes[i] \in WS -> "Ws"
    [] bytes = <<"-", ">">>     -> "Arrow"
    [] bytes \in CmpToken       -> "Cmp"
    [] bytes = <<".">>          -> "Dot"
    [] bytes = <<"$">>          -> "Dollar"
    [] bytes = <<"|">>          -> "Pipe"
    [] bytes = <<",">>          -> "Comma"
    [] bytes \in OpenerToken    -> "Open"
    [] bytes \in CloserToken    -> "Close"
    [] bytes[1] = "'"           -> "Str"
    [] bytes[1] = "%"           -> "Date"
    [] bytes[1] \in Digit       -> "Number"
    [] bytes[1] = "-" /\ Len(bytes) > 1 /\ bytes[2] \in Digit -> "Number"
    [] bytes[1] \in IdentStart  -> "Ident"
    [] OTHER                    -> "Other"
=============================================================================
