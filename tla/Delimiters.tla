----------------------------- MODULE Delimiters -----------------------------
(***************************************************************************)
(* What the recognizer promises about delimiters, said without the         *)
(* automaton: outside string literals the accepted bytes nest properly, a  *)
(* closer is accepted only against the innermost open delimiter, inside a  *)
(* string literal every byte is text and a doubled quote is one character, *)
(* and the end of the stream is accepted only with nothing left open.      *)
(* The recognizer may refuse any byte it likes; a refused byte changes     *)
(* nothing.                                                                *)
(***************************************************************************)
EXTENDS SequencesExt

CONSTANTS
    Bytes,      \* every byte class
    MaxOpen     \* bound on the delimiters open at once

VARIABLES
    open,       \* the openers not yet closed, outermost first
    quoting,    \* "code", "text" inside a string, "quote" after a quote in one
    input       \* the last byte offered, and whether it was accepted

dvars == <<open, quoting, input>>

Opener     == {"(", "[", "{"}
Partner(b) == CASE b = ")" -> "(" [] b = "]" -> "[" [] b = "}" -> "{"
Delimiter  == Opener \cup {")", "]", "}", "'"}

Offered(b, ok) == [byte |-> b, ok |-> ok]

Init ==
    /\ open = <<>>
    /\ quoting = "code"
    /\ input = Offered("none", TRUE)

\* Any byte inside a string literal but the quote.
Text(b) ==
    /\ quoting = "text"
    /\ b # "'"
    /\ UNCHANGED <<open, quoting>>

Plain(b) ==
    /\ quoting # "text"
    /\ b \notin Delimiter
    /\ quoting' = "code"
    /\ UNCHANGED open

Quote(b) ==
    /\ b = "'"
    /\ quoting' = IF quoting = "text" THEN "quote" ELSE "text"
    /\ UNCHANGED open

Open(b) ==
    /\ quoting # "text"
    /\ b \in Opener
    /\ Len(open) < MaxOpen
    /\ open' = Append(open, b)
    /\ quoting' = "code"

Shut(b) ==
    /\ quoting # "text"
    /\ b \in {")", "]", "}"}
    /\ open # <<>>
    /\ open[Len(open)] = Partner(b)
    /\ open' = Front(open)
    /\ quoting' = "code"

Accept(b) ==
    /\ input' = Offered(b, TRUE)
    /\ Text(b) \/ Plain(b) \/ Quote(b) \/ Open(b) \/ Shut(b)

Refuse(b) ==
    /\ input' = Offered(b, FALSE)
    /\ UNCHANGED <<open, quoting>>

\* The end of the stream, signalled and accepted.
End ==
    /\ open = <<>>
    /\ quoting # "text"
    /\ input' = Offered("eos", TRUE)
    /\ UNCHANGED <<open, quoting>>

Restart ==
    /\ open' = <<>>
    /\ quoting' = "code"
    /\ input' = Offered("none", TRUE)

Next ==
    \/ \E b \in Bytes : Accept(b) \/ Refuse(b)
    \/ Refuse("eos")
    \/ End
    \/ Restart

Spec == Init /\ [][Next]_dvars
=============================================================================
