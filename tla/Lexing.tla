------------------------------- MODULE Lexing -------------------------------
(***************************************************************************)
(* What the schema scope machine may rely on about names and literals,     *)
(* said without tokens: the stream of bytes is cut into lexemes by the     *)
(* automaton alone.  A lexeme opens at the first byte inside it, grows     *)
(* while the automaton stays inside one lexeme class, and closes whole at  *)
(* the first byte that leaves the class; it is anchored at the state it    *)
(* opened from.  How a tokenizer grouped the bytes is not part of the      *)
(* state, so nothing here can depend on it.  The automaton is a parameter. *)
(***************************************************************************)
EXTENDS Sequences

CONSTANTS
    Byte,           \* the input alphabet
    PdaNew,         \* the fresh automaton
    Lives(_, _),    \* the byte has a continuation
    Advance(_, _),  \* the automaton after a live byte
    LexKind(_),     \* the lexeme class a state is inside
    NoLexKind       \* ... when it is inside none

VARIABLES
    pda,        \* the automaton after the bytes read
    open,       \* the lexeme being read, or NoLexeme
    closed      \* the lexeme the last step completed, or NoLexeme

lvars == <<pda, open, closed>>

Lexeme(bytes, anchor) == [bytes |-> bytes, anchor |-> anchor]
NoLexeme == Lexeme(<<>>, "none")

Init ==
    /\ pda = PdaNew
    /\ open = NoLexeme
    /\ closed = NoLexeme

\* Still inside the open lexeme, or still outside any.
Stay(b) ==
    /\ LexKind(pda'.state) = LexKind(pda.state)
    /\ open' = IF LexKind(pda.state) = NoLexKind THEN NoLexeme
               ELSE Lexeme(Append(open.bytes, b), open.anchor)
    /\ closed' = NoLexeme

\* Across a boundary: what was open is complete, and b may open the next.
Cross(b) ==
    /\ LexKind(pda'.state) # LexKind(pda.state)
    /\ open' = IF LexKind(pda'.state) = NoLexKind THEN NoLexeme
               ELSE Lexeme(<<b>>, pda.state)
    /\ closed' = open

Read(b) ==
    /\ Lives(pda, b)
    /\ pda' = Advance(pda, b)
    /\ Stay(b) \/ Cross(b)

\* The completed lexeme has been taken note of.
Taken == closed' = NoLexeme /\ UNCHANGED <<pda, open>>

Restart == pda' = PdaNew /\ open' = NoLexeme /\ closed' = NoLexeme

Next == (\E b \in Byte : Read(b)) \/ Taken \/ Restart

Spec == Init /\ [][Next]_lvars
=============================================================================
