-------------------------- MODULE MCDecoderSession --------------------------
(***************************************************************************)
(* Two sessions and a vocabulary with the tokens that make masking hard:   *)
(* closers, tokens that close two frames or open and close one, a          *)
(* separator and a multiplicity that need an enclosing frame, and the      *)
(* empty token.                                                            *)
(***************************************************************************)
EXTENDS DecoderSession

Tokens == << <<"|", "a", ".", "a">>, <<"(">>, <<")">>, <<")", ")">>,
             <<"(", ")">>, <<"[">>, <<"*", "]">>, <<",">>, <<>> >>

OneByOne == {")", "*"}

\* The sessions are interchangeable: no call tells them apart.
SessionSymmetry == Permutations(Sessions)
=============================================================================
