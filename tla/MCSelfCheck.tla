---------------------------- MODULE MCSelfCheck ----------------------------
(***************************************************************************)
(* Every vocabulary drawn in a fixed order from a few pieces of the        *)
(* samples, the empty token among them, and lists that mix queries,        *)
(* prefixes of queries and texts that are neither.                         *)
(***************************************************************************)
EXTENDS SelfCheck

Pieces == << <<>>, <<"|">>, <<"a">>, <<"|", "a">>, <<"a", ".">>, <<".", "a">>,
             <<".">>, <<"(">>, <<")">> >>

\* The pieces a set of positions picks out, in order.
Picked(ps) == SelectSeq(Pieces, LAMBDA p : \E i \in ps : Pieces[i] = p)

AllVocabs == {Picked(ps) : ps \in SUBSET DOMAIN Pieces}

Query    == <<"|", "a", ".", "a", "(", ")">>
Prefix   == <<"|", "a", ".">>
NotAQuery == <<"|", "a", ")">>

AllSampleLists == {<<Query>>, <<Query, Query>>, <<Query, Prefix>>,
                   <<NotAQuery>>, << <<>> >>, <<>>}
=============================================================================
