-------------------------- MODULE CompiledGrammar --------------------------
(***************************************************************************)
(* A vocabulary compiled against the automaton: ids, the reserved EOS bit, *)
(* the partition of the vocabulary at a state (src/src/grammar/            *)
(* compiled.rs) and the mask a session assembles from one                  *)
(* (src/src/session.rs, `allowed_mask`).                                   *)
(***************************************************************************)
EXTENDS Pda

CONSTANT Vocab   \* the host's tokens: the bytes of token id at index id + 1

Ids    == 0 .. Len(Vocab) - 1
EosBit == Len(Vocab)

TokenBytes(id) == Vocab[id + 1]

Partition == [indep : SUBSET Ids, deferred : SUBSET Ids]

\* Faulty: a deferred token is also filed as independent.
BuildKeepsDeferred(s) ==
  [indep    |-> {id \in Ids : ProbeFate(s, TokenBytes(id)) # "dead"},
   deferred |-> {}]

\* `build`: every token is probed from the state over an empty stack.
Build(s) ==
  [indep    |-> {id \in Ids : ProbeFate(s, TokenBytes(id)) = "alive"},
   deferred |-> {id \in Ids : ProbeFate(s, TokenBytes(id)) = "consulted"}]

\* Faulty: under any frame every deferred token is allowed, none re-probed.
AssembledUnprobed(partition, p) ==
    partition.indep
      \cup {id \in partition.deferred : p.stack # <<>>}
      \cup {id \in {EosBit} : IsAccepting(p)}

\* The mask assembled from a partition and the live stack.  It overwrites the
\* whole of the session's reused buffer, so the buffer is no state of its own.
Assembled(partition, p) ==
    partition.indep
      \cup {id \in partition.deferred : p.stack # <<>> /\ Admits(p, TokenBytes(id))}
      \cup {id \in {EosBit} : IsAccepting(p)}
=============================================================================
