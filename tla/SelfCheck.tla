----------------------------- MODULE SelfCheck -----------------------------
(***************************************************************************)
(* The tokenizer self-check of src/src/selfcheck.rs: `self_check` drives   *)
(* each sample through a fresh session, taking at every position the       *)
(* longest token of the vocabulary that is a prefix of what remains, and   *)
(* returns at the first failure.  One action per turn of its two loops.    *)
(***************************************************************************)
EXTENDS Pda

CONSTANTS
    Vocabs,         \* the vocabularies a host may declare
    SampleLists     \* the lists of samples a host may check

ASSUME SelfCheckAssumption ==
    /\ Vocabs \subseteq Seq(Seq(Byte))
    /\ SampleLists \subseteq Seq(Seq(Byte))

VARIABLES
    vocab,      \* the host's vocabulary
    samples,    \* the samples
    index,      \* the sample being driven, from 1
    consumed,   \* bytes of it segmented so far
    pda,        \* the automaton of the session driving it
    verdict     \* "running", or what self_check returned

vars == <<vocab, samples, index, consumed, pda, verdict>>

TokenBytes(id) == vocab[id + 1]

Sample == samples[index]
Rest   == SubSeq(Sample, consumed + 1, Len(Sample))

\* Faulty: the empty token is a candidate.
CandidatesWithEmpty(v, rest) == {i \in DOMAIN v : IsPrefix(v[i], rest)}

\* Faulty: a token reaching beyond the sample is a candidate.
CandidatesOverrun(v, rest) ==
    {i \in DOMAIN v : v[i] # <<>> /\ (IsPrefix(v[i], rest) \/ IsPrefix(rest, v[i]))}

\* The non-empty tokens the remaining bytes start with.
Candidates(v, rest) == {i \in DOMAIN v : v[i] # <<>> /\ IsPrefix(v[i], rest)}

\* longest_match: among the longest candidates the lowest id wins.
LongestMatch(v, rest) ==
    LET c       == Candidates(v, rest)
        longest == {i \in c : \A j \in c : Len(v[j]) <= Len(v[i])}
    IN  (CHOOSE i \in longest : \A j \in longest : i <= j) - 1

\* Faulty: the deferred tokens are never re-probed.
MaskedIfDeferred(bytes, p) == ProbeFate(p.state, bytes) # "alive"

\* The bit of a token in the mask of the session at p is clear: neither is the
\* token independent of the stack, nor deferred and admitted by the live one.
Masked(bytes, p) ==
    /\ ProbeFate(p.state, bytes) # "alive"
    /\ ~ /\ ProbeFate(p.state, bytes) = "consulted"
         /\ p.stack # <<>>
         /\ Admits(p, bytes)

Running == verdict = "running"
-----------------------------------------------------------------------------
Init ==
    /\ vocab \in Vocabs
    /\ samples \in SampleLists
    /\ index = 1
    /\ consumed = 0
    /\ pda = PdaNew
    /\ verdict = "running"

Segmentable == index <= Len(samples) /\ Candidates(vocab, Rest) # {}

Advanced ==
    /\ Running
    /\ Segmentable
    /\ LET id == LongestMatch(vocab, Rest)
       IN  /\ ~Masked(TokenBytes(id), pda)
           /\ Admits(pda, TokenBytes(id))
           /\ pda' = FeedAll(pda, TokenBytes(id))
           /\ consumed' = consumed + Len(TokenBytes(id))
    /\ UNCHANGED <<vocab, samples, index, verdict>>

Fail(why) == verdict' = why /\ UNCHANGED <<vocab, samples, index, consumed, pda>>

DeadEnd ==
    /\ Running
    /\ Segmentable
    /\ LET id == LongestMatch(vocab, Rest)
       IN  Masked(TokenBytes(id), pda) \/ ~Admits(pda, TokenBytes(id))
    /\ Fail("DeadEnd")

Unsegmentable ==
    /\ Running
    /\ index <= Len(samples)
    /\ Rest # <<>>
    /\ Candidates(vocab, Rest) = {}
    /\ Fail("Unsegmentable")

Incomplete ==
    /\ Running
    /\ index <= Len(samples)
    /\ Rest = <<>>
    /\ ~IsAccepting(pda)
    /\ Fail("Incomplete")

NextSample ==
    /\ Running
    /\ index <= Len(samples)
    /\ Rest = <<>>
    /\ IsAccepting(pda)
    /\ index' = index + 1
    /\ consumed' = 0
    /\ pda' = PdaNew
    /\ UNCHANGED <<vocab, samples, verdict>>

Return ==
    /\ Running
    /\ index > Len(samples)
    /\ Fail("ok")

Next == Advanced \/ DeadEnd \/ Unsegmentable \/ Incomplete \/ NextSample \/ Return

\* self_check is a loop that runs on: fairness says only that it is not stopped.
Spec == Init /\ [][Next]_vars /\ WF_vars(Next)
-----------------------------------------------------------------------------
TypeOK ==
    /\ vocab \in Vocabs
    /\ samples \in SampleLists
    /\ index \in 1 .. Len(samples) + 1
    /\ consumed \in Nat
    /\ index <= Len(samples) => consumed <= Len(Sample)
    /\ pda \in PdaType
    /\ verdict \in {"running", "ok", "DeadEnd", "Unsegmentable", "Incomplete"}

(***************************************************************************)
(* The alarm is a statement about the vocabulary: over samples that are    *)
(* all complete queries, no token can be refused and no stream can end     *)
(* open, so the only failure left is a position no token covers            *)
(* (selfcheck.rs 16-22), and an Ok means every sample is a query.  The     *)
(* session behind it sees tokens, the grammar sees bytes.                  *)
(*                                                                         *)
(* The choice of the longest token is never taken back, and may come to a  *)
(* position no token covers although other tokens spell the sample.  Even  *)
(* so the alarm then names a byte the vocabulary has no token for          *)
(* (selfcheck.rs 56-57): it is never raised against a vocabulary with a    *)
(* token for every byte of the sample, whatever longer tokens it has.      *)
(***************************************************************************)
IsQuery(q) == Completes(PdaNew, q)

HasEachByteOf(q) == \A i \in DOMAIN q : <<q[i]>> \in ToSet(vocab)

VerdictIsAboutTheVocabulary ==
    /\ verdict = "ok" => \A i \in DOMAIN samples : IsQuery(samples[i])
    /\ verdict \in {"DeadEnd", "Incomplete"} => ~IsQuery(Sample)
    /\ verdict = "DeadEnd" => ~Admits(PdaNew, Sample)
    /\ verdict = "Unsegmentable" => ~HasEachByteOf(Sample)

\* The self-check always returns: `rest` shrinks on every turn, whatever empty
\* tokens the vocabulary holds (selfcheck.rs 139-142).
Terminates == <>(verdict # "running")
=============================================================================
