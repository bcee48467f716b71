--------------------------- MODULE SelfCheck_proofs ---------------------------
(***************************************************************************)
(* What the self-check reports is about the vocabulary, for every          *)
(* vocabulary and every list of samples.                                   *)
(***************************************************************************)
EXTENDS SelfCheck, Pda_proofs

(***************************************************************************)
(* longest_match is defined wherever a token fits, and returns one that    *)
(* does (selfcheck.rs 93-109).                                             *)
(***************************************************************************)
LEMMA LongestMatchIsCandidate ==
  ASSUME NEW v \in Seq(Seq(Byte)), NEW rest \in Seq(Byte), Candidates(v, rest) # {}
  PROVE  LongestMatch(v, rest) + 1 \in Candidates(v, rest)
<1> DEFINE c       == Candidates(v, rest)
           longest == {i \in c : \A j \in c : Len(v[j]) <= Len(v[i])}
           gaps    == {Len(rest) - Len(v[i]) : i \in c}
<1>1. ASSUME NEW i \in c
      PROVE  i \in Nat /\ Len(v[i]) \in Nat /\ Len(rest) - Len(v[i]) \in Nat
  <2>1. i \in DOMAIN v /\ Len(v[i]) <= Len(rest)
    BY DEF Candidates, IsPrefix
  <2>2. v[i] \in Seq(Byte) /\ i \in Nat
    BY <2>1
  <2> QED  BY <2>1, <2>2
<1>2. longest # {}
  <2>1. gaps \subseteq Nat /\ gaps # {}
    BY <1>1
  <2>2. PICK x \in gaps : \A y \in gaps : x <= y
    <3> HIDE DEF gaps
    <3> QED  BY <2>1, NatHasLeast
  <2>3. PICK i \in c : x = Len(rest) - Len(v[i])
    OBVIOUS
  <2>4. ASSUME NEW j \in c PROVE Len(v[j]) <= Len(v[i])
    <3>1. Len(rest) - Len(v[i]) <= Len(rest) - Len(v[j])
      BY <2>2, <2>3
    <3> HIDE DEF c
    <3> QED  BY <1>1, <3>1, <2>3
  <2> QED  BY <2>4
<1>3. longest \subseteq Nat
  BY <1>1
<1>4. \E i \in longest : \A j \in longest : i <= j
  <2> HIDE DEF longest
  <2> QED  BY <1>2, <1>3, NatHasLeast
<1> DEFINE first == CHOOSE i \in longest : \A j \in longest : i <= j
<1>5. first \in longest
  <2> HIDE DEF longest
  <2> QED  BY <1>4
<1>6. LongestMatch(v, rest) = first - 1
  BY DEF LongestMatch
<1> HIDE DEF first
<1>7. first \in c /\ first \in Nat
  BY <1>1, <1>5
<1> QED
  BY <1>6, <1>7
-----------------------------------------------------------------------------
(***************************************************************************)
(* The inductive invariant: the automaton has read what was segmented of   *)
(* the sample, and the samples before it were queries.                     *)
(***************************************************************************)
Segmented == SubSeq(Sample, 1, consumed)

CheckInv ==
  /\ TypeOK
  /\ index <= Len(samples) => pda = FeedAll(PdaNew, Segmented)
  /\ \A i \in 1 .. index - 1 : IsQuery(samples[i])
  /\ verdict = "ok" => index = Len(samples) + 1
  /\ verdict \in {"DeadEnd", "Incomplete"} => index <= Len(samples) /\ ~IsQuery(Sample)
  /\ verdict = "DeadEnd" => ~Admits(PdaNew, Sample)
  /\ verdict = "Unsegmentable" => index <= Len(samples) /\ ~HasEachByteOf(Sample)

LEMMA FreshConfig == PdaNew \in PdaType /\ PdaNew \in Configs
  BY Targets DEF PdaNew, PdaType, Configs, EnvelopeStates

LEMMA TypedFields ==
  ASSUME TypeOK
  PROVE  /\ vocab \in Seq(Seq(Byte)) /\ samples \in Seq(Seq(Byte))
         /\ Len(samples) \in Nat /\ index \in 1 .. Len(samples) + 1
         /\ consumed \in Nat /\ pda \in PdaType /\ pda \in Configs /\ pda # DeadPda
         /\ index <= Len(samples) =>
              /\ Sample \in Seq(Byte) /\ Len(Sample) \in Nat /\ consumed <= Len(Sample)
              /\ Rest \in Seq(Byte) /\ Segmented \in Seq(Byte)
              /\ Len(Rest) = Len(Sample) - consumed
              /\ Sample = Segmented \o Rest
<1>1. /\ vocab \in Seq(Seq(Byte)) /\ samples \in Seq(Seq(Byte))
      /\ Len(samples) \in Nat /\ index \in 1 .. Len(samples) + 1
      /\ consumed \in Nat /\ pda \in PdaType /\ pda \in Configs /\ pda # DeadPda
  BY SelfCheckAssumption, DeadIsNoConfig DEF TypeOK, Configs
<1>2. ASSUME index <= Len(samples)
      PROVE  /\ Sample \in Seq(Byte) /\ Len(Sample) \in Nat /\ consumed <= Len(Sample)
             /\ Rest \in Seq(Byte) /\ Segmented \in Seq(Byte)
             /\ Len(Rest) = Len(Sample) - consumed
             /\ Sample = Segmented \o Rest
  <2> DEFINE q == Sample
  <2>1. q \in Seq(Byte) /\ Len(q) \in Nat /\ consumed <= Len(q)
    BY <1>1, <1>2 DEF TypeOK, Sample
  <2> HIDE DEF q
  <2>2. /\ SubSeq(q, consumed + 1, Len(q)) \in Seq(Byte)
        /\ SubSeq(q, 1, consumed) \in Seq(Byte)
        /\ Len(SubSeq(q, consumed + 1, Len(q))) = Len(q) - consumed
    BY <1>1, <2>1
  <2>3. q = SubSeq(q, 1, consumed) \o SubSeq(q, consumed + 1, Len(q))
    <3> DEFINE k == Len(q) - consumed
    <3>0. k \in Nat /\ consumed \in Nat /\ consumed + k = Len(q)
      BY <1>1, <2>1
    <3> HIDE DEF k
    <3>1. SubSeq(q, 1, consumed + k) = SubSeq(q, 1, consumed) \o SubSeq(q, consumed + 1, consumed + k)
      BY <2>1, <3>0
    <3>2. SubSeq(q, 1, Len(q)) = q
      BY <2>1
    <3> QED  BY <3>0, <3>1, <3>2
  <2> QED  BY <2>1, <2>2, <2>3 DEF q, Rest, Segmented
<1> QED
  BY <1>1, <1>2

(***************************************************************************)
(* The token self_check would take: a nonempty piece of what is left.      *)
(***************************************************************************)
LEMMA TakenToken ==
  ASSUME TypeOK, Segmentable, NEW id, id = LongestMatch(vocab, Rest)
  PROVE  /\ TokenBytes(id) \in Seq(Byte)
         /\ consumed + Len(TokenBytes(id)) \in Nat
         /\ consumed + Len(TokenBytes(id)) <= Len(Sample)
         /\ SubSeq(Sample, 1, consumed + Len(TokenBytes(id))) = Segmented \o TokenBytes(id)
<1> DEFINE t == TokenBytes(id)
           k == Len(t)
<1>1. index <= Len(samples) /\ Candidates(vocab, Rest) # {}
  BY DEF Segmentable
<1>2. id + 1 \in Candidates(vocab, Rest)
  BY <1>1, TypedFields, LongestMatchIsCandidate
<1>3. t \in Seq(Byte) /\ IsPrefix(t, Rest)
  BY <1>2, TypedFields DEF Candidates, TokenBytes
<1>4. k \in Nat /\ k <= Len(Rest) /\ t = SubSeq(Rest, 1, k)
  <2> HIDE DEF t
  <2>1. k \in Nat /\ SubSeq(t, 1, k) = t
    BY <1>3
  <2> QED  BY <1>3, <2>1 DEF IsPrefix
<1> HIDE DEF t, k
<1>5. SubSeq(Sample, 1, consumed + k) = Segmented \o SubSeq(Rest, 1, k)
  <2> DEFINE q == Sample
  <2>1. q \in Seq(Byte) /\ consumed \in Nat /\ consumed + k <= Len(q)
    BY <1>1, <1>4, TypedFields
  <2>2. Rest = SubSeq(q, consumed + 1, Len(q)) /\ Segmented = SubSeq(q, 1, consumed)
    BY DEF Rest, Segmented
  <2> HIDE DEF q
  <2>3. SubSeq(SubSeq(q, consumed + 1, Len(q)), 1, k) = SubSeq(q, consumed + 1, consumed + k)
    BY <1>4, <2>1
  <2>4. SubSeq(q, 1, consumed + k) = SubSeq(q, 1, consumed) \o SubSeq(q, consumed + 1, consumed + k)
    BY <1>4, <2>1
  <2> QED  BY <2>2, <2>3, <2>4 DEF q
<1>6. consumed + k \in Nat /\ consumed + k <= Len(Sample)
  BY <1>1, <1>4, TypedFields
<1> QED
  BY <1>3, <1>4, <1>5, <1>6 DEF t, k

\* A masked token is one the automaton refuses.
LEMMA MaskedIsRefused ==
  ASSUME NEW p \in PdaType, NEW t \in Seq(Byte), Masked(t, p)
  PROVE  ~Admits(p, t)
<1> DEFINE fate == ProbeFate(p.state, t)
<1>1. /\ fate \in Fate
      /\ fate = "dead" => ~Admits(p, t)
      /\ fate = "consulted" /\ p.stack = <<>> => ~Admits(p, t)
  BY ProbeIsExact
<1>2. fate # "alive" /\ ~(fate = "consulted" /\ p.stack # <<>> /\ Admits(p, t))
  BY DEF Masked
<1> HIDE DEF fate
<1> QED
  BY <1>1, <1>2 DEF Fate

\* A prefix the automaton refuses makes the whole refused.
LEMMA RefusedPrefix ==
  ASSUME NEW q \in Seq(Byte), NEW n \in 0 .. Len(q), FeedAll(PdaNew, SubSeq(q, 1, n)) = DeadPda
  PROVE  FeedAll(PdaNew, q) = DeadPda
<1> DEFINE k == Len(q) - n
           head == SubSeq(q, 1, n)
           tail == SubSeq(q, n + 1, n + k)
<1>1. k \in Nat /\ n \in Nat /\ n + k = Len(q)
  OBVIOUS
<1> HIDE DEF k
<1>2. SubSeq(q, 1, n + k) = head \o tail /\ head \in Seq(Byte) /\ tail \in Seq(Byte)
  BY <1>1
<1>3. SubSeq(q, 1, Len(q)) = q
  OBVIOUS
<1> HIDE DEF head, tail
<1>4. FeedAll(PdaNew, q) = FeedAll(FeedAll(PdaNew, head), tail)
  <2>1. q = head \o tail
    BY <1>1, <1>2, <1>3
  <2>2. FeedAll(PdaNew, head \o tail) = FeedAll(FeedAll(PdaNew, head), tail)
    BY <1>2, FreshConfig, FeedAllConcat
  <2> QED  BY <2>1, <2>2
<1> QED
  BY <1>2, <1>4, FeedAllDead DEF head

\* The first byte of a sequence, as a piece of it.
LEMMA FirstByte ==
  ASSUME NEW r \in Seq(Byte), Len(r) >= 1
  PROVE  SubSeq(r, 1, 1) = <<r[1]>>
<1> DEFINE u == SubSeq(r, 1, 1)
           v == <<r[1]>>
<1>1. Len(r) \in Nat /\ r[1] \in Byte
  OBVIOUS
<1>2. u \in Seq(Byte) /\ Len(u) = 1 /\ u[1] = r[1]
  BY <1>1, SubSeqProperties
<1>3. v \in Seq(Byte) /\ Len(v) = 1 /\ v[1] = r[1]
  BY <1>1
<1> HIDE DEF u, v
<1>4. \A i \in 1 .. Len(u) : u[i] = v[i]
  BY <1>2, <1>3
<1>5. u = v
  BY <1>2, <1>3, <1>4, SeqEqual
<1> QED
  BY <1>5 DEF u, v

\* Where no token covers what is left of a sample, its first byte has none.
LEMMA UncoveredByte ==
  ASSUME TypeOK, index <= Len(samples), Rest # <<>>, Candidates(vocab, Rest) = {}
  PROVE  ~HasEachByteOf(Sample)
<1> DEFINE at == consumed + 1
           b  == Sample[at]
<1>1. /\ vocab \in Seq(Seq(Byte)) /\ Sample \in Seq(Byte) /\ Rest \in Seq(Byte)
      /\ consumed \in Nat /\ Len(Sample) \in Nat /\ Len(Rest) = Len(Sample) - consumed
  BY TypedFields
<1>2. Len(Rest) >= 1
  <2> DEFINE r == Rest
  <2>1. r \in Seq(Byte) /\ r # <<>>
    BY <1>1
  <2> HIDE DEF r
  <2> QED  BY <2>1 DEF r
<1>3. at \in DOMAIN Sample /\ b \in Byte /\ Rest[1] = b
  <2> DEFINE q == Sample
  <2>1. q \in Seq(Byte) /\ Rest = SubSeq(q, consumed + 1, Len(q)) /\ at \in 1 .. Len(q)
    BY <1>1, <1>2 DEF Rest
  <2> HIDE DEF q
  <2> QED  BY <1>1, <2>1 DEF q
<1>4. IsPrefix(<<b>>, Rest)
  <2> DEFINE r == Rest
  <2>1. r \in Seq(Byte) /\ Len(r) \in Nat /\ Len(r) >= 1 /\ r[1] = b /\ b \in Byte
    BY <1>1, <1>2, <1>3
  <2> HIDE DEF r, b
  <2>2. SubSeq(r, 1, 1) = <<b>>
    BY <2>1, FirstByte
  <2>3. <<b>> \in Seq(Byte) /\ Len(<<b>>) = 1 /\ <<b>>[1] = b
    BY <2>1
  <2>4. SubSeq(<<b>>, 1, 1) = <<b>>
    <3> DEFINE one == <<b>>
    <3>1. one \in Seq(Byte) /\ Len(one) >= 1 /\ one[1] = b
      BY <2>3
    <3> HIDE DEF one
    <3>2. SubSeq(one, 1, 1) = <<one[1]>>
      BY <3>1, FirstByte
    <3> QED  BY <3>1, <3>2 DEF one
  <2> QED  BY <2>1, <2>2, <2>3, <2>4 DEF r, IsPrefix
<1>5. ASSUME <<b>> \in ToSet(vocab) PROVE FALSE
  <2>1. PICK i \in DOMAIN vocab : vocab[i] = <<b>>
    BY <1>5 DEF ToSet
  <2>2. <<b>> # <<>>
    OBVIOUS
  <2> QED  BY <1>4, <2>1, <2>2 DEF Candidates
<1> QED
  BY <1>3, <1>5 DEF HasEachByteOf

LEMMA InitCheckInv == Init => CheckInv
<1> SUFFICES ASSUME Init PROVE CheckInv
  OBVIOUS
<1>1. samples \in Seq(Seq(Byte)) /\ Len(samples) \in Nat
  BY SelfCheckAssumption DEF Init
<1>2. index <= Len(samples) => Sample \in Seq(Byte) /\ Len(Sample) \in Nat
  BY <1>1 DEF Init, Sample
<1>3. TypeOK
  BY <1>1, <1>2, FreshConfig DEF Init, TypeOK
<1>4. index <= Len(samples) => Segmented = <<>>
  BY <1>2 DEF Segmented, Init
<1>5. FeedAll(PdaNew, <<>>) = PdaNew
  BY FreshConfig, FeedAllEmpty
<1> QED
  BY <1>3, <1>4, <1>5 DEF Init, CheckInv

LEMMA NextCheckInv == CheckInv /\ [Next]_vars => CheckInv'
<1> SUFFICES ASSUME CheckInv, [Next]_vars PROVE CheckInv'
  OBVIOUS
<1>0. TypeOK
  BY DEF CheckInv
<1>1. CASE Advanced
  <2>1. PICK id : /\ id = LongestMatch(vocab, Rest)
                  /\ Admits(pda, TokenBytes(id))
                  /\ pda' = FeedAll(pda, TokenBytes(id))
                  /\ consumed' = consumed + Len(TokenBytes(id))
                  /\ UNCHANGED <<vocab, samples, index, verdict>>
                  /\ Running /\ Segmentable
    BY <1>1 DEF Advanced
  <2>2. index <= Len(samples)
    BY <2>1 DEF Segmentable
  <2>3. /\ TokenBytes(id) \in Seq(Byte)
        /\ consumed' \in Nat /\ consumed' <= Len(Sample)
        /\ SubSeq(Sample, 1, consumed') = Segmented \o TokenBytes(id)
    BY <1>0, <2>1, TakenToken
  <2>4. Sample' = Sample
    BY <2>1 DEF Sample
  <2>5. pda' \in PdaType
    BY <1>0, <2>1, <2>3, TypedFields, FeedAllType DEF Admits, Configs
  <2>6. TypeOK'
    BY <1>0, <2>1, <2>3, <2>4, <2>5 DEF TypeOK
  <2>7. pda' = FeedAll(PdaNew, Segmented')
    <3>1. Segmented \in Seq(Byte) /\ pda = FeedAll(PdaNew, Segmented)
      BY <1>0, <2>2, TypedFields DEF CheckInv
    <3>2. FeedAll(PdaNew, Segmented \o TokenBytes(id)) = FeedAll(pda, TokenBytes(id))
      BY <2>3, <3>1, FreshConfig, FeedAllConcat
    <3>3. Segmented' = Segmented \o TokenBytes(id)
      BY <2>3, <2>4 DEF Segmented
    <3> QED  BY <2>1, <3>2, <3>3
  <2> QED
    BY <2>1, <2>6, <2>7 DEF CheckInv, Running
<1>2. CASE DeadEnd
  <2>1. PICK id : /\ id = LongestMatch(vocab, Rest)
                  /\ Masked(TokenBytes(id), pda) \/ ~Admits(pda, TokenBytes(id))
                  /\ verdict' = "DeadEnd" /\ UNCHANGED <<vocab, samples, index, consumed, pda>>
                  /\ Segmentable
    BY <1>2 DEF DeadEnd, Fail
  <2> DEFINE n == consumed + Len(TokenBytes(id))
  <2>2. /\ TokenBytes(id) \in Seq(Byte) /\ n \in Nat /\ n <= Len(Sample)
        /\ SubSeq(Sample, 1, n) = Segmented \o TokenBytes(id)
    BY <1>0, <2>1, TakenToken
  <2> HIDE DEF n
  <2>3. /\ index <= Len(samples) /\ Segmented \in Seq(Byte) /\ Sample \in Seq(Byte)
        /\ Len(Sample) \in Nat /\ pda \in PdaType /\ pda = FeedAll(PdaNew, Segmented)
    BY <1>0, <2>1, TypedFields DEF CheckInv, Segmentable
  <2>4. FeedAll(pda, TokenBytes(id)) = DeadPda
    BY <2>1, <2>2, <2>3, MaskedIsRefused DEF Admits
  <2>5. FeedAll(PdaNew, SubSeq(Sample, 1, n)) = DeadPda
    <3>1. FeedAll(PdaNew, Segmented \o TokenBytes(id)) = FeedAll(pda, TokenBytes(id))
      BY <2>2, <2>3, FreshConfig, FeedAllConcat
    <3> QED  BY <2>2, <2>4, <3>1
  <2>6. FeedAll(PdaNew, Sample) = DeadPda
    BY <2>2, <2>3, <2>5, RefusedPrefix
  <2>7. ~Admits(PdaNew, Sample) /\ ~IsQuery(Sample)
    BY <2>6 DEF Admits, IsQuery, Completes
  <2>8. Sample' = Sample /\ Segmented' = Segmented
    BY <2>1 DEF Sample, Segmented
  <2> QED
    BY <1>0, <2>1, <2>3, <2>7, <2>8 DEF CheckInv, TypeOK
\* At the end of a sample all of it has been read.
<1>3. ASSUME index <= Len(samples), Rest = <<>>
      PROVE  pda = FeedAll(PdaNew, Sample) /\ (IsQuery(Sample) <=> IsAccepting(pda))
  <2>1. Segmented \in Seq(Byte) /\ Sample = Segmented \o Rest
    BY <1>0, <1>3, TypedFields
  <2>2. Sample = Segmented
    BY <1>3, <2>1
  <2> QED
    BY <1>0, <1>3, <2>2, TypedFields DEF CheckInv, IsQuery, Completes
<1>4. CASE Unsegmentable
  <2>1. index <= Len(samples) /\ ~HasEachByteOf(Sample)
    BY <1>0, <1>4, UncoveredByte DEF Unsegmentable
  <2>2. Sample' = Sample /\ vocab' = vocab
    BY <1>4 DEF Unsegmentable, Fail, Sample
  <2> QED
    BY <1>0, <1>4, <2>1, <2>2 DEF Unsegmentable, Fail, CheckInv, TypeOK, Segmented, Sample, HasEachByteOf
<1>5. CASE Incomplete
  BY <1>0, <1>3, <1>5 DEF Incomplete, Fail, CheckInv, TypeOK, Segmented, Sample
<1>6. CASE NextSample
  <2>1. /\ index <= Len(samples) /\ index' = index + 1 /\ consumed' = 0 /\ pda' = PdaNew
        /\ UNCHANGED <<vocab, samples, verdict>> /\ verdict = "running"
        /\ IsQuery(Sample)
    BY <1>3, <1>6 DEF NextSample, Running
  <2>2. samples \in Seq(Seq(Byte)) /\ Len(samples) \in Nat /\ index \in 1 .. Len(samples) + 1
    BY <1>0, TypedFields
  <2>3. index' <= Len(samples) =>
          Sample' \in Seq(Byte) /\ Len(Sample') \in Nat /\ Segmented' = <<>>
    <3> SUFFICES ASSUME index + 1 <= Len(samples)
                 PROVE  /\ samples[index + 1] \in Seq(Byte) /\ Len(samples[index + 1]) \in Nat
                        /\ SubSeq(samples[index + 1], 1, 0) = <<>>
      BY <2>1 DEF Sample, Segmented
    <3>1. samples[index + 1] \in Seq(Byte)
      BY <2>2
    <3> QED  BY <3>1
  <2>4. TypeOK'
    BY <1>0, <2>1, <2>2, <2>3, FreshConfig DEF TypeOK
  <2>5. FeedAll(PdaNew, <<>>) = PdaNew
    BY FreshConfig, FeedAllEmpty
  <2>6. \A i \in 1 .. index' - 1 : IsQuery(samples'[i])
    BY <2>1, <2>2 DEF CheckInv, Sample
  <2> QED
    BY <2>1, <2>3, <2>4, <2>5, <2>6 DEF CheckInv
<1>7. CASE Return
  BY <1>0, <1>7, TypedFields DEF Return, Fail, CheckInv, TypeOK, Sample, Segmented, Running
<1>8. CASE UNCHANGED vars
  BY <1>8 DEF vars, CheckInv, TypeOK, Sample, Segmented, HasEachByteOf
<1> QED
  BY <1>1, <1>2, <1>4, <1>5, <1>6, <1>7, <1>8 DEF Next

LEMMA CheckInvariant == Spec => []CheckInv
  BY InitCheckInv, NextCheckInv, PTL DEF Spec

\* The loops keep to their samples: a token never reaches beyond the text.
THEOREM SelfCheckTypeInvariant == Spec => []TypeOK
<1>1. CheckInv => TypeOK
  BY DEF CheckInv
<1> QED
  BY <1>1, CheckInvariant, PTL

(***************************************************************************)
(* Ok means every sample is a query, and over queries the only failure     *)
(* left is a position no token covers, at a byte without a token of its    *)
(* own, for every vocabulary and all samples (selfcheck.rs 16-22, 56-57).  *)
(***************************************************************************)
THEOREM VerdictIsSound == Spec => []VerdictIsAboutTheVocabulary
<1>1. CheckInv => VerdictIsAboutTheVocabulary
  <2> SUFFICES ASSUME CheckInv PROVE VerdictIsAboutTheVocabulary
    OBVIOUS
  <2>1. DOMAIN samples = 1 .. Len(samples) /\ Len(samples) \in Nat
    BY TypedFields DEF CheckInv
  <2> QED
    BY <2>1 DEF CheckInv, VerdictIsAboutTheVocabulary
<1> QED
  BY <1>1, CheckInvariant, PTL
=============================================================================
