------------------------ MODULE DecoderSession_proofs ------------------------
(***************************************************************************)
(* The decode sessions implement the abstract decode: for any vocabulary,  *)
(* any number of sessions over one grammar, any texts and any stacks, what *)
(* a session answers depends on its own text alone.                        *)
(***************************************************************************)
EXTENDS DecoderSession, ProbePartition, Pda_proofs

-----------------------------------------------------------------------------
(***************************************************************************)
(* The partition, one byte at a time: what an empty-stack probe files      *)
(* holds over every live stack, for tokens of any length and stacks of any *)
(* depth.                                                                  *)
(***************************************************************************)
\* The stacks and fates are always of their types.
THEOREM ProbeTypeInvariant == ProbeSpec => []ProbeTypeOK
<1>1. ProbeInit => ProbeTypeOK
  BY ProbeAssumption DEF ProbeInit, ProbeTypeOK, LoopType, Fate, PdaAt, PdaType
<1>2. ProbeTypeOK /\ [ProbeNext]_loopvars => ProbeTypeOK'
  <2> SUFFICES ASSUME ProbeTypeOK, [ProbeNext]_loopvars PROVE ProbeTypeOK'
    OBVIOUS
  <2>1. ASSUME NEW b \in Byte, ReadByte(b)
        PROVE  ProbeTypeOK'
    <3>1. ASSUME NEW l \in LoopType
          PROVE  Probed(l, b) \in LoopType /\ Replayed(l, b) \in LoopType
      BY AdvanceType DEF LoopType, Probed, Replayed, Fate
    <3> QED
      BY <2>1, <3>1 DEF ReadByte, ProbeTypeOK
  <2>2. CASE UNCHANGED loopvars
    BY <2>2 DEF loopvars, ProbeTypeOK
  <2> QED
    BY <2>1, <2>2 DEF ProbeNext
<1> QED
  BY <1>1, <1>2, PTL DEF ProbeSpec

(***************************************************************************)
(* The cached partition decides every token as the live stack would.       *)
(***************************************************************************)
THEOREM PartitionIsSound == ProbeSpec => []PartitionSound
<1> USE DEF PartitionSound, IndependentAlike, DroppedIsDead, DeferredNeedsFrame
<1>1. ProbeInit => PartitionSound
  BY ProbeAssumption DEF ProbeInit, PdaAt
<1>2. ProbeTypeOK /\ PartitionSound /\ [ProbeNext]_loopvars => PartitionSound'
  <2> SUFFICES ASSUME ProbeTypeOK, PartitionSound, [ProbeNext]_loopvars PROVE PartitionSound'
    OBVIOUS
  <2>1. ASSUME NEW b \in Byte, ReadByte(b)
        PROVE  PartitionSound'
    <3>1. CASE probe.fate = "alive" /\ Lives(probe.pda, b)
      <4>1. /\ ambient \in Seq(Frame) /\ probe.pda \in PdaType /\ live.pda \in PdaType
            /\ live.fate = "alive" /\ live.pda.state = probe.pda.state
            /\ live.pda.stack = ambient \o probe.pda.stack
        BY <3>1 DEF ProbeTypeOK, LoopType
      <4>2. /\ Lives(live.pda, b)
            /\ Advance(live.pda, b).state = Advance(probe.pda, b).state
            /\ Advance(live.pda, b).stack = ambient \o Advance(probe.pda, b).stack
        BY <3>1, <4>1, LockStep
      <4>3. /\ probe' = [probe EXCEPT !.pda = Advance(probe.pda, b)]
            /\ live' = [live EXCEPT !.pda = Advance(live.pda, b)]
            /\ ambient' = ambient
        BY <2>1, <3>1, <4>1, <4>2 DEF ReadByte, Probed, Replayed
      <4> QED  BY <3>1, <4>1, <4>2, <4>3 DEF ProbeTypeOK, LoopType
    <3>2. CASE probe.fate = "alive" /\ ~Lives(probe.pda, b)
      BY <2>1, <3>2, DeadTogether DEF ReadByte, ProbeTypeOK, LoopType, Probed, Replayed
    <3>3. CASE probe.fate # "alive"
      BY <2>1, <3>3 DEF ReadByte, ProbeTypeOK, LoopType, Probed, Replayed
    <3> QED  BY <3>1, <3>2, <3>3
  <2>2. CASE UNCHANGED loopvars
    BY <2>2 DEF loopvars
  <2> QED
    BY <2>1, <2>2 DEF ProbeNext
<1> QED
  BY <1>1, <1>2, ProbeTypeInvariant, PTL DEF ProbeSpec

-----------------------------------------------------------------------------
(***************************************************************************)
(* The sessions that share the partitions.                                 *)
(***************************************************************************)

\* A fresh session is at the start of the automaton.
LEMMA FreshType == PdaNew \in PdaType /\ PdaNew \in Configs /\ Fresh.pda = PdaNew /\ Fresh.offset = 0
  BY Targets DEF PdaNew, PdaType, Configs, Fresh, EnvelopeStates

LEMMA TokenBytesType ==
  ASSUME NEW id \in Ids
  PROVE  TokenBytes(id) \in Seq(Byte)
<1>1. Vocab \in Seq(Seq(Byte)) /\ Len(Vocab) \in Nat
  BY SessionAssumption
<1>2. id + 1 \in 1 .. Len(Vocab)
  BY <1>1 DEF Ids
<1> QED
  BY <1>1, <1>2 DEF TokenBytes

(***************************************************************************)
(* The inductive invariant: a session's automaton and offset are those of  *)
(* its text, and a cached partition is the one its state builds.           *)
(***************************************************************************)
ReadsItsText(s) ==
  /\ session[s].pda = FeedAll(PdaNew, text[s])
  /\ session[s].offset = Len(text[s])

CacheIsBuilt == \A q \in DOMAIN cache : cache[q] = Build(q)

SessionInv ==
  /\ TypeOK
  /\ \A s \in Sessions : ReadsItsText(s)
  /\ CacheIsBuilt

\* The fields of one session.
LEMMA SessionFields ==
  ASSUME SessionInv, NEW s \in Sessions
  PROVE  /\ session[s].pda \in PdaType /\ session[s].pda \in Configs
         /\ session[s].pda.state \in State
         /\ session[s].offset \in Nat
         /\ session[s].pda # DeadPda
         /\ text[s] \in Seq(Byte)
         /\ session[s].pda = FeedAll(PdaNew, text[s])
         /\ session[s].offset = Len(text[s])
  BY DeadIsNoConfig DEF SessionInv, TypeOK, ReadsItsText, Configs, PdaType

\* A token is admissible where a session stands exactly when its text,
\* continued by the token, is still a live prefix.
LEMMA AdmitsIsLivePrefix ==
  ASSUME SessionInv, NEW s \in Sessions, NEW bytes \in Seq(Byte)
  PROVE  /\ FeedAll(session[s].pda, bytes) = FeedAll(PdaNew, text[s] \o bytes)
         /\ Admits(session[s].pda, bytes) <=> LivePrefix(text[s] \o bytes)
         /\ Admits(session[s].pda, bytes) => FeedAll(session[s].pda, bytes) \in PdaType
  BY SessionFields, FreshType, FeedAllConcat, FeedAllType DEF Admits, LivePrefix, Configs

LEMMA OneByte ==
  ASSUME NEW p \in PdaType, NEW b \in Byte
  PROVE  /\ FeedAll(p, <<b>>) = Fed(p, b)
         /\ Admits(p, <<b>>) <=> Lives(p, b)
         /\ Lives(p, b) => Fed(p, b) = Advance(p, b)
<1>1. <<b>> = Append(<<>>, b) /\ <<>> \in Seq(Byte) /\ p \in Configs
  BY DEF Configs
<1>2. FeedAll(p, <<b>>) = Fed(p, b)
  BY <1>1, FeedAllEmpty, FeedAllAppend
<1>3. p # DeadPda
  BY DeadIsNoConfig
<1>4. Lives(p, b) => Fed(p, b) = Advance(p, b) /\ Fed(p, b) # DeadPda
  BY <1>3, AdvanceType, DeadIsNoConfig DEF Fed
<1>5. ~Lives(p, b) => Fed(p, b) = DeadPda
  BY DEF Fed
<1> QED
  BY <1>2, <1>4, <1>5 DEF Admits

LEMMA CompleteIsAccepting ==
  ASSUME SessionInv, NEW s \in Sessions
  PROVE  IsAccepting(session[s].pda) <=> Complete(text[s])
  BY SessionFields DEF Complete, Completes

(***************************************************************************)
(* The partition of a state answers for every stack.                       *)
(***************************************************************************)
LEMMA BuildType ==
  ASSUME NEW q
  PROVE  Build(q) \in Partition
  BY DEF Build, Partition

THEOREM PartitionServes ==
  ASSUME NEW p \in PdaType, NEW id \in Ids
  PROVE  /\ id \in Build(p.state).indep => Admits(p, TokenBytes(id))
         /\ id \notin Build(p.state).indep \cup Build(p.state).deferred
              => ~Admits(p, TokenBytes(id))
         /\ id \in Build(p.state).deferred /\ p.stack = <<>>
              => ~Admits(p, TokenBytes(id))
<1> DEFINE t    == TokenBytes(id)
           fate == ProbeFate(p.state, t)
<1>1. t \in Seq(Byte)
  BY TokenBytesType
<1>2. /\ id \in Build(p.state).indep <=> fate = "alive"
      /\ id \in Build(p.state).deferred <=> fate = "consulted"
  BY DEF Build
<1> HIDE DEF t
<1>3. /\ fate \in Fate
      /\ fate = "alive" => Admits(p, t)
      /\ fate = "dead" => ~Admits(p, t)
      /\ fate = "consulted" /\ p.stack = <<>> => ~Admits(p, t)
  BY <1>1, ProbeIsExact
<1> HIDE DEF fate
<1> QED
  BY <1>2, <1>3 DEF Fate, t

\* The mask assembled from a state's partition is the set of admissible tokens.
THEOREM MaskIsExact ==
  ASSUME NEW p \in PdaType
  PROVE  Assembled(Build(p.state), p) =
           {id \in Ids : Admits(p, TokenBytes(id))}
             \cup {id \in {EosBit} : IsAccepting(p)}
<1>1. Build(p.state).indep \subseteq Ids /\ Build(p.state).deferred \subseteq Ids
  BY DEF Build
<1>2. ASSUME NEW id \in Ids
      PROVE  (\/ id \in Build(p.state).indep
              \/ id \in Build(p.state).deferred /\ p.stack # <<>> /\ Admits(p, TokenBytes(id)))
             <=> Admits(p, TokenBytes(id))
  BY PartitionServes
<1> QED
  BY <1>1, <1>2 DEF Assembled
-----------------------------------------------------------------------------
LEMMA InitSessionInv == Init => SessionInv
<1> SUFFICES ASSUME Init PROVE SessionInv
  OBVIOUS
<1>1. TypeOK
  BY FreshType DEF Init, TypeOK, Said, Answered, Fresh, Partition
<1>2. ASSUME NEW s \in Sessions PROVE ReadsItsText(s)
  <2>1. session[s] = Fresh /\ text[s] = <<>>
    BY DEF Init
  <2>2. FeedAll(PdaNew, <<>>) = PdaNew
    BY FreshType, FeedAllEmpty
  <2> QED  BY <2>1, <2>2, FreshType DEF ReadsItsText
<1>3. CacheIsBuilt
  BY DEF Init, CacheIsBuilt
<1> QED
  BY <1>1, <1>2, <1>3 DEF SessionInv

\* A step that commits bytes to one session keeps all of them on their texts.
LEMMA CommitKeeps ==
  ASSUME SessionInv, NEW s \in Sessions, NEW bytes \in Seq(Byte),
         FeedAll(session[s].pda, bytes) \in PdaType,
         session' = [session EXCEPT ![s].pda    = FeedAll(session[s].pda, bytes),
                                    ![s].offset = session[s].offset + Len(bytes)],
         text' = [text EXCEPT ![s] = text[s] \o bytes],
         answer'.session \in Sessions, cache' = cache
  PROVE  SessionInv'
<1>1. /\ session \in [Sessions -> [pda : PdaType, offset : Nat]]
      /\ text \in [Sessions -> Seq(Byte)] /\ Len(bytes) \in Nat
  BY DEF SessionInv, TypeOK
<1>2. /\ session'[s].pda = FeedAll(session[s].pda, bytes)
      /\ session'[s].offset = session[s].offset + Len(bytes)
      /\ text'[s] = text[s] \o bytes
      /\ \A r \in Sessions \ {s} : session'[r] = session[r] /\ text'[r] = text[r]
  BY <1>1
<1>3. TypeOK'
  <2>1. session' \in [Sessions -> [pda : PdaType, offset : Nat]]
    <3>1. session[s].offset + Len(bytes) \in Nat
      BY <1>1
    <3> QED  BY <1>1, <3>1
  <2>2. text' \in [Sessions -> Seq(Byte)]
    BY <1>1
  <2> QED  BY <2>1, <2>2 DEF SessionInv, TypeOK
<1>4. ASSUME NEW r \in Sessions PROVE ReadsItsText(r)'
  <2>1. CASE r = s
    <3>1. session[s].offset = Len(text[s]) /\ text[s] \in Seq(Byte)
      BY SessionFields
    <3>2. FeedAll(session[s].pda, bytes) = FeedAll(PdaNew, text[s] \o bytes)
      BY AdmitsIsLivePrefix
    <3>3. Len(text[s] \o bytes) = Len(text[s]) + Len(bytes)
      BY <3>1
    <3> QED  BY <1>2, <2>1, <3>1, <3>2, <3>3 DEF ReadsItsText
  <2>2. CASE r # s
    BY <1>2, <2>2 DEF SessionInv, ReadsItsText
  <2> QED  BY <2>1, <2>2
<1>5. CacheIsBuilt'
  BY DEF SessionInv, CacheIsBuilt
<1> QED
  BY <1>3, <1>4, <1>5 DEF SessionInv

LEMMA NextSessionInv == SessionInv /\ [Next]_vars => SessionInv'
<1> SUFFICES ASSUME SessionInv, [Next]_vars PROVE SessionInv'
  OBVIOUS
<1>0. /\ session \in [Sessions -> [pda : PdaType, offset : Nat]]
      /\ text \in [Sessions -> Seq(Byte)]
      /\ cache \in [DOMAIN cache -> Partition] /\ DOMAIN cache \subseteq State
      /\ answer.session \in Sessions
  BY DEF SessionInv, TypeOK
<1>1. ASSUME NEW s \in Sessions, AllowedMask(s) PROVE SessionInv'
  <2> DEFINE here == session[s].pda.state
  <2>1. here \in State
    BY SessionFields
  <2>2. cache' = [q \in DOMAIN cache \cup {here} |-> Cached(q)] /\ answer'.session = s
        /\ session' = session /\ text' = text
    BY <1>1 DEF AllowedMask, Answered
  <2>3. \A q : Cached(q) = Build(q)
    BY DEF Cached, SessionInv, CacheIsBuilt
  <2> HIDE DEF here
  <2>4. CacheIsBuilt'
    BY <2>2, <2>3 DEF CacheIsBuilt
  <2>5. TypeOK'
    BY <1>0, <2>1, <2>2, <2>3, BuildType DEF TypeOK
  <2> QED  BY <2>2, <2>4, <2>5 DEF SessionInv, ReadsItsText
<1>2. ASSUME NEW s \in Sessions, NEW id \in HostIds, AcceptToken(s, id) PROVE SessionInv'
  <2>1. /\ id \in Ids /\ Admits(session[s].pda, TokenBytes(id)) /\ cache' = cache
        /\ session' = [session EXCEPT
             ![s].pda    = FeedAll(session[s].pda, TokenBytes(id)),
             ![s].offset = session[s].offset + Len(TokenBytes(id))]
        /\ text' = [text EXCEPT ![s] = text[s] \o TokenBytes(id)]
        /\ answer'.session = s
    BY <1>0, <1>2 DEF AcceptToken, Said, Answered
  <2>2. TokenBytes(id) \in Seq(Byte)
    BY <2>1, TokenBytesType
  <2>3. FeedAll(session[s].pda, TokenBytes(id)) \in PdaType
    BY <2>1, <2>2, AdmitsIsLivePrefix
  <2> QED  BY <2>1, <2>2, <2>3, CommitKeeps
<1>3. ASSUME NEW s \in Sessions, NEW b \in HostBytes, AcceptByte(s, b) PROVE SessionInv'
  <2>1. b \in Byte /\ session[s].pda \in PdaType /\ text[s] \in Seq(Byte)
    BY SessionAssumption, SessionFields
  <2>2. Lives(session[s].pda, b) /\ Advance(session[s].pda, b) \in PdaType
    BY <1>3, <2>1, AdvanceType DEF AcceptByte
  <2>3. FeedAll(session[s].pda, <<b>>) = Advance(session[s].pda, b)
    BY <2>1, <2>2, OneByte
  <2>4. Append(text[s], b) = text[s] \o <<b>> /\ Len(<<b>>) = 1 /\ <<b>> \in Seq(Byte)
    BY <2>1
  <2>5. /\ session' = [session EXCEPT
             ![s].pda    = FeedAll(session[s].pda, <<b>>),
             ![s].offset = session[s].offset + Len(<<b>>)]
        /\ text' = [text EXCEPT ![s] = text[s] \o <<b>>]
        /\ answer'.session = s /\ cache' = cache
    BY <1>0, <1>3, <2>3, <2>4 DEF AcceptByte, Said, Answered
  <2> QED  BY <2>2, <2>3, <2>4, <2>5, CommitKeeps
<1>4. ASSUME NEW s \in Sessions, Reset(s) PROVE SessionInv'
  <2>1. /\ session'[s].pda = PdaNew /\ session'[s].offset = 0 /\ text'[s] = <<>>
        /\ \A r \in Sessions \ {s} : session'[r] = session[r] /\ text'[r] = text[r]
    BY <1>0, <1>4 DEF Reset
  <2>2. TypeOK'
    <3>1. session' \in [Sessions -> [pda : PdaType, offset : Nat]]
      BY <1>0, <1>4, FreshType DEF Reset
    <3>2. text' \in [Sessions -> Seq(Byte)] /\ answer'.session = s
      BY <1>0, <1>4 DEF Reset, Said, Answered
    <3> QED  BY <1>0, <1>4, <3>1, <3>2 DEF Reset, TypeOK
  <2>3. ASSUME NEW r \in Sessions PROVE ReadsItsText(r)'
    BY <2>1, FreshType, FeedAllEmpty DEF ReadsItsText, SessionInv
  <2>4. CacheIsBuilt'
    BY <1>4 DEF Reset, SessionInv, CacheIsBuilt
  <2> QED  BY <2>2, <2>3, <2>4 DEF SessionInv
<1>5. ASSUME NEW s \in Sessions, NEW t \in Sessions \ {s}, Clone(s, t) PROVE SessionInv'
  <2>1. /\ session'[t] = session[s] /\ text'[t] = text[s]
        /\ \A r \in Sessions \ {t} : session'[r] = session[r] /\ text'[r] = text[r]
    BY <1>0, <1>5 DEF Clone
  <2>2. TypeOK'
    BY <1>0, <1>5 DEF Clone, TypeOK, Said, Answered
  <2>3. ASSUME NEW r \in Sessions PROVE ReadsItsText(r)'
    BY <2>1 DEF ReadsItsText, SessionInv
  <2>4. CacheIsBuilt'
    BY <1>5 DEF Clone, SessionInv, CacheIsBuilt
  <2> QED  BY <2>2, <2>3, <2>4 DEF SessionInv
<1>6. ASSUME UNCHANGED <<cache, session, text>>, answer'.session \in Sessions
      PROVE  SessionInv'
  BY <1>6 DEF SessionInv, TypeOK, ReadsItsText, CacheIsBuilt
<1>7. ASSUME NEW s \in Sessions, NEW id \in HostIds, InadmissibleToken(s, id) \/ UnknownToken(s, id)
      PROVE  SessionInv'
  BY <1>6, <1>7 DEF InadmissibleToken, UnknownToken, Said, Answered
<1>8. ASSUME NEW s \in Sessions, AcceptEos(s) PROVE SessionInv'
  BY <1>6, <1>8 DEF AcceptEos, Said, Answered
<1>9. ASSUME NEW s \in Sessions, NEW b \in HostBytes, DeadByte(s, b) PROVE SessionInv'
  BY <1>6, <1>9 DEF DeadByte, Answered
<1>10. CASE UNCHANGED vars
  BY <1>0, <1>6, <1>10 DEF vars
<1> QED
  BY <1>1, <1>2, <1>3, <1>4, <1>5, <1>7, <1>8, <1>9, <1>10 DEF Next

LEMMA SessionInvariant == Spec => []SessionInv
  BY InitSessionInv, NextSessionInv, PTL DEF Spec

\* The fields keep their types: each automaton is a configuration of the
\* grammar, each cached entry two sets of token ids, under a state of it.
THEOREM SessionTypeInvariant == Spec => []TypeOK
<1>1. SessionInv => TypeOK
  BY DEF SessionInv
<1> QED
  BY <1>1, SessionInvariant, PTL

(***************************************************************************)
(* A session is where its text leads: after any history of masks, tokens,  *)
(* bytes, refusals, resets and clones, its automaton is what the bytes it  *)
(* has committed make of a fresh one, that text is a live prefix, and the  *)
(* offset it reports is the length of the text (session.rs 231-266,        *)
(* 301-314).                                                               *)
(***************************************************************************)
THEOREM SessionsReadTheirTexts ==
  Spec => [](\A s \in Sessions :
               /\ session[s].pda = FeedAll(PdaNew, text[s])
               /\ LivePrefix(text[s])
               /\ session[s].offset = Len(text[s]))
<1>1. SessionInv => \A s \in Sessions :
                      /\ session[s].pda = FeedAll(PdaNew, text[s])
                      /\ LivePrefix(text[s])
                      /\ session[s].offset = Len(text[s])
  BY SessionFields DEF LivePrefix, Admits
<1> QED
  BY <1>1, SessionInvariant, PTL

(***************************************************************************)
(* What one session built serves every session and every later stack: a    *)
(* cached bit is the verdict of the live replay (compiled.rs 97-105).      *)
(***************************************************************************)
THEOREM CacheIsSound == Spec => []CacheServesEveryStack
<1>1. SessionInv => CacheServesEveryStack
  <2> SUFFICES ASSUME SessionInv, NEW s \in Sessions,
                      session[s].pda.state \in DOMAIN cache,
                      NEW id \in Ids \ cache[session[s].pda.state].deferred
               PROVE  id \in cache[session[s].pda.state].indep
                        <=> Admits(session[s].pda, TokenBytes(id))
    BY DEF CacheServesEveryStack
  <2>1. cache[session[s].pda.state] = Build(session[s].pda.state)
    BY DEF SessionInv, CacheIsBuilt
  <2>2. session[s].pda \in PdaType
    BY SessionFields
  <2> QED  BY <2>1, <2>2, PartitionServes
<1> QED
  BY <1>1, SessionInvariant, PTL
-----------------------------------------------------------------------------
(***************************************************************************)
(* The refinement, action by action.  The abstract decode has no automaton *)
(* and no cache: each step is justified by what its text alone decides.    *)
(***************************************************************************)
LEMMA SameNames ==
  /\ A!Ids = Ids /\ A!EosBit = EosBit /\ A!HostIds = HostIds
  /\ \A id : A!TokenBytes(id) = TokenBytes(id)
  /\ \A s, kind, allowed, at : A!Answered(s, kind, allowed, at) = Answered(s, kind, allowed, at)
  /\ \A s, kind : A!Said(s, kind) = Said(s, kind)
  BY DEF A!Ids, Ids, A!EosBit, EosBit, A!HostIds, HostIds, A!TokenBytes, TokenBytes,
         A!Answered, Answered, A!Said, Said

\* The mask is the set of tokens that would be accepted, and the EOS bit says
\* whether the text is a query (session.rs 114-172).
LEMMA MaskStep ==
  ASSUME SessionInv, NEW s \in Sessions, AllowedMask(s)
  PROVE  A!Mask(s)
<1> DEFINE p == session[s].pda
<1>1. p \in PdaType
  BY SessionFields
<1>2. Cached(p.state) = Build(p.state)
  BY DEF Cached, SessionInv, CacheIsBuilt
<1>3. answer' = Answered(s, "mask", Assembled(Build(p.state), p), 0) /\ text' = text
  BY <1>2 DEF AllowedMask
<1>4. ASSUME NEW id \in Ids
      PROVE  Admits(p, TokenBytes(id)) <=> LivePrefix(text[s] \o TokenBytes(id))
  BY TokenBytesType, AdmitsIsLivePrefix
<1>5. IsAccepting(p) <=> Complete(text[s])
  BY CompleteIsAccepting
<1>6. Assembled(Build(p.state), p) =
        {id \in Ids : Admits(p, TokenBytes(id))} \cup {id \in {EosBit} : IsAccepting(p)}
  BY <1>1, MaskIsExact
<1> HIDE DEF p
<1>7. Assembled(Build(p.state), p) =
        {id \in Ids : LivePrefix(text[s] \o TokenBytes(id))}
          \cup {id \in {EosBit} : Complete(text[s])}
  BY <1>4, <1>5, <1>6
<1>8. answer'.session = s /\ answer'.kind = "mask"
  BY <1>3 DEF Answered
<1> QED
  BY <1>3, <1>7, <1>8, SameNames DEF A!Mask

\* A token is committed whole or refused whole (session.rs 226-266).
LEMMA TokenStep ==
  ASSUME SessionInv, NEW s \in Sessions, NEW id \in HostIds,
         AcceptToken(s, id) \/ InadmissibleToken(s, id) \/ UnknownToken(s, id)
  PROVE  A!Token(s, id)
<1>1. ASSUME id \in Ids
      PROVE  Admits(session[s].pda, TokenBytes(id)) <=> LivePrefix(text[s] \o TokenBytes(id))
  BY <1>1, TokenBytesType, AdmitsIsLivePrefix
<1>2. CASE AcceptToken(s, id)
  BY <1>1, <1>2, SameNames DEF AcceptToken, A!Token, A!Commit
<1>3. CASE InadmissibleToken(s, id)
  BY <1>1, <1>3, SameNames DEF InadmissibleToken, A!Token, A!Refuse
<1>4. CASE UnknownToken(s, id)
  <2>1. Len(Vocab) \in Nat
    BY SessionAssumption
  <2>2. id > EosBit
    BY <1>4, <2>1 DEF UnknownToken, HostIds, Ids, EosBit
  <2> QED
    BY <1>4, <2>2, SameNames DEF UnknownToken, A!Token, A!Refuse
<1> QED
  BY <1>2, <1>3, <1>4

LEMMA EosStep ==
  ASSUME SessionInv, NEW s \in Sessions, AcceptEos(s)
  PROVE  A!Eos(s)
  BY CompleteIsAccepting, SameNames DEF AcceptEos, A!Eos, A!Refuse

\* A byte moves the text on by one, or is refused at the text's own length
\* (session.rs 301-314).
LEMMA ByteStep ==
  ASSUME SessionInv, NEW s \in Sessions, NEW b \in HostBytes, AcceptByte(s, b) \/ DeadByte(s, b)
  PROVE  A!ByteCall(s, b)
<1>1. b \in Byte /\ session[s].pda \in PdaType /\ text[s] \in Seq(Byte)
  BY SessionAssumption, SessionFields
<1>2. <<b>> \in Seq(Byte) /\ Append(text[s], b) = text[s] \o <<b>>
  BY <1>1
<1>3. Lives(session[s].pda, b) <=> LivePrefix(text[s] \o <<b>>)
  BY <1>1, <1>2, OneByte, AdmitsIsLivePrefix
<1>4. CASE AcceptByte(s, b)
  BY <1>2, <1>3, <1>4, SameNames DEF AcceptByte, A!ByteCall, A!Commit
<1>5. CASE DeadByte(s, b)
  <2>1. session[s].offset = Len(text[s])
    BY SessionFields
  <2> QED
    BY <1>2, <1>3, <1>5, <2>1, SameNames DEF DeadByte, A!ByteCall
<1> QED
  BY <1>4, <1>5

(***************************************************************************)
(* The sessions implement the abstract decode: exact masks, refusals that  *)
(* change nothing, offsets that count the text, and no session influencing *)
(* another through the grammar they share.                                 *)
(***************************************************************************)
THEOREM ImplementsDecoding == Spec => RefinesDecoding
<1>1. Init => A!Init
  BY SameNames DEF Init, A!Init
<1>2. SessionInv /\ [Next]_vars => [A!Next]_(A!avars)
  <2> SUFFICES ASSUME SessionInv, [Next]_vars PROVE [A!Next]_(A!avars)
    OBVIOUS
  <2>1. ASSUME NEW s \in Sessions, AllowedMask(s) PROVE A!Next
    BY <2>1, MaskStep DEF A!Next
  <2>2. ASSUME NEW s \in Sessions, NEW id \in HostIds,
               AcceptToken(s, id) \/ InadmissibleToken(s, id) \/ UnknownToken(s, id)
        PROVE  A!Next
    <3>1. A!Token(s, id)
      BY <2>2, TokenStep
    <3> QED  BY <3>1, SameNames DEF A!Next
  <2>3. ASSUME NEW s \in Sessions, AcceptEos(s) PROVE A!Next
    BY <2>3, EosStep DEF A!Next
  <2>4. ASSUME NEW s \in Sessions, NEW b \in HostBytes, AcceptByte(s, b) \/ DeadByte(s, b)
        PROVE  A!Next
    <3>1. A!ByteCall(s, b)
      BY <2>4, ByteStep
    <3> QED  BY <3>1 DEF A!Next
  <2>5. ASSUME NEW s \in Sessions, Reset(s) PROVE A!Next
    BY <2>5, SameNames DEF Reset, A!Restart, A!Next
  <2>6. ASSUME NEW s \in Sessions, NEW t \in Sessions \ {s}, Clone(s, t) PROVE A!Next
    BY <2>6, SameNames DEF Clone, A!Copy, A!Next
  <2>7. CASE UNCHANGED vars
    BY <2>7 DEF vars, A!avars
  <2> QED
    BY <2>1, <2>2, <2>3, <2>4, <2>5, <2>6, <2>7 DEF Next
<1> QED
  BY <1>1, <1>2, SessionInvariant, PTL DEF Spec, A!Spec, RefinesDecoding
=============================================================================
