------------------------ MODULE SchemaSession_proofs ------------------------
(***************************************************************************)
(* What the schema may do to a mask, for every schema, vocabulary and      *)
(* stream: clear bits, and never the one of EOS.  The mask of a step may   *)
(* have been memoised long before, at another position, so the invariant   *)
(* speaks of everything the memo holds.  And what the scope machine keeps  *)
(* of a text: from whatever tokens a stream is made, the bindings of its   *)
(* lambdas unwind.  Then what a memoised mask is: the one its rule would   *)
(* be given by the names alone, however long ago it was filled, so that    *)
(* no answer shows it.  Last, that a lexeme cut by the end of a token      *)
(* drives the scope machine as a whole one, over one token and over a      *)
(* stream.                                                                 *)
(***************************************************************************)
EXTENDS SchemaSession, Schema_proofs

\* Every memoised mask ends the stream where its rule lets it end.
KeepsEos(masks) == \A key \in DOMAIN masks : EosBit \in masks[key]

IsCached(entry) == entry = [trie |-> entry.trie, masks |-> entry.masks]

IsMemo(m) == m = [operand |-> m.operand, tries |-> m.tries]

MemoKeepsEos(m) ==
    /\ IsMemo(m)
    /\ KeepsEos(m.operand)
    /\ \A key \in DOMAIN m.tries :
         IsCached(m.tries[key]) /\ KeepsEos(m.tries[key].masks)

\* What a pass must answer: a mask with EOS, if any, and a memo like the one
\* it was given.
GoodPass(pass) ==
    /\ pass.applies \in BOOLEAN
    /\ pass.applies => EosBit \in pass.mask
    /\ MemoKeepsEos(pass.memo)

LEMMA WithKeepsEos ==
  ASSUME NEW masks, KeepsEos(masks), NEW key, NEW mask, EosBit \in mask
  PROVE  KeepsEos(With(masks, key, mask))
  BY DEF KeepsEos, With

LEMMA NoMemoKeepsEos == MemoKeepsEos(NoMemo)
  BY DEF MemoKeepsEos, NoMemo, IsMemo, KeepsEos

\* A memo whose tries have one more good entry.
LEMMA EntryAdded ==
  ASSUME NEW m, MemoKeepsEos(m), NEW key, NEW trie, NEW masks, KeepsEos(masks)
  PROVE  MemoKeepsEos([m EXCEPT !.tries = With(@, key, [trie |-> trie, masks |-> masks])])
<1> DEFINE entry == [trie |-> trie, masks |-> masks]
           tries == With(m.tries, key, entry)
           added == [m EXCEPT !.tries = With(@, key, entry)]
<1>1. added = [operand |-> m.operand, tries |-> tries]
  BY DEF MemoKeepsEos, IsMemo
<1>2. \A k \in DOMAIN tries : IsCached(tries[k]) /\ KeepsEos(tries[k].masks)
  <2>1. IsCached(entry) /\ KeepsEos(entry.masks)
    BY DEF IsCached
  <2>2. \A k \in DOMAIN tries : tries[k] = entry \/ (k \in DOMAIN m.tries /\ tries[k] = m.tries[k])
    BY DEF With
  <2> QED
    BY <2>1, <2>2 DEF MemoKeepsEos
<1>3. added.operand = m.operand /\ added.tries = tries
  BY <1>1
<1>4. IsMemo(added)
  BY <1>1 DEF IsMemo
<1> QED
  BY <1>2, <1>3, <1>4 DEF MemoKeepsEos

\* The entry a key has, or the one it is given.
LEMMA RuleCacheKeepsEos ==
  ASSUME NEW m, MemoKeepsEos(m), NEW key, NEW names
  PROVE  LET entry == RuleCache(m, key, names)
         IN  IsCached(entry) /\ KeepsEos(entry.masks)
  BY DEF RuleCache, MemoKeepsEos, IsCached, KeepsEos

LEMMA OperandPass ==
  ASSUME NEW m, MemoKeepsEos(m), NEW lhs
  PROVE  GoodPass(NarrowOperand(m, lhs))
<1> DEFINE mask == IF lhs \in DOMAIN m.operand THEN m.operand[lhs] ELSE FillOperand(lhs)
           left == [m EXCEPT !.operand = With(@, lhs, mask)]
<1>1. EosBit \in mask
  BY DEF MemoKeepsEos, KeepsEos, FillOperand
<1>2. left = [operand |-> With(m.operand, lhs, mask), tries |-> m.tries]
  BY DEF MemoKeepsEos, IsMemo
<1>3. KeepsEos(With(m.operand, lhs, mask))
  BY <1>1, WithKeepsEos DEF MemoKeepsEos
<1> HIDE DEF mask
<1>4. MemoKeepsEos(left)
  BY <1>2, <1>3 DEF MemoKeepsEos, IsMemo
<1>5. NarrowOperand(m, lhs) = [applies |-> TRUE, mask |-> mask, memo |-> left]
  BY DEF NarrowOperand, Narrowed, mask
<1> QED
  BY <1>1, <1>4, <1>5 DEF GoodPass

LEMMA TriePass ==
  ASSUME NEW m, MemoKeepsEos(m), NEW pos, NEW prefix, NEW columns
  PROVE  GoodPass(NarrowTrie(m, pos, prefix, columns))
<1> DEFINE key    == CacheKey(pos, columns, FALSE)
           entry  == RuleCache(m, key, LegalNames(pos, columns))
           cursor == Walk(entry.trie, Root, prefix)
           mask   == IF cursor.node \in DOMAIN entry.masks THEN entry.masks[cursor.node]
                     ELSE FillTrie(entry.trie, cursor.node, TrieKind(pos))
           filled == [entry EXCEPT !.masks = With(@, cursor.node, mask)]
           grown  == [m EXCEPT !.tries = With(@, key, filled)]
           kept   == [m EXCEPT !.tries = With(@, key, entry)]
<1>1. IsCached(entry) /\ KeepsEos(entry.masks)
  BY RuleCacheKeepsEos
<1>2. EosBit \in mask
  BY <1>1 DEF KeepsEos, FillTrie
<1>3. NarrowTrie(m, pos, prefix, columns)
        = IF cursor.outcome = "Stay" THEN Narrowed(mask, grown) ELSE Unnarrowed(kept)
  BY DEF NarrowTrie
<1> HIDE DEF key, entry, cursor, mask
<1>4. filled = [trie |-> entry.trie, masks |-> With(entry.masks, cursor.node, mask)]
  BY <1>1 DEF IsCached
<1>5. KeepsEos(With(entry.masks, cursor.node, mask))
  BY <1>1, <1>2, WithKeepsEos
<1>6. MemoKeepsEos(grown)
  BY <1>4, <1>5, EntryAdded
<1>7. MemoKeepsEos(kept)
  BY <1>1, EntryAdded DEF IsCached
<1> QED
  BY <1>2, <1>3, <1>6, <1>7 DEF GoodPass, Narrowed, Unnarrowed

LEMMA FusedPass ==
  ASSUME NEW m, MemoKeepsEos(m), NEW pos, NEW columns
  PROVE  GoodPass(NarrowFusedInto(m, pos, columns))
<1> DEFINE key    == CacheKey(pos, columns, TRUE)
           entry  == RuleCache(m, key, LegalNames(pos, columns))
           mask   == IF Root \in DOMAIN entry.masks THEN entry.masks[Root]
                     ELSE FillFusedTrie(entry.trie)
           filled == [entry EXCEPT !.masks = With(@, Root, mask)]
           grown  == [m EXCEPT !.tries = With(@, key, filled)]
<1>1. IsCached(entry) /\ KeepsEos(entry.masks)
  BY RuleCacheKeepsEos
<1>2. EosBit \in mask
  BY <1>1 DEF KeepsEos, FillFusedTrie
<1>3. NarrowFusedInto(m, pos, columns)
        = IF pos.rule = "None" THEN Unnarrowed(m) ELSE Narrowed(mask, grown)
  BY DEF NarrowFusedInto
<1> HIDE DEF key, entry, mask
<1>4. filled = [trie |-> entry.trie, masks |-> With(entry.masks, Root, mask)]
  BY <1>1 DEF IsCached
<1>5. KeepsEos(With(entry.masks, Root, mask))
  BY <1>1, <1>2, WithKeepsEos
<1>6. MemoKeepsEos(grown)
  BY <1>4, <1>5, EntryAdded
<1> QED
  BY <1>2, <1>3, <1>6 DEF GoodPass, Narrowed, Unnarrowed

LEMMA NarrowPass ==
  ASSUME NEW m, MemoKeepsEos(m), NEW pos, NEW prefix, NEW columns
  PROVE  GoodPass(NarrowInto(m, pos, prefix, columns))
<1>1. GoodPass(Unnarrowed(m))
  BY DEF GoodPass, Unnarrowed
<1> QED
  BY <1>1, OperandPass, TriePass DEF NarrowInto

LEMMA OverlayOnlyClears ==
  ASSUME NEW l1, NEW t, NEW p, NEW m, MemoKeepsEos(m)
  PROVE  LET overlay == Overlay(l1, t, p, m)
         IN  /\ overlay.mask \subseteq l1
             /\ EosBit \in overlay.mask <=> EosBit \in l1
             /\ MemoKeepsEos(overlay.memo)
<1> DEFINE pass  == NarrowInto(m, PositionAt(t, p.state), NarrowPrefix(t), t.emitted_strings)
           left  == Intersected(l1, pass)
           fused == NarrowFusedInto(left.memo, FusedNavPosition(t), t.emitted_strings)
<1>1. GoodPass(pass)
  BY NarrowPass
<1>2. left.memo = pass.memo
  BY DEF Intersected
<1>3. GoodPass(fused)
  BY <1>1, <1>2, FusedPass DEF GoodPass
<1>4. Overlay(l1, t, p, m) = Intersected(left.mask, fused)
  BY DEF Overlay, NarrowedAt, NarrowedFused
<1> HIDE DEF pass, fused
<1> QED
  BY <1>1, <1>3, <1>4 DEF GoodPass, Intersected

\* The inductive invariant of the overlay: no mask in the memo lost EOS, and
\* a mask that is not known is empty.
ClearsInv ==
    /\ NarrowsOnly
    /\ MemoKeepsEos(memo)
    /\ answer.known \/ answer = NoAnswer

LEMMA InitClears == Init => ClearsInv
  BY NoMemoKeepsEos DEF Init, NarrowsOnly, NoAnswer, ClearsInv

LEMMA NextClears ==
  ASSUME ClearsInv, [Next]_vars
  PROVE  ClearsInv'
<1> USE DEF ClearsInv
<1>1. CASE AllowedMask
  <2> DEFINE overlay == Overlay(L1Mask(pda), tracker, pda, memo)
  <2>1. answer' = Masked(overlay.mask) /\ memo' = overlay.memo /\ pda' = pda
    BY <1>1 DEF AllowedMask, Answered
  <2>2. /\ overlay.mask \subseteq L1Mask(pda)
        /\ EosBit \in overlay.mask <=> EosBit \in L1Mask(pda)
        /\ MemoKeepsEos(overlay.memo)
    BY OverlayOnlyClears
  <2> HIDE DEF overlay
  <2>3. MemoKeepsEos(memo')
    BY <2>1, <2>2
  <2>4. NarrowsOnly' /\ answer'.known
    BY <2>1, <2>2 DEF NarrowsOnly, Masked
  <2> QED
    BY <2>3, <2>4 DEF MemoKeepsEos, KeepsEos, IsMemo, IsCached
<1>2. ASSUME answer' = NoAnswer, memo' \in {memo, NoMemo}
      PROVE  ClearsInv'
  <2>1. MemoKeepsEos(memo')
    BY <1>2, NoMemoKeepsEos
  <2>2. NarrowsOnly'
    BY <1>2 DEF NarrowsOnly, NoAnswer
  <2> QED
    BY <1>2, <2>1, <2>2 DEF MemoKeepsEos, KeepsEos, IsMemo, IsCached
<1>3. ASSUME NEW id, Commit(id) PROVE ClearsInv'
  BY <1>2, <1>3 DEF Commit
<1>4. ASSUME NEW b, AcceptByte(b) PROVE ClearsInv'
  BY <1>2, <1>4 DEF AcceptByte
<1>5. ASSUME NEW query, Reset(query) PROVE ClearsInv'
  BY <1>2, <1>5 DEF Reset
<1>6. CASE UNCHANGED vars
  BY <1>6 DEF vars, NarrowsOnly, MemoKeepsEos, KeepsEos, IsMemo, IsCached
<1> QED
  BY <1>1, <1>3, <1>4, <1>5, <1>6 DEF Next, AcceptToken, AcceptStray

(***************************************************************************)
(* The schema overlay only takes tokens away, never admits one the         *)
(* automaton refuses, and answers EOS as the automaton does; so a query    *)
(* that may end under the grammar may end under every schema (allowed_mask,*)
(* session.rs 137-199).                                                    *)
(***************************************************************************)
THEOREM OverlayNarrowsOnly == Spec => []NarrowsOnly
<1>1. ClearsInv => NarrowsOnly
  BY DEF ClearsInv
<1> QED
  BY <1>1, InitClears, NextClears, PTL DEF Spec

-----------------------------------------------------------------------------
(***************************************************************************)
(* The scope machine.  Only a pipe, an opener and a closer touch the       *)
(* bindings, the saves and the depth; the other handlers leave them alone. *)
(***************************************************************************)
Fields == {"pending", "cur_class", "var_class", "pending_refvar", "dot_base", "nav_cursor",
           "last_resolved", "last_nav_class", "cmp_pending", "lambda_first_ident",
           "pending_arrow_receiver", "paren_receiver", "est_stack", "ref_stack", "depth",
           "last_ident", "rel_explicit", "saw_tilde_bracket", "tilde_open",
           "relation_row_vars", "binder_saves", "scope_saves", "dot_is_column",
           "emitted_strings"}

LEMMA FieldsOfTracker == DOMAIN NewTracker = Fields
  BY DEF NewTracker, Fields

SameBindings(t, u) ==
    /\ DOMAIN u = DOMAIN t
    /\ u.var_class = t.var_class
    /\ u.relation_row_vars = t.relation_row_vars
    /\ u.binder_saves = t.binder_saves
    /\ u.scope_saves = t.scope_saves
    /\ u.depth = t.depth

LEMMA ArmedSame ==
  ASSUME NEW t, DOMAIN t = Fields, NEW lexeme
  PROVE  SameBindings(t, Armed(t, lexeme))
  BY DEF SameBindings, Armed, Fields

LEMMA ResolveSame ==
  ASSUME NEW t, DOMAIN t = Fields, NEW ident
  PROVE  SameBindings(t, ResolveMember(t, ident))
  BY DEF SameBindings, ResolveMember, Reached, Fields

LEMMA DotSame ==
  ASSUME NEW t, DOMAIN t = Fields
  PROVE  SameBindings(t, OnDot(t))
  BY DEF SameBindings, OnDot, Fields

LEMMA ArrowSame ==
  ASSUME NEW t, DOMAIN t = Fields
  PROVE  SameBindings(t, OnArrow(t))
  BY DEF SameBindings, OnArrow, Fields

LEMMA IdentSame ==
  ASSUME NEW t, DOMAIN t = Fields, NEW text, NEW pre
  PROVE  SameBindings(t, OnIdent(t, text, pre))
<1> DEFINE named == HasClass(Schema, text)
           seen  == IF named THEN [t EXCEPT !.cur_class = text] ELSE t
           used  == CASE pre = "AfterDollar" -> [seen EXCEPT !.pending_refvar = text]
                      [] pre = "AfterDot"    -> ResolveMember(seen, text)
                      [] \/ pre \in HubStates
                         \/ pre \in {"AfterColon", "AfterColonWs"} /\ ~named
                                             -> [seen EXCEPT !.lambda_first_ident = text]
                      [] OTHER               -> seen
<1>1. SameBindings(t, seen)
  BY DEF SameBindings, Fields
<1>2. DOMAIN seen = Fields
  BY <1>1 DEF SameBindings
<1>3. OnIdent(t, text, pre) = [used EXCEPT !.last_ident = text,
                     !.emitted_strings =
                        IF pre = "SawTilde" \/ InTildeBracket(t, pre)
                        THEN Append(@, text) ELSE @]
  BY DEF OnIdent
<1> HIDE DEF seen, named
<1>4. SameBindings(seen, used)
  BY <1>2, ResolveSame DEF SameBindings, Fields, HubStates
<1> HIDE DEF used
<1>5. SameBindings(used, OnIdent(t, text, pre))
  BY <1>2, <1>3, <1>4 DEF SameBindings, Fields
<1> QED  BY <1>1, <1>4, <1>5 DEF SameBindings

-----------------------------------------------------------------------------
(***************************************************************************)
(* The saves of a stack lie in the order of their delimiters, and the      *)
(* bindings left when those above an index are undone.                     *)
(***************************************************************************)
Saves(s, d) ==
    /\ \E S : s \in Seq(S)
    /\ \A i \in 1 .. Len(s) : s[i].depth \in 0 .. d
    /\ \A i, j \in 1 .. Len(s) : i <= j => s[i].depth <= s[j].depth

Bindings(t) == [vars |-> t.var_class, rows |-> t.relation_row_vars]

IsFcn(f) == f = [x \in DOMAIN f |-> f[x]]

IsBound(x) == x = [vars |-> x.vars, rows |-> x.rows] /\ IsFcn(x.vars)

\* b runs through the bindings left as the saves are undone one by one, from
\* those bound now down to none.
Unwinds(b, saves, top) ==
    /\ b = [i \in 0 .. Len(saves) |-> b[i]]
    /\ b[Len(saves)] = top
    /\ \A i \in 0 .. Len(saves) - 1 : b[i] = Undo(saves[i + 1], b[i + 1])
    /\ \A i \in 0 .. Len(saves) : IsBound(b[i])
    /\ DOMAIN b[0].vars = {} /\ b[0].rows = {}

GoodTracker(t) ==
    /\ DOMAIN t = Fields
    /\ t.depth \in Nat
    /\ Saves(t.binder_saves, t.depth)
    /\ Saves(t.scope_saves, t.depth)
    /\ \E b : Unwinds(b, t.binder_saves, Bindings(t))

LEMMA SameIsGood ==
  ASSUME NEW t, GoodTracker(t), NEW u, SameBindings(t, u)
  PROVE  GoodTracker(u)
  BY DEF GoodTracker, SameBindings, Bindings

LEMMA NewIsGood == GoodTracker(NewTracker)
<1> DEFINE none == <<>>
           b == [i \in 0 .. 0 |-> Bindings(NewTracker)]
<1>1. none \in Seq({}) /\ Len(none) = 0 /\ DOMAIN none = {} /\ IsFcn(none)
  BY DEF IsFcn
<1> HIDE DEF none
<1>2. /\ NewTracker.var_class = none /\ NewTracker.relation_row_vars = {}
      /\ NewTracker.binder_saves = none /\ NewTracker.scope_saves = none
      /\ NewTracker.depth = 0
  BY DEF NewTracker, none
<1>3. Saves(none, 0)
  BY <1>1 DEF Saves
<1>4. Unwinds(b, none, Bindings(NewTracker))
  BY <1>1, <1>2 DEF Unwinds, Bindings, IsBound
<1> QED  BY <1>2, <1>3, <1>4, FieldsOfTracker DEF GoodTracker

LEMMA UnwoundIs ==
  ASSUME NEW t, NEW b, Unwinds(b, t.binder_saves, Bindings(t)), Len(t.binder_saves) \in Nat,
         NEW n \in 0 .. Len(t.binder_saves)
  PROVE  Unwound(t, n) = b[n]
<1> DEFINE N == Len(t.binder_saves)
           Run(h) == h = [i \in 0 .. N |->
                            IF i = N THEN [vars |-> t.var_class, rows |-> t.relation_row_vars]
                            ELSE Undo(t.binder_saves[i + 1], h[i + 1])]
           bound == CHOOSE h : Run(h)
<1>1. ASSUME NEW i \in 0 .. N
      PROVE  b[i] = IF i = N THEN [vars |-> t.var_class, rows |-> t.relation_row_vars]
                    ELSE Undo(t.binder_saves[i + 1], b[i + 1])
  <2>1. i # N => i \in 0 .. N - 1
    OBVIOUS
  <2> QED  BY <2>1 DEF Unwinds, Bindings
<1>2. Run(b)
  BY <1>1 DEF Unwinds
<1>3. Run(bound)
  BY <1>2
<1>4. Unwound(t, n) = bound[n]
  BY DEF Unwound
<1> HIDE DEF bound
<1> DEFINE X == {k \in 0 .. N : bound[N - k] = b[N - k]}
<1>5. 0 \in X
  BY <1>1, <1>3
<1>6. ASSUME NEW k \in 1 .. N, k - 1 \in X PROVE k \in X
  <2> DEFINE i == N - k
  <2>1. i \in 0 .. N /\ i # N /\ i + 1 \in 0 .. N /\ i + 1 = N - (k - 1) /\ k \in 0 .. N
    OBVIOUS
  <2>2. bound[i] = Undo(t.binder_saves[i + 1], bound[i + 1])
    BY <1>3, <2>1
  <2>3. b[i] = Undo(t.binder_saves[i + 1], b[i + 1])
    BY <1>1, <2>1
  <2> QED  BY <1>6, <2>1, <2>2, <2>3
<1>7. N - n \in X
  <2> HIDE DEF X
  <2>1. N \in Nat /\ N - n \in 0 .. N
    OBVIOUS
  <2> HIDE DEF N
  <2> QED  BY <1>5, <1>6, <2>1, InductionUpTo
<1>8. N - (N - n) = n
  OBVIOUS
<1> QED  BY <1>4, <1>7, <1>8

-----------------------------------------------------------------------------
\* Undoing the save made before a variable is bound or unbound gives back
\* what was bound.
LEMMA UndoneBinding ==
  ASSUME NEW held, IsFcn(held), NEW rows, NEW name, NEW class, NEW save,
         save.name = name, save.row = (name \in rows),
         save.class = IF name \in DOMAIN held THEN <<held[name]>> ELSE <<>>
  PROVE  /\ Undo(save, [vars |-> Bind(held, name, class), rows |-> rows \ {name}])
              = [vars |-> held, rows |-> rows]
         /\ Undo(save, [vars |-> Unbind(held, name), rows |-> rows \cup {name}])
              = [vars |-> held, rows |-> rows]
         /\ IsFcn(Bind(held, name, class)) /\ IsFcn(Unbind(held, name))
<1> DEFINE off == DOMAIN held \ {name}
           bound == Bind(held, name, class)
           unbound == Unbind(held, name)
<1>1. /\ IsFcn(bound) /\ DOMAIN bound = off \cup {name} /\ \A x \in off : bound[x] = held[x]
      /\ IsFcn(unbound) /\ DOMAIN unbound = off /\ \A x \in off : unbound[x] = held[x]
  BY DEF Bind, Unbind, Restrict, IsFcn
<1> HIDE DEF bound, unbound
<1>2. /\ IF save.row THEN (rows \ {name}) \cup {save.name} = rows
                     ELSE (rows \ {name}) \ {save.name} = rows
      /\ IF save.row THEN (rows \cup {name}) \cup {save.name} = rows
                     ELSE (rows \cup {name}) \ {save.name} = rows
  OBVIOUS
<1>3. ASSUME NEW f, IsFcn(f), DOMAIN f \ {name} = off, \A x \in off : f[x] = held[x]
      PROVE  (IF save.class = <<>> THEN Unbind(f, save.name)
              ELSE Bind(f, save.name, save.class[1])) = held
  <2>1. CASE name \in DOMAIN held
    <3>1. save.class # <<>> /\ save.class[1] = held[name] /\ DOMAIN held = off \cup {name}
      BY <2>1
    <3>2. Bind(f, name, held[name]) = held
      <4>1. DOMAIN f \cup {name} = DOMAIN held
        BY <1>3, <3>1
      <4>2. \A x \in DOMAIN held : (IF x = name THEN held[name] ELSE f[x]) = held[x]
        BY <1>3
      <4>3. Bind(f, name, held[name]) = [x \in DOMAIN held |-> held[x]]
        BY <4>1, <4>2 DEF Bind
      <4> QED  BY <4>3 DEF IsFcn
    <3> QED  BY <3>1, <3>2
  <2>2. CASE name \notin DOMAIN held
    <3>1. save.class = <<>> /\ DOMAIN held = off
      BY <2>2
    <3>2. Unbind(f, name) = [x \in off |-> f[x]]
      BY <1>3 DEF Unbind, Restrict
    <3>3. [x \in off |-> f[x]] = [x \in off |-> held[x]]
      BY <1>3
    <3> QED  BY <3>1, <3>2, <3>3 DEF IsFcn
  <2> QED  BY <2>1, <2>2
<1>4. DOMAIN bound \ {name} = off /\ DOMAIN unbound \ {name} = off
  BY <1>1
<1> HIDE DEF off
<1>5. Undo(save, [vars |-> bound, rows |-> rows \ {name}]) = [vars |-> held, rows |-> rows]
  BY <1>1, <1>2, <1>3, <1>4 DEF Undo
<1>6. Undo(save, [vars |-> unbound, rows |-> rows \cup {name}]) = [vars |-> held, rows |-> rows]
  BY <1>1, <1>2, <1>3, <1>4 DEF Undo
<1> QED  BY <1>1, <1>5, <1>6 DEF bound, unbound

LEMMA SavesAppend ==
  ASSUME NEW s, NEW d \in Nat, Saves(s, d), NEW save, save.depth = d
  PROVE  /\ Saves(Append(s, save), d)
         /\ Len(s) \in Nat
         /\ Len(Append(s, save)) = Len(s) + 1
         /\ \A i \in 1 .. Len(s) : Append(s, save)[i] = s[i]
         /\ Append(s, save)[Len(s) + 1] = save
<1>1. PICK S : s \in Seq(S)
  BY DEF Saves
<1> DEFINE T == S \cup {save}
           u == Append(s, save)
<1>2. s \in Seq(T) /\ save \in T
  BY <1>1
<1> HIDE DEF T
<1>3. /\ u \in Seq(T) /\ Len(s) \in Nat /\ Len(u) = Len(s) + 1
      /\ \A i \in 1 .. Len(s) : u[i] = s[i]
      /\ u[Len(s) + 1] = save
  BY <1>2
<1> HIDE DEF u
<1>4. \A i \in 1 .. Len(s) : s[i].depth \in 0 .. d
  BY DEF Saves
<1>5. \A i \in 1 .. Len(u) : u[i].depth \in 0 .. d
  BY <1>3, <1>4
<1>6. ASSUME NEW i \in 1 .. Len(u), NEW j \in 1 .. Len(u), i <= j
      PROVE  u[i].depth <= u[j].depth
  <2>1. CASE j = Len(s) + 1
    <3>1. u[j].depth = d /\ u[i].depth \in 0 .. d
      BY <1>3, <1>5, <2>1
    <3> QED  BY <3>1
  <2>2. CASE j # Len(s) + 1
    <3>1. i \in 1 .. Len(s) /\ j \in 1 .. Len(s)
      BY <1>3, <1>6, <2>2
    <3> QED  BY <1>3, <1>6, <3>1 DEF Saves
  <2> QED  BY <2>1, <2>2
<1> QED  BY <1>3, <1>5, <1>6 DEF Saves, u

LEMMA UnwindsAppend ==
  ASSUME NEW s, NEW u, Len(s) \in Nat, Len(u) = Len(s) + 1,
         \A i \in 1 .. Len(s) : u[i] = s[i],
         NEW old, NEW new, Undo(u[Len(s) + 1], new) = old, IsBound(new),
         NEW b, Unwinds(b, s, old)
  PROVE  \E h : Unwinds(h, u, new)
<1> DEFINE n == Len(s)
           h == [i \in 0 .. n + 1 |-> IF i = n + 1 THEN new ELSE b[i]]
<1>1. /\ h = [i \in 0 .. n + 1 |-> h[i]]
      /\ h[n + 1] = new
      /\ \A i \in 0 .. n : h[i] = b[i]
  OBVIOUS
<1> HIDE DEF h
<1>2. ASSUME NEW i \in 0 .. n PROVE h[i] = Undo(u[i + 1], h[i + 1])
  <2>1. CASE i = n
    BY <1>1, <2>1 DEF Unwinds
  <2>2. CASE i # n
    <3>1. i \in 0 .. n - 1 /\ i + 1 \in 0 .. n /\ i + 1 \in 1 .. n
      BY <2>2
    <3> QED  BY <1>1, <3>1 DEF Unwinds
  <2> QED  BY <2>1, <2>2
<1>3. \A i \in 0 .. n + 1 : IsBound(h[i])
  <2>1. \A i \in 0 .. n + 1 : i = n + 1 \/ i \in 0 .. n
    OBVIOUS
  <2> QED  BY <1>1, <2>1 DEF Unwinds
<1>4. h[0] = b[0] /\ (n + 1) - 1 = n
  BY <1>1
<1>5. Unwinds(h, u, new)
  BY <1>1, <1>2, <1>3, <1>4 DEF Unwinds
<1> QED  BY <1>5

LEMMA OnPipeIsGood ==
  ASSUME NEW t, GoodTracker(t), NEW pre
  PROVE  GoodTracker(OnPipe(t, pre))
<1> DEFINE name  == t.lambda_first_ident
           saved == [SaveScope(t) EXCEPT !.lambda_first_ident = None]
           bsaved == SaveBinder(saved, name)
           bound == BindLambda(bsaved, name)
<1>0. DOMAIN t = Fields /\ t.depth \in Nat
  BY DEF GoodTracker
<1>1. /\ DOMAIN saved = Fields /\ saved.depth = t.depth /\ saved.var_class = t.var_class
      /\ saved.relation_row_vars = t.relation_row_vars /\ saved.binder_saves = t.binder_saves
      /\ \E save : save.depth = t.depth /\ saved.scope_saves = Append(t.scope_saves, save)
  BY <1>0 DEF SaveScope, Fields
<1>2. GoodTracker(saved)
  <2>1. PICK s : s.depth = t.depth /\ saved.scope_saves = Append(t.scope_saves, s)
    BY <1>1
  <2>2. Saves(t.scope_saves, t.depth) /\ Saves(t.binder_saves, t.depth)
    BY DEF GoodTracker
  <2>3. Saves(saved.scope_saves, t.depth)
    <3>1. Saves(Append(t.scope_saves, s), t.depth)
      BY <1>0, <2>1, <2>2, SavesAppend
    <3> QED  BY <2>1, <3>1
  <2>4. \E b : Unwinds(b, t.binder_saves, Bindings(t))
    BY DEF GoodTracker
  <2>5. Bindings(saved) = Bindings(t)
    BY <1>1 DEF Bindings
  <2> QED  BY <1>0, <1>1, <2>2, <2>3, <2>4, <2>5 DEF GoodTracker
<1> HIDE DEF saved
<1> DEFINE save == [depth |-> saved.depth, name |-> name,
                    class |-> IF name \in DOMAIN saved.var_class
                              THEN <<saved.var_class[name]>> ELSE <<>>,
                    row   |-> name \in saved.relation_row_vars]
<1>3. /\ DOMAIN bsaved = Fields /\ bsaved.depth = t.depth /\ bsaved.var_class = t.var_class
      /\ bsaved.relation_row_vars = t.relation_row_vars
      /\ bsaved.scope_saves = saved.scope_saves
      /\ bsaved.binder_saves = Append(t.binder_saves, save)
  BY <1>1 DEF SaveBinder, Fields
<1>4. /\ save.depth = t.depth /\ save.name = name /\ save.row = (name \in t.relation_row_vars)
      /\ save.class = IF name \in DOMAIN t.var_class THEN <<t.var_class[name]>> ELSE <<>>
  BY <1>1
<1> HIDE DEF save, bsaved
<1>5. /\ DOMAIN bound = Fields /\ bound.depth = t.depth
      /\ bound.scope_saves = saved.scope_saves
      /\ bound.binder_saves = Append(t.binder_saves, save)
      /\ \/ \E class : Bindings(bound) = [vars |-> Bind(t.var_class, name, class),
                                          rows |-> t.relation_row_vars \ {name}]
         \/ Bindings(bound) = [vars |-> Unbind(t.var_class, name),
                               rows |-> t.relation_row_vars \cup {name}]
  BY <1>3 DEF BindLambda, Bindings, Fields
<1> HIDE DEF bound
<1>6. PICK b : Unwinds(b, t.binder_saves, Bindings(t))
  BY DEF GoodTracker
<1>7. Saves(t.binder_saves, t.depth) /\ Len(t.binder_saves) \in Nat
  BY DEF GoodTracker, Saves
<1>8. IsFcn(t.var_class)
  <2>1. Len(t.binder_saves) \in 0 .. Len(t.binder_saves)
    BY <1>7
  <2>2. IsBound(b[Len(t.binder_saves)]) /\ b[Len(t.binder_saves)] = Bindings(t)
    BY <1>6, <2>1 DEF Unwinds
  <2>3. Bindings(t).vars = t.var_class
    BY DEF Bindings
  <2> QED  BY <2>2, <2>3 DEF IsBound
<1>9. Undo(save, Bindings(bound)) = Bindings(t) /\ IsBound(Bindings(bound))
  <2> DEFINE held == t.var_class
             rows == t.relation_row_vars
  <2>1. Bindings(t) = [vars |-> held, rows |-> rows]
    BY DEF Bindings
  <2> HIDE DEF held, rows
  <2>2. \A class :
          /\ Undo(save, [vars |-> Bind(held, name, class), rows |-> rows \ {name}])
               = [vars |-> held, rows |-> rows]
          /\ Undo(save, [vars |-> Unbind(held, name), rows |-> rows \cup {name}])
               = [vars |-> held, rows |-> rows]
          /\ IsFcn(Bind(held, name, class)) /\ IsFcn(Unbind(held, name))
    BY <1>4, <1>8, UndoneBinding DEF held, rows
  <2>3. \/ \E class : Bindings(bound) = [vars |-> Bind(held, name, class),
                                        rows |-> rows \ {name}]
        \/ Bindings(bound) = [vars |-> Unbind(held, name), rows |-> rows \cup {name}]
    BY <1>5 DEF held, rows
  <2>4. CASE \E class : Bindings(bound) = [vars |-> Bind(held, name, class),
                                          rows |-> rows \ {name}]
    BY <2>1, <2>2, <2>4 DEF IsBound
  <2>5. CASE Bindings(bound) = [vars |-> Unbind(held, name), rows |-> rows \cup {name}]
    BY <2>1, <2>2, <2>5 DEF IsBound
  <2> QED  BY <2>3, <2>4, <2>5
<1>10. /\ Saves(bound.binder_saves, t.depth)
       /\ \E h : Unwinds(h, bound.binder_saves, Bindings(bound))
  <2> DEFINE s == t.binder_saves
             u == bound.binder_saves
  <2>1. /\ Saves(u, t.depth) /\ Len(u) = Len(s) + 1
        /\ \A i \in 1 .. Len(s) : u[i] = s[i]
        /\ u[Len(s) + 1] = save
    <3>1. u = Append(s, save)
      BY <1>5
    <3> QED  BY <1>0, <1>4, <1>7, <3>1, SavesAppend
  <2>2. Len(s) \in Nat /\ Unwinds(b, s, Bindings(t))
    BY <1>6, <1>7
  <2>3. Undo(u[Len(s) + 1], Bindings(bound)) = Bindings(t) /\ IsBound(Bindings(bound))
    BY <1>9, <2>1
  <2> HIDE DEF s, u
  <2>4. \E h : Unwinds(h, u, Bindings(bound))
    BY <2>1, <2>2, <2>3, UnwindsAppend
  <2> QED  BY <2>1, <2>4 DEF u
<1>11. GoodTracker(bound)
  BY <1>2, <1>5, <1>10, <1>0, <1>1 DEF GoodTracker
<1>12. OnPipe(t, pre) \in {t, saved, bound}
  BY DEF OnPipe, saved, bound, bsaved
<1> QED  BY <1>2, <1>11, <1>12

LEMMA OnOpenIsGood ==
  ASSUME NEW t, GoodTracker(t), NEW pre
  PROVE  GoodTracker(OnOpen(t, pre))
<1> DEFINE u == OnOpen(t, pre)
<1>1. DOMAIN t = Fields /\ t.depth \in Nat
  BY DEF GoodTracker
<1>2. /\ DOMAIN u = Fields /\ u.depth = t.depth + 1
      /\ u.var_class = t.var_class /\ u.relation_row_vars = t.relation_row_vars
      /\ u.binder_saves = t.binder_saves /\ u.scope_saves = t.scope_saves
  BY <1>1 DEF OnOpen, Fields
<1> HIDE DEF u
<1>3. ASSUME NEW s, Saves(s, t.depth) PROVE Saves(s, t.depth + 1)
  <2>1. \A n \in 0 .. t.depth : n \in 0 .. t.depth + 1
    BY <1>1
  <2> QED  BY <1>3, <2>1 DEF Saves
<1> QED  BY <1>1, <1>2, <1>3 DEF GoodTracker, Bindings, u

\* The depth a closer leaves.
Outer(d) == IF d > 0 THEN d - 1 ELSE 0

LEMMA SavesBelow ==
  ASSUME NEW s, NEW d \in Nat, Saves(s, d)
  PROVE  LET k == Below(s, d) IN
         /\ Len(s) \in Nat /\ k \in 0 .. Len(s)
         /\ Len(SubSeq(s, 1, k)) = k
         /\ \A i \in 1 .. k : SubSeq(s, 1, k)[i] = s[i]
         /\ Saves(SubSeq(s, 1, k), Outer(d))
         /\ k = Len(s) => Saves(s, Outer(d))
<1> DEFINE k == Below(s, d)
           K == {i \in DOMAIN s : s[i].depth # d}
           N == Len(s)
<1>1. PICK S : s \in Seq(S)
  BY DEF Saves
<1>2. N \in Nat /\ DOMAIN s = 1 .. N
  BY <1>1
<1>3. k \in {0} \cup K /\ \A i \in K : i <= k
  <2>1. CASE K = {}
    <3>1. Max({0} \cup K) = 0
      BY <2>1 DEF Max
    <3> QED  BY <2>1, <3>1 DEF Below
  <2>2. CASE K # {}
    <3>1. K \subseteq 1 .. N
      BY <1>2
    <3> HIDE DEF K
    <3>2. Max(K) \in K /\ \A i \in K : Max(K) >= i
      BY <1>2, <2>2, <3>1, MaxExists
    <3>3. PICK m \in K : m \in 1 .. N /\ \A i \in K : m >= i
      BY <3>1, <3>2
    <3>7. m >= 0
      BY <1>2, <3>3
    <3>8. \A i \in {0} \cup K : m >= i
      BY <3>3, <3>7
    <3>4. Max({0} \cup K) \in {0} \cup K /\ \A i \in {0} \cup K : Max({0} \cup K) >= i
      BY <3>3, <3>8 DEF Max
    <3>5. k = Max({0} \cup K)
      BY DEF Below, K
    <3>6. k \in {0} \cup K /\ (\A i \in K : k >= i) /\ k \in Nat
      <4> HIDE DEF k
      <4>1. \A i \in {0} \cup K : k >= i
        BY <3>4, <3>5
      <4>2. k \in {0} \cup K
        BY <3>4, <3>5
      <4>3. \A i \in {0} \cup K : i \in Nat
        BY <1>2, <3>1
      <4> QED  BY <4>1, <4>2, <4>3
    <3>9. \A i \in K : i \in Nat
      BY <1>2, <3>1
    <3> HIDE DEF k
    <3>10. \A i \in K : i <= k
      BY <3>6, <3>9
    <3> QED  BY <3>6, <3>10 DEF K
  <2> QED  BY <2>1, <2>2
<1>4. k \in 0 .. N /\ k \in Nat
  BY <1>2, <1>3
<1>5. \A i \in 1 .. N : i <= k => s[i].depth \in 0 .. d /\ s[i].depth < d
  <2> SUFFICES ASSUME NEW i \in 1 .. N, i <= k PROVE s[i].depth \in 0 .. d /\ s[i].depth < d
    OBVIOUS
  <2>1. k \in 1 .. N /\ k \in K
    BY <1>2, <1>3, <1>4
  <2>2. s[i].depth \in 0 .. d /\ s[k].depth \in 0 .. d /\ s[k].depth # d
    BY <2>1 DEF Saves
  <2>3. s[i].depth <= s[k].depth
    BY <2>1 DEF Saves
  <2> QED  BY <2>2, <2>3
<1>6. \A i \in 1 .. N : i <= k => s[i].depth \in 0 .. Outer(d)
  BY <1>5 DEF Outer
<1> DEFINE u == SubSeq(s, 1, k)
<1> HIDE DEF k, K
<1>7. u \in Seq(S) /\ Len(u) = k /\ \A i \in 1 .. k : u[i] = s[i]
  BY <1>1, <1>2, <1>4, SubSeqProperties
<1> HIDE DEF u
<1>8. \A i \in 1 .. k : i \in 1 .. N /\ i <= k
  BY <1>2, <1>4
<1>9. Saves(u, Outer(d))
  <2>1. \A i \in 1 .. k : u[i].depth \in 0 .. Outer(d)
    BY <1>6, <1>7, <1>8
  <2>2. \A i, j \in 1 .. k : i <= j => u[i].depth <= u[j].depth
    BY <1>7, <1>8 DEF Saves
  <2> QED  BY <1>7, <2>1, <2>2 DEF Saves
<1>10. k = N => Saves(s, Outer(d))
  <2> SUFFICES ASSUME k = N PROVE Saves(s, Outer(d))
    OBVIOUS
  <2>1. \A i \in 1 .. N : s[i].depth \in 0 .. Outer(d)
    BY <1>2, <1>6
  <2> QED  BY <2>1 DEF Saves
<1> QED  BY <1>2, <1>4, <1>7, <1>9, <1>10 DEF k, u

LEMMA UnwindsPrefix ==
  ASSUME NEW s, Len(s) \in Nat, NEW top, NEW b, Unwinds(b, s, top),
         NEW k \in 0 .. Len(s),
         NEW u, Len(u) = k, \A i \in 1 .. k : u[i] = s[i]
  PROVE  /\ \E h : Unwinds(h, u, b[k])
         /\ IsBound(b[k])
<1> DEFINE h == [i \in 0 .. k |-> b[i]]
<1>1. h = [i \in 0 .. k |-> h[i]] /\ \A i \in 0 .. k : h[i] = b[i]
  OBVIOUS
<1> HIDE DEF h
<1>2. /\ k \in 0 .. k /\ 0 \in 0 .. k
      /\ \A i \in 0 .. k : i \in 0 .. Len(s)
      /\ \A i \in 0 .. k - 1 : i \in 0 .. Len(s) - 1 /\ i \in 0 .. k /\ i + 1 \in 0 .. k /\ i + 1 \in 1 .. k
  OBVIOUS
<1>3. Unwinds(h, u, b[k])
  <2>1. \A i \in 0 .. k - 1 : h[i] = Undo(u[i + 1], h[i + 1])
    BY <1>1, <1>2 DEF Unwinds
  <2>2. \A i \in 0 .. k : IsBound(h[i])
    BY <1>1, <1>2 DEF Unwinds
  <2>3. DOMAIN h[0].vars = {} /\ h[0].rows = {}
    BY <1>1, <1>2 DEF Unwinds
  <2> QED  BY <1>1, <1>2, <2>1, <2>2, <2>3 DEF Unwinds
<1>4. IsBound(b[k])
  BY DEF Unwinds
<1> QED  BY <1>3, <1>4

LEMMA OnCloseIsGood ==
  ASSUME NEW t, GoodTracker(t)
  PROVE  GoodTracker(OnClose(t))
<1> DEFINE bs == t.binder_saves
           k == Below(bs, t.depth)
           ss == t.scope_saves
           j == Below(ss, t.depth)
           r == RestoreBinders(t)
           q == RestoreScope(r)
           u == OnClose(t)
<1>1. DOMAIN t = Fields /\ t.depth \in Nat /\ Saves(bs, t.depth) /\ Saves(ss, t.depth)
  BY DEF GoodTracker
<1>2. PICK b : Unwinds(b, bs, Bindings(t))
  BY DEF GoodTracker
<1>3. /\ Len(bs) \in Nat /\ k \in 0 .. Len(bs)
      /\ Len(SubSeq(bs, 1, k)) = k
      /\ \A i \in 1 .. k : SubSeq(bs, 1, k)[i] = bs[i]
      /\ Saves(SubSeq(bs, 1, k), Outer(t.depth))
  <2> HIDE DEF bs
  <2> QED  BY <1>1, SavesBelow
<1>4. /\ Saves(SubSeq(ss, 1, j), Outer(t.depth))
      /\ j = Len(ss) => Saves(ss, Outer(t.depth))
  <2> HIDE DEF ss
  <2> QED  BY <1>1, SavesBelow
<1>5. Unwound(t, k) = b[k]
  BY <1>2, <1>3, UnwoundIs
<1>6. (\E h : Unwinds(h, SubSeq(bs, 1, k), b[k])) /\ IsBound(b[k])
  <2> HIDE DEF bs, k
  <2> QED  BY <1>2, <1>3, UnwindsPrefix
<1>7. /\ DOMAIN r = Fields /\ r.depth = t.depth /\ r.scope_saves = ss
      /\ r.binder_saves = SubSeq(bs, 1, k)
      /\ r.var_class = b[k].vars /\ r.relation_row_vars = b[k].rows
  BY <1>1, <1>5 DEF RestoreBinders, Fields
<1> HIDE DEF r, bs, k
<1>13. r.scope_saves = ss /\ j = Below(r.scope_saves, r.depth)
  BY <1>7
<1> HIDE DEF ss, j
<1>8. /\ DOMAIN q = Fields /\ q.depth = t.depth /\ q.binder_saves = r.binder_saves
      /\ q.var_class = r.var_class /\ q.relation_row_vars = r.relation_row_vars
      /\ q.scope_saves = SubSeq(ss, 1, j) \/ (j = Len(ss) /\ q.scope_saves = ss)
  <2>1. CASE j = Len(ss)
    BY <1>7, <1>13, <2>1 DEF RestoreScope
  <2>2. CASE j # Len(ss)
    <3> DEFINE first == r.scope_saves[j + 1]
               e == [r EXCEPT !.scope_saves = SubSeq(@, 1, j),
                              !.cur_class = first.cur_class,
                              !.rel_explicit = first.rel_explicit,
                              !.saw_tilde_bracket = first.saw_tilde_bracket]
    <3>1. q = e
      BY <1>13, <2>2 DEF RestoreScope
    <3>2. e.scope_saves = SubSeq(r.scope_saves, 1, j)
      BY <1>7 DEF Fields
    <3>3. /\ DOMAIN e = DOMAIN r /\ e.depth = r.depth /\ e.binder_saves = r.binder_saves
          /\ e.var_class = r.var_class /\ e.relation_row_vars = r.relation_row_vars
      BY <1>7 DEF Fields
    <3> HIDE DEF e, q
    <3> QED  BY <1>7, <1>13, <3>1, <3>2, <3>3
  <2> QED  BY <2>1, <2>2
<1>9. /\ DOMAIN u = DOMAIN q /\ u.depth = Outer(q.depth) /\ u.binder_saves = q.binder_saves
      /\ u.var_class = q.var_class /\ u.relation_row_vars = q.relation_row_vars
      /\ u.scope_saves = q.scope_saves
  BY <1>8 DEF OnClose, r, Fields, Outer
<1> HIDE DEF u, q
<1>10. Saves(u.binder_saves, u.depth) /\ Saves(u.scope_saves, u.depth)
  BY <1>3, <1>4, <1>7, <1>8, <1>9
<1>11. Bindings(u) = b[k]
  BY <1>6, <1>7, <1>8, <1>9 DEF Bindings, IsBound
<1>12. u.depth \in Nat
  BY <1>1, <1>8, <1>9 DEF Outer
<1> QED  BY <1>6, <1>7, <1>8, <1>9, <1>10, <1>11, <1>12 DEF GoodTracker, u

LEMMA DispatchIsGood ==
  ASSUME NEW t, GoodTracker(t), NEW bytes, NEW pre
  PROVE  GoodTracker(DispatchToken(t, bytes, pre))
<1> DEFINE lexeme == Classify(bytes)
           u == Armed(t, lexeme)
           comma == [u EXCEPT !.lambda_first_ident = None, !.last_ident = None]
           string == [u EXCEPT !.last_ident = None,
                               !.emitted_strings = Append(@, Unquote(bytes))]
           other == [u EXCEPT !.last_ident = None]
<1>1. DOMAIN t = Fields
  BY DEF GoodTracker
<1>2. GoodTracker(u) /\ DOMAIN u = Fields
  BY <1>1, ArmedSame, SameIsGood DEF SameBindings
<1>3. DispatchToken(t, bytes, pre) \in
        {t, u, OnIdent(u, bytes, pre), OnDot(u), OnArrow(u), OnPipe(u, pre),
         OnOpen(u, pre), OnClose(u), comma, string, other}
  BY DEF DispatchToken
<1> HIDE DEF u
<1>4. SameBindings(u, comma) /\ SameBindings(u, string) /\ SameBindings(u, other)
  BY <1>2 DEF SameBindings, Fields
<1> HIDE DEF comma, string, other
<1>5. GoodTracker(comma) /\ GoodTracker(string) /\ GoodTracker(other)
  BY <1>2, <1>4, SameIsGood
<1>6. GoodTracker(OnIdent(u, bytes, pre)) /\ GoodTracker(OnDot(u)) /\ GoodTracker(OnArrow(u))
  BY <1>2, IdentSame, DotSame, ArrowSame, SameIsGood
<1>7. GoodTracker(OnPipe(u, pre)) /\ GoodTracker(OnOpen(u, pre)) /\ GoodTracker(OnClose(u))
  BY <1>2, OnPipeIsGood, OnOpenIsGood, OnCloseIsGood
<1> QED  BY <1>2, <1>3, <1>5, <1>6, <1>7

\* Whatever the gap holds, its lexemes are dispatched one after the other.
GapTrace(after, t, tokens) ==
    /\ Len(tokens) \in Nat /\ after[0] = t
    /\ \A n \in 1 .. Len(tokens) :
         after[n] = DispatchToken(after[n - 1], tokens[n].bytes, tokens[n].anchor)

LEMMA GapRuns ==
  ASSUME NEW t, NEW seg \in SegType, NEW anchor
  PROVE  \E after : /\ GapTrace(after, t, FlushGap(seg, anchor))
                    /\ DispatchGap(t, seg, anchor) = after[Len(FlushGap(seg, anchor))]
<1> DEFINE tokens == FlushGap(seg, anchor)
           N == Len(tokens)
           Step1(h, n) == IF n = 0 THEN t
                          ELSE DispatchToken(h[n - 1], tokens[n].bytes, tokens[n].anchor)
           Run(h, k) == h = [n \in 0 .. k |-> Step1(h, n)]
           after == CHOOSE h : Run(h, N)
           X == {k \in 0 .. N : \E h : Run(h, k)}
<1>1. N \in Nat
  <2>1. tokens \in Seq(GapOf(anchor))
    BY FlushGapType
  <2> HIDE DEF tokens
  <2> QED  BY <2>1
<1>2. DispatchGap(t, seg, anchor) = after[N]
  BY DEF DispatchGap
<1> HIDE DEF tokens, N
<1>3. 0 \in X
  <2>1. Run([n \in 0 .. 0 |-> t], 0)
    OBVIOUS
  <2>2. 0 \in 0 .. N
    BY <1>1
  <2> HIDE DEF Run
  <2> QED  BY <2>1, <2>2
<1>4. ASSUME NEW k \in 1 .. N, k - 1 \in X PROVE k \in X
  <2>1. PICK g : Run(g, k - 1)
    BY <1>4
  <2> DEFINE h == [n \in 0 .. k |-> Step1(g, n)]
  <2>2. ASSUME NEW n \in 0 .. k PROVE Step1(g, n) = Step1(h, n)
    <3>1. CASE n = 0
      BY <3>1
    <3>2. CASE n # 0
      <4>1. n - 1 \in 0 .. k - 1 /\ n - 1 \in 0 .. k
        BY <3>2
      <4>2. h[n - 1] = Step1(g, n - 1)
        BY <4>1
      <4>3. g[n - 1] = Step1(g, n - 1)
        <5> HIDE DEF Step1
        <5> QED  BY <2>1, <4>1
      <4>4. h[n - 1] = g[n - 1]
        BY <4>2, <4>3
      <4> HIDE DEF h
      <4> QED  BY <4>4
    <3> QED  BY <3>1, <3>2
  <2>3. Run(h, k)
    <3> HIDE DEF Step1
    <3> QED  BY <2>2
  <2>4. k \in 0 .. N
    OBVIOUS
  <2> HIDE DEF Run, h
  <2> QED  BY <2>3, <2>4
<1>5. N \in X
  <2> HIDE DEF X, N
  <2>1. 0 .. N \subseteq X /\ N \in 0 .. N
    BY <1>1, <1>3, <1>4, InductionUpTo
  <2> QED  BY <2>1
<1>6. Run(after, N)
  <2>1. PICK h : Run(h, N)
    BY <1>5
  <2> QED  BY <2>1
<1> HIDE DEF after
<1>7. ASSUME NEW n \in 0 .. N PROVE after[n] = Step1(after, n)
  <2> HIDE DEF Step1
  <2> QED  BY <1>6
<1>8. after[0] = t
  <2>1. 0 \in 0 .. N
    BY <1>1
  <2> QED  BY <1>7, <2>1
<1>9. ASSUME NEW n \in 1 .. N
      PROVE  after[n] = DispatchToken(after[n - 1], tokens[n].bytes, tokens[n].anchor)
  <2>1. n \in 0 .. N /\ n # 0
    BY <1>1
  <2> QED  BY <1>7, <2>1
<1>10. GapTrace(after, t, tokens)
  BY <1>1, <1>8, <1>9 DEF GapTrace, N
<1> QED  BY <1>2, <1>10 DEF tokens, N

LEMMA DispatchGapIsGood ==
  ASSUME NEW t, GoodTracker(t), NEW seg \in SegType, NEW anchor
  PROVE  GoodTracker(DispatchGap(t, seg, anchor))
<1> DEFINE tokens == FlushGap(seg, anchor)
           N == Len(tokens)
<1>1. PICK after : GapTrace(after, t, tokens) /\ DispatchGap(t, seg, anchor) = after[N]
  BY GapRuns
<1> DEFINE G == {n \in 0 .. N : GoodTracker(after[n])}
<1> HIDE DEF tokens
<1>2. 0 \in G
  BY <1>1 DEF GapTrace
<1>3. ASSUME NEW n \in 1 .. N, n - 1 \in G PROVE n \in G
  BY <1>1, <1>3, DispatchIsGood DEF GapTrace
<1>4. 0 .. N \subseteq G /\ N \in 0 .. N
  <2>1. N \in Nat
    BY <1>1 DEF GapTrace
  <2> HIDE DEF G, N
  <2> QED  BY <1>2, <1>3, <2>1, InductionUpTo
<1> QED  BY <1>1, <1>4

(***************************************************************************)
(* A cut, while a token is observed.                                       *)
(***************************************************************************)
GoodCut(cut) ==
    /\ DOMAIN cut = {"pda", "seg", "continuing", "anchor", "scope"}
    /\ GoodTracker(cut.scope)
    /\ cut.seg \in SegType

LEMMA EmptiedIsGood ==
  ASSUME NEW t, GoodTracker(t), NEW pending
  PROVE  GoodTracker([t EXCEPT !.pending = pending])
<1>1. DOMAIN t = Fields
  BY DEF GoodTracker
<1>2. SameBindings(t, [t EXCEPT !.pending = pending])
  BY <1>1 DEF SameBindings, Fields
<1> QED  BY <1>2, SameIsGood

LEMMA BeginCutIsGood ==
  ASSUME NEW t, GoodTracker(t), NEW p
  PROVE  GoodCut(BeginCut(t, p)) /\ BeginCut(t, p).pda = p
<1> DEFINE none == <<>>
           continuing == t.pending # NoPending /\ LexKind(p.state) = t.pending.kind
           anchor == IF continuing THEN t.pending.anchor ELSE p.state
           flushed == DispatchToken([t EXCEPT !.pending = NoPending],
                                       t.pending.buf, t.pending.anchor)
           scope == IF ~continuing /\ t.pending # NoPending THEN flushed ELSE t
<1>1. GoodTracker(flushed)
  BY EmptiedIsGood, DispatchIsGood
<1> HIDE DEF flushed
<1>2. GoodTracker(scope)
  BY <1>1
<1>3. BeginCut(t, p) = [pda |-> p, seg |-> none, continuing |-> continuing,
                        anchor |-> anchor, scope |-> scope]
  BY DEF BeginCut, flushed
<1>4. none \in SegType
  BY BytesOfNone
<1> HIDE DEF scope, none, continuing, anchor
<1> QED  BY <1>2, <1>3, <1>4 DEF GoodCut

LEMMA EmitIsGood ==
  ASSUME NEW cut, GoodCut(cut)
  PROVE  GoodTracker(EmitLexeme(cut))
<1>1. GoodTracker(cut.scope)
  BY DEF GoodCut
<1>2. GoodTracker([cut.scope EXCEPT !.pending = NoPending])
  BY <1>1, EmptiedIsGood
<1> QED  BY <1>1, <1>2, DispatchIsGood DEF EmitLexeme

LEMMA CutByteIsGood ==
  ASSUME NEW cut, GoodCut(cut), NEW b \in Byte, cut.pda \in PdaType
  PROVE  /\ GoodCut(CutByte(cut, b))
         /\ CutByte(cut, b).pda = Advance(cut.pda, b)
<1> DEFINE byte == Read(b, cut.pda.state)
           next == Advance(cut.pda, b)
           one  == <<byte>>
           more == Append(cut.seg, byte)
           moved == [cut EXCEPT !.pda = next, !.seg = Append(@, byte)]
           opened == [moved EXCEPT !.seg = <<byte>>, !.anchor = cut.pda.state,
                                   !.continuing = FALSE]
           emitted == [opened EXCEPT !.scope = EmitLexeme(cut)]
           flushed == [opened EXCEPT !.scope = DispatchGap(cut.scope, cut.seg, cut.anchor)]
<1>1. /\ one \in SegType /\ more \in SegType
      /\ GoodTracker(cut.scope) /\ cut.seg \in SegType
  <2> DEFINE R == [byte : Byte, at : State]
  <2>1. byte \in R
    BY DEF Read, PdaType
  <2>2. cut.seg \in Seq(R)
    BY DEF GoodCut, SegType
  <2> HIDE DEF R, byte
  <2>3. one \in Seq(R) /\ more \in Seq(R)
    BY <2>1, <2>2
  <2> QED  BY <2>3 DEF R, SegType, GoodCut
<1>2. GoodTracker(EmitLexeme(cut)) /\ GoodTracker(DispatchGap(cut.scope, cut.seg, cut.anchor))
  BY <1>1, EmitIsGood, DispatchGapIsGood
<1>3. CutByte(cut, b) \in {moved, emitted, flushed}
  BY DEF CutByte, CutBefore
<1>0. DOMAIN cut = {"pda", "seg", "continuing", "anchor", "scope"}
  BY DEF GoodCut
<1>4. DOMAIN moved = DOMAIN cut /\ moved.pda = next /\ moved.seg = more
      /\ moved.scope = cut.scope
  BY <1>0
<1> HIDE DEF moved, one, more, next, byte
<1>5. DOMAIN opened = DOMAIN cut /\ opened.pda = next /\ opened.seg = one
  BY <1>0, <1>4 DEF one
<1> HIDE DEF opened
<1>6. DOMAIN emitted = DOMAIN cut /\ emitted.pda = next /\ emitted.seg = one
      /\ emitted.scope = EmitLexeme(cut)
  BY <1>0, <1>5
<1>7. DOMAIN flushed = DOMAIN cut /\ flushed.pda = next /\ flushed.seg = one
      /\ flushed.scope = DispatchGap(cut.scope, cut.seg, cut.anchor)
  BY <1>0, <1>5
<1> HIDE DEF emitted, flushed
<1>8. GoodCut(moved) /\ moved.pda = next
  BY <1>0, <1>1, <1>4 DEF GoodCut
<1>9. GoodCut(emitted) /\ emitted.pda = next
  BY <1>0, <1>1, <1>2, <1>6 DEF GoodCut
<1>10. GoodCut(flushed) /\ flushed.pda = next
  BY <1>0, <1>1, <1>2, <1>7 DEF GoodCut
<1> QED  BY <1>3, <1>8, <1>9, <1>10 DEF next

LEMMA EndCutIsGood ==
  ASSUME NEW cut, GoodCut(cut)
  PROVE  GoodTracker(EndCut(cut))
<1>1. GoodTracker(cut.scope) /\ cut.seg \in SegType
  BY DEF GoodCut
<1>2. GoodTracker(DispatchGap(cut.scope, cut.seg, cut.anchor))
  BY <1>1, DispatchGapIsGood
<1>3. ASSUME NEW kind PROVE GoodTracker(BufferTrailing(cut, kind))
  <2> DEFINE t == cut.scope
  <2>0. DOMAIN t = Fields
    BY <1>1 DEF GoodTracker
  <2>1. SameBindings(t, [t EXCEPT !.pending.buf = @ \o BytesOf(cut.seg)])
    BY <2>0 DEF SameBindings, Fields
  <2>2. GoodTracker([t EXCEPT !.pending.buf = @ \o BytesOf(cut.seg)])
    BY <1>1, <2>1, SameIsGood
  <2>3. \A x : GoodTracker([t EXCEPT !.pending = x])
    BY <1>1, EmptiedIsGood
  <2> QED  BY <2>2, <2>3 DEF BufferTrailing
<1> QED  BY <1>2, <1>3 DEF EndCut

\* The fold of observe: good before it, at every byte, and after it.
CutTrace(cut, t, p, bytes) ==
    /\ cut[0] = BeginCut(t, p)
    /\ \A n \in 1 .. Len(bytes) : cut[n] = CutByte(cut[n - 1], bytes[n])
    /\ \A n \in 0 .. Len(bytes) : GoodCut(cut[n]) /\ cut[n].pda \in PdaType

LEMMA ObserveRuns ==
  ASSUME NEW t, GoodTracker(t), NEW p \in PdaType, NEW bytes \in Seq(Byte),
         Admits(p, bytes)
  PROVE  \E cut : CutTrace(cut, t, p, bytes) /\ Observe(t, bytes, p) = EndCut(cut[Len(bytes)])
<1> DEFINE N == Len(bytes)
           Step1(h, n) == IF n = 0 THEN BeginCut(t, p) ELSE CutByte(h[n - 1], bytes[n])
           Run(h, k) == h = [n \in 0 .. k |-> Step1(h, n)]
           cut == CHOOSE h : Run(h, N)
           X == {k \in 0 .. N : \E h : Run(h, k)}
<1>1. N \in Nat
  OBVIOUS
<1>2. Observe(t, bytes, p) = EndCut(cut[N])
  BY DEF Observe
<1>3. 0 \in X
  <2>1. Run([n \in 0 .. 0 |-> BeginCut(t, p)], 0)
    OBVIOUS
  <2>2. 0 \in 0 .. N
    BY <1>1
  <2> HIDE DEF Run
  <2> QED  BY <2>1, <2>2
<1>4. ASSUME NEW k \in 1 .. N, k - 1 \in X PROVE k \in X
  <2>1. PICK g : Run(g, k - 1)
    BY <1>4
  <2> DEFINE h == [n \in 0 .. k |-> Step1(g, n)]
  <2>2. ASSUME NEW n \in 0 .. k PROVE Step1(g, n) = Step1(h, n)
    <3>1. CASE n = 0
      BY <3>1
    <3>2. CASE n # 0
      <4>1. n - 1 \in 0 .. k - 1 /\ n - 1 \in 0 .. k
        BY <3>2
      <4>2. h[n - 1] = Step1(g, n - 1)
        BY <4>1
      <4>3. g[n - 1] = Step1(g, n - 1)
        <5> HIDE DEF Step1
        <5> QED  BY <2>1, <4>1
      <4>4. h[n - 1] = g[n - 1]
        BY <4>2, <4>3
      <4> HIDE DEF h
      <4> QED  BY <4>4
    <3> QED  BY <3>1, <3>2
  <2>3. Run(h, k)
    <3> HIDE DEF Step1
    <3> QED  BY <2>2
  <2>4. k \in 0 .. N
    OBVIOUS
  <2> HIDE DEF Run, h
  <2> QED  BY <2>3, <2>4
<1>5. N \in X
  <2> HIDE DEF X, N
  <2>1. 0 .. N \subseteq X /\ N \in 0 .. N
    BY <1>1, <1>3, <1>4, InductionUpTo
  <2> QED  BY <2>1
<1>6. Run(cut, N)
  <2>1. PICK h : Run(h, N)
    BY <1>5
  <2> QED  BY <2>1
<1> HIDE DEF cut
<1>7. ASSUME NEW n \in 0 .. N PROVE cut[n] = Step1(cut, n)
  <2> HIDE DEF Step1
  <2> QED  BY <1>6
<1>8. PICK f : FeedTrace(f, p, bytes)
  BY FeedAllRuns DEF Configs
<1>9. f[N] # DeadPda
  <2>1. SubSeq(bytes, 1, N) = bytes /\ N \in 0 .. N
    OBVIOUS
  <2> HIDE DEF N
  <2>2. FeedAll(p, SubSeq(bytes, 1, N)) = f[N]
    BY <1>8, <2>1 DEF FeedTrace, N
  <2> QED  BY <2>1, <2>2 DEF Admits
<1> DEFINE L == {k \in 0 .. N : f[N - k] # DeadPda}
<1>10. 0 \in L
  BY <1>1, <1>9
<1>11. ASSUME NEW k \in 1 .. N, k - 1 \in L PROVE k \in L
  <2>1. k \in 0 .. N /\ N - (k - 1) \in 1 .. N /\ (N - (k - 1)) - 1 = N - k
    BY <1>1
  <2>2. f[N - (k - 1)] = Fed(f[N - k], bytes[N - (k - 1)])
    BY <1>8, <2>1 DEF FeedTrace
  <2> QED  BY <1>11, <2>1, <2>2 DEF Fed
<1>12. \A n \in 0 .. N : f[n] # DeadPda /\ f[n] \in PdaType
  <2> SUFFICES ASSUME NEW n \in 0 .. N PROVE f[n] # DeadPda /\ f[n] \in PdaType
    OBVIOUS
  <2>1. N - n \in 0 .. N /\ N - (N - n) = n
    BY <1>1
  <2>2. N - n \in L
    <3> HIDE DEF L
    <3> QED  BY <1>1, <1>10, <1>11, <2>1, InductionUpTo
  <2>3. f[n] \in Configs
    BY <1>8 DEF FeedTrace
  <2> QED  BY <2>1, <2>2, <2>3 DEF Configs
<1> DEFINE G == {n \in 0 .. N : GoodCut(cut[n]) /\ cut[n].pda = f[n]}
<1>13. 0 \in G
  <2>1. 0 \in 0 .. N
    BY <1>1
  <2>2. f[0] = p
    BY <1>8 DEF FeedTrace
  <2> QED  BY <1>7, <2>1, <2>2, BeginCutIsGood
<1>14. ASSUME NEW n \in 1 .. N, n - 1 \in G PROVE n \in G
  <2>1. n \in 0 .. N /\ n # 0 /\ n - 1 \in 0 .. N
    BY <1>1
  <2>2. cut[n] = CutByte(cut[n - 1], bytes[n])
    BY <1>7, <2>1
  <2>3. f[n] = Advance(f[n - 1], bytes[n])
    <3>1. f[n] = Fed(f[n - 1], bytes[n])
      BY <1>8 DEF FeedTrace
    <3> QED  BY <1>12, <2>1, <3>1 DEF Fed
  <2>4. GoodCut(cut[n - 1]) /\ cut[n - 1].pda = f[n - 1] /\ f[n - 1] \in PdaType
    BY <1>12, <1>14, <2>1
  <2>5. bytes[n] \in Byte
    OBVIOUS
  <2> HIDE DEF N
  <2>6. GoodCut(cut[n]) /\ cut[n].pda = f[n]
    BY <2>2, <2>3, <2>4, <2>5, CutByteIsGood
  <2> QED  BY <2>1, <2>6
<1>15. 0 .. N \subseteq G
  <2> HIDE DEF G, N
  <2> QED  BY <1>1, <1>13, <1>14, InductionUpTo
<1>16. cut[0] = BeginCut(t, p)
  <2>1. 0 \in 0 .. N
    BY <1>1
  <2> QED  BY <1>7, <2>1
<1>17. ASSUME NEW n \in 1 .. N PROVE cut[n] = CutByte(cut[n - 1], bytes[n])
  <2>1. n \in 0 .. N /\ n # 0
    BY <1>1
  <2> QED  BY <1>7, <2>1
<1>18. ASSUME NEW n \in 0 .. N PROVE GoodCut(cut[n]) /\ cut[n].pda \in PdaType
  BY <1>12, <1>15
<1>19. CutTrace(cut, t, p, bytes)
  BY <1>16, <1>17, <1>18 DEF CutTrace
<1> QED  BY <1>2, <1>19

LEMMA ObserveIsGood ==
  ASSUME NEW t, GoodTracker(t), NEW p \in PdaType, NEW bytes \in Seq(Byte),
         Admits(p, bytes)
  PROVE  GoodTracker(Observe(t, bytes, p))
<1>1. PICK cut : CutTrace(cut, t, p, bytes) /\ Observe(t, bytes, p) = EndCut(cut[Len(bytes)])
  BY ObserveRuns
<1>2. Len(bytes) \in 0 .. Len(bytes)
  OBVIOUS
<1> QED  BY <1>1, <1>2, EndCutIsGood DEF CutTrace

LEMMA TokenBytesType ==
  ASSUME NEW id \in Ids
  PROVE  TokenBytes(id) \in Seq(Byte)
<1> DEFINE R == Seq(Byte)
<1>1. Vocab \in Seq(R)
  BY SchemaSessionAssumption
<1> HIDE DEF R
<1>2. id + 1 \in 1 .. Len(Vocab)
  BY <1>1 DEF Ids
<1>3. Vocab[id + 1] \in R
  BY <1>1, <1>2, ElementOfSeq
<1> QED  BY <1>3 DEF R, TokenBytes

\* The text of a query is a sequence of bytes: its pieces, one after the other.
LEMMA TextType ==
  ASSUME NEW query \in Queries
  PROVE  Text[query] \in Seq(Byte)
<1> DEFINE N == Len(query)
           D == Seq(Byte)
           F == [x \in D |-> [piece \in Piece |-> x \o piece.bytes]]
           Run(h) == h = [k \in 0 .. N |-> IF k = 0 THEN <<>> ELSE h[k - 1] \o query[k].bytes]
           upTo == CHOOSE h : Run(h)
<1>1. query \in Seq(Piece) /\ N \in Nat
  BY SchemaSessionAssumption
<1>2. F \in StepFunction(D, Piece) /\ <<>> \in D
  <2>1. \A x \in D, piece \in Piece : x \o piece.bytes \in D
    BY DEF Piece
  <2> HIDE DEF D
  <2>2. F \in [D -> [Piece -> D]]
    BY <2>1
  <2> QED  BY <2>2 DEF StepFunction, D
<1>3. PICK g : IsTrace(g, D, F, <<>>, query)
  <2> HIDE DEF F, D
  <2> QED  BY <1>1, <1>2, TraceExists
<1>4. /\ g \in [0 .. N -> D] /\ g[0] = <<>>
      /\ \A k \in 1 .. N : g[k] = g[k - 1] \o query[k].bytes
  <2>1. g \in [0 .. N -> D] /\ g[0] = <<>> /\ \A k \in 1 .. N : g[k] = F[g[k - 1]][query[k]]
    BY <1>3 DEF IsTrace
  <2>2. ASSUME NEW k \in 1 .. N PROVE g[k] = g[k - 1] \o query[k].bytes
    <3>1. query[k] \in Piece /\ k - 1 \in 0 .. N
      BY <1>1, ElementOfSeq
    <3>2. g[k - 1] \in D
      BY <2>1, <3>1
    <3> HIDE DEF D
    <3> QED  BY <2>1, <3>1, <3>2
  <2> QED  BY <2>1, <2>2
<1>5. Run(g)
  <2> DEFINE Value(k) == IF k = 0 THEN <<>> ELSE g[k - 1] \o query[k].bytes
  <2>1. \A k \in 0 .. N : g[k] = Value(k)
    <3>1. \A k \in 0 .. N : k = 0 \/ k \in 1 .. N
      BY <1>1
    <3> QED  BY <1>4, <3>1
  <2> HIDE DEF Value, D
  <2>2. g = [k \in 0 .. N |-> Value(k)]
    BY <1>4, <2>1
  <2> QED  BY <2>2 DEF Value
<1>6. Run(upTo)
  BY <1>5
<1>7. Text[query] = upTo[N]
  BY DEF Text
<1> HIDE DEF upTo, D
<1> DEFINE X == {k \in 0 .. N : upTo[k] = g[k]}
<1>8. 0 \in X
  <2>1. 0 \in 0 .. N
    BY <1>1
  <2> QED  BY <1>4, <1>6, <2>1
<1>9. ASSUME NEW k \in 1 .. N, k - 1 \in X PROVE k \in X
  <2>1. k \in 0 .. N /\ k # 0
    BY <1>1
  <2>2. upTo[k] = upTo[k - 1] \o query[k].bytes
    BY <1>6, <2>1
  <2> QED  BY <1>4, <1>9, <2>1, <2>2
<1>10. upTo[N] = g[N] /\ N \in 0 .. N
  <2> HIDE DEF X, N, Run
  <2>1. 0 .. N \subseteq X /\ N \in 0 .. N
    BY <1>1, <1>8, <1>9, InductionUpTo
  <2> QED  BY <2>1 DEF X
<1> QED  BY <1>4, <1>7, <1>10 DEF D

(***************************************************************************)
(* The inductive invariant: the automaton and the scope machine are such   *)
(* that a token can be observed, and the host writes one of its queries.   *)
(***************************************************************************)
HostOK ==
    /\ \E query \in Queries : host.text = Text[query]
    /\ DOMAIN host = {"query", "text", "at", "strays"}
    /\ host.at \in 0 .. Len(host.text)

StreamInv ==
    /\ pda \in PdaType
    /\ GoodTracker(tracker)
    /\ HostOK

LEMMA WritingIsOK ==
  ASSUME NEW query \in Queries, host' = Writing(query)
  PROVE  HostOK'
<1>1. Len(Text[query]) \in Nat
  BY TextType
<1> QED  BY <1>1 DEF HostOK, Writing

LEMMA StartIsGood == PdaNew \in PdaType /\ GoodTracker(NewTracker)
  BY NewIsGood, Targets DEF PdaNew, PdaType, EnvelopeStates

LEMMA CommitIsGood ==
  ASSUME StreamInv, NEW id \in Ids, Commit(id)
  PROVE  pda' \in PdaType /\ GoodTracker(tracker')
<1>1. TokenBytes(id) \in Seq(Byte) /\ pda \in PdaType /\ pda \in Configs
  BY TokenBytesType DEF StreamInv, Configs
<1>2. Admits(pda, TokenBytes(id)) /\ pda' = FeedAll(pda, TokenBytes(id))
      /\ tracker' = Observe(tracker, TokenBytes(id), pda)
  BY DEF Commit
<1>3. pda' \in PdaType
  BY <1>1, <1>2, FeedAllType DEF Admits, Configs
<1>4. GoodTracker(tracker')
  BY <1>1, <1>2, ObserveIsGood DEF StreamInv
<1> QED  BY <1>3, <1>4

LEMMA NextStream ==
  ASSUME StreamInv, [Next]_vars
  PROVE  StreamInv'
<1>1. CASE AllowedMask
  BY <1>1 DEF AllowedMask, Answered, StreamInv, HostOK
<1>2. ASSUME NEW id \in Ids, AcceptToken(id) PROVE StreamInv'
  <2>1. pda' \in PdaType /\ GoodTracker(tracker')
    BY <1>2, CommitIsGood DEF AcceptToken
  <2>2. HostOK'
    <3> DEFINE n == Len(TokenBytes(id))
    <3>1. n \in Nat
      BY TokenBytesType
    <3>2. host' = [host EXCEPT !.at = @ + n] /\ host.at + n <= Len(host.text)
      BY <1>2 DEF AcceptToken, SpellsOn
    <3> HIDE DEF n
    <3>3. PICK query \in Queries : host.text = Text[query]
      BY DEF StreamInv, HostOK
    <3>4. Len(host.text) \in Nat
      BY <3>3, TextType
    <3>5. /\ DOMAIN host' = DOMAIN host /\ host'.text = host.text /\ host'.at = host.at + n
          /\ host.at \in 0 .. Len(host.text) /\ DOMAIN host = {"query", "text", "at", "strays"}
      BY <3>2 DEF StreamInv, HostOK
    <3>6. host'.at \in 0 .. Len(host'.text)
      BY <3>1, <3>2, <3>4, <3>5
    <3> QED  BY <3>3, <3>5, <3>6 DEF HostOK
  <2> QED  BY <2>1, <2>2 DEF StreamInv
<1>3. ASSUME host' = [host EXCEPT !.strays = host'.strays] PROVE HostOK'
  BY <1>3 DEF StreamInv, HostOK
<1>4. ASSUME NEW id \in Strays, AcceptStray(id) PROVE StreamInv'
  <2>1. id \in Ids
    BY SchemaSessionAssumption
  <2>2. pda' \in PdaType /\ GoodTracker(tracker')
    BY <1>4, <2>1, CommitIsGood DEF AcceptStray
  <2>3. host' = [host EXCEPT !.strays = Append(@, "token")]
    BY <1>4 DEF AcceptStray
  <2>4. HostOK'
    BY <2>3 DEF StreamInv, HostOK
  <2> QED  BY <2>2, <2>4 DEF StreamInv
<1>5. ASSUME NEW b \in StrayBytes, AcceptByte(b) PROVE StreamInv'
  <2>1. pda' \in PdaType /\ tracker' = tracker
    BY <1>5, AdvanceType DEF AcceptByte, StreamInv
  <2>2. host' = [host EXCEPT !.strays = Append(@, "byte")]
    BY <1>5 DEF AcceptByte
  <2>3. HostOK'
    BY <2>2 DEF StreamInv, HostOK
  <2> QED  BY <2>1, <2>3 DEF StreamInv
<1>6. ASSUME NEW query \in Queries, Reset(query) PROVE StreamInv'
  BY <1>6, WritingIsOK, StartIsGood DEF Reset, StreamInv
<1>7. CASE UNCHANGED vars
  BY <1>7 DEF vars, StreamInv, HostOK
<1> QED  BY <1>1, <1>2, <1>4, <1>5, <1>6, <1>7 DEF Next

LEMMA InitStream == Init => StreamInv
<1> SUFFICES ASSUME Init PROVE StreamInv
  OBVIOUS
<1>1. PICK query \in Queries : host = Writing(query)
  BY DEF Init
<1>2. Len(Text[query]) \in Nat
  BY TextType
<1>3. HostOK
  BY <1>1, <1>2 DEF HostOK, Writing
<1> QED  BY <1>3, StartIsGood DEF Init, StreamInv

(***************************************************************************)
(* A binder never outlives its delimiter, and no shadowed binding is lost: *)
(* whatever tokens the stream was committed in, undoing all the saves      *)
(* leaves no binding, and they lie in the order of their delimiters        *)
(* (on_pipe and on_close, scope.rs 706-815).                               *)
(***************************************************************************)
THEOREM UnwindInvariant == Spec => []BindingsUnwind
<1>1. StreamInv => BindingsUnwind
  <2> SUFFICES ASSUME GoodTracker(tracker) PROVE BindingsUnwind
    BY DEF StreamInv
  <2>1. PICK b : Unwinds(b, tracker.binder_saves, Bindings(tracker))
    BY DEF GoodTracker
  <2>2. Len(tracker.binder_saves) \in Nat
    BY DEF GoodTracker, Saves
  <2>3. 0 \in 0 .. Len(tracker.binder_saves)
    BY <2>2
  <2>4. Unwound(tracker, 0) = b[0]
    BY <2>1, <2>2, <2>3, UnwoundIs
  <2>5. DOMAIN b[0].vars = {} /\ b[0].rows = {}
    BY <2>1 DEF Unwinds
  <2>6. ASSUME NEW s, Saves(s, tracker.depth)
        PROVE  Nested(s)
    <3>1. PICK S : s \in Seq(S)
      BY <2>6 DEF Saves
    <3>2. Len(s) \in Nat /\ DOMAIN s = 1 .. Len(s)
      BY <3>1
    <3>3. \A i \in 1 .. Len(s) - 1 : i \in 1 .. Len(s) /\ i + 1 \in 1 .. Len(s) /\ i <= i + 1
      BY <3>2
    <3> QED  BY <2>6, <3>2, <3>3 DEF Saves, Nested
  <2> QED  BY <2>4, <2>5, <2>6 DEF BindingsUnwind, GoodTracker
<1> QED  BY <1>1, InitStream, NextStream, PTL DEF Spec

(***************************************************************************)
(* The session stays well formed: the automaton has a state and a stack of *)
(* frames, the mask is over the vocabulary and EOS, the scope machine is   *)
(* no deeper than it can say, and the host is in its query.                *)
(***************************************************************************)
THEOREM SchemaTypeInvariant == Spec => []TypeOK
<1> DEFINE Inv == StreamInv /\ ClearsInv
<1>1. Inv => TypeOK
  <2> SUFFICES ASSUME StreamInv, ClearsInv PROVE TypeOK
    OBVIOUS
  <2>1. L1Mask(pda) \subseteq Ids \cup {EosBit}
    BY DEF L1Mask, Assembled, Build
  <2>2. answer.mask \subseteq Ids \cup {EosBit}
    BY <2>1 DEF ClearsInv, NarrowsOnly, NoAnswer
  <2> QED
    BY <2>2, FieldsOfTracker DEF TypeOK, StreamInv, GoodTracker, HostOK
<1>2. Init => Inv
  BY InitStream, InitClears
<1>3. Inv /\ [Next]_vars => Inv'
  BY NextStream, NextClears
<1> HIDE DEF Inv
<1> QED
  BY <1>1, <1>2, <1>3, PTL DEF Spec

(***************************************************************************)
(* The names a rule's trie is built from are sequences of bytes.           *)
(***************************************************************************)
Spellings == Seq(Byte)

LEMMA ListIn ==
  ASSUME NEW s, IsList(s), NEW T, ToSet(s) \subseteq T
  PROVE  s \in Seq(T)
<1>1. Len(s) \in Nat /\ DOMAIN s = 1 .. Len(s) /\ \A i \in DOMAIN s : s[i] \in ToSet(s)
  BY DEF IsList, ToSet
<1>2. s = [i \in 1 .. Len(s) |-> s[i]]
  BY DEF IsList
<1>3. \A i \in 1 .. Len(s) : s[i] \in T
  BY <1>1
<1>4. s \in [1 .. Len(s) -> T]
  BY <1>2, <1>3
<1> QED  BY <1>1, <1>4

LEMMA NamesOfIn ==
  ASSUME NEW s, IsList(s), \A i \in DOMAIN s : s[i].name \in Spellings
  PROVE  NamesOf(s) \in Seq(Spellings)
<1> DEFINE T == Spellings
<1>1. \A i \in DOMAIN s : s[i].name \in T
  OBVIOUS
<1> HIDE DEF T
<1>2. NamesOf(s) \in Seq(T)
  BY <1>1 DEF NamesOf, IsList
<1> QED  BY <1>2 DEF T

LEMMA SchemaWalksNames ==
  ASSUME NEW class
  PROVE  Walks(Schema, Paths(Schema, class), Spellings)
<1> DEFINE P == Paths(Schema, class)
           T == Spellings
<1>1. IsSchema(Schema)
  BY SchemaAssumption
<1>2. Walks(Schema, P, MemberSet(Schema, P))
  BY <1>1, SchemaWalks
<1>3. ASSUME NEW c \in P PROVE NamesOf(Stored(Schema, c)) \in Seq(T)
  <2>1. CASE HasClass(Schema, c)
    BY <2>1, SchemaAssumption DEF HasClass, Spellings
  <2>2. CASE ~HasClass(Schema, c)
    BY <2>2 DEF Stored, NamesOf
  <2> QED  BY <2>1, <2>2
<1>4. ASSUME NEW c \in P PROVE NamesOf(Navigable(Schema, c)) \in Seq(T)
  <2> DEFINE s == Navigable(Schema, c)
  <2>1. IsProperties(s) /\ \A i \in DOMAIN s : s[i].name \in EndNames(Schema)
    BY <1>1, NavigableIsList
  <2>2. EndNames(Schema) \subseteq Spellings
    BY SchemaAssumption DEF EndNames, Spellings
  <2> HIDE DEF s
  <2>3. IsList(s) /\ \A i \in DOMAIN s : s[i].name \in Spellings
    BY <2>1, <2>2 DEF IsProperties
  <2> QED  BY <2>3, NamesOfIn DEF s
<1> HIDE DEF T
<1> QED  BY <1>2, <1>3, <1>4 DEF Walks, T

LEMMA MemberNamesType ==
  ASSUME NEW class
  PROVE  MemberNames(Schema, class) \in Seq(Spellings)
<1> DEFINE P == Paths(Schema, class)
           T == Spellings
           first == Visit(class, {})
<1>1. PICK f \in Collections(P, T) : MemberNames(Schema, class) = f[first].names
  BY SchemaWalksNames, CollectOf
<1>2. class \in P /\ {} \in SUBSET P
  BY DEF Paths
<1> HIDE DEF P, T
<1>3. f[first].names \in Seq(T)
  BY <1>2, CollectionsAre
<1> QED  BY <1>1, <1>3 DEF T

\* What a navigation resolves to is what the schema says of some property.
LEMMA FirstNamedType ==
  ASSUME NEW s, IsProperties(s), NEW ident
  PROVE  FirstNamed(s, ident) = NotFound \/ IsPropType(FirstNamed(s, ident))
<1> DEFINE named == Named(s, ident)
<1>1. FirstNamed(s, ident) = IF named = {} THEN NotFound ELSE s[Min(named)].type
  BY DEF FirstNamed, Named
<1>2. CASE named # {}
  <2>1. Min(named) \in named
    BY <1>2, MinNamed DEF IsProperties
  <2>2. Min(named) \in DOMAIN s
    BY <2>1 DEF Named
  <2> QED  BY <1>1, <1>2, <2>2 DEF IsProperties
<1> QED  BY <1>1, <1>2

LEMMA ResolveType ==
  ASSUME NEW class, NEW ident
  PROVE  \/ Resolve(Schema, class, ident) = NotFound
         \/ IsPropType(Resolve(Schema, class, ident))
<1> DEFINE P == Paths(Schema, class)
           first == Visit(class, {})
           found == Resolve(Schema, class, ident)
<1>1. PICK f \in Findings(Schema, P, ident) : found = f[first].found
  BY SchemaWalksNames, FindOf
<1>2. class \in P /\ {} \in SUBSET P
  BY DEF Paths
<1>3. IsSchema(Schema)
  BY SchemaAssumption
<1> HIDE DEF P
<1>4. f[first] \in Found(Schema, P, ident)
  BY <1>2, FindingsAre
<1> HIDE DEF found
<1>5. found \in Answers(Schema, P, ident)
  BY <1>1, <1>4 DEF Found
<1>6. \A c : \/ FirstNamed(Stored(Schema, c), ident) = NotFound
             \/ IsPropType(FirstNamed(Stored(Schema, c), ident))
  BY <1>3, StoredIsList, FirstNamedType
<1>7. \A c : \/ FirstNamed(Navigable(Schema, c), ident) = NotFound
             \/ IsPropType(FirstNamed(Navigable(Schema, c), ident))
  BY <1>3, NavigableIsList, FirstNamedType
<1>8. found = NotFound \/ IsPropType(found)
  BY <1>5, <1>6, <1>7 DEF Answers
<1> QED  BY <1>8 DEF found

\* The sources come in some order, each a path.
LEMMA SetToSeqType ==
  ASSUME NEW S, IsFiniteSet(S)
  PROVE  SetToSeq(S) \in Seq(S)
<1> DEFINE n == Cardinality(S)
<1>1. n \in Nat
  BY FS_CardinalityType
<1>2. PICK f : f \in Bijection(1 .. n, S)
  BY FS_CardinalityType DEF ExistsBijection
<1>3. f \in [1 .. n -> S] /\ \A a, b \in DOMAIN f : f[a] = f[b] => a = b
  BY <1>2 DEF Bijection, Injection, Surjection, IsInjective
<1>4. \E g \in [1 .. n -> S] : IsInjective(g)
  BY <1>3 DEF IsInjective
<1>5. SetToSeq(S) \in [1 .. n -> S]
  <2> HIDE DEF n
  <2> QED  BY <1>4 DEF SetToSeq, n
<1> QED  BY <1>1, <1>5

LEMMA SourcesType == SetToSeq(SourcePaths(Schema)) \o <<LET_KEYWORD>> \in Seq(Spellings)
<1> DEFINE S == SourcePaths(Schema)
           T == Spellings
<1>1. IsFiniteSet(S) /\ S \subseteq T
  <2>1. IsFiniteSet(DOMAIN Schema.classes)
    BY SchemaAssumption DEF IsSchema
  <2>2. IsFiniteSet(DOMAIN Schema.classes \cup {Schema.db_path})
    BY <2>1, FS_AddElement
  <2> QED  BY <2>2, SchemaAssumption DEF SourcePaths, Spellings
<1>2. SetToSeq(S) \in Seq(S)
  BY <1>1, SetToSeqType
<1>3. LET_KEYWORD \in T
  BY DEF LET_KEYWORD, Spellings, Byte, IdentTail, IdentStart, Lower
<1> DEFINE paths == SetToSeq(S)
<1> HIDE DEF S, T, paths
<1>4. paths \in Seq(T)
  BY <1>1, <1>2 DEF paths
<1>5. paths \o <<LET_KEYWORD>> \in Seq(T)
  BY <1>3, <1>4
<1> QED  BY <1>5 DEF paths, S, T

TrieRules == {"SourceIdent", "Member", "Column", "RelationColumn"}

LEMMA QuoteType ==
  ASSUME NEW s \in Seq(Byte)
  PROVE  Quote(s) \in Seq(Byte)
<1> DEFINE quote == <<"'">>
           inner == Doubled(s)
<1>0. "'" \in Byte
  BY DEF Byte
<1>1. quote \in Seq(Byte)
  BY <1>0
<1>2. inner \in Seq(Byte)
  BY DoubledFacts
<1>3. Quote(s) = quote \o inner \o quote
  BY DEF Quote
<1> HIDE DEF quote, inner
<1> QED  BY <1>1, <1>2, <1>3

LEMMA LegalNamesType ==
  ASSUME NEW pos, pos.rule \in TrieRules, NEW columns \in Seq(Spellings)
  PROVE  LegalNames(pos, columns) \in Seq(Spellings)
<1> DEFINE quoted == [i \in DOMAIN columns |-> Quote(columns[i])]
<1>1. quoted \in Seq(Spellings)
  <2> DEFINE T == Spellings
  <2>1. \A i \in DOMAIN columns : Quote(columns[i]) \in T
    BY QuoteType, ElementOfSeq DEF Spellings
  <2>2. columns \in Seq(T)
    OBVIOUS
  <2> HIDE DEF T
  <2>3. quoted \in Seq(T)
    BY <2>1, <2>2
  <2> QED  BY <2>3 DEF T
<1> HIDE DEF quoted
<1>2. CASE pos.rule = "SourceIdent"
  BY <1>2, SourcesType DEF LegalNames
<1>3. CASE pos.rule = "Member"
  BY <1>3, MemberNamesType DEF LegalNames
<1>4. CASE pos.rule = "Column"
  BY <1>1, <1>4 DEF LegalNames, quoted
<1>5. CASE pos.rule = "RelationColumn"
  BY <1>5 DEF LegalNames
<1> QED  BY <1>2, <1>3, <1>4, <1>5 DEF TrieRules

(***************************************************************************)
(* What the passes read of a tracker.  The columns emitted only grow in a  *)
(* stream: E are those of an earlier point.                                *)
(***************************************************************************)
TypeNames == {NoType, "Numeric", "Temporal", "Str", "Boolean"}

IsPosition(pos) ==
    /\ pos.rule \in TrieRules \cup {"None", "ReValue"}
    /\ pos.type \in TypeNames
    /\ pos.rule = "ReValue" => pos.type # NoType
    /\ pos.rule # "ReValue" => pos.type = NoType

IsPending(pending) ==
    /\ DOMAIN pending = {"kind", "buf", "anchor", "pos"}
    /\ pending.buf \in Seq(Byte)
    /\ IsPosition(pending.pos)

Grown(E, columns) ==
    columns \in Seq(Spellings) /\ Len(E) <= Len(columns) /\ \A i \in 1 .. Len(E) : columns[i] = E[i]

Emits(t, E) ==
    /\ DOMAIN t = Fields
    /\ Grown(E, t.emitted_strings)
    /\ IsPending(t.pending)
    /\ t.last_resolved \in TypeNames /\ t.cmp_pending \in TypeNames

\* u differs from t in nothing of that.
SameEmitted(t, u) ==
    /\ DOMAIN u = DOMAIN t
    /\ u.emitted_strings = t.emitted_strings /\ u.pending = t.pending
    /\ u.last_resolved = t.last_resolved /\ u.cmp_pending = t.cmp_pending

LEMMA SameEmits ==
  ASSUME NEW t, NEW E, Emits(t, E), NEW u, SameEmitted(t, u)
  PROVE  Emits(u, E)
  BY DEF Emits, SameEmitted

LEMMA NewEmits ==
  ASSUME NEW E, E = <<>>
  PROVE  Emits(NewTracker, E)
<1>1. /\ DOMAIN NewTracker = Fields /\ NewTracker.emitted_strings = <<>>
      /\ NewTracker.pending = NoPending
      /\ NewTracker.last_resolved = NoType /\ NewTracker.cmp_pending = NoType
  BY FieldsOfTracker DEF NewTracker
<1>2. Grown(E, <<>>)
  BY DEF Grown
<1>3. IsPosition(NoPosition)
  BY DEF IsPosition, NoPosition, Position, TrieRules, TypeNames
<1>4. IsPending(NoPending)
  <2>1. DOMAIN NoPending = {"kind", "buf", "anchor", "pos"} /\ NoPending.buf = <<>>
        /\ NoPending.pos = NoPosition
    BY DEF NoPending
  <2> QED  BY <1>3, <2>1 DEF IsPending
<1> QED  BY <1>1, <1>2, <1>4 DEF Emits, TypeNames

LEMMA GrownAppend ==
  ASSUME NEW E \in Seq(Spellings), NEW columns, Grown(E, columns), NEW text \in Spellings
  PROVE  Grown(E, Append(columns, text))
<1> DEFINE T == Spellings
<1>1. columns \in Seq(T) /\ text \in T
  BY DEF Grown
<1> HIDE DEF T
<1>2. /\ Append(columns, text) \in Seq(T) /\ Len(Append(columns, text)) = Len(columns) + 1
      /\ \A i \in 1 .. Len(columns) : Append(columns, text)[i] = columns[i]
  BY <1>1
<1>3. Len(E) \in Nat /\ Len(columns) \in Nat /\ Len(E) <= Len(columns)
      /\ \A i \in 1 .. Len(E) : columns[i] = E[i]
  BY <1>1 DEF Grown
<1>4. Len(E) <= Len(columns) + 1 /\ \A i \in 1 .. Len(E) : i \in 1 .. Len(columns)
  BY <1>3
<1>5. \A i \in 1 .. Len(E) : Append(columns, text)[i] = E[i]
  BY <1>2, <1>3, <1>4
<1> QED  BY <1>2, <1>4, <1>5 DEF Grown, T

LEMMA EmittedAppends ==
  ASSUME NEW t, NEW E \in Seq(Spellings), Emits(t, E), NEW text \in Spellings, NEW u,
         DOMAIN u = DOMAIN t, u.emitted_strings = Append(t.emitted_strings, text),
         u.pending = t.pending, u.last_resolved = t.last_resolved, u.cmp_pending = t.cmp_pending
  PROVE  Emits(u, E)
  BY GrownAppend DEF Emits

LEMMA ArmedEmits ==
  ASSUME NEW t, NEW E, Emits(t, E), NEW lexeme
  PROVE  Emits(Armed(t, lexeme), E)
<1> DEFINE u == Armed(t, lexeme)
<1>1. DOMAIN t = Fields
  BY DEF Emits
<1>2. /\ DOMAIN u = DOMAIN t /\ u.emitted_strings = t.emitted_strings /\ u.pending = t.pending
      /\ u.last_resolved = NoType
      /\ u.cmp_pending \in {NoType, t.last_resolved, t.cmp_pending}
  BY <1>1 DEF Armed, Fields
<1> HIDE DEF u
<1> QED  BY <1>2 DEF Emits, TypeNames, u

LEMMA ResolveEmits ==
  ASSUME NEW t, NEW E, Emits(t, E), NEW ident
  PROVE  Emits(ResolveMember(t, ident), E)
<1> DEFINE found == Resolve(Schema, t.dot_base, ident)
           u == ResolveMember(t, ident)
<1>1. DOMAIN t = Fields
  BY DEF Emits
<1>2. found.kind = "primitive" => TypeClass(found.name) \in TypeNames
  <2> SUFFICES ASSUME found.kind = "primitive" PROVE TypeClass(found.name) \in TypeNames
    OBVIOUS
  <2>1. found = NotFound \/ IsPropType(found)
    BY ResolveType
  <2> HIDE DEF found
  <2>2. found.name \in PrimName
    BY <2>1 DEF NotFound, IsPropType
  <2> QED  BY <2>2 DEF PrimName, TypeClass, TypeNames, NumericNames, TemporalNames
<1> HIDE DEF found
<1>3. /\ DOMAIN u = DOMAIN t /\ u.emitted_strings = t.emitted_strings /\ u.pending = t.pending
      /\ u.cmp_pending = t.cmp_pending
      /\ u.last_resolved \in {t.last_resolved} \cup
            (IF found.kind = "primitive" THEN {TypeClass(found.name)} ELSE {})
  BY <1>1 DEF ResolveMember, Reached, Fields, found
<1> HIDE DEF u
<1>4. u.last_resolved \in TypeNames
  BY <1>2, <1>3 DEF Emits
<1>5. Emits(u, E)
  BY <1>3, <1>4 DEF Emits
<1> QED  BY <1>5 DEF u

LEMMA IdentEmits ==
  ASSUME NEW t, NEW E \in Seq(Spellings), Emits(t, E), NEW text \in Spellings, NEW pre
  PROVE  Emits(OnIdent(t, text, pre), E)
<1> DEFINE seen == IF HasClass(Schema, text) THEN [t EXCEPT !.cur_class = text] ELSE t
           resolved == ResolveMember(seen, text)
           referred == [seen EXCEPT !.pending_refvar = text]
           bound == [seen EXCEPT !.lambda_first_ident = text]
           used == CASE pre = "AfterDollar" -> referred
                     [] pre = "AfterDot"    -> resolved
                     [] \/ pre \in HubStates
                        \/ pre \in {"AfterColon", "AfterColonWs"} /\ ~HasClass(Schema, text)
                                            -> bound
                     [] OTHER               -> seen
           column == pre = "SawTilde" \/ InTildeBracket(t, pre)
           u == [used EXCEPT !.last_ident = text,
                             !.emitted_strings = IF column THEN Append(@, text) ELSE @]
<1>1. DOMAIN t = Fields
  BY DEF Emits
<1>2. SameEmitted(t, seen)
  BY <1>1 DEF SameEmitted, Fields
<1>3. Emits(seen, E)
  BY <1>2, SameEmits
<1>4. DOMAIN seen = Fields
  BY <1>1, <1>2 DEF SameEmitted
<1>5. OnIdent(t, text, pre) = u
  BY DEF OnIdent
<1> HIDE DEF seen
<1>6. SameEmitted(seen, referred) /\ SameEmitted(seen, bound)
  BY <1>4 DEF SameEmitted, Fields
<1> HIDE DEF referred, bound, resolved
<1>13. used \in {seen, resolved, referred, bound}
  OBVIOUS
<1> HIDE DEF used, column
<1>7. Emits(referred, E) /\ Emits(bound, E)
  BY <1>3, <1>6, SameEmits
<1>8. Emits(resolved, E)
  BY <1>3, ResolveEmits DEF resolved
<1>9. Emits(used, E)
  BY <1>3, <1>7, <1>8, <1>13
<1>10. DOMAIN used = Fields
  BY <1>9 DEF Emits
<1>11. CASE column
  <2>1. /\ DOMAIN u = DOMAIN used /\ u.emitted_strings = Append(used.emitted_strings, text)
        /\ u.pending = used.pending /\ u.last_resolved = used.last_resolved
        /\ u.cmp_pending = used.cmp_pending
    BY <1>10, <1>11 DEF Fields
  <2> HIDE DEF u
  <2> QED  BY <1>5, <1>9, <2>1, EmittedAppends
<1>12. CASE ~column
  <2>1. SameEmitted(used, u)
    BY <1>10, <1>12 DEF SameEmitted, Fields
  <2> HIDE DEF u
  <2> QED  BY <1>5, <1>9, <2>1, SameEmits
<1> QED  BY <1>11, <1>12

LEMMA HandlersEmit ==
  ASSUME NEW t, NEW E, Emits(t, E), NEW pre
  PROVE  /\ Emits(OnDot(t), E) /\ Emits(OnArrow(t), E) /\ Emits(OnPipe(t, pre), E)
         /\ Emits(OnOpen(t, pre), E) /\ Emits(OnClose(t), E)
<1>1. DOMAIN t = Fields
  BY DEF Emits
<1>2. SameEmitted(t, OnDot(t)) /\ SameEmitted(t, OnArrow(t))
  BY <1>1 DEF SameEmitted, Fields, OnDot, OnArrow
<1>3. SameEmitted(t, OnPipe(t, pre))
  <2> DEFINE name == t.lambda_first_ident
             saved == [SaveScope(t) EXCEPT !.lambda_first_ident = None]
             kept == SaveBinder(saved, name)
  <2>1. SameEmitted(t, saved)
    BY <1>1 DEF SameEmitted, Fields, SaveScope
  <2>2. DOMAIN saved = Fields
    BY <1>1, <2>1 DEF SameEmitted
  <2>3. OnPipe(t, pre) \in {t, saved, BindLambda(kept, name)}
    BY DEF OnPipe
  <2> HIDE DEF saved, name
  <2>4. SameEmitted(saved, kept)
    BY <2>2 DEF SameEmitted, Fields, SaveBinder
  <2>5. DOMAIN kept = Fields
    BY <2>2, <2>4 DEF SameEmitted
  <2> HIDE DEF kept
  <2>6. SameEmitted(kept, BindLambda(kept, name))
    BY <2>5 DEF SameEmitted, Fields, BindLambda
  <2> QED  BY <2>1, <2>3, <2>4, <2>6 DEF SameEmitted
<1>4. SameEmitted(t, OnOpen(t, pre))
  BY <1>1 DEF SameEmitted, Fields, OnOpen
<1>5. SameEmitted(t, OnClose(t))
  <2> DEFINE bound == RestoreBinders(t)
             restored == RestoreScope(bound)
  <2>1. SameEmitted(t, bound)
    BY <1>1 DEF SameEmitted, Fields, RestoreBinders
  <2>2. DOMAIN bound = Fields
    BY <1>1, <2>1 DEF SameEmitted
  <2> HIDE DEF bound
  <2>3. SameEmitted(bound, restored)
    BY <2>2 DEF SameEmitted, Fields, RestoreScope
  <2>4. DOMAIN restored = Fields
    BY <2>2, <2>3 DEF SameEmitted
  <2> HIDE DEF restored
  <2>5. SameEmitted(restored, OnClose(t))
    BY <2>4 DEF SameEmitted, Fields, OnClose, restored, bound
  <2> QED  BY <2>1, <2>3, <2>5 DEF SameEmitted
<1> QED  BY <1>2, <1>3, <1>4, <1>5, SameEmits

LEMMA UnquoteType ==
  ASSUME NEW s \in Seq(Byte)
  PROVE  Unquote(s) \in Seq(Byte)
<1>1. \A w \in Seq(Byte) : Undoubled(w) \in Seq(Byte)
  <2> SUFFICES ASSUME NEW w \in Seq(Byte) PROVE Undoubled(w) \in Seq(Byte)
    OBVIOUS
  <2>1. PICK m : UndoubledRun(m, w) /\ Undoubled(w) = m[1]
    BY UndoubledRuns
  <2>2. 1 \in 1 .. Len(w) + 1
    OBVIOUS
  <2> QED  BY <2>1, <2>2 DEF UndoubledRun
<1>2. Len(s) >= 2 => SubSeq(s, 2, Len(s) - 1) \in Seq(Byte)
  OBVIOUS
<1> QED  BY <1>1, <1>2 DEF Unquote

LEMMA DispatchEmits ==
  ASSUME NEW t, NEW E \in Seq(Spellings), Emits(t, E), NEW bytes \in Seq(Byte), NEW pre
  PROVE  Emits(DispatchToken(t, bytes, pre), E)
<1> DEFINE lexeme == Classify(bytes)
           u == Armed(t, lexeme)
           text == Unquote(bytes)
           comma == [u EXCEPT !.lambda_first_ident = None, !.last_ident = None]
           string == [u EXCEPT !.last_ident = None,
                               !.emitted_strings = Append(@, text)]
           other == [u EXCEPT !.last_ident = None]
<1>1. Emits(u, E)
  BY ArmedEmits
<1>2. DOMAIN u = Fields
  BY <1>1 DEF Emits
<1>3. DispatchToken(t, bytes, pre) \in
        {t, u, OnIdent(u, bytes, pre), OnDot(u), OnArrow(u), OnPipe(u, pre),
         OnOpen(u, pre), OnClose(u), comma, string, other}
  BY DEF DispatchToken
<1>4. text \in Spellings /\ bytes \in Spellings
  BY UnquoteType DEF Spellings
<1> HIDE DEF u, text
<1>5. SameEmitted(u, comma) /\ SameEmitted(u, other)
  BY <1>2 DEF SameEmitted, Fields
<1>6. /\ DOMAIN string = DOMAIN u /\ string.emitted_strings = Append(u.emitted_strings, text)
      /\ string.pending = u.pending /\ string.last_resolved = u.last_resolved
      /\ string.cmp_pending = u.cmp_pending
  BY <1>2 DEF Fields
<1> HIDE DEF comma, string, other
<1>7. Emits(comma, E) /\ Emits(other, E)
  BY <1>1, <1>5, SameEmits
<1>8. Emits(string, E)
  BY <1>1, <1>4, <1>6, EmittedAppends
<1>9. Emits(OnIdent(u, bytes, pre), E)
  BY <1>1, <1>4, IdentEmits
<1>10. /\ Emits(OnDot(u), E) /\ Emits(OnArrow(u), E) /\ Emits(OnPipe(u, pre), E)
       /\ Emits(OnOpen(u, pre), E) /\ Emits(OnClose(u), E)
  BY <1>1, HandlersEmit
<1> QED  BY <1>1, <1>3, <1>7, <1>8, <1>9, <1>10

LEMMA GapEmits ==
  ASSUME NEW t, NEW E \in Seq(Spellings), Emits(t, E), NEW seg \in SegType, NEW anchor
  PROVE  Emits(DispatchGap(t, seg, anchor), E)
<1> DEFINE tokens == FlushGap(seg, anchor)
           N == Len(tokens)
<1>1. PICK after : GapTrace(after, t, tokens) /\ DispatchGap(t, seg, anchor) = after[N]
  BY GapRuns
<1>2. tokens \in Seq(GapOf(anchor))
  BY FlushGapType
<1> HIDE DEF tokens
<1>3. ASSUME NEW n \in 1 .. N PROVE tokens[n].bytes \in Seq(Byte)
  <2>1. tokens[n] \in GapOf(anchor)
    BY <1>2, <1>3, ElementOfSeq
  <2> QED  BY <2>1 DEF GapOf
<1> DEFINE G == {n \in 0 .. N : Emits(after[n], E)}
<1>4. 0 \in G
  BY <1>1 DEF GapTrace
<1>5. ASSUME NEW n \in 1 .. N, n - 1 \in G PROVE n \in G
  BY <1>1, <1>3, <1>5, DispatchEmits DEF GapTrace
<1>6. 0 .. N \subseteq G /\ N \in 0 .. N
  <2>1. N \in Nat
    BY <1>1 DEF GapTrace
  <2> HIDE DEF G, N
  <2> QED  BY <1>4, <1>5, <2>1, InductionUpTo
<1> QED  BY <1>1, <1>6

(***************************************************************************)
(* The positions narrowed.                                                 *)
(***************************************************************************)
LEMMA PositionFacts ==
  /\ IsPosition(NoPosition)
  /\ \A rule \in TrieRules : IsPosition(Position(rule)) /\ Position(rule).rule = rule
  /\ \A class : IsPosition(Member(class))
  /\ \A type \in TypeNames \ {NoType} : IsPosition(ReValue(type))
<1>1. \A rule : Position(rule).rule = rule /\ Position(rule).type = NoType
  BY DEF Position
<1>2. NoPosition.rule = "None" /\ NoPosition.type = NoType
  BY <1>1 DEF NoPosition
<1>3. \A class : Member(class).rule = "Member" /\ Member(class).type = NoType
  BY DEF Member, Position
<1>4. \A type : ReValue(type).rule = "ReValue" /\ ReValue(type).type = type
  BY DEF ReValue, Position
<1> QED  BY <1>1, <1>2, <1>3, <1>4 DEF IsPosition, TrieRules, TypeNames

LEMMA OpeningType ==
  ASSUME NEW t, NEW E, Emits(t, E), NEW state
  PROVE  IsPosition(OpeningPosition(t, state))
<1>1. t.cmp_pending # NoType => t.cmp_pending \in TypeNames \ {NoType}
  BY DEF Emits
<1>2. CASE t.cmp_pending = NoType
  <2>1. OpeningPosition(t, state) \in
          {Position("SourceIdent"), Position("RelationColumn"), Member(t.dot_base),
           Position("Column"), NoPosition}
    BY <1>2 DEF OpeningPosition
  <2> QED  BY <2>1, PositionFacts DEF TrieRules
<1>3. CASE t.cmp_pending # NoType
  <2>1. OpeningPosition(t, state) \in
          {Position("SourceIdent"), Position("RelationColumn"), Member(t.dot_base),
           ReValue(t.cmp_pending), NoPosition}
    BY <1>3 DEF OpeningPosition
  <2> QED  BY <1>1, <1>3, <2>1, PositionFacts DEF TrieRules
<1> QED  BY <1>2, <1>3

LEMMA PositionType ==
  ASSUME NEW t, NEW E, Emits(t, E), NEW state
  PROVE  IsPosition(PositionAt(t, state))
  BY OpeningType DEF PositionAt, Emits, IsPending

LEMMA FusedType ==
  ASSUME NEW t
  PROVE  IsPosition(FusedNavPosition(t)) /\ FusedNavPosition(t).rule # "ReValue"
<1>1. \A var : NavFromVar(t, var) \in {NoPosition, Position("RelationColumn"),
                                       Member(BoundClass(t, var))}
  BY DEF NavFromVar
<1>2. \A member : \E class : NavFromMember(t, member) \in {NoPosition, Member(class)}
  BY DEF NavFromMember, NavThrough
<1>3. \E class : FusedNavPosition(t) \in {NoPosition, Position("RelationColumn"), Member(class)}
  BY <1>1, <1>2 DEF FusedNavPosition
<1>4. /\ NoPosition.rule = "None" /\ Position("RelationColumn").rule = "RelationColumn"
      /\ \A class : Member(class).rule = "Member"
  BY DEF NoPosition, Position, Member
<1> QED  BY <1>3, <1>4, PositionFacts DEF TrieRules

(***************************************************************************)
(* A cut, while a token is observed.                                       *)
(***************************************************************************)
LEMMA PendingEmits ==
  ASSUME NEW t, NEW E, Emits(t, E), NEW pending, IsPending(pending)
  PROVE  Emits([t EXCEPT !.pending = pending], E)
<1>1. DOMAIN t = Fields
  BY DEF Emits
<1> DEFINE u == [t EXCEPT !.pending = pending]
<1>2. /\ DOMAIN u = Fields /\ u.emitted_strings = t.emitted_strings /\ u.pending = pending
      /\ u.last_resolved = t.last_resolved /\ u.cmp_pending = t.cmp_pending
  BY <1>1 DEF Fields
<1> HIDE DEF u
<1> QED  BY <1>2 DEF Emits, u

LEMMA EmptiedEmits ==
  ASSUME NEW t, NEW E, Emits(t, E)
  PROVE  Emits([t EXCEPT !.pending = NoPending], E)
<1>1. DOMAIN NoPending = {"kind", "buf", "anchor", "pos"} /\ NoPending.buf = <<>>
      /\ NoPending.pos = NoPosition
  BY DEF NoPending
<1>2. IsPending(NoPending)
  BY <1>1, PositionFacts DEF IsPending
<1> QED  BY <1>2, PendingEmits

LEMMA BeginEmits ==
  ASSUME NEW t, NEW E \in Seq(Spellings), Emits(t, E), NEW p
  PROVE  Emits(BeginCut(t, p).scope, E)
<1> DEFINE emptied == [t EXCEPT !.pending = NoPending]
           flushed == DispatchToken(emptied, t.pending.buf, t.pending.anchor)
<1>1. Emits(emptied, E)
  BY EmptiedEmits
<1>2. t.pending.buf \in Seq(Byte)
  BY DEF Emits, IsPending
<1> HIDE DEF emptied
<1>3. Emits(flushed, E)
  BY <1>1, <1>2, DispatchEmits
<1>4. BeginCut(t, p).scope \in {flushed, t}
  BY DEF BeginCut, emptied
<1> QED  BY <1>3, <1>4

LEMMA EmitEmits ==
  ASSUME NEW cut, GoodCut(cut), NEW E \in Seq(Spellings), Emits(cut.scope, E)
  PROVE  Emits(EmitLexeme(cut), E)
<1> DEFINE t == cut.scope
           emptied == [t EXCEPT !.pending = NoPending]
           tail == BytesOf(cut.seg)
           whole == t.pending.buf \o tail
<1>1. tail \in Seq(Byte) /\ t.pending.buf \in Seq(Byte)
  BY BytesOfType DEF GoodCut, Emits, IsPending
<1> HIDE DEF tail
<1>2. whole \in Seq(Byte)
  BY <1>1
<1>3. Emits(emptied, E)
  BY EmptiedEmits
<1> HIDE DEF emptied, whole
<1>4. \A pre : Emits(DispatchToken(emptied, whole, pre), E)
  BY <1>2, <1>3, DispatchEmits
<1>5. \A pre : Emits(DispatchToken(t, tail, pre), E)
  BY <1>1, DispatchEmits
<1> QED  BY <1>4, <1>5 DEF EmitLexeme, emptied, whole, tail

LEMMA CutEmits ==
  ASSUME NEW cut, GoodCut(cut), NEW E \in Seq(Spellings), Emits(cut.scope, E), NEW b
  PROVE  Emits(CutByte(cut, b).scope, E)
<1> DEFINE byte == Read(b, cut.pda.state)
           next == Advance(cut.pda, b)
           moved == [cut EXCEPT !.pda = next, !.seg = Append(@, byte)]
           opened == [moved EXCEPT !.seg = <<byte>>, !.anchor = cut.pda.state,
                                   !.continuing = FALSE]
           gap == DispatchGap(cut.scope, cut.seg, cut.anchor)
           emitted == [opened EXCEPT !.scope = EmitLexeme(cut)]
           flushed == [opened EXCEPT !.scope = gap]
<1>0. DOMAIN cut = {"pda", "seg", "continuing", "anchor", "scope"}
  BY DEF GoodCut
<1>1. CutByte(cut, b) \in {moved, emitted, flushed}
  BY DEF CutByte, CutBefore
<1>2. DOMAIN moved = DOMAIN cut /\ moved.scope = cut.scope
  BY <1>0
<1> HIDE DEF moved
<1>3. DOMAIN opened = DOMAIN cut
  BY <1>0, <1>2
<1> HIDE DEF opened, gap
<1>4. emitted.scope = EmitLexeme(cut) /\ flushed.scope = gap
  BY <1>0, <1>3
<1> HIDE DEF emitted, flushed
<1>5. Emits(EmitLexeme(cut), E)
  BY EmitEmits
<1>6. Emits(gap, E)
  BY GapEmits DEF GoodCut, gap
<1> QED  BY <1>1, <1>2, <1>4, <1>5, <1>6

LEMMA EndEmits ==
  ASSUME NEW cut, GoodCut(cut), NEW E \in Seq(Spellings), Emits(cut.scope, E)
  PROVE  Emits(EndCut(cut), E)
<1> DEFINE t == cut.scope
           tail == BytesOf(cut.seg)
           opening == OpeningPosition(t, cut.anchor)
<1>1. Emits(DispatchGap(t, cut.seg, cut.anchor), E)
  BY GapEmits DEF GoodCut
<1>2. tail \in Seq(Byte) /\ IsPending(t.pending) /\ DOMAIN t = Fields
  BY BytesOfType DEF GoodCut, Emits
<1>3. IsPosition(opening)
  BY OpeningType
<1> HIDE DEF tail, opening
<1>4. ASSUME NEW kind PROVE Emits(BufferTrailing(cut, kind), E)
  <2> DEFINE more == [t.pending EXCEPT !.buf = @ \o tail]
             pos == IF opening.rule = "ReValue" THEN NoPosition ELSE opening
             begun == [kind |-> kind, buf |-> tail, anchor |-> cut.anchor, pos |-> pos]
  <2>1. IsPending(more)
    <3>1. DOMAIN more = DOMAIN t.pending /\ more.buf = t.pending.buf \o tail
          /\ more.pos = t.pending.pos
      BY <1>2 DEF IsPending
    <3>2. t.pending.buf \o tail \in Seq(Byte)
      BY <1>2 DEF IsPending
    <3> HIDE DEF more
    <3> QED  BY <1>2, <3>1, <3>2 DEF IsPending
  <2>2. IsPending(begun)
    <3>1. IsPosition(pos)
      BY <1>3, PositionFacts
    <3> HIDE DEF pos
    <3> QED  BY <1>2, <3>1 DEF IsPending
  <2>3. [t EXCEPT !.pending.buf = @ \o tail] = [t EXCEPT !.pending = more]
    BY <1>2 DEF Fields
  <2>4. BufferTrailing(cut, kind)
          = IF cut.continuing THEN [t EXCEPT !.pending.buf = @ \o tail]
            ELSE [t EXCEPT !.pending = begun]
    BY DEF BufferTrailing, tail, opening
  <2> HIDE DEF more, begun
  <2> QED  BY <2>1, <2>2, <2>3, <2>4, PendingEmits
<1> QED  BY <1>1, <1>4 DEF EndCut

LEMMA ObserveEmits ==
  ASSUME NEW t, GoodTracker(t), NEW p \in PdaType, NEW bytes \in Seq(Byte),
         Admits(p, bytes), NEW E \in Seq(Spellings), Emits(t, E)
  PROVE  Emits(Observe(t, bytes, p), E)
<1> DEFINE N == Len(bytes)
<1>1. PICK cut : CutTrace(cut, t, p, bytes) /\ Observe(t, bytes, p) = EndCut(cut[N])
  BY ObserveRuns
<1> DEFINE X == {n \in 0 .. N : Emits(cut[n].scope, E)}
<1>2. N \in Nat
  OBVIOUS
<1>3. 0 \in X
  BY <1>1, BeginEmits DEF CutTrace
<1>4. ASSUME NEW n \in 1 .. N, n - 1 \in X PROVE n \in X
  <2>1. n \in 0 .. N /\ n - 1 \in 0 .. N
    BY <1>2
  <2>2. GoodCut(cut[n - 1]) /\ cut[n] = CutByte(cut[n - 1], bytes[n])
    BY <1>1, <2>1 DEF CutTrace
  <2>3. Emits(cut[n - 1].scope, E)
    BY <1>4
  <2> QED  BY <2>1, <2>2, <2>3, CutEmits
<1>5. 0 .. N \subseteq X /\ N \in 0 .. N
  <2> HIDE DEF X, N
  <2> QED  BY <1>2, <1>3, <1>4, InductionUpTo
<1>6. GoodCut(cut[N]) /\ Emits(cut[N].scope, E)
  BY <1>1, <1>5 DEF CutTrace
<1> QED  BY <1>1, <1>6, EndEmits

(***************************************************************************)
(* A memo is fresh for the columns emitted: each entry belongs to a rule   *)
(* and a number of columns that are there, its trie is that of the names   *)
(* the rule had then, and each of its masks is what the rule keeps after   *)
(* some beginning of a name.                                               *)
(***************************************************************************)
KeyPosition(key) == [Position(key.rule) EXCEPT !.class = key.class]

NamesAt(key, columns) == LegalNames(KeyPosition(key), SubSeq(columns, 1, key.count))

Typed(names) == (UNION {Prefixes(name) : name \in names}) \cup {<<>>}

Kept(key, names, part) ==
    IF key.fused THEN KeptFused(names) ELSE KeptOver(names, part, TrieKind(KeyPosition(key)))

FreshMask(key, trie, names, cursor, mask) ==
    \E part \in Typed(names) : Walk(trie, Root, part) = Stay(cursor) /\ mask = Kept(key, names, part)

FreshEntry(key, entry, columns) ==
    /\ IsCached(entry)
    /\ key.rule \in TrieRules /\ key.count \in 0 .. Len(columns)
    /\ entry.trie = FromNames(NamesAt(key, columns))
    /\ \A cursor \in DOMAIN entry.masks :
         FreshMask(key, entry.trie, ToSet(NamesAt(key, columns)), cursor, entry.masks[cursor])

FreshMemo(m, columns) ==
    /\ IsMemo(m)
    /\ \A key \in DOMAIN m.tries : FreshEntry(key, m.tries[key], columns)

LEMMA PositionOfKey ==
  ASSUME NEW key
  PROVE  KeyPosition(key).rule = key.rule /\ KeyPosition(key).class = key.class
  BY DEF KeyPosition, Position

LEMMA KeyNames ==
  ASSUME NEW pos, pos.rule \in TrieRules, NEW columns \in Seq(Spellings), NEW fused
  PROVE  LET key == CacheKey(pos, columns, fused)
         IN  /\ key.rule = pos.rule /\ key.fused = fused /\ key.count \in 0 .. Len(columns)
             /\ NamesAt(key, columns) = LegalNames(pos, columns)
             /\ TrieKind(KeyPosition(key)) = TrieKind(pos)
<1> DEFINE key == CacheKey(pos, columns, fused)
           at == KeyPosition(key)
           counted == SubSeq(columns, 1, key.count)
<1>1. /\ key.rule = pos.rule /\ key.fused = fused /\ key.class = pos.class
      /\ key.count = IF pos.rule \in ColumnRules THEN Len(columns) ELSE 0
  BY DEF CacheKey
<1>2. at.rule = pos.rule /\ at.class = pos.class
  BY <1>1, PositionOfKey
<1>3. Len(columns) \in Nat /\ SubSeq(columns, 1, Len(columns)) = columns
  <2> DEFINE T == Spellings
  <2>1. columns \in Seq(T)
    OBVIOUS
  <2> HIDE DEF T
  <2> QED  BY <2>1
<1> HIDE DEF at, key
<1>4. key.count \in 0 .. Len(columns)
  BY <1>1, <1>3
<1>5. LegalNames(at, counted) = LegalNames(pos, columns)
  <2>1. CASE pos.rule = "SourceIdent"
    BY <1>2, <2>1 DEF LegalNames
  <2>2. CASE pos.rule = "Member"
    BY <1>2, <2>2 DEF LegalNames
  <2>3. CASE pos.rule \in ColumnRules
    <3>1. counted = columns
      BY <1>1, <1>3, <2>3
    <3> HIDE DEF counted
    <3> QED  BY <1>2, <2>3, <3>1 DEF LegalNames, ColumnRules
  <2> QED  BY <2>1, <2>2, <2>3 DEF TrieRules, ColumnRules
<1>6. TrieKind(at) = TrieKind(pos)
  BY <1>2 DEF TrieKind
<1> QED  BY <1>1, <1>4, <1>5, <1>6 DEF NamesAt, at, key

\* The columns that come later make no difference to the names of a key.
LEMMA NamesAtGrown ==
  ASSUME NEW columns \in Seq(Spellings), NEW more, Grown(columns, more), NEW key,
         key.count \in 0 .. Len(columns)
  PROVE  NamesAt(key, more) = NamesAt(key, columns) /\ key.count \in 0 .. Len(more)
<1> DEFINE T == Spellings
           n == key.count
<1>1. columns \in Seq(T) /\ more \in Seq(T) /\ Len(columns) <= Len(more)
      /\ \A i \in 1 .. Len(columns) : more[i] = columns[i]
  BY DEF Grown
<1> HIDE DEF T, n
<1>2. n \in 0 .. Len(columns) /\ n \in 0 .. Len(more)
  BY <1>1 DEF n
<1>3. SubSeq(more, 1, n) = [i \in 1 .. n |-> more[i]]
      /\ SubSeq(columns, 1, n) = [i \in 1 .. n |-> columns[i]]
  BY <1>1, <1>2
<1>4. \A i \in 1 .. n : more[i] = columns[i]
  BY <1>1, <1>2
<1>5. SubSeq(more, 1, n) = SubSeq(columns, 1, n)
  BY <1>3, <1>4
<1> QED  BY <1>2, <1>5 DEF NamesAt, n

LEMMA FreshGrown ==
  ASSUME NEW m, NEW columns \in Seq(Spellings), FreshMemo(m, columns),
         NEW more, Grown(columns, more)
  PROVE  FreshMemo(m, more)
<1>1. ASSUME NEW key \in DOMAIN m.tries PROVE FreshEntry(key, m.tries[key], more)
  <2>1. FreshEntry(key, m.tries[key], columns)
    BY DEF FreshMemo
  <2>2. NamesAt(key, more) = NamesAt(key, columns) /\ key.count \in 0 .. Len(more)
    BY <2>1, NamesAtGrown DEF FreshEntry
  <2> QED  BY <2>1, <2>2 DEF FreshEntry
<1> QED  BY <1>1 DEF FreshMemo

(***************************************************************************)
(* What is filled over a trie is what the rule keeps over its names.       *)
(***************************************************************************)
LEMMA RootWalk ==
  ASSUME NEW names \in Seq(Spellings)
  PROVE  /\ Root \in NodeIds(FromNames(names))
         /\ Walk(FromNames(names), Root, <<>>) = Stay(Root)
<1> DEFINE trie == FromNames(names)
           none == <<>>
<1>1. PICK p : Spelt(names, p)
  BY FromNamesHolds DEF Holds, Spelt, Spellings
<1>2. Holds(trie, LiveOf(names, Len(names)), EndsOf(names, Len(names)))
  BY FromNamesHolds DEF Spellings
<1>3. Root \in NodeIds(trie)
  <2>1. 1 \in Indices(trie)
    BY <1>1, Zenon DEF Spelt, Spells
  <2> HIDE DEF trie
  <2> QED  BY <2>1 DEF NodeIds, Root
<1>4. none \in Seq(Byte) /\ Len(none) = 0
  OBVIOUS
<1> HIDE DEF trie, none
<1>5. PICK g : WalkTrace(g, trie, Root, none)
  BY <1>2, <1>3, <1>4, WalkRuns
<1>6. Walk(trie, Root, none) = Stay(Root)
  BY <1>4, <1>5 DEF WalkTrace
<1> QED  BY <1>3, <1>6 DEF trie, none

LEMMA SpeltRoot ==
  ASSUME NEW names, NEW p, Spelt(names, p)
  PROVE  p[Root + 1] = <<>>
<1>1. p[1] = <<>>
  BY Zenon DEF Spelt, Spells
<1> QED  BY <1>1 DEF Root

LEMMA CursorSpells ==
  ASSUME NEW names \in Seq(Spellings), NEW part \in Seq(Byte), NEW cursor,
         Walk(FromNames(names), Root, part) = Stay(cursor)
  PROVE  part \in Typed(ToSet(names)) /\ (cursor # Root <=> part # <<>>)
<1> DEFINE trie == FromNames(names)
           none == <<>>
           live == LiveOf(names, Len(names))
<1>1. PICK p : Spelt(names, p)
  BY FromNamesHolds DEF Holds, Spelt, Spellings
<1>2. none \in Seq(Byte) /\ none \o part = part
  OBVIOUS
<1>3. /\ p \in [Indices(trie) -> live] /\ p[1] = none /\ 1 \in Indices(trie)
      /\ \A i, j \in Indices(trie) : p[i] = p[j] => i = j
  BY <1>1, Zenon DEF Spelt, Spells
<1>4. Root \in NodeIds(trie) /\ p[Root + 1] = none
  <2> HIDE DEF trie
  <2> QED  BY <1>3, RootWalk DEF NodeIds, Root
<1> HIDE DEF none
<1>5. ComesTo(trie, p, Walk(trie, Root, part), part)
  <2>1. Walk(trie, Root, part).outcome = "Stay"
    BY CursorFacts
  <2> QED  BY <1>1, <1>2, <1>4, <2>1, WalkExtends DEF Spellings
<1> HIDE DEF trie, live
<1>6. PICK to \in NodeIds(trie) : Stay(cursor) = Stay(to) /\ p[to + 1] = part
  BY <1>5 DEF ComesTo, trie
<1>7. cursor = to
  <2>1. Stay(cursor).node = cursor /\ Stay(to).node = to
    BY CursorFacts
  <2> QED  BY <1>6, <2>1
<1>8. cursor + 1 \in Indices(trie) /\ cursor \in Nat /\ p[cursor + 1] = part
  BY <1>6, <1>7 DEF NodeIds
<1>9. part = none <=> cursor = Root
  BY <1>3, <1>8 DEF Root
<1>10. part \in live
  BY <1>3, <1>8
<1>11. part \in Typed(ToSet(names))
  <2>1. CASE part = none
    <3>1. part \in {none}
      BY <2>1
    <3> QED  BY <3>1, Zenon DEF Typed, none
  <2>2. CASE part # none
    <3>1. PICK k \in 1 .. Len(names) : part \in Starts(names[k], Len(names[k]))
      BY <1>10, <2>2 DEF live, LiveOf, none
    <3>2. names[k] \in ToSet(names)
      BY <3>1 DEF ToSet, Spellings
    <3>3. part \in Prefixes(names[k])
      BY <3>1 DEF Starts, Prefixes
    <3> QED  BY <3>2, <3>3 DEF Typed
  <2> QED  BY <2>1, <2>2
<1> QED  BY <1>9, <1>11 DEF none

LEMMA FilledKeeps ==
  ASSUME NEW names \in Seq(Spellings), NEW part \in Seq(Byte), NEW cursor,
         Walk(FromNames(names), Root, part) = Stay(cursor), NEW kind
  PROVE  FillTrie(FromNames(names), cursor, kind) = KeptOver(ToSet(names), part, kind)
<1>1. cursor # Root <=> part # <<>>
  BY CursorSpells
<1>2. ASSUME NEW id \in Ids
      PROVE  Walk(FromNames(names), cursor, TokenBytes(id)).outcome # "Diverge"
               <=> Extends(part \o TokenBytes(id), ToSet(names))
  BY TokenBytesType, TrieIsExact DEF Spellings
<1> QED  BY <1>1, <1>2 DEF FillTrie, KeptOver

LEMMA FusedKeeps ==
  ASSUME NEW names \in Seq(Spellings)
  PROVE  FillFusedTrie(FromNames(names)) = KeptFused(ToSet(names))
<1> DEFINE none == <<>>
<1>1. ASSUME NEW id \in Ids, IsFusedNav(TokenBytes(id))
      PROVE  Walk(FromNames(names), Root, Tail(TokenBytes(id))).outcome # "Diverge"
               <=> Extends(Tail(TokenBytes(id)), ToSet(names))
  <2> DEFINE rest == Tail(TokenBytes(id))
  <2>1. TokenBytes(id) \in Seq(Byte) /\ Len(TokenBytes(id)) > 1
    BY <1>1, TokenBytesType DEF IsFusedNav
  <2>2. rest \in Seq(Byte)
    BY <2>1
  <2> HIDE DEF rest
  <2>3. none \in Seq(Byte) /\ none \o rest = rest
    BY <2>2
  <2>4. Walk(FromNames(names), Root, none) = Stay(Root)
    BY RootWalk
  <2> HIDE DEF none
  <2> QED  BY <2>2, <2>3, <2>4, TrieIsExact DEF Spellings, rest
<1> QED  BY <1>1 DEF FillFusedTrie, KeptFused

(***************************************************************************)
(* The passes leave a fresh memo fresh.                                    *)
(***************************************************************************)
LEMMA EntryFresh ==
  ASSUME NEW m, NEW columns, FreshMemo(m, columns), NEW key, NEW entry,
         FreshEntry(key, entry, columns)
  PROVE  FreshMemo([m EXCEPT !.tries = With(@, key, entry)], columns)
<1> DEFINE tries == With(m.tries, key, entry)
           added == [m EXCEPT !.tries = With(@, key, entry)]
<1>1. added = [operand |-> m.operand, tries |-> tries]
  BY DEF FreshMemo, IsMemo
<1>2. \A k \in DOMAIN tries : \/ k = key /\ tries[k] = entry
                              \/ k \in DOMAIN m.tries /\ tries[k] = m.tries[k]
  BY DEF With
<1> HIDE DEF tries
<1>3. \A k \in DOMAIN tries : FreshEntry(k, tries[k], columns)
  BY <1>2 DEF FreshMemo
<1>4. added.operand = m.operand /\ added.tries = tries
  BY <1>1
<1> HIDE DEF added
<1> QED  BY <1>1, <1>3, <1>4 DEF FreshMemo, IsMemo, added

LEMMA OperandFresh ==
  ASSUME NEW m, NEW columns, FreshMemo(m, columns), NEW lhs
  PROVE  FreshMemo(NarrowOperand(m, lhs).memo, columns)
<1> DEFINE mask == IF lhs \in DOMAIN m.operand THEN m.operand[lhs] ELSE FillOperand(lhs)
           left == [m EXCEPT !.operand = With(@, lhs, mask)]
<1>1. NarrowOperand(m, lhs).memo = left
  BY DEF NarrowOperand, Narrowed
<1> HIDE DEF mask
<1>2. left = [operand |-> With(m.operand, lhs, mask), tries |-> m.tries]
  BY DEF FreshMemo, IsMemo
<1> HIDE DEF left
<1>3. IsMemo(left) /\ left.tries = m.tries
  BY <1>2 DEF IsMemo
<1> QED  BY <1>1, <1>3 DEF FreshMemo

\* The entry a rule has, or the one it is given.
LEMMA RuleCacheFresh ==
  ASSUME NEW m, NEW columns \in Seq(Spellings), FreshMemo(m, columns),
         NEW pos, pos.rule \in TrieRules, NEW fused
  PROVE  /\ FreshEntry(CacheKey(pos, columns, fused),
                       RuleCache(m, CacheKey(pos, columns, fused), LegalNames(pos, columns)), columns)
         /\ RuleCache(m, CacheKey(pos, columns, fused), LegalNames(pos, columns)).trie
              = FromNames(LegalNames(pos, columns))
<1> DEFINE key == CacheKey(pos, columns, fused)
           names == LegalNames(pos, columns)
           entry == RuleCache(m, key, names)
           none == <<>>
           new == [trie |-> FromNames(names), masks |-> none]
<1>1. key.rule = pos.rule /\ key.count \in 0 .. Len(columns) /\ NamesAt(key, columns) = names
  BY KeyNames
<1>2. entry = IF key \in DOMAIN m.tries THEN m.tries[key] ELSE new
  BY DEF RuleCache
<1>3. DOMAIN none = {}
  OBVIOUS
<1> HIDE DEF key, names, none
<1>4. FreshEntry(key, new, columns)
  <2>1. new.trie = FromNames(names) /\ new.masks = none
    OBVIOUS
  <2>2. IsCached(new)
    BY <2>1 DEF IsCached
  <2> HIDE DEF new
  <2> QED  BY <1>1, <1>3, <2>1, <2>2 DEF FreshEntry
<1> HIDE DEF new
<1>5. FreshEntry(key, entry, columns)
  BY <1>2, <1>4 DEF FreshMemo
<1> HIDE DEF entry
<1>6. entry.trie = FromNames(names)
  BY <1>1, <1>5 DEF FreshEntry
<1> QED  BY <1>5, <1>6 DEF key, names, entry

LEMMA MaskAdded ==
  ASSUME NEW key, NEW entry, NEW columns, FreshEntry(key, entry, columns), NEW cursor, NEW mask,
         FreshMask(key, entry.trie, ToSet(NamesAt(key, columns)), cursor, mask)
  PROVE  FreshEntry(key, [entry EXCEPT !.masks = With(@, cursor, mask)], columns)
<1> DEFINE filled == [entry EXCEPT !.masks = With(@, cursor, mask)]
           masks == With(entry.masks, cursor, mask)
<1>1. filled = [trie |-> entry.trie, masks |-> masks]
  BY DEF FreshEntry, IsCached
<1>2. \A c \in DOMAIN masks : \/ c = cursor /\ masks[c] = mask
                              \/ c \in DOMAIN entry.masks /\ masks[c] = entry.masks[c]
  BY DEF With
<1> HIDE DEF masks
<1>3. filled.trie = entry.trie /\ filled.masks = masks /\ IsCached(filled)
  BY <1>1 DEF IsCached
<1> HIDE DEF filled
<1>4. \A c \in DOMAIN masks :
        FreshMask(key, entry.trie, ToSet(NamesAt(key, columns)), c, masks[c])
  BY <1>2 DEF FreshEntry
<1>5. FreshEntry(key, filled, columns)
  BY <1>3, <1>4 DEF FreshEntry
<1> QED  BY <1>5 DEF filled

LEMMA TrieFresh ==
  ASSUME NEW m, NEW columns \in Seq(Spellings), FreshMemo(m, columns),
         NEW pos, pos.rule \in TrieRules, NEW prefix \in Seq(Byte)
  PROVE  FreshMemo(NarrowTrie(m, pos, prefix, columns).memo, columns)
<1> DEFINE key    == CacheKey(pos, columns, FALSE)
           names  == LegalNames(pos, columns)
           entry  == RuleCache(m, key, names)
           cursor == Walk(entry.trie, Root, prefix)
           mask   == IF cursor.node \in DOMAIN entry.masks THEN entry.masks[cursor.node]
                     ELSE FillTrie(entry.trie, cursor.node, TrieKind(pos))
           filled == [entry EXCEPT !.masks = With(@, cursor.node, mask)]
           grown  == [m EXCEPT !.tries = With(@, key, filled)]
           kept   == [m EXCEPT !.tries = With(@, key, entry)]
<1>1. FreshEntry(key, entry, columns) /\ entry.trie = FromNames(names)
  BY RuleCacheFresh
<1>2. /\ key.fused = FALSE /\ NamesAt(key, columns) = names
      /\ TrieKind(KeyPosition(key)) = TrieKind(pos)
  BY KeyNames
<1>3. names \in Seq(Spellings)
  BY LegalNamesType
<1>4. NarrowTrie(m, pos, prefix, columns).memo
        = IF cursor.outcome = "Stay" THEN grown ELSE kept
  BY DEF NarrowTrie, Narrowed, Unnarrowed
<1> HIDE DEF key, names, entry
<1>5. FreshMemo(kept, columns)
  BY <1>1, EntryFresh
<1>6. CASE cursor.outcome = "Stay"
  <2> DEFINE node == cursor.node
  <2>1. cursor = Stay(node)
    <3>1. PICK p : Spelt(names, p)
      BY <1>3, FromNamesHolds DEF Holds, Spelt, Spellings
    <3> DEFINE none == <<>>
    <3>2. none \in Seq(Byte) /\ none \o prefix = prefix
      OBVIOUS
    <3>3. Root \in NodeIds(FromNames(names)) /\ p[Root + 1] = none
      BY <1>3, <3>1, RootWalk, SpeltRoot
    <3> HIDE DEF none
    <3>4. ComesTo(FromNames(names), p, cursor, prefix)
      BY <1>1, <1>3, <1>6, <3>1, <3>2, <3>3, WalkExtends DEF Spellings
    <3> QED  BY <3>4, CursorFacts DEF ComesTo
  <2> HIDE DEF cursor
  <2>2. Walk(FromNames(names), Root, prefix) = Stay(node)
    BY <1>1, <2>1 DEF cursor
  <2>3. FreshMask(key, entry.trie, ToSet(NamesAt(key, columns)), node, mask)
    <3>1. CASE node \in DOMAIN entry.masks
      BY <1>1, <3>1 DEF FreshEntry
    <3>2. CASE node \notin DOMAIN entry.masks
      <4>1. mask = KeptOver(ToSet(names), prefix, TrieKind(pos))
        BY <1>1, <1>3, <2>2, <3>2, FilledKeeps
      <4>2. prefix \in Typed(ToSet(names))
        BY <1>3, <2>2, CursorSpells
      <4> HIDE DEF mask
      <4> QED  BY <1>1, <1>2, <2>2, <4>1, <4>2 DEF FreshMask, Kept
    <3> QED  BY <3>1, <3>2
  <2> HIDE DEF mask
  <2>4. FreshEntry(key, filled, columns)
    BY <1>1, <2>3, MaskAdded
  <2> HIDE DEF filled
  <2>5. FreshMemo(grown, columns)
    BY <2>4, EntryFresh
  <2> QED  BY <1>4, <1>6, <2>5 DEF cursor, mask, filled
<1> QED  BY <1>4, <1>5, <1>6

LEMMA FusedFresh ==
  ASSUME NEW m, NEW columns \in Seq(Spellings), FreshMemo(m, columns),
         NEW pos, pos.rule = "None" \/ pos.rule \in TrieRules
  PROVE  FreshMemo(NarrowFusedInto(m, pos, columns).memo, columns)
<1> DEFINE key    == CacheKey(pos, columns, TRUE)
           names  == LegalNames(pos, columns)
           entry  == RuleCache(m, key, names)
           mask   == IF Root \in DOMAIN entry.masks THEN entry.masks[Root]
                     ELSE FillFusedTrie(entry.trie)
           filled == [entry EXCEPT !.masks = With(@, Root, mask)]
           grown  == [m EXCEPT !.tries = With(@, key, filled)]
<1>1. NarrowFusedInto(m, pos, columns).memo = IF pos.rule = "None" THEN m ELSE grown
  BY DEF NarrowFusedInto, Narrowed, Unnarrowed
<1>2. CASE pos.rule \in TrieRules
  <2>1. FreshEntry(key, entry, columns) /\ entry.trie = FromNames(names)
    BY <1>2, RuleCacheFresh
  <2>2. key.fused = TRUE /\ NamesAt(key, columns) = names
    BY <1>2, KeyNames
  <2>3. names \in Seq(Spellings)
    BY <1>2, LegalNamesType
  <2> HIDE DEF key, names, entry
  <2>4. FreshMask(key, entry.trie, ToSet(NamesAt(key, columns)), Root, mask)
    <3>1. CASE Root \in DOMAIN entry.masks
      BY <2>1, <3>1 DEF FreshEntry
    <3>2. CASE Root \notin DOMAIN entry.masks
      <4> DEFINE none == <<>>
      <4>1. mask = KeptFused(ToSet(names))
        BY <2>1, <2>3, <3>2, FusedKeeps
      <4>2. Walk(entry.trie, Root, none) = Stay(Root) /\ none \in Seq(Byte)
        BY <2>1, <2>3, RootWalk
      <4> HIDE DEF mask, none
      <4>3. none \in Typed(ToSet(names))
        BY <2>1, <2>3, <4>2, CursorSpells
      <4> QED  BY <2>2, <4>1, <4>2, <4>3 DEF FreshMask, Kept
    <3> QED  BY <3>1, <3>2
  <2> HIDE DEF mask
  <2>5. FreshEntry(key, filled, columns)
    BY <2>1, <2>4, MaskAdded
  <2> HIDE DEF filled
  <2>6. FreshMemo(grown, columns)
    BY <2>5, EntryFresh
  <2> QED  BY <1>1, <1>2, <2>6 DEF TrieRules, mask, filled
<1> QED  BY <1>1, <1>2

LEMMA PassFresh ==
  ASSUME NEW m, NEW columns \in Seq(Spellings), FreshMemo(m, columns),
         NEW pos, IsPosition(pos), NEW prefix \in Seq(Byte)
  PROVE  FreshMemo(NarrowInto(m, pos, prefix, columns).memo, columns)
<1> DEFINE pass == NarrowInto(m, pos, prefix, columns)
<1>1. CASE pos.rule = "None" \/ pos.type \in {"Boolean", "Temporal"}
  <2>1. pass = Unnarrowed(m)
    BY <1>1 DEF NarrowInto, IsPosition, NoType
  <2> HIDE DEF pass
  <2> QED  BY <2>1 DEF Unnarrowed, pass
<1>2. CASE ~(pos.rule = "None" \/ pos.type \in {"Boolean", "Temporal"})
           /\ pos.type \in {"Numeric", "Str"}
  <2>1. pass = NarrowOperand(m, pos.type)
    BY <1>2 DEF NarrowInto
  <2> HIDE DEF pass
  <2> QED  BY <2>1, OperandFresh DEF pass
<1>3. CASE ~(pos.rule = "None" \/ pos.type \in {"Boolean", "Temporal"})
           /\ pos.type \notin {"Numeric", "Str"}
  <2>1. pass = NarrowTrie(m, pos, prefix, columns)
    BY <1>3 DEF NarrowInto
  <2>2. pos.rule \in TrieRules
    BY <1>3 DEF IsPosition, TypeNames
  <2> HIDE DEF pass
  <2> QED  BY <2>1, <2>2, TrieFresh DEF pass
<1> QED  BY <1>1, <1>2, <1>3

LEMMA OverlayFresh ==
  ASSUME NEW m, NEW t, NEW E, Emits(t, E), FreshMemo(m, t.emitted_strings), NEW l1, NEW p
  PROVE  FreshMemo(Overlay(l1, t, p, m).memo, t.emitted_strings)
<1> DEFINE columns == t.emitted_strings
           pos == PositionAt(t, p.state)
           prefix == NarrowPrefix(t)
           first == NarrowInto(m, pos, prefix, columns)
           left == NarrowedAt(l1, t, p, m)
           nav == FusedNavPosition(t)
<1>1. columns \in Seq(Spellings) /\ prefix \in Seq(Byte) /\ IsPosition(pos)
  BY PositionType DEF Emits, Grown, IsPending, NarrowPrefix
<1>2. left.memo = first.memo
  BY DEF NarrowedAt, Intersected
<1>3. Overlay(l1, t, p, m).memo = NarrowFusedInto(left.memo, nav, columns).memo
  BY DEF Overlay, NarrowedFused, Intersected
<1>4. nav.rule = "None" \/ nav.rule \in TrieRules
  BY FusedType DEF IsPosition
<1>5. FreshMemo(m, columns)
  OBVIOUS
<1> HIDE DEF columns, pos, prefix, left, nav
<1>6. FreshMemo(left.memo, columns)
  BY <1>1, <1>2, <1>5, PassFresh
<1>7. FreshMemo(NarrowFusedInto(left.memo, nav, columns).memo, columns)
  BY <1>1, <1>4, <1>6, FusedFresh
<1> QED  BY <1>3, <1>7 DEF columns

(***************************************************************************)
(* The inductive invariant: the memo is fresh for the columns emitted so   *)
(* far, which are sequences of bytes and only grow within a stream.        *)
(***************************************************************************)
MemoInv ==
    /\ StreamInv
    /\ Emits(tracker, <<>>)
    /\ FreshMemo(memo, tracker.emitted_strings)

\* What a tracker emitted grows from nothing, and from itself.
LEMMA EmitsFacts ==
  ASSUME NEW t
  PROVE  /\ <<>> \in Seq(Spellings)
         /\ \A E : Emits(t, E) => Emits(t, <<>>) /\ Emits(t, t.emitted_strings)
                                  /\ t.emitted_strings \in Seq(Spellings)
<1> DEFINE none == <<>>
           C == t.emitted_strings
           T == Spellings
<1>1. none \in Seq(T) /\ Len(none) = 0
  OBVIOUS
<1>2. ASSUME C \in Seq(T) PROVE Len(C) \in Nat
  BY <1>2
<1> HIDE DEF none, T
<1>3. ASSUME NEW E, Emits(t, E) PROVE Emits(t, none) /\ Emits(t, C) /\ C \in Seq(Spellings)
  <2>1. C \in Seq(Spellings)
    BY <1>3 DEF Emits, Grown
  <2>2. Len(C) \in Nat
    BY <1>2, <2>1 DEF T
  <2> HIDE DEF C
  <2>3. Grown(none, C) /\ Grown(C, C)
    BY <1>1, <2>1, <2>2 DEF Grown
  <2> QED  BY <1>3, <2>1, <2>3 DEF Emits, C
<1> QED  BY <1>1, <1>3 DEF none, T

LEMMA NewMemoFresh == FreshMemo(NoMemo, <<>>)
<1> DEFINE none == <<>>
<1>1. DOMAIN none = {}
  OBVIOUS
<1>2. NoMemo.tries = none /\ IsMemo(NoMemo)
  BY DEF NoMemo, IsMemo
<1> HIDE DEF none
<1> QED  BY <1>1, <1>2 DEF FreshMemo

LEMMA StartMemo ==
  FreshMemo(NoMemo, NewTracker.emitted_strings) /\ Emits(NewTracker, <<>>)
<1>1. NewTracker.emitted_strings = <<>>
  BY DEF NewTracker
<1> QED  BY <1>1, NewMemoFresh, NewEmits

LEMMA CommitMemo ==
  ASSUME MemoInv, NEW id \in Ids, Commit(id)
  PROVE  Emits(tracker', <<>>) /\ FreshMemo(memo', tracker'.emitted_strings)
<1> DEFINE C == tracker.emitted_strings
           after == Observe(tracker, TokenBytes(id), pda)
<1>1. TokenBytes(id) \in Seq(Byte) /\ pda \in PdaType /\ GoodTracker(tracker)
  BY TokenBytesType DEF MemoInv, StreamInv
<1>2. Admits(pda, TokenBytes(id)) /\ tracker' = after /\ memo' = memo
  BY DEF Commit
<1>3. C \in Seq(Spellings) /\ Emits(tracker, C) /\ FreshMemo(memo, C)
  BY EmitsFacts DEF MemoInv
<1> HIDE DEF C
<1>4. Emits(after, C)
  BY <1>1, <1>2, <1>3, ObserveEmits
<1> HIDE DEF after
<1>5. Emits(after, <<>>) /\ Grown(C, after.emitted_strings)
  BY <1>4, EmitsFacts DEF Emits
<1>6. FreshMemo(memo, after.emitted_strings)
  BY <1>3, <1>5, FreshGrown
<1> QED  BY <1>2, <1>5, <1>6

LEMMA NextMemo ==
  ASSUME MemoInv, [Next]_vars
  PROVE  MemoInv'
<1>1. StreamInv'
  BY NextStream DEF MemoInv
<1>2. CASE AllowedMask
  <2>1. memo' = Overlay(L1Mask(pda), tracker, pda, memo).memo /\ tracker' = tracker
    BY <1>2 DEF AllowedMask, Answered
  <2>2. FreshMemo(memo', tracker.emitted_strings)
    BY <2>1, OverlayFresh DEF MemoInv
  <2> QED  BY <1>1, <2>1, <2>2 DEF MemoInv
<1>3. ASSUME NEW id \in Ids, AcceptToken(id) PROVE MemoInv'
  BY <1>1, <1>3, CommitMemo DEF AcceptToken, MemoInv
<1>4. ASSUME NEW id \in Strays, AcceptStray(id) PROVE MemoInv'
  <2>1. id \in Ids
    BY SchemaSessionAssumption
  <2> QED  BY <1>1, <1>4, <2>1, CommitMemo DEF AcceptStray, MemoInv
<1>5. ASSUME NEW b \in StrayBytes, AcceptByte(b) PROVE MemoInv'
  BY <1>1, <1>5 DEF AcceptByte, MemoInv
<1>6. ASSUME NEW query \in Queries, Reset(query) PROVE MemoInv'
  BY <1>1, <1>6, StartMemo DEF Reset, MemoInv
<1>7. CASE UNCHANGED vars
  BY <1>1, <1>7 DEF vars, MemoInv
<1> QED  BY <1>2, <1>3, <1>4, <1>5, <1>6, <1>7 DEF Next

(***************************************************************************)
(* Every memoised mask is what the rule it is kept for would keep over the *)
(* names its trie was built from, whatever was masked, committed or reset  *)
(* before: the columns a stream emits are only added to, and a key tells   *)
(* their number (narrow.rs 67-71, session.rs 286-298).                     *)
(***************************************************************************)
THEOREM MemoInvariant == Spec => []MemoFresh
<1>1. Init => MemoInv
  BY InitStream, StartMemo DEF Init, MemoInv
<1>2. MemoInv /\ [Next]_vars => MemoInv'
  BY NextMemo
<1>3. MemoInv => MemoFresh
  <2> SUFFICES ASSUME MemoInv, NEW key \in DOMAIN memo.tries
               PROVE  /\ key.count <= Len(tracker.emitted_strings)
                      /\ \A cursor \in DOMAIN memo.tries[key].masks :
                           FreshMask(key, memo.tries[key].trie,
                                     ToSet(NamesAt(key, tracker.emitted_strings)),
                                     cursor, memo.tries[key].masks[cursor])
    BY DEF MemoFresh, FreshMask, Typed, Kept, NamesAt, KeyPosition
  <2>1. FreshEntry(key, memo.tries[key], tracker.emitted_strings)
    BY DEF MemoInv, FreshMemo
  <2> QED  BY <2>1 DEF FreshEntry
<1> QED  BY <1>1, <1>2, <1>3, PTL DEF Spec

-----------------------------------------------------------------------------
(***************************************************************************)
(* The memo is never seen.  Each pass, over whatever a stream may have     *)
(* left in the memo, answers what it would have filled itself.             *)
(***************************************************************************)
FilledMemo(m) == \A lhs \in DOMAIN m.operand : m.operand[lhs] = FillOperand(lhs)

TrueMemo(m, columns) == FreshMemo(m, columns) /\ FilledMemo(m)

\* Two passes a mask cannot tell apart.
SameAnswer(one, other) ==
    one.applies = other.applies /\ (one.applies => one.mask = other.mask)

LEMMA EmptyMemoIsTrue ==
  ASSUME NEW columns
  PROVE  TrueMemo(NoMemo, columns)
<1> DEFINE none == <<>>
<1>1. DOMAIN none = {}
  OBVIOUS
<1>2. NoMemo.tries = none /\ NoMemo.operand = none /\ IsMemo(NoMemo)
  BY DEF NoMemo, IsMemo
<1> HIDE DEF none
<1> QED  BY <1>1, <1>2 DEF TrueMemo, FilledMemo, FreshMemo

\* What a rule was filled with after some beginning of a name is what it
\* would be filled with at the node the beginning leads to.
LEMMA FreshIsFilled ==
  ASSUME NEW names \in Seq(Spellings), NEW key, NEW cursor, NEW mask,
         FreshMask(key, FromNames(names), ToSet(names), cursor, mask)
  PROVE  mask = IF key.fused THEN FillFusedTrie(FromNames(names))
                ELSE FillTrie(FromNames(names), cursor, TrieKind(KeyPosition(key)))
<1>1. PICK part \in Typed(ToSet(names)) :
        Walk(FromNames(names), Root, part) = Stay(cursor) /\ mask = Kept(key, ToSet(names), part)
  BY DEF FreshMask
<1>2. part \in Seq(Byte)
  <2>1. CASE part \in {<<>>}
    BY <2>1
  <2>2. CASE part \in UNION {Prefixes(name) : name \in ToSet(names)}
    <3>1. PICK name \in ToSet(names) : part \in Prefixes(name)
      BY <2>2
    <3>2. PICK i \in 1 .. Len(names) : name = names[i]
      BY <3>1 DEF ToSet
    <3>3. name \in Spellings
      BY <3>2, ElementOfSeq
    <3>4. name \in Seq(Byte)
      BY <3>3 DEF Spellings
    <3>5. PICK l \in 0 .. Len(name) : part = SubSeq(name, 1, l)
      BY <3>1 DEF Prefixes
    <3> QED  BY <3>4, <3>5
  <2> QED  BY <1>1, <2>1, <2>2, Zenon DEF Typed
<1>3. CASE key.fused
  <2>1. FillFusedTrie(FromNames(names)) = KeptFused(ToSet(names))
    BY FusedKeeps
  <2> QED  BY <1>1, <1>3, <2>1 DEF Kept
<1>4. CASE ~key.fused
  <2>1. FillTrie(FromNames(names), cursor, TrieKind(KeyPosition(key)))
          = KeptOver(ToSet(names), part, TrieKind(KeyPosition(key)))
    BY <1>1, <1>2, FilledKeeps
  <2> QED  BY <1>1, <1>4, <2>1 DEF Kept
<1> QED  BY <1>3, <1>4

LEMMA OperandAnswer ==
  ASSUME NEW m, NEW columns, TrueMemo(m, columns), NEW lhs
  PROVE  /\ NarrowOperand(m, lhs).applies /\ NarrowOperand(m, lhs).mask = FillOperand(lhs)
         /\ FilledMemo(NarrowOperand(m, lhs).memo)
<1> DEFINE mask == IF lhs \in DOMAIN m.operand THEN m.operand[lhs] ELSE FillOperand(lhs)
           grown == With(m.operand, lhs, mask)
           left == [m EXCEPT !.operand = grown]
<1>1. NarrowOperand(m, lhs) = [applies |-> TRUE, mask |-> mask, memo |-> left]
  BY DEF NarrowOperand, Narrowed
<1>2. mask = FillOperand(lhs)
  BY DEF TrueMemo, FilledMemo
<1> HIDE DEF mask
<1>3. \A x \in DOMAIN grown : \/ x = lhs /\ grown[x] = mask
                              \/ x \in DOMAIN m.operand /\ grown[x] = m.operand[x]
  BY DEF With
<1> HIDE DEF grown
<1>4. left.operand = grown
  BY DEF TrueMemo, FreshMemo, IsMemo
<1> HIDE DEF left
<1>5. FilledMemo(left)
  BY <1>2, <1>3, <1>4 DEF FilledMemo, TrueMemo
<1> QED  BY <1>1, <1>2, <1>5

LEMMA TrieAnswer ==
  ASSUME NEW m, NEW columns \in Seq(Spellings), TrueMemo(m, columns),
         NEW pos, pos.rule \in TrieRules, NEW prefix
  PROVE  LET trie   == FromNames(LegalNames(pos, columns))
             cursor == Walk(trie, Root, prefix)
             pass   == NarrowTrie(m, pos, prefix, columns)
         IN  /\ pass.applies = (cursor.outcome = "Stay")
             /\ pass.applies => pass.mask = FillTrie(trie, cursor.node, TrieKind(pos))
             /\ FilledMemo(pass.memo)
<1> DEFINE key    == CacheKey(pos, columns, FALSE)
           names  == LegalNames(pos, columns)
           entry  == RuleCache(m, key, names)
           cursor == Walk(entry.trie, Root, prefix)
           fill   == FillTrie(entry.trie, cursor.node, TrieKind(pos))
           mask   == IF cursor.node \in DOMAIN entry.masks THEN entry.masks[cursor.node]
                     ELSE fill
           filled == [entry EXCEPT !.masks = With(@, cursor.node, mask)]
           grown  == [m EXCEPT !.tries = With(@, key, filled)]
           kept   == [m EXCEPT !.tries = With(@, key, entry)]
           pass   == NarrowTrie(m, pos, prefix, columns)
<1>1. FreshEntry(key, entry, columns) /\ entry.trie = FromNames(names)
  BY RuleCacheFresh DEF TrueMemo
<1>2. /\ key.fused = FALSE /\ NamesAt(key, columns) = names
      /\ TrieKind(KeyPosition(key)) = TrieKind(pos)
  BY KeyNames
<1>3. names \in Seq(Spellings)
  BY LegalNamesType
<1>4. pass = IF cursor.outcome = "Stay" THEN [applies |-> TRUE, mask |-> mask, memo |-> grown]
             ELSE [applies |-> FALSE, mask |-> {}, memo |-> kept]
  BY DEF NarrowTrie, Narrowed, Unnarrowed
<1>5. grown.operand = m.operand /\ kept.operand = m.operand
  <2> HIDE DEF filled, entry, key
  <2> QED  BY DEF TrueMemo, FreshMemo, IsMemo
<1> HIDE DEF key, names, entry, cursor, grown, kept, pass
<1>6. mask = fill
  <2> DEFINE node == cursor.node
  <2>1. CASE node \in DOMAIN entry.masks
    <3>1. FreshMask(key, FromNames(names), ToSet(names), node, entry.masks[node])
      BY <1>1, <1>2, <2>1 DEF FreshEntry
    <3> HIDE DEF node
    <3>2. entry.masks[node] = FillTrie(FromNames(names), node, TrieKind(KeyPosition(key)))
      BY <1>2, <1>3, <3>1, FreshIsFilled
    <3> QED  BY <1>1, <1>2, <2>1, <3>2 DEF node
  <2>2. CASE node \notin DOMAIN entry.masks
    BY <2>2
  <2> QED  BY <2>1, <2>2
<1> HIDE DEF mask, fill
<1>7. pass.applies = (cursor.outcome = "Stay") /\ (pass.applies => pass.mask = fill)
  BY <1>4, <1>6
<1>8. pass.memo.operand = m.operand
  BY <1>4, <1>5
<1>9. FilledMemo(pass.memo)
  BY <1>8 DEF FilledMemo, TrueMemo
<1> QED  BY <1>1, <1>7, <1>9 DEF pass, cursor, fill, names

LEMMA FusedAnswer ==
  ASSUME NEW m, NEW columns \in Seq(Spellings), TrueMemo(m, columns),
         NEW pos, pos.rule = "None" \/ pos.rule \in TrieRules
  PROVE  LET trie == FromNames(LegalNames(pos, columns))
             pass == NarrowFusedInto(m, pos, columns)
         IN  /\ pass.applies = (pos.rule # "None")
             /\ pass.applies => pass.mask = FillFusedTrie(trie)
             /\ FilledMemo(pass.memo)
<1> DEFINE key    == CacheKey(pos, columns, TRUE)
           names  == LegalNames(pos, columns)
           entry  == RuleCache(m, key, names)
           mask   == IF Root \in DOMAIN entry.masks THEN entry.masks[Root]
                     ELSE FillFusedTrie(entry.trie)
           filled == [entry EXCEPT !.masks = With(@, Root, mask)]
           grown  == [m EXCEPT !.tries = With(@, key, filled)]
           pass   == NarrowFusedInto(m, pos, columns)
<1>1. pass = IF pos.rule = "None" THEN [applies |-> FALSE, mask |-> {}, memo |-> m]
             ELSE [applies |-> TRUE, mask |-> mask, memo |-> grown]
  BY DEF NarrowFusedInto, Narrowed, Unnarrowed
<1>0. grown.operand = m.operand
  <2> HIDE DEF filled, key
  <2> QED  BY DEF TrueMemo, FreshMemo, IsMemo
<1> HIDE DEF grown, pass
<1>2. CASE pos.rule = "None"
  <2>1. pass.applies = FALSE /\ pass.memo = m
    BY <1>1, <1>2
  <2> QED  BY <1>2, <2>1 DEF pass, TrueMemo
<1>3. CASE pos.rule # "None"
  <2>0. pos.rule \in TrieRules
    BY <1>3
  <2>1. FreshEntry(key, entry, columns) /\ entry.trie = FromNames(names)
    BY <2>0, RuleCacheFresh DEF TrueMemo
  <2>2. key.fused = TRUE /\ NamesAt(key, columns) = names
    BY <2>0, KeyNames
  <2>3. names \in Seq(Spellings)
    BY <2>0, LegalNamesType
  <2> HIDE DEF key, names, entry
  <2>4. mask = FillFusedTrie(FromNames(names))
    <3>1. CASE Root \in DOMAIN entry.masks
      <4>1. FreshMask(key, FromNames(names), ToSet(names), Root, entry.masks[Root])
        BY <2>1, <2>2, <3>1 DEF FreshEntry
      <4> QED  BY <2>2, <2>3, <3>1, <4>1, FreshIsFilled
    <3>2. CASE Root \notin DOMAIN entry.masks
      BY <2>1, <3>2
    <3> QED  BY <3>1, <3>2
  <2> HIDE DEF mask
  <2>5. pass.applies = TRUE /\ pass.mask = FillFusedTrie(FromNames(names))
        /\ pass.memo.operand = m.operand
    BY <1>0, <1>1, <1>3, <2>4
  <2>6. FilledMemo(pass.memo)
    BY <2>5 DEF FilledMemo, TrueMemo
  <2> QED  BY <1>3, <2>5, <2>6 DEF pass, names
<1> QED  BY <1>2, <1>3

LEMMA PassAnswer ==
  ASSUME NEW m, NEW n, NEW columns \in Seq(Spellings), TrueMemo(m, columns), TrueMemo(n, columns),
         NEW pos, IsPosition(pos), NEW prefix
  PROVE  /\ SameAnswer(NarrowInto(m, pos, prefix, columns), NarrowInto(n, pos, prefix, columns))
         /\ FilledMemo(NarrowInto(m, pos, prefix, columns).memo)
<1> DEFINE Pass(cache) == NarrowInto(cache, pos, prefix, columns)
<1>1. CASE pos.rule = "None" \/ pos.type \in {"Boolean", "Temporal"}
  <2>1. Pass(m) = Unnarrowed(m) /\ Pass(n) = Unnarrowed(n)
    BY <1>1 DEF NarrowInto, IsPosition, NoType
  <2> HIDE DEF Pass
  <2>2. Pass(m).applies = FALSE /\ Pass(n).applies = FALSE /\ Pass(m).memo = m
    BY <2>1 DEF Unnarrowed
  <2> QED  BY <2>2 DEF SameAnswer, TrueMemo, Pass
<1>2. CASE ~(pos.rule = "None" \/ pos.type \in {"Boolean", "Temporal"})
           /\ pos.type \in {"Numeric", "Str"}
  <2>1. Pass(m) = NarrowOperand(m, pos.type) /\ Pass(n) = NarrowOperand(n, pos.type)
    BY <1>2 DEF NarrowInto
  <2> HIDE DEF Pass
  <2>2. /\ Pass(m).applies /\ Pass(m).mask = FillOperand(pos.type) /\ FilledMemo(Pass(m).memo)
        /\ Pass(n).applies /\ Pass(n).mask = FillOperand(pos.type)
    BY <2>1, OperandAnswer
  <2>3. Pass(m).applies = TRUE /\ Pass(n).applies = TRUE
    BY <2>1 DEF NarrowOperand, Narrowed
  <2> QED  BY <2>2, <2>3 DEF SameAnswer, Pass
<1>3. CASE ~(pos.rule = "None" \/ pos.type \in {"Boolean", "Temporal"})
           /\ pos.type \notin {"Numeric", "Str"}
  <2> DEFINE trie == FromNames(LegalNames(pos, columns))
             cursor == Walk(trie, Root, prefix)
             fill == FillTrie(trie, cursor.node, TrieKind(pos))
             stays == cursor.outcome = "Stay"
  <2>1. Pass(m) = NarrowTrie(m, pos, prefix, columns) /\ Pass(n) = NarrowTrie(n, pos, prefix, columns)
    BY <1>3 DEF NarrowInto
  <2>2. pos.rule \in TrieRules
    BY <1>3 DEF IsPosition, TypeNames
  <2> HIDE DEF Pass
  <2>3. /\ Pass(m).applies = stays /\ (Pass(m).applies => Pass(m).mask = fill)
        /\ Pass(n).applies = stays /\ (Pass(n).applies => Pass(n).mask = fill)
        /\ FilledMemo(Pass(m).memo)
    BY <2>1, <2>2, TrieAnswer
  <2> HIDE DEF fill, stays
  <2>4. Pass(m).applies = Pass(n).applies /\ (Pass(m).applies => Pass(m).mask = Pass(n).mask)
    BY <2>3
  <2> QED  BY <2>3, <2>4 DEF SameAnswer, Pass
<1> QED  BY <1>1, <1>2, <1>3

LEMMA FusedSame ==
  ASSUME NEW m, NEW n, NEW columns \in Seq(Spellings), TrueMemo(m, columns), TrueMemo(n, columns),
         NEW pos, pos.rule = "None" \/ pos.rule \in TrieRules
  PROVE  /\ SameAnswer(NarrowFusedInto(m, pos, columns), NarrowFusedInto(n, pos, columns))
         /\ FilledMemo(NarrowFusedInto(m, pos, columns).memo)
<1> DEFINE one == NarrowFusedInto(m, pos, columns)
           other == NarrowFusedInto(n, pos, columns)
           fill == FillFusedTrie(FromNames(LegalNames(pos, columns)))
           rules == pos.rule # "None"
<1>1. /\ one.applies = rules /\ (one.applies => one.mask = fill)
      /\ other.applies = rules /\ (other.applies => other.mask = fill)
      /\ FilledMemo(one.memo)
  BY FusedAnswer
<1> HIDE DEF one, other, fill, rules
<1>2. one.applies = other.applies /\ (one.applies => one.mask = other.mask)
  BY <1>1
<1> QED  BY <1>1, <1>2 DEF SameAnswer, one, other

LEMMA SameIntersected ==
  ASSUME NEW mask, NEW one, NEW other, SameAnswer(one, other)
  PROVE  Intersected(mask, one).mask = Intersected(mask, other).mask
  BY DEF SameAnswer, Intersected

LEMMA OverlaySame ==
  ASSUME NEW t, NEW E, Emits(t, E), NEW m, TrueMemo(m, t.emitted_strings),
         NEW n, TrueMemo(n, t.emitted_strings), NEW l1, NEW p
  PROVE  /\ Overlay(l1, t, p, m).mask = Overlay(l1, t, p, n).mask
         /\ FilledMemo(Overlay(l1, t, p, m).memo)
<1> DEFINE columns == t.emitted_strings
           pos == PositionAt(t, p.state)
           prefix == NarrowPrefix(t)
           nav == FusedNavPosition(t)
           First(cache) == NarrowInto(cache, pos, prefix, columns)
           AtPosition(cache) == NarrowedAt(l1, t, p, cache)
           Fused(cache) == NarrowFusedInto(AtPosition(cache).memo, nav, columns)
<1>1. columns \in Seq(Spellings) /\ prefix \in Seq(Byte) /\ IsPosition(pos)
  BY PositionType DEF Emits, Grown, IsPending, NarrowPrefix
<1>2. nav.rule = "None" \/ nav.rule \in TrieRules
  BY FusedType DEF IsPosition
<1>3. \A cache : AtPosition(cache) = Intersected(l1, First(cache))
  BY DEF NarrowedAt
<1>4. \A cache : Overlay(l1, t, p, cache) = Intersected(AtPosition(cache).mask, Fused(cache))
  BY DEF Overlay, NarrowedFused
<1>5. TrueMemo(m, columns) /\ TrueMemo(n, columns)
  OBVIOUS
<1> HIDE DEF columns, pos, prefix, nav
<1>6. SameAnswer(First(m), First(n)) /\ FilledMemo(First(m).memo) /\ FilledMemo(First(n).memo)
  BY <1>1, <1>5, PassAnswer
<1>7. FreshMemo(First(m).memo, columns) /\ FreshMemo(First(n).memo, columns)
  BY <1>1, <1>5, PassFresh DEF TrueMemo
<1> HIDE DEF First, AtPosition
<1>8. AtPosition(m).memo = First(m).memo /\ AtPosition(n).memo = First(n).memo
  BY <1>3 DEF Intersected
<1>9. AtPosition(m).mask = AtPosition(n).mask
  BY <1>3, <1>6, SameIntersected
<1>10. TrueMemo(AtPosition(m).memo, columns) /\ TrueMemo(AtPosition(n).memo, columns)
  BY <1>6, <1>7, <1>8 DEF TrueMemo
<1>11. SameAnswer(Fused(m), Fused(n)) /\ FilledMemo(Fused(m).memo)
  BY <1>1, <1>2, <1>10, FusedSame
<1> HIDE DEF Fused
<1>12. Intersected(AtPosition(m).mask, Fused(m)).mask = Intersected(AtPosition(n).mask, Fused(n)).mask
  BY <1>9, <1>11, SameIntersected
<1>13. Intersected(AtPosition(m).mask, Fused(m)).memo = Fused(m).memo
  BY DEF Intersected
<1> QED  BY <1>4, <1>11, <1>12, <1>13

(***************************************************************************)
(* The inductive invariant: the answer out is the one of the position, and *)
(* everything memoised is what would be filled now.                        *)
(***************************************************************************)
AnswerInv ==
    /\ MemoInv
    /\ FilledMemo(memo)
    /\ MemoIsInvisible

LEMMA NextAnswer ==
  ASSUME AnswerInv, [Next]_vars
  PROVE  AnswerInv'
<1>1. MemoInv'
  BY NextMemo DEF AnswerInv
<1>2. CASE AllowedMask
  <2> DEFINE overlay == Overlay(L1Mask(pda), tracker, pda, memo)
             bare == Overlay(L1Mask(pda), tracker, pda, NoMemo)
  <2>1. answer' = Masked(overlay.mask) /\ memo' = overlay.memo
        /\ pda' = pda /\ tracker' = tracker
    BY <1>2 DEF AllowedMask, Answered
  <2>2. Emits(tracker, <<>>) /\ TrueMemo(memo, tracker.emitted_strings)
    BY DEF AnswerInv, MemoInv, TrueMemo
  <2>3. overlay.mask = bare.mask /\ FilledMemo(overlay.memo)
    BY <2>2, EmptyMemoIsTrue, OverlaySame
  <2>4. MaskOf([pda |-> pda, tracker |-> tracker]) = bare.mask
    BY DEF MaskOf
  <2> HIDE DEF overlay, bare
  <2>5. answer'.mask = overlay.mask
    BY <2>1 DEF Masked
  <2>6. MaskOf([pda |-> pda', tracker |-> tracker']) = bare.mask
    BY <2>1, <2>4
  <2>7. MemoIsInvisible'
    BY <2>3, <2>5, <2>6 DEF MemoIsInvisible
  <2>8. FilledMemo(memo')
    BY <2>1, <2>3
  <2> QED  BY <1>1, <2>7, <2>8 DEF AnswerInv, FilledMemo
<1>3. ASSUME answer' = NoAnswer, memo' \in {memo, NoMemo}
      PROVE  AnswerInv'
  <2>1. FilledMemo(memo')
    BY <1>3, EmptyMemoIsTrue DEF AnswerInv, TrueMemo
  <2>2. MemoIsInvisible'
    BY <1>3 DEF MemoIsInvisible, NoAnswer
  <2> QED  BY <1>1, <2>1, <2>2 DEF AnswerInv, FilledMemo
<1>4. ASSUME NEW id, Commit(id) PROVE AnswerInv'
  BY <1>3, <1>4 DEF Commit
<1>5. ASSUME NEW b, AcceptByte(b) PROVE AnswerInv'
  BY <1>3, <1>5 DEF AcceptByte
<1>6. ASSUME NEW query, Reset(query) PROVE AnswerInv'
  BY <1>3, <1>6 DEF Reset
<1>7. CASE UNCHANGED vars
  BY <1>1, <1>7 DEF vars, AnswerInv, FilledMemo, MemoIsInvisible, MaskOf
<1> QED  BY <1>2, <1>4, <1>5, <1>6, <1>7 DEF Next, AcceptToken, AcceptStray

(***************************************************************************)
(* A mask is a function of the automaton and of the scope machine alone:   *)
(* whatever was masked before, and whatever the memo kept of it, the host  *)
(* is answered as if the session remembered nothing (narrow.rs 64-121).    *)
(***************************************************************************)
THEOREM AnswerForgetsTheMemo == Spec => []MemoIsInvisible
<1>1. Init => AnswerInv
  <2> SUFFICES ASSUME Init PROVE AnswerInv
    OBVIOUS
  <2>1. MemoInv
    BY InitStream, StartMemo DEF Init, MemoInv
  <2>2. FilledMemo(memo)
    BY EmptyMemoIsTrue DEF Init, TrueMemo
  <2>3. MemoIsInvisible
    BY DEF Init, MemoIsInvisible, NoAnswer
  <2> QED  BY <2>1, <2>2, <2>3 DEF AnswerInv
<1>2. AnswerInv /\ [Next]_vars => AnswerInv'
  BY NextAnswer
<1>3. AnswerInv => MemoIsInvisible
  BY DEF AnswerInv
<1> QED  BY <1>1, <1>2, <1>3, PTL DEF Spec

-----------------------------------------------------------------------------
(***************************************************************************)
(* A token in two parts.  No handler touches the lexeme pending.           *)
(***************************************************************************)
KeepsPending(t, u) ==
    /\ DOMAIN u = DOMAIN t
    /\ u.pending = t.pending
    /\ IsFcn(t) => IsFcn(u)

LEMMA KeepsTwice ==
  ASSUME NEW t, NEW u, NEW v, KeepsPending(t, u), KeepsPending(u, v)
  PROVE  KeepsPending(t, v)
  BY DEF KeepsPending

LEMMA ArmedKeeps ==
  ASSUME NEW t, DOMAIN t = Fields, NEW lexeme
  PROVE  KeepsPending(t, Armed(t, lexeme))
  BY DEF KeepsPending, Armed, Fields, IsFcn

LEMMA ResolveKeeps ==
  ASSUME NEW t, DOMAIN t = Fields, NEW ident
  PROVE  KeepsPending(t, ResolveMember(t, ident))
  BY DEF KeepsPending, ResolveMember, Reached, Fields, IsFcn

LEMMA DotKeeps ==
  ASSUME NEW t, DOMAIN t = Fields
  PROVE  KeepsPending(t, OnDot(t)) /\ KeepsPending(t, OnArrow(t))
  BY DEF KeepsPending, OnDot, OnArrow, Fields, IsFcn

LEMMA OpenKeeps ==
  ASSUME NEW t, DOMAIN t = Fields, NEW pre
  PROVE  KeepsPending(t, OnOpen(t, pre))
<1> DEFINE u == OnOpen(t, pre)
           tilde == pre = "SawTilde"
           nested == t.last_ident = SOURCE_METHOD /\ t.depth + 1 >= NESTED_SOURCE_MIN_DEPTH
           est == IF t.last_ident \in ESTABLISHING_METHODS THEN Append(t.est_stack, t.depth + 1)
                  ELSE t.est_stack
           ref == IF t.last_ident \in REF_METHODS THEN Append(t.ref_stack, t.depth + 1)
                  ELSE t.ref_stack
           seen == (t.saw_tilde_bracket \/ tilde) /\ ~nested
           explicit == t.rel_explicit /\ ~nested
           opens == Append(t.tilde_open, tilde)
           receivers == Append(t.paren_receiver, TopOr(t.pending_arrow_receiver, t.cur_class))
           depth == t.depth + 1
<1>1. u = [t EXCEPT !.last_ident = None, !.depth = depth, !.tilde_open = opens,
                    !.est_stack = est, !.ref_stack = ref, !.saw_tilde_bracket = seen,
                    !.rel_explicit = explicit, !.paren_receiver = receivers,
                    !.pending_arrow_receiver = <<>>, !.lambda_first_ident = None]
  BY DEF OnOpen
<1> HIDE DEF u, est, ref, seen, explicit, opens, receivers, depth
<1>2. KeepsPending(t, u)
  BY <1>1 DEF KeepsPending, Fields, IsFcn
<1> QED  BY <1>2 DEF u

LEMMA IdentKeeps ==
  ASSUME NEW t, DOMAIN t = Fields, NEW text, NEW pre
  PROVE  KeepsPending(t, OnIdent(t, text, pre))
<1> DEFINE seen == IF HasClass(Schema, text) THEN [t EXCEPT !.cur_class = text] ELSE t
           resolved == ResolveMember(seen, text)
           referred == [seen EXCEPT !.pending_refvar = text]
           bound == [seen EXCEPT !.lambda_first_ident = text]
           used == CASE pre = "AfterDollar" -> referred
                     [] pre = "AfterDot"    -> resolved
                     [] \/ pre \in HubStates
                        \/ pre \in {"AfterColon", "AfterColonWs"} /\ ~HasClass(Schema, text)
                                            -> bound
                     [] OTHER               -> seen
           column == pre = "SawTilde" \/ InTildeBracket(t, pre)
           u == [used EXCEPT !.last_ident = text,
                             !.emitted_strings = IF column THEN Append(@, text) ELSE @]
<1>1. KeepsPending(t, seen)
  BY DEF KeepsPending, Fields, IsFcn
<1>2. DOMAIN seen = Fields
  BY <1>1 DEF KeepsPending
<1>3. OnIdent(t, text, pre) = u
  BY DEF OnIdent
<1> HIDE DEF seen, column
<1>4. KeepsPending(seen, seen) /\ KeepsPending(seen, referred) /\ KeepsPending(seen, bound)
  BY <1>2 DEF KeepsPending, Fields, IsFcn
<1>5. KeepsPending(seen, resolved)
  BY <1>2, ResolveKeeps
<1> HIDE DEF referred, bound, resolved
<1>6. used \in {seen, resolved, referred, bound}
  OBVIOUS
<1> HIDE DEF used
<1>7. KeepsPending(seen, used)
  BY <1>4, <1>5, <1>6
<1>8. DOMAIN used = Fields
  BY <1>2, <1>7 DEF KeepsPending
<1>9. KeepsPending(used, u)
  BY <1>8 DEF KeepsPending, Fields, IsFcn
<1> HIDE DEF u
<1> QED  BY <1>1, <1>3, <1>7, <1>9, KeepsTwice

LEMMA PipeKeeps ==
  ASSUME NEW t, DOMAIN t = Fields, NEW pre
  PROVE  KeepsPending(t, OnPipe(t, pre))
<1> DEFINE name == t.lambda_first_ident
           saved == [SaveScope(t) EXCEPT !.lambda_first_ident = None]
           kept == SaveBinder(saved, name)
<1>1. KeepsPending(t, t) /\ KeepsPending(t, saved)
  BY DEF KeepsPending, Fields, SaveScope, IsFcn
<1>2. DOMAIN saved = Fields
  BY <1>1 DEF KeepsPending
<1>3. OnPipe(t, pre) \in {t, saved, BindLambda(kept, name)}
  BY DEF OnPipe
<1> HIDE DEF saved, name
<1>4. KeepsPending(saved, kept)
  BY <1>2 DEF KeepsPending, Fields, SaveBinder, IsFcn
<1>5. DOMAIN kept = Fields
  BY <1>2, <1>4 DEF KeepsPending
<1> HIDE DEF kept
<1>6. KeepsPending(kept, BindLambda(kept, name))
  BY <1>5 DEF KeepsPending, Fields, BindLambda, IsFcn
<1>7. KeepsPending(t, BindLambda(kept, name))
  BY <1>1, <1>4, <1>6, KeepsTwice
<1> QED  BY <1>1, <1>3, <1>7

LEMMA CloseKeeps ==
  ASSUME NEW t, DOMAIN t = Fields
  PROVE  KeepsPending(t, OnClose(t))
<1> DEFINE bound == RestoreBinders(t)
           restored == RestoreScope(bound)
<1>1. KeepsPending(t, bound)
  BY DEF KeepsPending, Fields, RestoreBinders, IsFcn
<1>2. DOMAIN bound = Fields
  BY <1>1 DEF KeepsPending
<1>3. OnClose(t) = [restored EXCEPT
          !.tilde_open = OnClose(t).tilde_open, !.ref_stack = OnClose(t).ref_stack,
          !.est_stack = OnClose(t).est_stack, !.rel_explicit = OnClose(t).rel_explicit,
          !.cur_class = OnClose(t).cur_class, !.paren_receiver = OnClose(t).paren_receiver,
          !.depth = OnClose(t).depth, !.pending_arrow_receiver = OnClose(t).pending_arrow_receiver]
  <2>1. DOMAIN restored = Fields
    BY <1>2 DEF RestoreScope, Fields
  <2> HIDE DEF restored
  <2> QED  BY <2>1 DEF OnClose, Fields, restored, bound
<1> HIDE DEF bound
<1>4. KeepsPending(bound, restored)
  BY <1>2 DEF KeepsPending, Fields, RestoreScope, IsFcn
<1>5. DOMAIN restored = Fields
  BY <1>2, <1>4 DEF KeepsPending
<1> HIDE DEF restored
<1>6. KeepsPending(restored, OnClose(t))
  BY <1>3, <1>5 DEF KeepsPending, Fields, IsFcn
<1> QED  BY <1>1, <1>4, <1>6, KeepsTwice

LEMMA DispatchKeeps ==
  ASSUME NEW t, DOMAIN t = Fields, NEW bytes, NEW pre
  PROVE  KeepsPending(t, DispatchToken(t, bytes, pre))
<1> DEFINE lexeme == Classify(bytes)
           u == Armed(t, lexeme)
           comma == [u EXCEPT !.lambda_first_ident = None, !.last_ident = None]
           string == [u EXCEPT !.last_ident = None,
                               !.emitted_strings = Append(@, Unquote(bytes))]
           other == [u EXCEPT !.last_ident = None]
           handled == {u, OnIdent(u, bytes, pre), OnDot(u), OnArrow(u), OnPipe(u, pre),
                       OnOpen(u, pre), OnClose(u), comma, string, other}
<1>1. KeepsPending(t, u)
  BY ArmedKeeps
<1>2. DOMAIN u = Fields
  BY <1>1 DEF KeepsPending
<1>3. DispatchToken(t, bytes, pre) \in {t} \cup handled
  BY DEF DispatchToken
<1> HIDE DEF u
<1>4. KeepsPending(u, u) /\ KeepsPending(u, comma) /\ KeepsPending(u, string)
      /\ KeepsPending(u, other)
  BY <1>2 DEF KeepsPending, Fields, IsFcn
<1> HIDE DEF comma, string, other
<1>5. \A v \in handled : KeepsPending(u, v)
  BY <1>2, <1>4, IdentKeeps, DotKeeps, PipeKeeps, OpenKeeps, CloseKeeps
<1>6. KeepsPending(t, t)
  BY DEF KeepsPending
<1> HIDE DEF handled
<1> QED  BY <1>1, <1>3, <1>5, <1>6, KeepsTwice

LEMMA GapKeeps ==
  ASSUME NEW t, DOMAIN t = Fields, NEW seg \in SegType, NEW anchor
  PROVE  KeepsPending(t, DispatchGap(t, seg, anchor))
<1> DEFINE tokens == FlushGap(seg, anchor)
           N == Len(tokens)
<1>1. PICK after : GapTrace(after, t, tokens) /\ DispatchGap(t, seg, anchor) = after[N]
  BY GapRuns
<1> DEFINE G == {n \in 0 .. N : KeepsPending(t, after[n])}
<1> HIDE DEF tokens
<1>2. 0 \in G
  BY <1>1 DEF GapTrace, KeepsPending
<1>3. ASSUME NEW n \in 1 .. N, n - 1 \in G PROVE n \in G
  <2>1. KeepsPending(t, after[n - 1]) /\ DOMAIN after[n - 1] = Fields
    BY <1>3 DEF KeepsPending
  <2>2. after[n] = DispatchToken(after[n - 1], tokens[n].bytes, tokens[n].anchor)
    BY <1>1, <1>3 DEF GapTrace
  <2>3. KeepsPending(after[n - 1], after[n])
    BY <2>1, <2>2, DispatchKeeps
  <2>4. KeepsPending(t, after[n])
    BY <2>1, <2>3, KeepsTwice
  <2> QED  BY <1>1, <2>4 DEF GapTrace
<1>4. 0 .. N \subseteq G /\ N \in 0 .. N
  <2>1. N \in Nat
    BY <1>1 DEF GapTrace
  <2> HIDE DEF G, N
  <2> QED  BY <1>2, <1>3, <2>1, InductionUpTo
<1> QED  BY <1>1, <1>4

(***************************************************************************)
(* A lexeme pending is one the automaton is in; a cut that does not go on  *)
(* with it has none.                                                       *)
(***************************************************************************)
IsBuffer(x, kind) ==
    /\ DOMAIN x = {"kind", "buf", "anchor", "pos"}
    /\ x.buf \in Seq(Byte)
    /\ x.kind = kind /\ kind # NoLexKind

Owes(t) == IsFcn(t) /\ (t.pending = NoPending \/ \E kind : IsBuffer(t.pending, kind))

CutOwes(cut) ==
    /\ cut.continuing \in BOOLEAN
    /\ IsFcn(cut.scope)
    /\ cut.continuing => IsBuffer(cut.scope.pending, LexKind(cut.pda.state))
    /\ ~cut.continuing => cut.scope.pending = NoPending

LEMMA BufferIsPending ==
  ASSUME NEW x, NEW kind, IsBuffer(x, kind)
  PROVE  x # NoPending
<1>1. NoPending.kind = NoLexKind
  BY DEF NoPending
<1> QED  BY <1>1 DEF IsBuffer

LEMMA NewOwes == Owes(NewTracker)
<1>1. NewTracker.pending = NoPending
  BY DEF NewTracker
<1>2. IsFcn(NewTracker)
  BY DEF NewTracker, IsFcn
<1> QED  BY <1>1, <1>2 DEF Owes

LEMMA EmptiedKeeps ==
  ASSUME NEW t, DOMAIN t = Fields, NEW pending
  PROVE  LET u == [t EXCEPT !.pending = pending]
         IN  DOMAIN u = Fields /\ u.pending = pending /\ IsFcn(u)
  BY DEF Fields, IsFcn

LEMMA BeginOwes ==
  ASSUME NEW t, DOMAIN t = Fields, Owes(t), NEW p
  PROVE  CutOwes(BeginCut(t, p))
<1> DEFINE continuing == t.pending # NoPending /\ LexKind(p.state) = t.pending.kind
           anchor == IF continuing THEN t.pending.anchor ELSE p.state
           emptied == [t EXCEPT !.pending = NoPending]
           flushed == DispatchToken(emptied, t.pending.buf, t.pending.anchor)
           scope == IF ~continuing /\ t.pending # NoPending THEN flushed ELSE t
           none == <<>>
           cut == BeginCut(t, p)
<1>1. cut = [pda |-> p, seg |-> none, continuing |-> continuing, anchor |-> anchor,
             scope |-> scope]
  BY DEF BeginCut
<1>2. DOMAIN emptied = Fields /\ emptied.pending = NoPending /\ IsFcn(emptied)
  BY EmptiedKeeps
<1> HIDE DEF emptied
<1>3. flushed.pending = NoPending /\ IsFcn(flushed)
  BY <1>2, DispatchKeeps DEF KeepsPending
<1> HIDE DEF flushed, anchor, none, cut
<1>4. CASE continuing
  <2>1. cut.continuing = TRUE /\ cut.scope = t /\ cut.pda = p
    BY <1>1, <1>4
  <2>2. IsBuffer(t.pending, LexKind(p.state))
    BY <1>4 DEF Owes, IsBuffer
  <2> QED  BY <2>1, <2>2 DEF CutOwes, Owes, cut
<1>5. CASE ~continuing
  <2>1. cut.continuing = FALSE /\ cut.scope = IF t.pending # NoPending THEN flushed ELSE t
    BY <1>1, <1>5
  <2> QED  BY <1>3, <2>1 DEF CutOwes, Owes, cut
<1> QED  BY <1>4, <1>5

Cut(p, seg, continuing, anchor, scope) ==
    [pda |-> p, seg |-> seg, continuing |-> continuing, anchor |-> anchor, scope |-> scope]

LEMMA CutFields ==
  ASSUME NEW p, NEW seg, NEW continuing, NEW anchor, NEW scope
  PROVE  LET cut == Cut(p, seg, continuing, anchor, scope)
         IN  /\ cut.pda = p /\ cut.seg = seg /\ cut.continuing = continuing
             /\ cut.anchor = anchor /\ cut.scope = scope
  BY DEF Cut

LEMMA CutOfFields ==
  ASSUME NEW cut, IsFcn(cut), DOMAIN cut = {"pda", "seg", "continuing", "anchor", "scope"}
  PROVE  cut = Cut(cut.pda, cut.seg, cut.continuing, cut.anchor, cut.scope)
<1> DEFINE Fld == {"pda", "seg", "continuing", "anchor", "scope"}
           other == Cut(cut.pda, cut.seg, cut.continuing, cut.anchor, cut.scope)
<1>1. DOMAIN other = Fld /\ \A x \in Fld : other[x] = cut[x]
  BY DEF Cut
<1>2. other = [x \in Fld |-> other[x]]
  BY DEF Cut
<1>3. cut = [x \in Fld |-> cut[x]]
  BY DEF IsFcn
<1> HIDE DEF other, Fld
<1> QED  BY <1>1, <1>2, <1>3 DEF other

\* What a byte does to a cut.
LEMMA CutSteps ==
  ASSUME NEW cut, GoodCut(cut), NEW b
  PROVE  LET next == Advance(cut.pda, b)
             byte == Read(b, cut.pda.state)
         IN  /\ LexKind(cut.pda.state) = LexKind(next.state)
                  => CutByte(cut, b) = Cut(next, Append(cut.seg, byte), cut.continuing,
                                           cut.anchor, cut.scope)
             /\ LexKind(cut.pda.state) # LexKind(next.state)
                  => CutByte(cut, b) = Cut(next, <<byte>>, FALSE, cut.pda.state,
                       IF LexKind(cut.pda.state) # NoLexKind THEN EmitLexeme(cut)
                       ELSE DispatchGap(cut.scope, cut.seg, cut.anchor))
<1> DEFINE byte == Read(b, cut.pda.state)
           next == Advance(cut.pda, b)
           more == Append(cut.seg, byte)
           one == <<byte>>
           before == LexKind(cut.pda.state)
           after == LexKind(next.state)
           moved == [cut EXCEPT !.pda = next, !.seg = more]
           opened == [moved EXCEPT !.seg = one, !.anchor = cut.pda.state,
                                   !.continuing = FALSE]
           emit == EmitLexeme(cut)
           gap == DispatchGap(cut.scope, cut.seg, cut.anchor)
<1>1. CutByte(cut, b) = CASE before = after -> moved
                          [] before # after /\ before # NoLexKind -> [opened EXCEPT !.scope = emit]
                          [] OTHER -> [opened EXCEPT !.scope = gap]
  BY DEF CutByte, CutBefore
<1>2. DOMAIN cut = {"pda", "seg", "continuing", "anchor", "scope"}
  BY DEF GoodCut
<1> HIDE DEF byte, next, more, one, before, after, emit, gap
<1>3. moved = Cut(next, more, cut.continuing, cut.anchor, cut.scope)
  <2>1. /\ IsFcn(moved) /\ DOMAIN moved = DOMAIN cut /\ moved.pda = next /\ moved.seg = more
        /\ moved.continuing = cut.continuing /\ moved.anchor = cut.anchor
        /\ moved.scope = cut.scope
    BY <1>2 DEF IsFcn
  <2> HIDE DEF moved
  <2>2. moved = Cut(moved.pda, moved.seg, moved.continuing, moved.anchor, moved.scope)
    BY <1>2, <2>1, CutOfFields
  <2> QED  BY <2>1, <2>2
<1>4. ASSUME NEW scope
      PROVE  [opened EXCEPT !.scope = scope] = Cut(next, one, FALSE, cut.pda.state, scope)
  <2> DEFINE to == [opened EXCEPT !.scope = scope]
  <2>1. /\ IsFcn(to) /\ DOMAIN to = DOMAIN cut /\ to.pda = next /\ to.seg = one
        /\ to.continuing = FALSE /\ to.anchor = cut.pda.state /\ to.scope = scope
    BY <1>2 DEF IsFcn
  <2> HIDE DEF to
  <2>2. to = Cut(to.pda, to.seg, to.continuing, to.anchor, to.scope)
    BY <1>2, <2>1, CutOfFields
  <2> QED  BY <2>1, <2>2 DEF to
<1> HIDE DEF moved, opened
<1> QED  BY <1>1, <1>3, <1>4 DEF next, byte, more, one, before, after, emit, gap

LEMMA EmitOwes ==
  ASSUME NEW cut, GoodCut(cut), CutOwes(cut)
  PROVE  EmitLexeme(cut).pending = NoPending /\ IsFcn(EmitLexeme(cut))
<1> DEFINE t == cut.scope
           emptied == [t EXCEPT !.pending = NoPending]
           whole == t.pending.buf \o BytesOf(cut.seg)
<1>1. DOMAIN t = Fields
  BY DEF GoodCut, GoodTracker
<1>2. DOMAIN emptied = Fields /\ emptied.pending = NoPending /\ IsFcn(emptied)
  BY <1>1, EmptiedKeeps
<1>3. EmitLexeme(cut) = IF cut.continuing THEN DispatchToken(emptied, whole, t.pending.anchor)
                        ELSE DispatchToken(t, BytesOf(cut.seg), cut.anchor)
  BY DEF EmitLexeme
<1> HIDE DEF emptied, whole
<1>4. CASE cut.continuing
  BY <1>2, <1>3, <1>4, DispatchKeeps DEF KeepsPending
<1>5. CASE ~cut.continuing
  <2>1. t.pending = NoPending /\ IsFcn(t)
    BY <1>5 DEF CutOwes
  <2> HIDE DEF t
  <2> QED  BY <1>1, <1>3, <1>5, <2>1, DispatchKeeps DEF KeepsPending
<1> QED  BY <1>4, <1>5

LEMMA ByteOwes ==
  ASSUME NEW cut, GoodCut(cut), CutOwes(cut), NEW b
  PROVE  CutOwes(CutByte(cut, b))
<1> DEFINE next == Advance(cut.pda, b)
           byte == Read(b, cut.pda.state)
           gap == DispatchGap(cut.scope, cut.seg, cut.anchor)
           scope == IF LexKind(cut.pda.state) # NoLexKind THEN EmitLexeme(cut) ELSE gap
           to == CutByte(cut, b)
<1>1. CASE LexKind(cut.pda.state) = LexKind(next.state)
  <2>1. to = Cut(next, Append(cut.seg, byte), cut.continuing, cut.anchor, cut.scope)
    BY <1>1, CutSteps
  <2> HIDE DEF to, next
  <2>2. to.continuing = cut.continuing /\ to.scope = cut.scope /\ to.pda = next
    BY <2>1, CutFields
  <2>3. CutOwes(to)
    BY <1>1, <2>2 DEF CutOwes
  <2> QED  BY <2>3 DEF to
<1>2. CASE LexKind(cut.pda.state) # LexKind(next.state)
  <2> DEFINE one == <<byte>>
  <2>1. to = Cut(next, one, FALSE, cut.pda.state, scope)
    BY <1>2, CutSteps
  <2>2. scope.pending = NoPending /\ IsFcn(scope)
    <3>1. CASE LexKind(cut.pda.state) # NoLexKind
      BY <3>1, EmitOwes
    <3>2. CASE LexKind(cut.pda.state) = NoLexKind
      <4>1. ~cut.continuing
        BY <3>2 DEF CutOwes, IsBuffer
      <4>2. cut.scope.pending = NoPending /\ IsFcn(cut.scope)
        BY <4>1 DEF CutOwes
      <4>3. DOMAIN cut.scope = Fields /\ cut.seg \in SegType
        BY DEF GoodCut, GoodTracker
      <4>4. KeepsPending(cut.scope, gap)
        BY <4>3, GapKeeps
      <4> HIDE DEF gap
      <4> QED  BY <3>2, <4>2, <4>4 DEF KeepsPending
    <3> QED  BY <3>1, <3>2
  <2> HIDE DEF to, next, one, scope
  <2>3. to.continuing = FALSE /\ to.scope = scope
    BY <2>1 DEF Cut
  <2>4. CutOwes(to)
    BY <2>2, <2>3 DEF CutOwes
  <2> QED  BY <2>4 DEF to
<1> QED  BY <1>1, <1>2

\* What a cut that ends inside a lexeme leaves.
LEMMA BufferLeft ==
  ASSUME NEW cut, GoodCut(cut), CutOwes(cut), LexKind(cut.pda.state) # NoLexKind
  PROVE  LET t == EndCut(cut)
             kind == LexKind(cut.pda.state)
             opening == OpeningPosition(cut.scope, cut.anchor)
         IN  /\ DOMAIN t = Fields /\ IsFcn(t)
             /\ IsBuffer(t.pending, kind)
             /\ t = [cut.scope EXCEPT !.pending = t.pending]
             /\ IF cut.continuing
                THEN t.pending = [cut.scope.pending EXCEPT !.buf = @ \o BytesOf(cut.seg)]
                ELSE t.pending = [kind |-> kind, buf |-> BytesOf(cut.seg), anchor |-> cut.anchor,
                       pos |-> IF opening.rule = "ReValue" THEN NoPosition ELSE opening]
<1> DEFINE kind == LexKind(cut.pda.state)
           opening == OpeningPosition(cut.scope, cut.anchor)
           pos == IF opening.rule = "ReValue" THEN NoPosition ELSE opening
           scope == cut.scope
           tail == BytesOf(cut.seg)
           longer == [scope.pending EXCEPT !.buf = @ \o tail]
           begun == [kind |-> kind, buf |-> tail, anchor |-> cut.anchor, pos |-> pos]
           t == EndCut(cut)
<1>1. t = IF cut.continuing THEN [scope EXCEPT !.pending.buf = @ \o tail]
          ELSE [scope EXCEPT !.pending = begun]
  BY DEF EndCut, BufferTrailing
<1>2. DOMAIN scope = Fields /\ tail \in Seq(Byte)
  BY BytesOfType DEF GoodCut, GoodTracker
<1>3. CASE cut.continuing
  <2>1. IsBuffer(scope.pending, kind)
    BY <1>3 DEF CutOwes
  <2> HIDE DEF scope, tail, kind, t
  <2>2. t = [scope EXCEPT !.pending = longer]
    BY <1>1, <1>2, <1>3 DEF Fields
  <2>3. scope.pending.buf \o tail \in Seq(Byte)
    BY <1>2, <2>1 DEF IsBuffer
  <2>4. IsBuffer(longer, kind)
    <3>1. /\ DOMAIN longer = DOMAIN scope.pending /\ longer.kind = scope.pending.kind
          /\ longer.buf = scope.pending.buf \o tail
      BY <2>1 DEF IsBuffer
    <3> HIDE DEF longer
    <3> QED  BY <2>1, <2>3, <3>1 DEF IsBuffer
  <2> HIDE DEF longer
  <2>5. t.pending = longer /\ DOMAIN t = Fields /\ IsFcn(t)
    BY <1>2, <2>2, EmptiedKeeps
  <2>6. t = [scope EXCEPT !.pending = t.pending]
    BY <2>2, <2>5
  <2> QED  BY <1>3, <2>4, <2>5, <2>6 DEF t, longer, tail, kind, scope
<1>4. CASE ~cut.continuing
  <2>1. t = [scope EXCEPT !.pending = begun]
    BY <1>1, <1>4
  <2> HIDE DEF scope, tail, kind, pos, t
  <2>2. IsBuffer(begun, kind)
    BY <1>2 DEF IsBuffer, kind
  <2> HIDE DEF begun
  <2>3. t.pending = begun /\ DOMAIN t = Fields /\ IsFcn(t)
    BY <1>2, <2>1, EmptiedKeeps
  <2>4. t = [scope EXCEPT !.pending = t.pending]
    BY <2>1, <2>3
  <2> QED  BY <1>4, <2>2, <2>3, <2>4 DEF t, begun, pos, tail, kind, scope
<1> QED  BY <1>3, <1>4

LEMMA EndOwes ==
  ASSUME NEW cut, GoodCut(cut), CutOwes(cut)
  PROVE  Owes(EndCut(cut))
<1>1. CASE LexKind(cut.pda.state) # NoLexKind
  <2>1. IsFcn(EndCut(cut)) /\ IsBuffer(EndCut(cut).pending, LexKind(cut.pda.state))
    BY <1>1, BufferLeft
  <2> QED  BY <2>1 DEF Owes
<1>2. CASE LexKind(cut.pda.state) = NoLexKind
  <2> DEFINE gap == DispatchGap(cut.scope, cut.seg, cut.anchor)
  <2>1. cut.scope.pending = NoPending /\ IsFcn(cut.scope)
    BY <1>2 DEF CutOwes, IsBuffer
  <2>2. DOMAIN cut.scope = Fields /\ cut.seg \in SegType
    BY DEF GoodCut, GoodTracker
  <2>3. KeepsPending(cut.scope, gap)
    BY <2>2, GapKeeps
  <2>4. EndCut(cut) = gap
    BY <1>2 DEF EndCut
  <2> HIDE DEF gap
  <2> QED  BY <2>1, <2>3, <2>4 DEF KeepsPending, Owes
<1> QED  BY <1>1, <1>2

(***************************************************************************)
(* Where the fragment ends, and where the next one begins.                 *)
(***************************************************************************)
LEMMA FragmentBegins ==
  ASSUME NEW w, GoodCut(w), CutOwes(w), LexKind(w.pda.state) # NoLexKind
  PROVE  LET t   == EndCut(w)
             cut == BeginCut(t, w.pda)
         IN  /\ cut.continuing = TRUE /\ cut.pda = w.pda /\ cut.scope = t
             /\ cut.seg = <<>>
<1> DEFINE t == EndCut(w)
           cut == BeginCut(t, w.pda)
           continuing == t.pending # NoPending /\ LexKind(w.pda.state) = t.pending.kind
           anchor == IF continuing THEN t.pending.anchor ELSE w.pda.state
           flushed == DispatchToken([t EXCEPT !.pending = NoPending], t.pending.buf,
                                    t.pending.anchor)
           scope == IF ~continuing /\ t.pending # NoPending THEN flushed ELSE t
           none == <<>>
<1>1. cut = Cut(w.pda, none, continuing, anchor, scope)
  BY DEF BeginCut, Cut
<1>2. IsBuffer(t.pending, LexKind(w.pda.state))
  BY BufferLeft
<1> HIDE DEF t, cut, none, anchor, flushed
<1>3. continuing
  BY <1>2, BufferIsPending DEF IsBuffer
<1>4. scope = t /\ (continuing = TRUE)
  BY <1>3
<1> HIDE DEF continuing, scope
<1>5. /\ cut.continuing = TRUE /\ cut.pda = w.pda /\ cut.scope = t
      /\ cut.seg = none
  BY <1>1, <1>4 DEF Cut
<1> QED  BY <1>5 DEF cut, t, none

(***************************************************************************)
(* l is a cut of the second part, w the cut of the whole token there, and  *)
(* w0 the one where the first part ended: l holds in the buffer what w     *)
(* still holds in its segment, until the lexeme closes.                    *)
(***************************************************************************)
Joining(l, w, w0) ==
    /\ l.continuing = TRUE
    /\ l.pda = w.pda
    /\ LexKind(w.pda.state) = LexKind(w0.pda.state)
    /\ w.continuing = w0.continuing
    /\ w.anchor = w0.anchor
    /\ w.scope = w0.scope
    /\ l.scope = EndCut(w0)
    /\ BytesOf(w.seg) = BytesOf(w0.seg) \o BytesOf(l.seg)

FromLexeme(w) == GoodCut(w) /\ CutOwes(w) /\ LexKind(w.pda.state) # NoLexKind

\* The lexeme in hand, taken out of the cut.
Taken(cut) == IF cut.continuing THEN [cut.scope EXCEPT !.pending = NoPending] ELSE cut.scope

HeldBytes(cut) == IF cut.continuing THEN cut.scope.pending.buf \o BytesOf(cut.seg)
                  ELSE BytesOf(cut.seg)

HeldAnchor(cut) == IF cut.continuing THEN cut.scope.pending.anchor ELSE cut.anchor

LEMMA EmitTaken ==
  ASSUME NEW cut
  PROVE  EmitLexeme(cut) = DispatchToken(Taken(cut), HeldBytes(cut), HeldAnchor(cut))
  BY DEF EmitLexeme, Taken, HeldBytes, HeldAnchor

\* What the buffer of a fragment holds.
LEMMA HeldInBuffer ==
  ASSUME NEW w, FromLexeme(w)
  PROVE  LET t == EndCut(w)
         IN  /\ [t EXCEPT !.pending = NoPending] = Taken(w)
             /\ t.pending.buf = HeldBytes(w)
             /\ t.pending.anchor = HeldAnchor(w)
<1> DEFINE t == EndCut(w)
           s == w.scope
           tail == BytesOf(w.seg)
           opening == OpeningPosition(s, w.anchor)
           pos == IF opening.rule = "ReValue" THEN NoPosition ELSE opening
           kind == LexKind(w.pda.state)
<1>1. /\ t = [s EXCEPT !.pending = t.pending]
      /\ IF w.continuing THEN t.pending = [s.pending EXCEPT !.buf = @ \o tail]
         ELSE t.pending = [kind |-> kind, buf |-> tail, anchor |-> w.anchor, pos |-> pos]
  BY BufferLeft DEF FromLexeme
<1>2. DOMAIN s = Fields
  BY DEF FromLexeme, GoodCut, GoodTracker
<1> HIDE DEF t, s, tail, pos, kind
<1>3. [t EXCEPT !.pending = NoPending] = [s EXCEPT !.pending = NoPending]
  <2> DEFINE x == t.pending
  <2>1. t = [s EXCEPT !.pending = x]
    BY <1>1
  <2> HIDE DEF x
  <2> QED  BY <1>2, <2>1 DEF Fields
<1>4. CASE w.continuing
  <2>1. IsBuffer(s.pending, kind)
    BY <1>4 DEF FromLexeme, CutOwes, s, kind
  <2>2. t.pending.buf = s.pending.buf \o tail /\ t.pending.anchor = s.pending.anchor
    BY <1>1, <1>4, <2>1 DEF IsBuffer
  <2> QED  BY <1>3, <1>4, <2>2 DEF t, s, tail, Taken, HeldBytes, HeldAnchor
<1>5. CASE ~w.continuing
  <2>1. s.pending = NoPending /\ IsFcn(s)
    BY <1>5 DEF FromLexeme, CutOwes, s
  <2>2. [s EXCEPT !.pending = NoPending] = s
    BY <1>2, <2>1 DEF IsFcn, Fields
  <2>3. t.pending.buf = tail /\ t.pending.anchor = w.anchor
    BY <1>1, <1>5
  <2> QED  BY <1>3, <1>5, <2>2, <2>3 DEF t, s, tail, Taken, HeldBytes, HeldAnchor
<1> QED  BY <1>4, <1>5

LEMMA HeldAlike ==
  ASSUME NEW l, NEW w, NEW w0, FromLexeme(w0), GoodCut(l), GoodCut(w), Joining(l, w, w0)
  PROVE  /\ Taken(l) = Taken(w) /\ HeldAnchor(l) = HeldAnchor(w)
         /\ HeldBytes(l) = HeldBytes(w)
<1> DEFINE t == EndCut(w0)
           B == BytesOf(w0.seg)
           L == BytesOf(l.seg)
<1>1. /\ [t EXCEPT !.pending = NoPending] = Taken(w0)
      /\ t.pending.buf = HeldBytes(w0)
      /\ t.pending.anchor = HeldAnchor(w0)
  BY HeldInBuffer
<1>2. B \in Seq(Byte) /\ L \in Seq(Byte)
  BY BytesOfType DEF GoodCut, FromLexeme
<1>3. /\ l.continuing = TRUE /\ w.continuing = w0.continuing /\ w.anchor = w0.anchor
      /\ w.scope = w0.scope /\ l.scope = t /\ BytesOf(w.seg) = B \o L
  BY DEF Joining
<1> HIDE DEF t, B, L
<1>4. Taken(l) = Taken(w) /\ HeldAnchor(l) = HeldAnchor(w)
  BY <1>1, <1>3 DEF Taken, HeldAnchor
<1>5. HeldBytes(l) = HeldBytes(w0) \o L
  BY <1>1, <1>3 DEF HeldBytes, L
<1>6. HeldBytes(w) = HeldBytes(w0) \o L
  <2>1. CASE w0.continuing
    <3> DEFINE buf == w0.scope.pending.buf
    <3>1. buf \in Seq(Byte)
      BY <2>1 DEF FromLexeme, CutOwes, IsBuffer
    <3>2. HeldBytes(w) = buf \o (B \o L) /\ HeldBytes(w0) = buf \o B
      BY <1>3, <2>1 DEF HeldBytes, B
    <3> HIDE DEF buf
    <3>3. (buf \o B) \o L = buf \o (B \o L)
      BY <1>2, <3>1
    <3> QED  BY <3>2, <3>3
  <2>2. CASE ~w0.continuing
    BY <1>3, <2>2 DEF HeldBytes, B
  <2> QED  BY <2>1, <2>2
<1> QED  BY <1>4, <1>5, <1>6

LEMMA EndAlike ==
  ASSUME NEW l, NEW w, NEW w0, FromLexeme(w0), GoodCut(l), GoodCut(w),
         CutOwes(l), CutOwes(w), Joining(l, w, w0)
  PROVE  EndCut(l) = EndCut(w)
<1> DEFINE s == w0.scope
           t == EndCut(w0)
           B == BytesOf(w0.seg)
           L == BytesOf(l.seg)
           opening == OpeningPosition(s, w0.anchor)
           pos == IF opening.rule = "ReValue" THEN NoPosition ELSE opening
           kind == LexKind(w0.pda.state)
           e1 == EndCut(l)
           e2 == EndCut(w)
<1>1. /\ t = [s EXCEPT !.pending = t.pending]
      /\ IF w0.continuing THEN t.pending = [s.pending EXCEPT !.buf = @ \o B]
         ELSE t.pending = [kind |-> kind, buf |-> B, anchor |-> w0.anchor, pos |-> pos]
  BY BufferLeft DEF FromLexeme
<1>2. B \in Seq(Byte) /\ L \in Seq(Byte)
  BY BytesOfType DEF GoodCut, FromLexeme
<1>3. /\ l.continuing = TRUE /\ w.continuing = w0.continuing /\ w.anchor = w0.anchor
      /\ w.scope = s /\ l.scope = t /\ BytesOf(w.seg) = B \o L
      /\ LexKind(l.pda.state) = kind /\ LexKind(w.pda.state) = kind /\ kind # NoLexKind
  BY DEF Joining, FromLexeme
<1>4. e1 = [t EXCEPT !.pending = e1.pending] /\ e1.pending = [t.pending EXCEPT !.buf = @ \o L]
  BY <1>3, BufferLeft
<1>5. /\ e2 = [s EXCEPT !.pending = e2.pending]
      /\ IF w0.continuing THEN e2.pending = [s.pending EXCEPT !.buf = @ \o (B \o L)]
         ELSE e2.pending = [kind |-> kind, buf |-> B \o L, anchor |-> w0.anchor, pos |-> pos]
  <2> DEFINE opening2 == OpeningPosition(w.scope, w.anchor)
             pos2 == IF opening2.rule = "ReValue" THEN NoPosition ELSE opening2
             tail == BytesOf(w.seg)
  <2>1. LexKind(w.pda.state) # NoLexKind
    BY <1>3
  <2>2. /\ e2 = [w.scope EXCEPT !.pending = e2.pending]
        /\ IF w.continuing THEN e2.pending = [w.scope.pending EXCEPT !.buf = @ \o tail]
           ELSE e2.pending = [kind |-> LexKind(w.pda.state), buf |-> tail,
                              anchor |-> w.anchor, pos |-> pos2]
    BY <2>1, BufferLeft
  <2>3. pos2 = pos /\ tail = B \o L /\ w.scope = s /\ w.anchor = w0.anchor
        /\ LexKind(w.pda.state) = kind /\ w.continuing = w0.continuing
    BY <1>3
  <2> HIDE DEF e2, pos2, tail, pos, kind, s, B, L
  <2> QED  BY <2>2, <2>3
<1>6. DOMAIN s = Fields
  BY DEF FromLexeme, GoodCut, GoodTracker
<1>7. w0.continuing => IsBuffer(s.pending, kind)
  BY DEF FromLexeme, CutOwes
<1> HIDE DEF s, t, B, L, pos, kind, e1, e2
<1>8. e1.pending = e2.pending
  <2>1. CASE w0.continuing
    <3> DEFINE f == s.pending
               buf == f.buf
    <3>1. buf \in Seq(Byte) /\ "buf" \in DOMAIN f
      BY <1>7, <2>1 DEF IsBuffer
    <3>2. e1.pending = [[f EXCEPT !.buf = buf \o B] EXCEPT !.buf = @ \o L]
      BY <1>1, <1>4, <2>1
    <3>3. e2.pending = [f EXCEPT !.buf = buf \o (B \o L)]
      BY <1>5, <2>1
    <3> HIDE DEF buf, f
    <3>4. (buf \o B) \o L = buf \o (B \o L)
      BY <1>2, <3>1
    <3> QED  BY <3>1, <3>2, <3>3, <3>4
  <2>2. CASE ~w0.continuing
    <3> DEFINE x == t.pending
               anchor == w0.anchor
               y == e1.pending
               z == e2.pending
               BL == B \o L
    <3>1. x = [kind |-> kind, buf |-> B, anchor |-> anchor, pos |-> pos]
      BY <1>1, <2>2
    <3>2. y = [x EXCEPT !.buf = x.buf \o L]
      BY <1>4
    <3>3. z = [kind |-> kind, buf |-> BL, anchor |-> anchor, pos |-> pos]
      BY <1>5, <2>2
    <3> HIDE DEF x, y, z, anchor
    <3>4. x.buf \o L = BL
      BY <3>1
    <3> HIDE DEF BL
    <3>5. y = [x EXCEPT !.buf = BL]
      BY <3>2, <3>4
    <3>6. y = z
      BY <3>1, <3>3, <3>5
    <3> QED  BY <3>6 DEF y, z
  <2> QED  BY <2>1, <2>2
<1>9. e1 = [s EXCEPT !.pending = e1.pending]
  <2> DEFINE x == t.pending
             y == e1.pending
  <2>1. t = [s EXCEPT !.pending = x] /\ e1 = [t EXCEPT !.pending = y]
    BY <1>1, <1>4
  <2> HIDE DEF x, y
  <2>2. e1 = [s EXCEPT !.pending = y]
    BY <1>6, <2>1 DEF Fields
  <2> QED  BY <2>2 DEF y
<1> QED  BY <1>5, <1>8, <1>9 DEF e1, e2

LEMMA JoiningSteps ==
  ASSUME NEW l, NEW w, NEW w0, FromLexeme(w0), GoodCut(l), GoodCut(w),
         l.pda \in PdaType, Joining(l, w, w0), NEW b \in Byte
  PROVE  LET l1 == CutByte(l, b)
             w1 == CutByte(w, b)
         IN  l1 = w1 \/ Joining(l1, w1, w0)
<1> DEFINE l1 == CutByte(l, b)
           w1 == CutByte(w, b)
           next == Advance(l.pda, b)
           byte == Read(b, l.pda.state)
           one == <<byte>>
           kind == LexKind(w0.pda.state)
           morel == Append(l.seg, byte)
           morew == Append(w.seg, byte)
<1>1. /\ l.continuing = TRUE /\ l.pda = w.pda /\ LexKind(w.pda.state) = kind
      /\ w.continuing = w0.continuing /\ w.anchor = w0.anchor /\ w.scope = w0.scope
      /\ l.scope = EndCut(w0) /\ BytesOf(w.seg) = BytesOf(w0.seg) \o BytesOf(l.seg)
      /\ kind # NoLexKind
  BY DEF Joining, FromLexeme
<1>2. CASE LexKind(next.state) = kind
  <2>1. /\ l1 = Cut(next, morel, l.continuing, l.anchor, l.scope)
        /\ w1 = Cut(next, morew, w.continuing, w.anchor, w.scope)
    BY <1>1, <1>2, CutSteps
  <2>2. BytesOf(morel) = Append(BytesOf(l.seg), b) /\ BytesOf(morew) = Append(BytesOf(w.seg), b)
    BY <1>1, BytesOfAppend DEF GoodCut, PdaType
  <2>3. BytesOf(w0.seg) \in Seq(Byte) /\ BytesOf(l.seg) \in Seq(Byte)
    BY BytesOfType DEF GoodCut, FromLexeme
  <2>4. BytesOf(morew) = BytesOf(w0.seg) \o BytesOf(morel)
    <3> DEFINE B == BytesOf(w0.seg)
               L == BytesOf(l.seg)
    <3>1. BytesOf(morew) = Append(B \o L, b) /\ BytesOf(morel) = Append(L, b)
      BY <1>1, <2>2
    <3>2. B \in Seq(Byte) /\ L \in Seq(Byte)
      BY <2>3
    <3> HIDE DEF B, L, morew, morel
    <3>3. Append(B \o L, b) = B \o Append(L, b)
      BY <3>2
    <3> QED  BY <3>1, <3>3 DEF B
  <2> HIDE DEF l1, w1, morel, morew, next
  <2>5. /\ l1.pda = next /\ l1.seg = morel /\ l1.continuing = l.continuing
        /\ l1.scope = l.scope
    BY <2>1, CutFields
  <2>6. /\ w1.pda = next /\ w1.seg = morew /\ w1.continuing = w.continuing
        /\ w1.anchor = w.anchor /\ w1.scope = w.scope
    BY <2>1, CutFields
  <2>7. Joining(l1, w1, w0)
    BY <1>1, <1>2, <2>4, <2>5, <2>6 DEF Joining
  <2> QED  BY <2>7 DEF l1, w1
<1>3. CASE LexKind(next.state) # kind
  <2>1. EmitLexeme(l) = EmitLexeme(w)
    BY HeldAlike, EmitTaken
  <2>2. /\ l1 = Cut(next, one, FALSE, l.pda.state, EmitLexeme(l))
        /\ w1 = Cut(next, one, FALSE, l.pda.state, EmitLexeme(w))
    BY <1>1, <1>3, CutSteps
  <2> HIDE DEF l1, w1, next, one
  <2>3. l1 = w1
    BY <2>1, <2>2
  <2> QED  BY <2>3 DEF l1, w1
<1> QED  BY <1>2, <1>3

LEMMA AliveThroughout ==
  ASSUME NEW p \in PdaType, NEW bytes \in Seq(Byte), Admits(p, bytes),
         NEW f, FeedTrace(f, p, bytes)
  PROVE  \A n \in 0 .. Len(bytes) : f[n] # DeadPda /\ f[n] \in PdaType
<1> DEFINE N == Len(bytes)
           L == {k \in 0 .. N : f[N - k] # DeadPda}
<1>1. N \in Nat /\ SubSeq(bytes, 1, N) = bytes /\ N \in 0 .. N
  OBVIOUS
<1>2. 0 \in L
  <2> HIDE DEF N
  <2>1. FeedAll(p, SubSeq(bytes, 1, N)) = f[N]
    BY <1>1 DEF FeedTrace, N
  <2>2. f[N] # DeadPda
    BY <1>1, <2>1 DEF Admits
  <2>3. N - 0 = N /\ 0 \in 0 .. N
    BY <1>1
  <2> QED  BY <2>2, <2>3
<1>3. ASSUME NEW k \in 1 .. N, k - 1 \in L PROVE k \in L
  <2>1. k \in 0 .. N /\ N - (k - 1) \in 1 .. N /\ (N - (k - 1)) - 1 = N - k
    BY <1>1
  <2>2. f[N - (k - 1)] = Fed(f[N - k], bytes[N - (k - 1)])
    BY <2>1 DEF FeedTrace
  <2> QED  BY <1>3, <2>1, <2>2 DEF Fed
<1> SUFFICES ASSUME NEW n \in 0 .. N PROVE f[n] # DeadPda /\ f[n] \in PdaType
  OBVIOUS
<1>4. N - n \in 0 .. N /\ N - (N - n) = n
  BY <1>1
<1>5. N - n \in L
  <2> HIDE DEF L
  <2> QED  BY <1>1, <1>2, <1>3, <1>4, InductionUpTo
<1>6. f[n] \in Configs
  BY DEF FeedTrace
<1> QED  BY <1>4, <1>5, <1>6 DEF Configs

\* The loop of observe drives the automaton the token drives.
LEMMA CutFollows ==
  ASSUME NEW cut, NEW t, NEW p \in PdaType, NEW bytes \in Seq(Byte), Admits(p, bytes),
         GoodTracker(t), CutTrace(cut, t, p, bytes)
  PROVE  \A n \in 0 .. Len(bytes) : cut[n].pda = FeedAll(p, SubSeq(bytes, 1, n))
<1> DEFINE N == Len(bytes)
<1>1. PICK f : FeedTrace(f, p, bytes)
  BY FeedAllRuns DEF Configs
<1>2. \A n \in 0 .. N : f[n] # DeadPda /\ f[n] \in PdaType
  BY <1>1, AliveThroughout
<1> DEFINE G == {n \in 0 .. N : cut[n].pda = f[n]}
<1>3. N \in Nat
  OBVIOUS
<1>4. 0 \in G
  <2>1. f[0] = p /\ cut[0] = BeginCut(t, p)
    BY <1>1 DEF FeedTrace, CutTrace
  <2>2. cut[0].pda = p
    BY <2>1, BeginCutIsGood
  <2>3. 0 \in 0 .. N
    BY <1>3
  <2> QED  BY <2>1, <2>2, <2>3
<1>5. ASSUME NEW n \in 1 .. N, n - 1 \in G PROVE n \in G
  <2>1. n \in 0 .. N /\ n - 1 \in 0 .. N /\ bytes[n] \in Byte
    BY <1>3
  <2>2. cut[n] = CutByte(cut[n - 1], bytes[n]) /\ GoodCut(cut[n - 1])
    BY <2>1 DEF CutTrace
  <2>3. cut[n - 1].pda = f[n - 1] /\ f[n - 1] \in PdaType
    BY <1>2, <1>5, <2>1
  <2>4. cut[n].pda = Advance(f[n - 1], bytes[n])
    BY <2>1, <2>2, <2>3, CutByteIsGood
  <2>5. f[n] = Fed(f[n - 1], bytes[n]) /\ f[n] # DeadPda
    BY <1>1, <1>2, <2>1 DEF FeedTrace
  <2> QED  BY <2>1, <2>4, <2>5 DEF Fed
<1>6. 0 .. N \subseteq G
  <2> HIDE DEF G
  <2> QED  BY <1>3, <1>4, <1>5, InductionUpTo
<1> QED  BY <1>1, <1>6 DEF FeedTrace

LEMMA TraceOwes ==
  ASSUME NEW cut, NEW t, NEW p, NEW bytes \in Seq(Byte), GoodTracker(t), Owes(t),
         CutTrace(cut, t, p, bytes)
  PROVE  \A n \in 0 .. Len(bytes) : CutOwes(cut[n])
<1> DEFINE N == Len(bytes)
           G == {n \in 0 .. N : CutOwes(cut[n])}
<1>1. N \in Nat
  OBVIOUS
<1>2. 0 \in G
  <2>1. cut[0] = BeginCut(t, p) /\ DOMAIN t = Fields
    BY DEF CutTrace, GoodTracker
  <2>2. CutOwes(cut[0])
    BY <2>1, BeginOwes
  <2>3. 0 \in 0 .. N
    BY <1>1
  <2> QED  BY <2>2, <2>3
<1>3. ASSUME NEW n \in 1 .. N, n - 1 \in G PROVE n \in G
  <2>1. n \in 0 .. N /\ n - 1 \in 0 .. N
    BY <1>1
  <2>2. cut[n] = CutByte(cut[n - 1], bytes[n]) /\ GoodCut(cut[n - 1])
    BY <2>1 DEF CutTrace
  <2>3. CutOwes(cut[n])
    BY <1>3, <2>2, ByteOwes
  <2> QED  BY <2>1, <2>3
<1>4. 0 .. N \subseteq G
  <2> HIDE DEF G
  <2> QED  BY <1>1, <1>2, <1>3, InductionUpTo
<1> QED  BY <1>4

\* Up to where its first part ends, a token is cut as that part is.
LEMMA TraceOfHead ==
  ASSUME NEW w, NEW h, NEW t, NEW p, NEW head \in Seq(Byte), NEW tail \in Seq(Byte),
         CutTrace(w, t, p, head \o tail), CutTrace(h, t, p, head)
  PROVE  w[Len(head)] = h[Len(head)]
<1> DEFINE N == Len(head)
           G == {n \in 0 .. N : w[n] = h[n]}
<1>1. N \in Nat /\ Len(head \o tail) \in Nat /\ N <= Len(head \o tail)
      /\ \A n \in 1 .. N : (head \o tail)[n] = head[n]
  OBVIOUS
<1>2. 0 \in G
  BY <1>1 DEF CutTrace
<1>3. ASSUME NEW n \in 1 .. N, n - 1 \in G PROVE n \in G
  <2>1. n \in 0 .. N /\ n \in 1 .. Len(head \o tail)
    BY <1>1
  <2>2. w[n] = CutByte(w[n - 1], head[n]) /\ h[n] = CutByte(h[n - 1], head[n])
    BY <1>1, <2>1 DEF CutTrace
  <2> QED  BY <1>3, <2>1, <2>2
<1>4. 0 .. N \subseteq G /\ N \in 0 .. N
  <2> HIDE DEF G, N
  <2>1. 0 .. N \subseteq G
    BY <1>1, <1>2, <1>3, InductionUpTo
  <2> QED  BY <1>1, <2>1
<1> QED  BY <1>4

\* A token in two parts that meet inside a lexeme, or the whole token.
LEMMA JoinedRuns ==
  ASSUME NEW w, NEW l, NEW t, NEW p \in PdaType, NEW head \in Seq(Byte), NEW tail \in Seq(Byte),
         CutTrace(w, t, p, head \o tail), FromLexeme(w[Len(head)]),
         CutTrace(l, EndCut(w[Len(head)]), w[Len(head)].pda, tail)
  PROVE  LET n == Len(tail)
             m == Len(head \o tail)
         IN  l[n] = w[m] \/ Joining(l[n], w[m], w[Len(head)])
<1> DEFINE H == Len(head)
           N == Len(tail)
           bytes == head \o tail
           w0 == w[H]
           G == {n \in 0 .. N : l[n] = w[H + n] \/ Joining(l[n], w[H + n], w0)}
<1>1. /\ H \in Nat /\ N \in Nat /\ Len(bytes) = H + N
      /\ \A n \in 1 .. N : bytes[H + n] = tail[n] /\ tail[n] \in Byte
  OBVIOUS
<1> HIDE DEF bytes
<1>2. 0 \in G
  <2> DEFINE l0 == l[0]
  <2>1. l0 = BeginCut(EndCut(w0), w0.pda)
    BY DEF CutTrace
  <2>2. l0.continuing = TRUE /\ l0.pda = w0.pda /\ l0.scope = EndCut(w0) /\ l0.seg = <<>>
    BY <2>1, FragmentBegins DEF FromLexeme
  <2>3. BytesOf(w0.seg) \in Seq(Byte)
    BY BytesOfType DEF FromLexeme, GoodCut
  <2>4. BytesOf(w0.seg) = BytesOf(w0.seg) \o BytesOf(l0.seg)
    <3> DEFINE B == BytesOf(w0.seg)
    <3>1. B \in Seq(Byte) /\ BytesOf(l0.seg) = <<>>
      BY <2>2, <2>3, BytesOfNone
    <3> HIDE DEF B, l0
    <3> QED  BY <3>1
  <2> HIDE DEF l0
  <2>5. Joining(l0, w0, w0)
    BY <2>2, <2>4 DEF Joining
  <2>6. 0 \in 0 .. N /\ H + 0 = H
    BY <1>1
  <2> QED  BY <2>5, <2>6 DEF l0
<1>3. ASSUME NEW n \in 1 .. N, n - 1 \in G PROVE n \in G
  <2> DEFINE l1 == l[n - 1]
             w1 == w[H + (n - 1)]
             b == tail[n]
  <2>1. /\ n \in 0 .. N /\ H + n \in 1 .. H + N /\ (H + n) - 1 = H + (n - 1)
        /\ n - 1 \in 0 .. N /\ H + (n - 1) \in 0 .. H + N
    BY <1>1
  <2>2. l[n] = CutByte(l1, b)
    BY <2>1 DEF CutTrace
  <2>3. w[H + n] = CutByte(w1, b)
    <3>1. w[H + n] = CutByte(w[(H + n) - 1], bytes[H + n])
      BY <1>1, <2>1 DEF CutTrace, bytes
    <3> QED  BY <1>1, <2>1, <3>1
  <2>4. /\ GoodCut(l1) /\ l1.pda \in PdaType
        /\ GoodCut(w1)
    BY <1>1, <2>1 DEF CutTrace, bytes
  <2>5. l1 = w1 \/ Joining(l1, w1, w0)
    BY <1>3
  <2>6. b \in Byte
    BY <1>1
  <2> HIDE DEF l1, w1, b, w0
  <2>7. l[n] = w[H + n] \/ Joining(l[n], w[H + n], w0)
    <3>1. CASE l1 = w1
      BY <2>2, <2>3, <3>1
    <3>2. CASE Joining(l1, w1, w0)
      <4>1. CutByte(l1, b) = CutByte(w1, b) \/ Joining(CutByte(l1, b), CutByte(w1, b), w0)
        BY <2>4, <2>6, <3>2, JoiningSteps DEF w0
      <4> QED  BY <2>2, <2>3, <4>1
    <3> QED  BY <2>5, <3>1, <3>2
  <2> QED  BY <2>1, <2>7
<1>4. 0 .. N \subseteq G /\ N \in 0 .. N
  <2> HIDE DEF G, N
  <2>1. 0 .. N \subseteq G
    BY <1>1, <1>2, <1>3, InductionUpTo
  <2> QED  BY <1>1, <2>1
<1>5. N \in G
  BY <1>4
<1> QED  BY <1>1, <1>5 DEF bytes

LEMMA DrivenInTwo ==
  ASSUME NEW t, GoodTracker(t), Owes(t), NEW p \in PdaType,
         NEW head \in Seq(Byte), NEW tail \in Seq(Byte), Admits(p, head \o tail),
         InLexeme(FeedAll(p, head))
  PROVE  ObserveInTwo(t, head, tail, p) = Observe(t, head \o tail, p)
<1> DEFINE bytes == head \o tail
           H == Len(head)
           N == Len(tail)
           M == Len(bytes)
           mid == FeedAll(p, head)
<1>1. /\ bytes \in Seq(Byte) /\ H \in Nat /\ N \in Nat /\ M \in Nat /\ M = H + N
      /\ H \in 0 .. H /\ N \in 0 .. N /\ M \in 0 .. M /\ H \in 0 .. M
      /\ SubSeq(bytes, 1, H) = head /\ p \in Configs
  BY DEF Configs
<1>2. FeedAll(p, bytes) = FeedAll(mid, tail) /\ mid \in Configs
  BY <1>1, FeedAllConcat, FeedAllType
<1>3. mid # DeadPda /\ Admits(p, head) /\ Admits(mid, tail) /\ mid \in PdaType
  <2>1. mid # DeadPda
    BY <1>2, FeedAllDead DEF Admits
  <2> QED  BY <1>2, <2>1 DEF Admits, Configs
<1> HIDE DEF mid, H, N, M, bytes
<1>4. PICK w : CutTrace(w, t, p, bytes) /\ Observe(t, bytes, p) = EndCut(w[M])
  BY <1>1, ObserveRuns DEF bytes, M
<1>5. PICK h : CutTrace(h, t, p, head) /\ Observe(t, head, p) = EndCut(h[H])
  BY <1>3, ObserveRuns DEF H
<1>6. w[H] = h[H]
  BY <1>4, <1>5, TraceOfHead DEF H, bytes
<1>7. w[H].pda = mid
  BY <1>1, <1>4, CutFollows DEF bytes, M, mid
<1>8. FromLexeme(w[H])
  <2>1. GoodCut(w[H])
    BY <1>1, <1>4 DEF CutTrace, M
  <2>2. CutOwes(w[H])
    BY <1>1, <1>4, TraceOwes DEF M
  <2> QED  BY <1>7, <2>1, <2>2 DEF FromLexeme, InLexeme, mid
<1> DEFINE t1 == EndCut(w[H])
<1>9. GoodTracker(t1) /\ Owes(t1)
  BY <1>8, EndCutIsGood, EndOwes DEF FromLexeme
<1>10. ObserveInTwo(t, head, tail, p) = Observe(t1, tail, mid)
  BY <1>5, <1>6 DEF ObserveInTwo, mid
<1> HIDE DEF t1
<1>11. PICK l : CutTrace(l, t1, mid, tail) /\ Observe(t1, tail, mid) = EndCut(l[N])
  BY <1>3, <1>9, ObserveRuns DEF N
<1>12. l[N] = w[M] \/ Joining(l[N], w[M], w[H])
  BY <1>4, <1>7, <1>8, <1>11, JoinedRuns DEF N, M, H, bytes, t1
<1>13. EndCut(l[N]) = EndCut(w[M])
  <2>1. GoodCut(l[N]) /\ GoodCut(w[M])
    BY <1>1, <1>4, <1>11 DEF CutTrace, N, M
  <2>2. CutOwes(l[N])
    BY <1>1, <1>9, <1>11, TraceOwes DEF N
  <2>3. CutOwes(w[M])
    BY <1>1, <1>4, TraceOwes DEF M
  <2>4. CASE Joining(l[N], w[M], w[H])
    BY <1>8, <2>1, <2>2, <2>3, <2>4, EndAlike
  <2> QED  BY <1>12, <2>4
<1> QED  BY <1>4, <1>10, <1>11, <1>13 DEF bytes

LEMMA ObserveOwes ==
  ASSUME NEW t, GoodTracker(t), Owes(t), NEW p \in PdaType, NEW bytes \in Seq(Byte),
         Admits(p, bytes)
  PROVE  Owes(Observe(t, bytes, p))
<1> DEFINE N == Len(bytes)
<1>1. PICK cut : CutTrace(cut, t, p, bytes) /\ Observe(t, bytes, p) = EndCut(cut[N])
  BY ObserveRuns
<1>2. N \in 0 .. N
  OBVIOUS
<1>3. GoodCut(cut[N]) /\ CutOwes(cut[N])
  BY <1>1, <1>2, TraceOwes DEF CutTrace
<1> QED  BY <1>1, <1>3, EndOwes

FragmentInv == StreamInv /\ Owes(tracker)

LEMMA NextFragment ==
  ASSUME FragmentInv, [Next]_vars
  PROVE  FragmentInv'
<1>1. StreamInv'
  BY NextStream DEF FragmentInv
<1>2. ASSUME NEW id \in Ids, Commit(id) PROVE Owes(tracker')
  BY <1>2, TokenBytesType, ObserveOwes DEF Commit, FragmentInv, StreamInv
<1>3. ASSUME tracker' = tracker PROVE Owes(tracker')
  BY <1>3 DEF FragmentInv
<1>4. ASSUME NEW id \in Strays, AcceptStray(id) PROVE Owes(tracker')
  <2>1. id \in Ids
    BY SchemaSessionAssumption
  <2> QED  BY <1>2, <1>4, <2>1 DEF AcceptStray
<1>5. ASSUME NEW query, Reset(query) PROVE Owes(tracker')
  BY <1>5, NewOwes DEF Reset
<1>6. Owes(tracker')
  BY <1>2, <1>3, <1>4, <1>5 DEF Next, AllowedMask, AcceptToken, AcceptByte, vars
<1> QED  BY <1>1, <1>6 DEF FragmentInv

(***************************************************************************)
(* Whatever tokens and bytes the session was committed before, and in      *)
(* whatever configuration they left it, the scope machine draws from a     *)
(* token in two parts that meet inside a lexeme what it draws from the     *)
(* whole token: the buffer loses and invents nothing (observe and          *)
(* buffer_trailing, scope.rs 342-494).                                     *)
(***************************************************************************)
THEOREM FragmentsAreInvisible == Spec => []FragmentsDriveAlike
<1>1. Init => FragmentInv
  BY InitStream, NewOwes DEF Init, FragmentInv
<1>2. FragmentInv /\ [Next]_vars => FragmentInv'
  BY NextFragment
<1>3. FragmentInv => FragmentsDriveAlike
  <2> SUFFICES ASSUME FragmentInv, NEW id \in Ids,
                      NEW n \in 1 .. Len(TokenBytes(id)) - 1,
                      Admits(pda, TokenBytes(id)),
                      InLexeme(FeedAll(pda, SubSeq(TokenBytes(id), 1, n)))
               PROVE  LET bytes == TokenBytes(id)
                          head == SubSeq(bytes, 1, n)
                      IN  ObserveInTwo(tracker, head, SubSeq(bytes, n + 1, Len(bytes)), pda)
                            = Observe(tracker, bytes, pda)
    BY DEF FragmentsDriveAlike
  <2> DEFINE bytes == TokenBytes(id)
             head == SubSeq(bytes, 1, n)
             tail == SubSeq(bytes, n + 1, Len(bytes))
  <2>1. bytes \in Seq(Byte)
    BY TokenBytesType
  <2>2. Len(bytes) \in Nat /\ n \in 1 .. Len(bytes) - 1
    BY <2>1
  <2>3. head \in Seq(Byte) /\ tail \in Seq(Byte) /\ head \o tail = bytes
    <3> HIDE DEF bytes
    <3>1. head \in Seq(Byte) /\ tail \in Seq(Byte)
      BY <2>1, <2>2
    <3>2. Len(head) = n /\ Len(tail) = Len(bytes) - n /\ Len(head \o tail) = Len(bytes)
      BY <2>1, <2>2, <3>1
    <3>3. \A i \in 1 .. Len(bytes) : (head \o tail)[i] = bytes[i]
      BY <2>1, <2>2, <3>1, <3>2
    <3>4. head \o tail \in Seq(Byte)
      BY <3>1
    <3> QED  BY <2>1, <3>1, <3>2, <3>3, <3>4
  <2>4. /\ GoodTracker(tracker) /\ Owes(tracker) /\ pda \in PdaType
        /\ Admits(pda, bytes) /\ InLexeme(FeedAll(pda, head))
    BY DEF FragmentInv, StreamInv
  <2> HIDE DEF bytes, head, tail
  <2>5. ObserveInTwo(tracker, head, tail, pda) = Observe(tracker, head \o tail, pda)
    BY <2>3, <2>4, DrivenInTwo
  <2> QED  BY <2>3, <2>5 DEF bytes, head, tail
<1> QED  BY <1>1, <1>2, <1>3, PTL DEF Spec

(***************************************************************************)
(* On its query, the host is where a tokenizer that never cuts a lexeme    *)
(* would have brought it: s[0 .. K] are stops in the text, the scope       *)
(* machine is given what lies between one and the next as one token, and   *)
(* no stop but the last is inside a lexeme.                                *)
(***************************************************************************)
StopAt(at, p, t) == [at |-> at, pda |-> p, tracker |-> t]

StopLeads(text, from, to) ==
    LET bytes == SubSeq(text, from.at + 1, to.at)
    IN  /\ to.at \in from.at .. Len(text)
        /\ Admits(from.pda, bytes)
        /\ to.pda = FeedAll(from.pda, bytes)
        /\ to.tracker = Observe(from.tracker, bytes, from.pda)

Stops(s, K, text, last) ==
    /\ K \in Nat
    /\ s[0] = StopAt(0, PdaNew, NewTracker)
    /\ \A k \in 1 .. K : StopLeads(text, s[k - 1], s[k])
    /\ \A k \in 1 .. K - 1 : ~InLexeme(s[k].pda)
    /\ s[K] = last

UncutLexemes ==
    OnQuery => \E K, s : Stops(s, K, host.text, StopAt(host.at, pda, tracker))

\* What is proved of each stop on the way.
SoundStop(stop) ==
    /\ stop.at \in Nat /\ stop.pda \in PdaType
    /\ GoodTracker(stop.tracker) /\ Owes(stop.tracker)

StopReached(text, last) ==
    \E K, s : Stops(s, K, text, last) /\ \A k \in 0 .. K : SoundStop(s[k])

StopsInv ==
    /\ FragmentInv
    /\ host.strays \in Seq({"token", "byte"})
    /\ OnQuery => StopReached(host.text, StopAt(host.at, pda, tracker))

LEMMA StopFields ==
  ASSUME NEW at, NEW p, NEW t
  PROVE  StopAt(at, p, t).at = at /\ StopAt(at, p, t).pda = p /\ StopAt(at, p, t).tracker = t
  BY DEF StopAt

LEMMA StartReaches ==
  ASSUME NEW text
  PROVE  StopReached(text, StopAt(0, PdaNew, NewTracker))
<1> DEFINE stop == StopAt(0, PdaNew, NewTracker)
           s == [k \in 0 .. 0 |-> stop]
<1>1. SoundStop(stop)
  BY StartIsGood, NewOwes, StopFields DEF SoundStop
<1>2. s[0] = stop /\ \A k \in 0 .. 0 : s[k] = stop
  OBVIOUS
<1> HIDE DEF stop, s
<1>3. Stops(s, 0, text, stop)
  BY <1>2 DEF Stops, stop
<1>4. \A k \in 0 .. 0 : SoundStop(s[k])
  BY <1>1, <1>2
<1> QED  BY <1>3, <1>4 DEF StopReached, stop

LEMMA SpanConcat ==
  ASSUME NEW text \in Seq(Byte), NEW i \in Nat, NEW j \in Nat, NEW k \in Nat,
         i <= j, j <= k, k <= Len(text)
  PROVE  /\ SubSeq(text, i + 1, j) \in Seq(Byte)
         /\ SubSeq(text, i + 1, j) \o SubSeq(text, j + 1, k) = SubSeq(text, i + 1, k)
<1> DEFINE a == SubSeq(text, i + 1, j)
           b == SubSeq(text, j + 1, k)
           c == SubSeq(text, i + 1, k)
<1>1. a \in Seq(Byte) /\ b \in Seq(Byte) /\ c \in Seq(Byte)
  OBVIOUS
<1>2. Len(a) = j - i /\ Len(b) = k - j /\ Len(c) = k - i
  OBVIOUS
<1>3. /\ \A n \in 1 .. j - i : a[n] = text[i + n]
      /\ \A n \in 1 .. k - j : b[n] = text[j + n]
      /\ \A n \in 1 .. k - i : c[n] = text[i + n]
  OBVIOUS
<1> HIDE DEF a, b, c
<1>4. a \o b \in Seq(Byte) /\ Len(a \o b) = k - i
  <2>1. a \o b \in Seq(Byte) /\ Len(a \o b) = Len(a) + Len(b)
    BY <1>1
  <2>2. (j - i) + (k - j) = k - i
    OBVIOUS
  <2> QED  BY <1>2, <2>1, <2>2
<1>5. \A n \in 1 .. k - i : (a \o b)[n] = c[n]
  <2> SUFFICES ASSUME NEW n \in 1 .. k - i PROVE (a \o b)[n] = c[n]
    OBVIOUS
  <2>1. CASE n <= j - i
    BY <1>1, <1>2, <1>3, <2>1
  <2>2. CASE n > j - i
    <3>1. n - (j - i) \in 1 .. k - j /\ j + (n - (j - i)) = i + n
      BY <2>2
    <3>2. (a \o b)[n] = b[n - (j - i)]
      BY <1>1, <1>2, <2>2
    <3> QED  BY <1>3, <3>1, <3>2
  <2>3. n <= j - i \/ n > j - i
    OBVIOUS
  <2> QED  BY <2>1, <2>2, <2>3
<1> QED  BY <1>1, <1>2, <1>4, <1>5 DEF a, b, c

\* A stop outside every lexeme is kept, and one inside a lexeme moved on.
LEMMA StopMoves ==
  ASSUME NEW text \in Seq(Byte), NEW last, StopReached(text, last), last.at \in 0 .. Len(text),
         NEW to, StopLeads(text, last, to)
  PROVE  StopReached(text, to)
<1> PICK K, s : Stops(s, K, text, last) /\ \A k \in 0 .. K : SoundStop(s[k])
  BY DEF StopReached
<1> DEFINE bytes == SubSeq(text, last.at + 1, to.at)
<1>1. /\ to.at \in last.at .. Len(text) /\ Admits(last.pda, bytes)
      /\ to.pda = FeedAll(last.pda, bytes)
      /\ to.tracker = Observe(last.tracker, bytes, last.pda)
  BY DEF StopLeads
<1>2. /\ K \in Nat /\ s[0] = StopAt(0, PdaNew, NewTracker)
      /\ \A k \in 1 .. K : StopLeads(text, s[k - 1], s[k])
      /\ \A k \in 1 .. K - 1 : ~InLexeme(s[k].pda)
      /\ s[K] = last
  BY DEF Stops
<1>3. K \in 0 .. K /\ SoundStop(last)
  BY <1>2
<1>4. Len(text) \in Nat /\ last.at \in Nat /\ to.at \in Nat /\ last.at <= to.at
      /\ to.at <= Len(text) /\ bytes \in Seq(Byte)
  <2>1. Len(text) \in Nat
    OBVIOUS
  <2>2. last.at \in Nat /\ to.at \in Nat /\ last.at <= to.at /\ to.at <= Len(text)
    BY <1>1, <2>1
  <2> QED  BY <2>1, <2>2
<1> HIDE DEF bytes
<1>5. SoundStop(to)
  <2>1. last.pda \in PdaType /\ GoodTracker(last.tracker) /\ Owes(last.tracker)
    BY <1>3 DEF SoundStop
  <2>2. to.pda \in PdaType
    BY <1>1, <1>4, <2>1, FeedAllType DEF Admits, Configs
  <2>3. GoodTracker(to.tracker)
    BY <1>1, <1>4, <2>1, ObserveIsGood
  <2>4. Owes(to.tracker)
    BY <1>1, <1>4, <2>1, ObserveOwes
  <2> QED  BY <1>4, <2>2, <2>3, <2>4 DEF SoundStop
<1>6. CASE K = 0 \/ ~InLexeme(last.pda)
  <2> DEFINE L == K + 1
             u == [k \in 0 .. L |-> IF k = L THEN to ELSE s[k]]
  <2>1. /\ L \in Nat /\ L - 1 = K /\ u[L] = to /\ u[0] = s[0]
        /\ \A k \in 0 .. K : u[k] = s[k]
    <3>1. /\ L \in Nat /\ L - 1 = K /\ L \in 0 .. L /\ 0 \in 0 .. L /\ L # 0
          /\ \A k \in 0 .. K : k \in 0 .. L /\ k # L
      BY <1>2
    <3> HIDE DEF L
    <3> QED  BY <3>1
  <2> HIDE DEF u
  <2>2. \A k \in 1 .. L : StopLeads(text, u[k - 1], u[k])
    <3> SUFFICES ASSUME NEW k \in 1 .. L PROVE StopLeads(text, u[k - 1], u[k])
      OBVIOUS
    <3>1. CASE k = L
      <4>1. u[k] = to /\ u[k - 1] = last
        BY <1>2, <1>3, <2>1, <3>1
      <4> QED  BY <4>1
    <3>2. CASE k # L
      <4>1. k \in 1 .. K /\ k - 1 \in 0 .. K /\ k \in 0 .. K
        BY <1>2, <3>2
      <4>2. u[k] = s[k] /\ u[k - 1] = s[k - 1] /\ StopLeads(text, s[k - 1], s[k])
        BY <1>2, <2>1, <4>1
      <4> QED  BY <4>2
    <3> QED  BY <3>1, <3>2
  <2>3. \A k \in 1 .. L - 1 : ~InLexeme(u[k].pda)
    <3> SUFFICES ASSUME NEW k \in 1 .. K PROVE ~InLexeme(u[k].pda)
      BY <2>1
    <3>1. u[k] = s[k]
      BY <2>1
    <3>2. CASE k = K
      BY <1>2, <1>6, <3>1, <3>2
    <3>3. CASE k # K
      <4>1. k \in 1 .. K - 1
        BY <1>2, <3>3
      <4> QED  BY <1>2, <3>1, <4>1
    <3> QED  BY <3>2, <3>3
  <2>4. Stops(u, L, text, to)
    <3> HIDE DEF L
    <3> QED  BY <1>2, <2>1, <2>2, <2>3 DEF Stops
  <2>5. \A k \in 0 .. L : SoundStop(u[k])
    <3> SUFFICES ASSUME NEW k \in 0 .. L PROVE SoundStop(u[k])
      OBVIOUS
    <3>1. k = L \/ k \in 0 .. K
      BY <2>1
    <3> QED  BY <1>5, <2>1, <3>1
  <2> HIDE DEF L
  <2> QED  BY <2>4, <2>5 DEF StopReached
<1>7. CASE K # 0 /\ InLexeme(last.pda)
  <2> DEFINE u == [k \in 0 .. K |-> IF k = K THEN to ELSE s[k]]
             from == s[K - 1]
             head == SubSeq(text, from.at + 1, last.at)
             whole == SubSeq(text, from.at + 1, to.at)
  <2>1. /\ K \in 1 .. K /\ K - 1 \in 0 .. K /\ u[K] = to /\ u[0] = s[0]
        /\ \A k \in 0 .. K - 1 : u[k] = s[k]
    BY <1>2, <1>7
  <2> HIDE DEF u
  <2>2. SoundStop(from) /\ StopLeads(text, from, last)
    BY <1>2, <2>1
  <2>3. /\ from.at \in Nat /\ from.pda \in PdaType /\ GoodTracker(from.tracker)
        /\ Owes(from.tracker)
        /\ last.at \in from.at .. Len(text) /\ last.pda = FeedAll(from.pda, head)
        /\ last.tracker = Observe(from.tracker, head, from.pda)
    BY <2>2 DEF SoundStop, StopLeads
  <2>4. head \in Seq(Byte) /\ head \o bytes = whole
    <3> DEFINE i == from.at
               j == last.at
               k == to.at
    <3>1. i \in Nat /\ j \in Nat /\ k \in Nat /\ i <= j /\ j <= k /\ k <= Len(text)
      BY <1>4, <2>3
    <3> HIDE DEF i, j, k
    <3>2. /\ SubSeq(text, i + 1, j) \in Seq(Byte)
          /\ SubSeq(text, i + 1, j) \o SubSeq(text, j + 1, k) = SubSeq(text, i + 1, k)
      BY <3>1, SpanConcat
    <3> QED  BY <3>2 DEF i, j, k, bytes
  <2> HIDE DEF head, whole, from
  <2>5. FeedAll(from.pda, whole) = FeedAll(last.pda, bytes) /\ Admits(from.pda, whole)
    <3>1. FeedAll(from.pda, whole) = FeedAll(FeedAll(from.pda, head), bytes)
      BY <1>4, <2>3, <2>4, FeedAllConcat DEF Configs
    <3> QED  BY <1>1, <2>3, <3>1 DEF Admits
  <2>6. ObserveInTwo(from.tracker, head, bytes, from.pda) = Observe(from.tracker, whole, from.pda)
    BY <1>4, <1>7, <2>3, <2>4, <2>5, DrivenInTwo
  <2>7. to.tracker = Observe(from.tracker, whole, from.pda)
    BY <1>1, <2>3, <2>6 DEF ObserveInTwo
  <2>8. StopLeads(text, from, to)
    <3>1. to.at \in from.at .. Len(text)
      BY <1>4, <2>3
    <3> QED  BY <1>1, <2>5, <2>7, <3>1 DEF StopLeads, whole
  <2>9. \A k \in 1 .. K : StopLeads(text, u[k - 1], u[k])
    <3> SUFFICES ASSUME NEW k \in 1 .. K PROVE StopLeads(text, u[k - 1], u[k])
      OBVIOUS
    <3>0. k - 1 \in 0 .. K - 1 /\ u[k - 1] = s[k - 1]
      BY <1>2, <2>1
    <3>1. CASE k = K
      BY <2>1, <2>8, <3>0, <3>1 DEF from
    <3>2. CASE k # K
      <4>1. k \in 0 .. K - 1
        BY <1>2, <3>2
      <4>2. StopLeads(text, s[k - 1], s[k]) /\ u[k] = s[k]
        BY <1>2, <2>1, <4>1
      <4> QED  BY <3>0, <4>2
    <3> QED  BY <3>1, <3>2
  <2>10. \A k \in 1 .. K - 1 : ~InLexeme(u[k].pda)
    <3> SUFFICES ASSUME NEW k \in 1 .. K - 1 PROVE ~InLexeme(u[k].pda)
      OBVIOUS
    <3>1. k \in 0 .. K - 1
      BY <1>2
    <3> QED  BY <1>2, <2>1, <3>1
  <2>11. Stops(u, K, text, to)
    BY <1>2, <2>1, <2>9, <2>10 DEF Stops
  <2>12. \A k \in 0 .. K : SoundStop(u[k])
    <3> SUFFICES ASSUME NEW k \in 0 .. K PROVE SoundStop(u[k])
      OBVIOUS
    <3>1. k = K \/ k \in 0 .. K - 1
      BY <1>2
    <3> QED  BY <1>2, <1>5, <2>1, <3>1
  <2> QED  BY <2>11, <2>12 DEF StopReached
<1> QED  BY <1>6, <1>7

LEMMA NextStops ==
  ASSUME StopsInv, [Next]_vars
  PROVE  StopsInv'
<1> DEFINE Marks == {"token", "byte"}
<1>1. FragmentInv'
  BY NextFragment DEF StopsInv
<1>2. host.strays \in Seq(Marks) /\ DOMAIN host = {"query", "text", "at", "strays"}
  BY DEF StopsInv, FragmentInv, StreamInv, HostOK
<1>3. ASSUME NEW id \in Ids, AcceptToken(id) PROVE StopsInv'
  <2> DEFINE text == host.text
             at == host.at
             bytes == TokenBytes(id)
             on == at + Len(bytes)
             last == StopAt(at, pda, tracker)
             to == StopAt(on, pda', tracker')
  <2>1. /\ Len(bytes) \in Nat /\ on <= Len(text) /\ SubSeq(text, at + 1, on) = bytes
        /\ Admits(pda, bytes) /\ pda' = FeedAll(pda, bytes)
        /\ tracker' = Observe(tracker, bytes, pda)
    BY <1>3, TokenBytesType DEF AcceptToken, SpellsOn, Commit
  <2>2. text \in Seq(Byte) /\ at \in 0 .. Len(text) /\ Len(text) \in Nat
    BY TextType DEF StopsInv, FragmentInv, StreamInv, HostOK
  <2>3. host' = [host EXCEPT !.at = on] /\ OnQuery
    BY <1>3 DEF AcceptToken
  <2>4. host'.at = on /\ host'.text = text /\ host'.strays = host.strays
    <3> HIDE DEF on
    <3> QED  BY <1>2, <2>3
  <2> HIDE DEF text, at, on, bytes
  <2>5. StopReached(text, last)
    BY <2>3 DEF StopsInv, text, at
  <2>6. on \in at .. Len(text)
    BY <2>1, <2>2 DEF on
  <2>7. /\ last.at = at /\ last.pda = pda /\ last.tracker = tracker
        /\ to.at = on /\ to.pda = pda' /\ to.tracker = tracker'
    BY StopFields
  <2> HIDE DEF last, to
  <2>8. StopLeads(text, last, to)
    BY <2>1, <2>6, <2>7 DEF StopLeads
  <2>9. StopReached(text, to)
    BY <2>2, <2>5, <2>7, <2>8, StopMoves
  <2>10. StopReached(host'.text, StopAt(host'.at, pda', tracker'))
    BY <2>4, <2>9 DEF to
  <2> QED  BY <1>1, <1>2, <2>4, <2>10 DEF StopsInv
<1>4. ASSUME NEW mark \in Marks, host' = [host EXCEPT !.strays = Append(@, mark)]
      PROVE  StopsInv'
  <2> DEFINE strays == host.strays
  <2>1. host'.strays = Append(strays, mark)
    BY <1>2, <1>4
  <2>2. strays \in Seq(Marks) /\ mark \in Marks
    BY <1>2, <1>4
  <2> HIDE DEF strays, Marks
  <2>3. Append(strays, mark) \in Seq(Marks) /\ Append(strays, mark) # <<>>
    <3>1. /\ Append(strays, mark) \in Seq(Marks) /\ Len(strays) \in Nat
          /\ Len(Append(strays, mark)) = Len(strays) + 1
      BY <2>2
    <3>2. Len(Append(strays, mark)) # 0
      BY <3>1
    <3> QED  BY <3>1, <3>2
  <2>4. host'.strays # <<>> /\ host'.strays \in Seq(Marks)
    BY <2>1, <2>3
  <2> QED  BY <1>1, <2>4 DEF StopsInv, Marks, OnQuery
<1>5. ASSUME NEW id, AcceptStray(id) PROVE StopsInv'
  BY <1>4, <1>5 DEF AcceptStray
<1>6. ASSUME NEW b, AcceptByte(b) PROVE StopsInv'
  BY <1>4, <1>6 DEF AcceptByte
<1>7. ASSUME NEW query, Reset(query) PROVE StopsInv'
  <2>1. host'.at = 0 /\ host'.strays = <<>> /\ pda' = PdaNew /\ tracker' = NewTracker
    BY <1>7 DEF Reset, Writing
  <2>2. StopReached(host'.text, StopAt(host'.at, pda', tracker'))
    BY <2>1, StartReaches
  <2>3. host'.strays \in Seq(Marks)
    BY <2>1
  <2> QED  BY <1>1, <2>2, <2>3 DEF StopsInv
<1>8. ASSUME pda' = pda, tracker' = tracker, host' = host PROVE StopsInv'
  BY <1>1, <1>8 DEF StopsInv, OnQuery
<1> QED
  BY <1>3, <1>5, <1>6, <1>7, <1>8 DEF Next, AllowedMask, vars

(***************************************************************************)
(* However its tokens cut the names and literals of the query, the host is *)
(* where a tokenizer that cuts none of them would have brought it: the     *)
(* same automaton, the same scope machine, and with                        *)
(* AnswerForgetsTheMemo the same mask (scope.rs 338-341: a fragmented      *)
(* identifier drives scope as a whole one).                                *)
(***************************************************************************)
THEOREM LexemesAreUncut == Spec => []UncutLexemes
<1>1. Init => StopsInv
  <2> SUFFICES ASSUME Init PROVE StopsInv
    OBVIOUS
  <2>1. FragmentInv
    BY InitStream, NewOwes DEF Init, FragmentInv
  <2>2. host.at = 0 /\ host.strays = <<>>
    BY DEF Init, Writing
  <2>3. StopReached(host.text, StopAt(host.at, pda, tracker))
    BY <2>2, StartReaches DEF Init
  <2>4. <<>> \in Seq({"token", "byte"})
    OBVIOUS
  <2> QED  BY <2>1, <2>2, <2>3, <2>4 DEF StopsInv
<1>2. StopsInv /\ [Next]_vars => StopsInv'
  BY NextStops
<1>3. StopsInv => UncutLexemes
  BY DEF StopsInv, UncutLexemes, StopReached
<1> QED  BY <1>1, <1>2, <1>3, PTL DEF Spec
=============================================================================
