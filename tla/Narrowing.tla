----------------------------- MODULE Narrowing -----------------------------
(***************************************************************************)
(* The schema narrowing of src/src/schema/narrow.rs: the set of token ids  *)
(* a position's rule keeps, and the memo those sets are kept in.  A mask   *)
(* is a set of ids (module BitMask relates sets to words of bits).         *)
(***************************************************************************)
EXTENDS ScopeTracker, CompiledGrammar, NameTrie

LET_KEYWORD == <<"l", "e", "t">>

\* NarrowCache: operand masks by type class, tries and their masks by key.
NoMemo == [operand |-> <<>>, tries |-> <<>>]

ColumnRules == {"Column", "RelationColumn"}

\* Faulty: the memo of the columns is not told apart by their number.
CacheKeyUncounted(pos, columns, fused) ==
    [rule |-> pos.rule, class |-> pos.class, count |-> 0, fused |-> fused]

\* Faulty: the pass over fused tokens shares the masks of the other one.
CacheKeyShared(pos, columns, fused) ==
    [rule  |-> pos.rule,
     class |-> pos.class,
     count |-> IF pos.rule \in ColumnRules THEN Len(columns) ELSE 0,
     fused |-> FALSE]

CacheKey(pos, columns, fused) ==
    [rule  |-> pos.rule,
     class |-> pos.class,
     count |-> IF pos.rule \in ColumnRules THEN Len(columns) ELSE 0,
     fused |-> fused]

\* The names a rule's trie is built from; the classes come in no set order.
LegalNames(pos, columns) ==
  CASE pos.rule = "SourceIdent"    -> SetToSeq(SourcePaths(Schema)) \o <<LET_KEYWORD>>
    [] pos.rule = "Member"         -> MemberNames(Schema, pos.class)
    [] pos.rule = "Column"         -> [i \in DOMAIN columns |-> Quote(columns[i])]
    [] pos.rule = "RelationColumn" -> columns

TrieKind(pos) == IF pos.rule = "Column" THEN "Str" ELSE "Ident"

(***************************************************************************)
(* The sets kept: what a rule does not govern is kept, and so is EOS.      *)
(***************************************************************************)
IsCandidate(bytes, kind, mid) ==
    /\ bytes # <<>>
    /\ IF kind = "Ident" THEN bytes[1] \in IdentTail ELSE bytes[1] = "'" \/ mid

FillTrie(trie, cursor, kind) ==
    {id \in Ids : IsCandidate(TokenBytes(id), kind, cursor # Root)
                    => Walk(trie, cursor, TokenBytes(id)).outcome # "Diverge"}
      \cup {EosBit}

\* A dot and the first byte of a name in one token.
IsFusedNav(bytes) == Len(bytes) > 1 /\ bytes[1] = "." /\ bytes[2] \in IdentStart

\* Faulty: the mask of the fused pass is filled from the tokens alone.
FillFusedTrieForgetsEos(trie) ==
    {id \in Ids : IsFusedNav(TokenBytes(id))
                    => Walk(trie, Root, Tail(TokenBytes(id))).outcome # "Diverge"}

FillFusedTrie(trie) ==
    {id \in Ids : IsFusedNav(TokenBytes(id))
                    => Walk(trie, Root, Tail(TokenBytes(id))).outcome # "Diverge"}
      \cup {EosBit}

KeepsOperand(lexeme, lhs) ==
  CASE lexeme = "Str"    -> lhs = "Str"
    [] lexeme = "Number" -> lhs = "Numeric"
    [] lexeme = "Date"   -> lhs = "Temporal"
    [] OTHER             -> TRUE

FillOperand(lhs) ==
    {id \in Ids : KeepsOperand(Classify(TokenBytes(id)), lhs)} \cup {EosBit}

(***************************************************************************)
(* The passes.  Each answers with the memo it leaves and, if the position  *)
(* is narrowed at all, the mask.                                           *)
(***************************************************************************)
Unnarrowed(cache)     == [applies |-> FALSE, mask |-> {}, memo |-> cache]
Narrowed(mask, cache) == [applies |-> TRUE, mask |-> mask, memo |-> cache]

With(f, key, value) ==
    [x \in DOMAIN f \cup {key} |-> IF x = key THEN value ELSE f[x]]

\* with_cache
NarrowOperand(cache, lhs) ==
    LET mask == IF lhs \in DOMAIN cache.operand THEN cache.operand[lhs] ELSE FillOperand(lhs)
    IN  Narrowed(mask, [cache EXCEPT !.operand = With(@, lhs, mask)])

RuleCache(cache, key, names) ==
    IF key \in DOMAIN cache.tries THEN cache.tries[key]
    ELSE [trie |-> FromNames(names), masks |-> <<>>]

\* Faulty: a prefix that has left the trie keeps nothing.
NarrowTrieStrands(cache, pos, prefix, columns) ==
    LET key    == CacheKey(pos, columns, FALSE)
        entry  == RuleCache(cache, key, LegalNames(pos, columns))
        cursor == Walk(entry.trie, Root, prefix)
        mask   == IF cursor.outcome = "Stay"
                  THEN FillTrie(entry.trie, cursor.node, TrieKind(pos)) ELSE {EosBit}
    IN  Narrowed(mask, [cache EXCEPT !.tries = With(@, key, entry)])

\* narrow_trie: the prefix is walked to a cursor, whose mask is memoised.  A
\* prefix that has left the trie is not narrowed, but its trie stays.
NarrowTrie(cache, pos, prefix, columns) ==
    LET key    == CacheKey(pos, columns, FALSE)
        entry  == RuleCache(cache, key, LegalNames(pos, columns))
        cursor == Walk(entry.trie, Root, prefix)
        mask   == IF cursor.node \in DOMAIN entry.masks THEN entry.masks[cursor.node]
                  ELSE FillTrie(entry.trie, cursor.node, TrieKind(pos))
        filled == [entry EXCEPT !.masks = With(@, cursor.node, mask)]
    IN  IF cursor.outcome = "Stay"
        THEN Narrowed(mask, [cache EXCEPT !.tries = With(@, key, filled)])
        ELSE Unnarrowed([cache EXCEPT !.tries = With(@, key, entry)])

NarrowInto(cache, pos, prefix, columns) ==
  CASE pos.rule = "None" \/ pos.type \in {"Boolean", "Temporal"} -> Unnarrowed(cache)
    [] pos.type \in {"Numeric", "Str"} -> NarrowOperand(cache, pos.type)
    [] OTHER -> NarrowTrie(cache, pos, prefix, columns)

NarrowFusedInto(cache, pos, columns) ==
    LET key    == CacheKey(pos, columns, TRUE)
        entry  == RuleCache(cache, key, LegalNames(pos, columns))
        mask   == IF Root \in DOMAIN entry.masks THEN entry.masks[Root]
                  ELSE FillFusedTrie(entry.trie)
        filled == [entry EXCEPT !.masks = With(@, Root, mask)]
    IN  IF pos.rule = "None" THEN Unnarrowed(cache)
        ELSE Narrowed(mask, [cache EXCEPT !.tries = With(@, key, filled)])

\* A pass takes from a mask what it does not keep.
Intersected(mask, pass) ==
    [mask |-> IF pass.applies THEN mask \cap pass.mask ELSE mask,
     memo |-> pass.memo]

(***************************************************************************)
(* The schema block of allowed_mask (src/src/session.rs): the position's   *)
(* narrowing, then the fused one, each intersected with the L1 mask.       *)
(***************************************************************************)
NarrowedAt(l1, t, p, cache) ==
    Intersected(l1, NarrowInto(cache, PositionAt(t, p.state), NarrowPrefix(t),
                               t.emitted_strings))

NarrowedFused(left, t) ==
    Intersected(left.mask, NarrowFusedInto(left.memo, FusedNavPosition(t),
                                           t.emitted_strings))

\* Faulty: the fused pass is left out.
OverlayUnfused(l1, t, p, cache) == NarrowedAt(l1, t, p, cache)

Overlay(l1, t, p, cache) == NarrowedFused(NarrowedAt(l1, t, p, cache), t)
=============================================================================
