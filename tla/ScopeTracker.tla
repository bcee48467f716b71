---------------------------- MODULE ScopeTracker ----------------------------
(***************************************************************************)
(* The schema scope machine, `ScopeTracker` of src/src/schema/scope.rs: a  *)
(* record with the fields of the struct, one operator per handler from a   *)
(* scope to the scope it leaves, and the rule a position is narrowed by.   *)
(* Names and literals are sequences of bytes; None is the empty one.       *)
(***************************************************************************)
EXTENDS Lexemes, SchemaModel

CONSTANTS
    Schema,     \* the schema of the session
    SOURCE_METHOD, ESTABLISHING_METHODS, REF_METHODS  \* the methods it knows

\* A document read from JSON, whose names are texts.
ASSUME SchemaAssumption ==
    /\ IsSchema(Schema)
    /\ SourcePaths(Schema) \subseteq Seq(Byte)
    /\ \A class \in DOMAIN Schema.classes : NamesOf(Stored(Schema, class)) \in Seq(Seq(Byte))
    /\ \A i \in DOMAIN Schema.associations, side \in {1, 2} :
         Schema.associations[i][side].prop \in Seq(Byte)

None   == <<>>
NoType == "none"
NESTED_SOURCE_MIN_DEPTH == 2

\* An L2Position, with the class it names or the type class it expects.
Position(rule)  == [rule |-> rule, class |-> None, type |-> NoType]
NoPosition      == Position("None")
Member(class)   == [Position("Member") EXCEPT !.class = class]
ReValue(type)   == [Position("ReValue") EXCEPT !.type = type]

NoPending == [kind |-> NoLexKind, buf |-> <<>>, anchor |-> "none", pos |-> NoPosition]

NewTracker ==
  [ pending |-> NoPending, cur_class |-> None, var_class |-> <<>>,
    pending_refvar |-> None, dot_base |-> None, nav_cursor |-> None,
    last_resolved |-> NoType, last_nav_class |-> None, cmp_pending |-> NoType,
    lambda_first_ident |-> None, pending_arrow_receiver |-> <<>>,
    paren_receiver |-> <<>>, est_stack |-> <<>>, ref_stack |-> <<>>, depth |-> 0,
    last_ident |-> None, rel_explicit |-> FALSE, saw_tilde_bracket |-> FALSE,
    tilde_open |-> <<>>, relation_row_vars |-> {}, binder_saves |-> <<>>,
    scope_saves |-> <<>>, dot_is_column |-> FALSE, emitted_strings |-> <<>> ]

\* Vec::last and Vec::pop, which leave an empty vector as it is.
TopOr(stack, otherwise) == IF stack = <<>> THEN otherwise ELSE Last(stack)
Popped(stack)           == IF stack = <<>> THEN <<>> ELSE Front(stack)

\* The class a variable is bound to, if it is bound and to a class.
BoundClass(t, var) ==
    IF var \in DOMAIN t.var_class THEN t.var_class[var] ELSE None

Bind(var_class, name, class) ==
    [v \in DOMAIN var_class \cup {name} |-> IF v = name THEN class ELSE var_class[v]]

Unbind(var_class, name) == Restrict(var_class, DOMAIN var_class \ {name})

(***************************************************************************)
(* resolve_member, on_dot, on_arrow: a navigation from class to class.     *)
(***************************************************************************)
\* Where a member found leads: to a class, or to a value, which ends the way.
Reached(t, found) ==
    [t EXCEPT !.dot_base = None,
              !.nav_cursor = IF found.kind = "class" THEN found.path ELSE None,
              !.last_nav_class = IF found.kind = "class" THEN found.path ELSE None,
              !.last_resolved = IF found.kind = "primitive"
                                THEN TypeClass(found.name) ELSE @]

ResolveMember(t, ident) ==
  CASE t.dot_is_column ->
         [t EXCEPT !.dot_is_column = FALSE, !.nav_cursor = None, !.last_nav_class = None]
    [] ~t.dot_is_column /\ t.dot_base = None -> t
    [] OTHER -> Reached(t, Resolve(Schema, t.dot_base, ident))

OnDot(t) ==
    LET var == t.pending_refvar
        row == var # None /\ var \in t.relation_row_vars
    IN  [t EXCEPT !.pending_refvar = None,
                  !.dot_is_column = row,
                  !.dot_base = CASE row                -> None
                                 [] ~row /\ var # None -> BoundClass(t, var)
                                 [] OTHER              -> t.nav_cursor]

OnArrow(t) ==
    [t EXCEPT !.last_nav_class = None,
              !.pending_arrow_receiver =
                 <<IF t.last_nav_class # None THEN t.last_nav_class ELSE t.cur_class>>,
              !.pending_refvar = None,
              !.nav_cursor = None,
              !.last_ident = None]

(***************************************************************************)
(* on_ident: what an identifier is depends on the state it opened from.    *)
(***************************************************************************)
InTildeBracket(t, pre) == pre \in HubStates /\ TopOr(t.tilde_open, FALSE)

OnIdent(t, text, pre) ==
    LET named == HasClass(Schema, text)
        seen  == IF named THEN [t EXCEPT !.cur_class = text] ELSE t
        used  == CASE pre = "AfterDollar" -> [seen EXCEPT !.pending_refvar = text]
                   [] pre = "AfterDot"    -> ResolveMember(seen, text)
                   [] \/ pre \in HubStates
                      \/ pre \in {"AfterColon", "AfterColonWs"} /\ ~named
                                          -> [seen EXCEPT !.lambda_first_ident = text]
                   [] OTHER               -> seen
    IN  [used EXCEPT !.last_ident = text,
                     !.emitted_strings =
                        IF pre = "SawTilde" \/ InTildeBracket(t, pre)
                        THEN Append(@, text) ELSE @]

(***************************************************************************)
(* on_pipe: a lambda body begins.  The enclosing pipeline is saved, and    *)
(* the binding its variable shadows.                                       *)
(***************************************************************************)
SaveScope(t) ==
    [t EXCEPT !.scope_saves = Append(@,
        [depth |-> t.depth, cur_class |-> t.cur_class,
         rel_explicit |-> t.rel_explicit,
         saw_tilde_bracket |-> t.saw_tilde_bracket])]

\* An absent binding is saved as <<>>, a present one as <<class>>.
SaveBinder(t, name) ==
    [t EXCEPT !.binder_saves = Append(@,
        [depth |-> t.depth, name |-> name,
         class |-> IF name \in DOMAIN t.var_class THEN <<t.var_class[name]>> ELSE <<>>,
         row   |-> name \in t.relation_row_vars])]

BindLambda(t, name) ==
    LET receiver == TopOr(t.paren_receiver, None)
    IN  IF receiver = None /\ t.rel_explicit /\ t.saw_tilde_bracket
        THEN [t EXCEPT !.var_class = Unbind(@, name),
                       !.relation_row_vars = @ \cup {name}]
        ELSE [t EXCEPT !.var_class = Bind(@, name, receiver),
                       !.relation_row_vars = @ \ {name}]

OnPipe(t, pre) ==
    LET name  == t.lambda_first_ident
        saved == [SaveScope(t) EXCEPT !.lambda_first_ident = None]
    IN  CASE pre \in {"Start", "ExpectSource"} -> t
          [] pre \notin {"Start", "ExpectSource"} /\ name = None -> saved
          [] OTHER -> BindLambda(SaveBinder(saved, name), name)

(***************************************************************************)
(* on_open: every delimiter pushes the receiver its lambdas bind to, and   *)
(* whether it is a `~[` column set.                                        *)
(***************************************************************************)
OnOpen(t, pre) ==
    LET method == t.last_ident
        depth  == t.depth + 1
        tilde  == pre = "SawTilde"
        nested == method = SOURCE_METHOD /\ depth >= NESTED_SOURCE_MIN_DEPTH
    IN  [t EXCEPT
          !.last_ident = None,
          !.depth = depth,
          !.tilde_open = Append(@, tilde),
          !.est_stack = IF method \in ESTABLISHING_METHODS THEN Append(@, depth) ELSE @,
          !.ref_stack = IF method \in REF_METHODS THEN Append(@, depth) ELSE @,
          !.saw_tilde_bracket = (@ \/ tilde) /\ ~nested,
          !.rel_explicit = @ /\ ~nested,
          !.paren_receiver = Append(@, TopOr(t.pending_arrow_receiver, t.cur_class)),
          !.pending_arrow_receiver = <<>>,
          !.lambda_first_ident = None]

(***************************************************************************)
(* on_close: the saves of the closing depth, all on top of their stacks,   *)
(* are undone last first; an establishing method leaves a relation.        *)
(***************************************************************************)
\* How many saves lie below those of depth d on top.
Below(saves, d) == Max({0} \cup {i \in DOMAIN saves : saves[i].depth # d})

Undo(save, bound) ==
    [vars |-> IF save.class = <<>> THEN Unbind(bound.vars, save.name)
              ELSE Bind(bound.vars, save.name, save.class[1]),
     rows |-> IF save.row THEN bound.rows \cup {save.name}
              ELSE bound.rows \ {save.name}]

\* The bindings once the saves above index n are undone, the last one first.
Unwound(t, n) ==
    LET bound[i \in 0 .. Len(t.binder_saves)] ==
          IF i = Len(t.binder_saves)
          THEN [vars |-> t.var_class, rows |-> t.relation_row_vars]
          ELSE Undo(t.binder_saves[i + 1], bound[i + 1])
    IN  bound[n]

RestoreBinders(t) ==
    LET kept == Below(t.binder_saves, t.depth)
    IN  [t EXCEPT !.binder_saves = SubSeq(@, 1, kept),
                  !.var_class = Unwound(t, kept).vars,
                  !.relation_row_vars = Unwound(t, kept).rows]

RestoreScope(t) ==
    LET kept == Below(t.scope_saves, t.depth)
    IN  IF kept = Len(t.scope_saves) THEN t
        ELSE LET first == t.scope_saves[kept + 1]
             IN  [t EXCEPT !.scope_saves = SubSeq(@, 1, kept),
                           !.cur_class = first.cur_class,
                           !.rel_explicit = first.rel_explicit,
                           !.saw_tilde_bracket = first.saw_tilde_bracket]

\* Faulty: the scope is popped before its bindings are restored.
OnCloseDepthFirst(t) ==
    LET u == [t EXCEPT !.depth = IF @ > 0 THEN @ - 1 ELSE 0]
        restored == RestoreScope(RestoreBinders(u))
    IN  [restored EXCEPT !.tilde_open = Popped(@), !.paren_receiver = Popped(@),
                         !.pending_arrow_receiver = <<>>]

OnClose(t) ==
    LET restored     == RestoreScope(RestoreBinders(t))
        establishing == TopOr(t.est_stack, 0) = t.depth /\ t.est_stack # <<>>
        referring    == TopOr(t.ref_stack, 0) = t.depth /\ t.ref_stack # <<>>
    IN  [restored EXCEPT
          !.tilde_open = Popped(@),
          !.ref_stack = IF referring THEN Popped(@) ELSE @,
          !.est_stack = IF establishing THEN Popped(@) ELSE @,
          !.rel_explicit = @ \/ establishing,
          !.cur_class = IF establishing THEN None ELSE @,
          !.paren_receiver = Popped(@),
          !.depth = IF @ > 0 THEN @ - 1 ELSE 0,
          !.pending_arrow_receiver = <<>>]

(***************************************************************************)
(* dispatch_token.  The type a navigation ended in is remembered for one   *)
(* token, and the comparison it arms for one more.                         *)
(***************************************************************************)
Armed(t, lexeme) ==
    [t EXCEPT !.last_resolved = NoType,
              !.cmp_pending = CASE lexeme # "Cmp" -> NoType
                                [] lexeme = "Cmp" /\ t.last_resolved # NoType
                                                  -> t.last_resolved
                                [] OTHER          -> @]

DispatchToken(t, bytes, pre) ==
    LET lexeme == Classify(bytes)
        u      == Armed(t, lexeme)
    IN  CASE lexeme = "Ws"    -> t
          [] lexeme = "Ident" -> OnIdent(u, bytes, pre)
          [] lexeme = "Dot"   -> OnDot(u)
          [] lexeme = "Arrow" -> OnArrow(u)
          [] lexeme = "Cmp"   -> u
          [] lexeme = "Pipe"  -> OnPipe(u, pre)
          [] lexeme = "Open"  -> OnOpen(u, pre)
          [] lexeme = "Close" -> OnClose(u)
          [] lexeme = "Comma" -> [u EXCEPT !.lambda_first_ident = None,
                                           !.last_ident = None]
          [] lexeme = "Str"   -> [u EXCEPT !.last_ident = None,
                                   !.emitted_strings = Append(@, Unquote(bytes))]
          [] OTHER            -> [u EXCEPT !.last_ident = None]

(***************************************************************************)
(* The rule a position is narrowed by: at an anchor that of the state, in  *)
(* a lexeme the one it was opened under.                                   *)
(***************************************************************************)
InColumnArg(t) == t.ref_stack # <<>> /\ t.rel_explicit /\ t.est_stack = <<>>

OpeningPosition(t, state) ==
  CASE state \in {"ExpectSource", "BlockStmt", "BlockStmtClose"} -> Position("SourceIdent")
    [] state = "AfterDot" /\ t.dot_is_column -> Position("RelationColumn")
    [] state = "AfterDot" /\ ~t.dot_is_column /\ t.dot_base # None -> Member(t.dot_base)
    [] state \in HubStates /\ t.cmp_pending # NoType -> ReValue(t.cmp_pending)
    [] state \in HubStates /\ t.cmp_pending = NoType /\ InColumnArg(t) -> Position("Column")
    [] OTHER -> NoPosition

PositionAt(t, state) ==
    IF LexKind(state) = NoLexKind THEN OpeningPosition(t, state) ELSE t.pending.pos

NarrowPrefix(t) == t.pending.buf

NavFromVar(t, var) ==
  CASE var \in t.relation_row_vars -> Position("RelationColumn")
    [] var \notin t.relation_row_vars /\ BoundClass(t, var) # None -> Member(BoundClass(t, var))
    [] OTHER -> NoPosition

NavThrough(found) == IF found.kind = "class" THEN Member(found.path) ELSE NoPosition

NavFromMember(t, member) ==
    IF t.dot_base = None THEN NoPosition ELSE NavThrough(Resolve(Schema, t.dot_base, member))

\* What a dot fused with the name after it would navigate from.
FusedNavPosition(t) ==
  CASE t.pending.kind = "Ident" /\ t.pending.anchor = "AfterDollar" ->
         NavFromVar(t, t.pending.buf)
    [] t.pending.kind = "Ident" /\ t.pending.anchor = "AfterDot" ->
         NavFromMember(t, t.pending.buf)
    [] t.pending.kind = NoLexKind /\ t.pending_refvar # None ->
         NavFromVar(t, t.pending_refvar)
    [] /\ t.pending.kind = NoLexKind /\ t.pending_refvar = None
       /\ t.nav_cursor # None -> Member(t.nav_cursor)
    [] OTHER -> NoPosition

(***************************************************************************)
(* observe: a committed token is cut into lexemes and gaps (module         *)
(* Segmentation cuts them one step at a time); each is dispatched as it    *)
(* closes, and a lexeme still open at the end is buffered.  A cut is the   *)
(* state of that loop.                                                     *)
(***************************************************************************)
DispatchGap(t, seg, anchor) ==
    LET tokens == FlushGap(seg, anchor)
        after[n \in 0 .. Len(tokens)] ==
          IF n = 0 THEN t
          ELSE DispatchToken(after[n - 1], tokens[n].bytes, tokens[n].anchor)
    IN  after[Len(tokens)]

EmitLexeme(cut) ==
    IF cut.continuing
    THEN DispatchToken([cut.scope EXCEPT !.pending = NoPending],
                       cut.scope.pending.buf \o BytesOf(cut.seg),
                       cut.scope.pending.anchor)
    ELSE DispatchToken(cut.scope, BytesOf(cut.seg), cut.anchor)

BeginCut(t, p) ==
    LET continuing == t.pending # NoPending /\ LexKind(p.state) = t.pending.kind
        flush      == ~continuing /\ t.pending # NoPending
    IN  [pda |-> p, seg |-> <<>>, continuing |-> continuing,
         anchor |-> IF continuing THEN t.pending.anchor ELSE p.state,
         scope  |-> IF flush
                    THEN DispatchToken([t EXCEPT !.pending = NoPending],
                                       t.pending.buf, t.pending.anchor)
                    ELSE t]

\* What the byte that moves the automaton to next closes or opens.
CutBefore(cut, byte, next) ==
    LET before == LexKind(cut.pda.state)
        after  == LexKind(next.state)
        moved  == [cut EXCEPT !.pda = next, !.seg = Append(@, byte)]
        opened == [moved EXCEPT !.seg = <<byte>>, !.anchor = cut.pda.state,
                                !.continuing = FALSE]
    IN  CASE before = after -> moved
          [] before # after /\ before # NoLexKind ->
               [opened EXCEPT !.scope = EmitLexeme(cut)]
          [] OTHER ->
               [opened EXCEPT !.scope = DispatchGap(cut.scope, cut.seg, cut.anchor)]

CutByte(cut, b) == CutBefore(cut, Read(b, cut.pda.state), Advance(cut.pda, b))

\* Faulty: a fragment that goes on with a lexeme starts it anew.
BufferTrailingAnew(cut, kind) ==
    [cut.scope EXCEPT !.pending =
       [kind |-> kind, buf |-> BytesOf(cut.seg), anchor |-> cut.anchor,
        pos |-> OpeningPosition(cut.scope, cut.anchor)]]

\* buffer_trailing: an operand literal is narrowed at its first token only.
BufferTrailing(cut, kind) ==
    LET opening == OpeningPosition(cut.scope, cut.anchor)
    IN  IF cut.continuing
        THEN [cut.scope EXCEPT !.pending.buf = @ \o BytesOf(cut.seg)]
        ELSE [cut.scope EXCEPT !.pending =
               [kind |-> kind, buf |-> BytesOf(cut.seg), anchor |-> cut.anchor,
                pos |-> IF opening.rule = "ReValue" THEN NoPosition ELSE opening]]

EndCut(cut) ==
    LET kind == LexKind(cut.pda.state)
    IN  IF kind = NoLexKind THEN DispatchGap(cut.scope, cut.seg, cut.anchor)
        ELSE BufferTrailing(cut, kind)

\* For a token all of whose bytes live from p.
Observe(t, bytes, p) ==
    LET cut[n \in 0 .. Len(bytes)] ==
          IF n = 0 THEN BeginCut(t, p) ELSE CutByte(cut[n - 1], bytes[n])
    IN  EndCut(cut[Len(bytes)])
=============================================================================
