# PureCARD: specification and proofs of the constrained decoder

PureCARD keeps a language model inside the grammar of emitted Pure queries: at
every decode step it tells the host which tokens may come next, and it checks
the token the host commits. This directory holds TLA+ models of that decoder,
the TLC configurations that check them on small instances, and TLAPS proofs for
every instance. Source paths below are relative to the repository's `src/`
crate directory (`grammar/pda.rs`, `session.rs`, ...).

## The system

| Component | State it keeps | Operations | What makes it correct |
|---|---|---|---|
| Byte automaton, `grammar/pda.rs` | `Pda`: a state and a stack of frames | `step`, `advance`, `is_accepting`, `admits`, `probe`, `reset` | delimiters nest; block rules stay in a block; a bare source is no query; every live prefix can be completed |
| Recognizer contract, `recognizer.rs` | none of its own | `accept_byte`, `is_complete`, `reset` | a dead byte changes nothing |
| Compiled grammar, `grammar/compiled.rs` | vocabulary, one lazily built partition per automaton state | `cached`, `build` | a partition built over the empty stack is right over every stack, whoever built it |
| Decode session, `session.rs` | automaton, offset, reused mask buffer; with a schema also the scope machine and the narrow cache | `allowed_mask`, `accept_token`, `accept_byte`, `reset`, clone | the mask is exactly what `accept_token` takes; a refusal is invisible; answers depend on the committed text only |
| Vocabulary, `vocab.rs` | the token table | `bytes`, `len` | immutable |
| Token mask, `mask.rs` | words of 64 bits | `set`, `clear`, `test`, `intersect`, `copy_from`, packing | a set of ids, the EOS bit included |
| Self-check, `selfcheck.rs` | none between calls | `self_check`, `longest_match` | returns; its alarm is about the vocabulary |
| Schema model, `schema/model.rs` | classes, associations, stores | `member_names`, `resolve` | the two agree |
| Name trie, `schema/trie.rs` | trie of names | `walk` | a walk survives exactly on prefixes of names |
| Scope machine, `schema/scope.rs` | pipeline class, bindings, pending lexeme, saved scopes | `observe`, `position` | independent of how bytes are split into tokens; never masks a real member |
| Narrowing, `schema/narrow.rs` | per-rule mask memo | `narrow_into`, `narrow_fused_into`, `clear` | only removes tokens; keeps EOS; a memo is never stale |
| Python boundary, `ffi.rs` | shared grammar, one session, packed mask | one call of the session each | marshalling only |

Interaction: a host compiles one grammar per vocabulary and opens any number
of sessions on it. A session owns its automaton and calls into the grammar
only to read (and, on a state's first visit, build) a partition. Everything is
single-threaded: the cache is an `OnceCell` behind a shared reference, and the
Python classes are `unsendable`. So one call is one atomic step, and what
interleaves are whole calls of several sessions. Nothing is persisted and no
messages are exchanged. The hard behaviours are therefore long sequences of
legal calls, partitions and masks used in a context other than the one they
were computed in, tokens that straddle lexemes and frames, and loops that must
end.

`PROJECT.json` lists each hazard at its line with the properties that cover it.

## The modules

    Pda                    the automaton: states, frames, step, driver, probe
      Recognizer           byte streams through the automaton
        (implements Delimiters, the abstract delimiter discipline)
      ProbePartition       the empty-stack probe beside the live replay
      CompiledGrammar      partitions of a vocabulary, masks assembled from them
        DecoderSession     sessions over one lazily filled cache
          (implements Decoding, answers as a function of the text)
      SelfCheck            the tokenizer self-check
      Lexemes              lexeme kinds, cuts, gaps, quoting
        Segmentation       tokens cut into lexemes, byte by byte
          (implements Lexing, lexemes as the automaton cuts them)
        ScopeTracker       the scope machine, handler by handler (with SchemaModel)
          Narrowing        the sets the rules keep and their memo
                           (with CompiledGrammar and NameTrie)
            SchemaSession  a session under a schema, and a host writing queries
    SchemaModel            classes, associations, member_names and resolve
      SchemaNavigation     navigations over a set of super-type graphs
    NameTrie               the byte trie of names
    BitMask                masks as words of bits (implements MaskSets, sets of ids)
    MC*                    the instances TLC checks
    *_proofs               the theorems of Pda, Recognizer, ProbePartition with
                           DecoderSession, SelfCheck, Segmentation, NameTrie
                           and SchemaNavigation (Schema_proofs),
                           SchemaSession and BitMask

**Pda** is the pure part of `pda.rs`. The arms of `step` are one operator per
group of states (`EnvelopeStep`, `SourceStep`, `NumberStep`, ...), dispatched
by `Step`. The two hubs that other arms delegate to are `ValuePosition` and
`AfterValueStep`. A configuration is the record `[state, stack]`, stack bottom
first. `StepNext`, `StepPush`, `StepPop` and `StepDead` are the four variants
of `Step`. `InStrLit { escaped }` is the pair of states `StrBody`, `StrQuote`.
The alphabet is the quotient of the 256 bytes by the tests `step` makes: one
element per byte that some arm names, and one for each class of bytes no arm
tells apart (blanks, other lower-case letters, other upper-case letters,
digits, everything else). The quotient loses nothing, because two bytes of a
class take the same arm in every state. Frames carry no data in the code either.

**Recognizer** is `ByteRecognizer` over `Pda`: `AcceptByte`, `RejectByte`,
`SignalEos` (what `is_complete` answers) and `Reset`. `navigated` is a history
variable: whether the stream has navigated yet. **Delimiters** is what the
recognizer promises about delimiters without the automaton, and
`RefinesDelimiters` maps frames to openers and the string states to a quoting
mode.

**ProbePartition** runs the two loops of `pda.rs` side by side on the same
bytes: `probe`, from a bare state, and `admits`, from the same state over a
live stack. The bytes are chosen as they are read, so the token is any token.

**CompiledGrammar** is `build` and the part of `allowed_mask` that turns a
partition into a mask. **DecoderSession** has one action per outcome of each
call: `AllowedMask`; `AcceptToken`, `InadmissibleToken`, `AcceptEos`,
`UnknownToken` for `accept_token`; `AcceptByte`, `DeadByte`; `Reset`; `Clone`.
The cache is a function whose domain is the states built so far and whose
entries are never replaced. The mask buffer is not a variable, as `copy_from`
overwrites all of it on every call. **Decoding** is the abstract specification:
the only state is the text each session has committed, and every answer is a
function of that text. The grammar is a parameter of it, two operators that say
whether a text is a live prefix and whether it is complete; `DecoderSession`
gives them the automaton's answers.

**SelfCheck** has one action per turn of the two loops of `self_check` and one per
early return. The mask it asks the session for is `Masked`: what the partition
files as alive, what it defers and the replay admits, by the operators of `Pda`
that `CompiledGrammar` uses too.

**Lexemes** is what the schema half says about lexemes: their kinds
(`LexKindOf`), where one begins and ends, how the bytes between two are munched
into gap tokens (`FlushGap`), how a literal is classified, unquoted and quoted.
Its loops, like those of the other modules that are proved about, are recursive
functions over an index (`FlushGap`, `Counted`, `Unwound`, `DispatchGap`,
`Observe`), which the proofs unfold one turn at a time.
**Segmentation** is the front half of `observe` by itself: the cutting of
committed tokens at lexeme boundaries, the lexeme still open in `pending`, and the
dispatch of what is complete. `BeginToken` is its code before the loop,
`Accumulate`, `CloseLexeme` and `OpenLexeme` are the three outcomes of one turn
of the loop, `EndToken` is its code after the loop, and `Reset` comes between
tokens. `walk` holds the locals of the call. Taking the loop byte by byte makes
every token a behaviour, and adds no interleaving because the tracker is read
and written by this call only. Each byte of a segment carries the state it was
really read from (`at`), for the properties only. **Lexing** is the abstract
specification: the automaton, a parameter, cuts a stream of bytes into lexemes,
and tokens do not exist.

**ScopeTracker** is all of the scope machine over whole tokens. A tracker is a
record with the fields of `ScopeTracker` in `schema/scope.rs`, and each handler
(`OnIdent`, `OnDot`, `OnArrow`, `OnPipe`, `OnOpen`, `OnClose`, ...) is an operator
from a tracker to the tracker it leaves. `Observe` is `observe`; `PositionAt` is
`position`, `FusedNavPosition` and `NarrowPrefix` are the two others the session
calls. Names are short sequences of bytes, since what may be fused with or cut
out of a name is a matter of its bytes.

**SchemaModel** is `schema/model.rs` as a record of classes and associations
with its two walks over the super-types, `MemberNames` and `Resolve`. A recursive
method is a function of its calls, a call being a class and the classes visited
before it (`collect`, `find`); `CollectMembers` and `ResolveIn` are the bodies,
`MembersAbove` and `FoundAbove` their loops over the super-types. `IsSchema` says
what a deserialised document always is: finitely many classes, each with lists, and
a type for every property. **SchemaNavigation** (`NavSpec`) follows names from class to class over every small graph,
and its properties say what the walks should find in terms of a reachability
relation. **NameTrie** builds the trie of a list of names and walks it; its
`Extends` says, without a trie, which bytes begin or go beyond a name.
**Narrowing** is `schema/narrow.rs` and the schema block of `allowed_mask`: one
set of kept ids per rule, memoised under the keys of the code, and `Overlay`,
which intersects the position's pass and the fused-dot pass with the L1 mask.

**SchemaSession** puts them together. Its state is that of a session with a
schema (`pda`, `tracker`, `memo`, the last `answer`) and a host. The host is the
environment: it writes a query that is legal over the schema, in any tokens of
the vocabulary that spell it (`AcceptToken`), masks before it commits
(`AllowedMask`), may leave the query for any other admissible token
(`AcceptStray`, as `accept_token` does not consult the schema) or feed a single
byte (`AcceptByte`, which moves the automaton and not the tracker), and may
reset at any time. The L1 mask is computed from the partition directly;
`DecoderSession` shows that the shared cache makes no difference. A query is
a sequence of pieces, and a piece says which names, or which type of literal, the
schema allows in its place. So what is legal comes from the query and not from
the scope machine under test. `CutsWell` says where a tokenizer may cut: names
and literals anywhere, operators nowhere, which is what the repository's own
split test does (`fragment` in `tests/bpe_split_soundness.rs`). Lexemes may be
fused in any way the vocabulary has a token for.

**BitMask** is `mask.rs` on words of 64 bits, each word the set of its bit
positions. All masks of one decoder have one length, as in the code. **MaskSets**
is the abstract specification: every mask is a set of ids.

Definitions whose comment begins with "Faulty" are variants of the definition
that follows them, each with a mistake the code could plausibly have had. Nothing
refers to them; substituting one shows that the properties notice it.

## The runs

| Run | Module | Instance | Properties |
|---|---|---|---|
| `recognizer` | Recognizer | `MaxDepth = 3`, all byte classes, streams of any length | `TypeOK`, `ScopeOK`, `NoBareSource`, `Completable`, `RefinesDelimiters` |
| `probe_partition` | MCProbePartition | every state, 0 to 2 frames below, tokens up to 3 bytes | `ProbeTypeOK`, `PartitionSound` |
| `decoder_session` | MCDecoderSession | 2 sessions, 9 tokens, 9 bytes of text in all, 2 partitions | `TypeOK`, `CacheServesEveryStack`, `RefinesDecoding` |
| `self_check` | MCSelfCheck | 512 vocabularies, 6 sample lists | `TypeOK`, `VerdictIsAboutTheVocabulary`, `Terminates` |
| `segmentation` | Segmentation | 18 byte classes, 2 frames, lexemes of 4 bytes, gaps of 3, any cuts | `TypeOK`, `PendingIsOpenLexeme`, `DepthInStep`, `StringsRoundTrip`, `RefinesLexing` |
| `schema_navigation` | MCSchemaNavigation | 8 parent lists for each of 3 classes, 8 choices of declarations, 3 of associations | `MembersAreWhatResolves`, `MembersAreInherited`, `OwnThenInherited`, `EarliestWins`, `AssociationsBothWays` |
| `schema_session` | MCSchemaSession | 6 queries, 45 tokens, 2 calls off the query | `TypeOK`, `GoldAdmitted`, `PhantomsMasked`, `MaskIsOfTheText`, `NarrowsOnly`, `NotStranded`, `MemoFresh`, `MemoIsInvisible`, `FragmentsDriveAlike`, `BindingsUnwind` |
| `bit_mask` | MCBitMask | 2 masks of 64 or 66 bits | `TypeOK`, `RefinesSets` |
| `opener_claim` | Segmentation | as `segmentation` | `OpenersClassifyAlike`, violated |
| `nav_claim` | MCSchemaSession | a projection of a navigated class | `GoldAdmitted`, violated |
| `let_claim` | MCSchemaSession | a block of two lets | `GoldAdmitted`, violated |
| `binder_claim` | MCSchemaSession | a lambda with a typed binder | `GoldAdmitted`, violated |

What they show:

* `TypeOK` of the recognizer: besides the types, wherever the automaton stands, a byte
  that pops finds a frame (`PopsFindAFrame`), since `advance` pops without a test.
  The `TypeOK` of the other modules state types, ranges and bounds only.
* `ScopeOK`: `let`, `;` and the single `=` are reachable at the top of a block
  only, and a source path only at the start of a query or a statement.
* `NoBareSource`: no path from the start to an accepting configuration avoids
  a navigation, an arrow or a variable.
* `Completable`: for every reachable configuration, a word computed from it
  (finish the open token, then close the open frames innermost first) is
  accepted. A state without a way out would be a trap for the host.
* `RefinesDelimiters`: each accepted byte is one the delimiter discipline
  allows, in particular around string literals and doubled quotes, and the end
  of the stream is accepted only when nothing is open.
* `PartitionSound`: an independent token is alive over every live stack and
  reaches the same state, a dropped token is dead over every live stack, and a
  deferred token is dead over the empty one (the shortcut of `allowed_mask`).
* `CacheServesEveryStack`: the same, for the entries the sessions actually
  share, at the stacks they actually meet.
* `RefinesDecoding`: masks are exact, refusals change nothing, tokens and bytes
  are interchangeable, error offsets are the length of the text, and no session
  influences another.
* `VerdictIsAboutTheVocabulary`: an Ok means all samples are queries, and the
  only alarm a list of queries can raise is a position no token covers. The
  longest token may lead to such a position although other tokens spell the
  sample; that needs a byte of the sample that has no token of its own, so a
  vocabulary with a token for every byte passes every list of queries.
* `Terminates`: the self-check always returns.
* `RefinesLexing`: however a stream is cut into tokens, the scope machine is
  given the same lexemes, whole and with the same anchors.
* `PendingIsOpenLexeme`: between tokens the buffer is the lexeme the automaton is
  inside, so the narrower's prefix is never stale.
* `DepthInStep`: the tracker's own delimiter count is the automaton's between
  tokens, whatever strings, lambdas and fused closers the tokens contain.
* `StringsRoundTrip`: a string literal unquoted by the tracker and quoted again
  by the narrower is byte for byte the literal the stream had.
* `MembersAreWhatResolves`, `MembersAreInherited`: the narrower's names and the
  scope machine's types come from two walks; over cycles, self loops, diamonds
  and dangling parents the two agree, and both find what the graph says.
* `OwnThenInherited`, `EarliestWins`: a class's own properties count before what it
  inherits. Of several ancestors that have a member of that name the one at the
  earliest place counts: places are compared turn by turn along the chains of
  super-types that lead to them, without a walk or a list of visited classes. An
  earlier super-type goes before a later one with everything above it, so what
  counts is not always the ancestor with the fewest steps.
* `AssociationsBothWays`: an association leads from each end to the other.
* `GoldAdmitted`: in every tokenization of every query, each token that goes on
  spelling it is in the mask, and EOS is at its end.
* `PhantomsMasked`: where the schema allows only some names or one type of
  literal, no token that begins another one, continues to another one, or
  reaches one through a fused dot is in the mask.
* `MaskIsOfTheText`: the mask is the one a session gives that was handed the query
  piece by piece and never asked before, so neither the cuts, nor the masks asked
  for in between, nor the memo matter.
* `NarrowsOnly`: on and off the legal queries the overlay only removes tokens,
  and agrees with L1 on EOS.
* `NotStranded`: whole tokens, on and off the legal queries, never lead to a
  mask of blanks alone where L1 offers more.
* `MemoFresh`: each memoised mask is the one its rule gives over the names as
  they are in this stream.
* `MemoIsInvisible`: the mask answered is the one an empty memo would have given.
  `MaskIsOfTheText` says so along the legal queries, this one after strays and
  single bytes too.
* `FragmentsDriveAlike`: wherever a mask has been answered, each admissible token of
  the vocabulary and each place inside it where a lexeme is open: given in two
  parts that meet there, it leaves every field of the scope machine as the whole
  token does.
* `BindingsUnwind`: closing what is open undoes every binding, in the order of
  the delimiters. The byte calls included, the saves fit the depth.
* `RefinesSets`: the words behave as sets of ids under every sequence of
  operations, and the packed bytes hold exactly the ids of the mask.

The four violated runs are listed under `findings` in `PROJECT.json`, with the
sentences they contradict:

* `opener_claim`: the tokens of a gap share one anchor. A `[` that shares its
  token with the `~` before it is not recognised as a column set; in two tokens
  it is.
* `nav_claim`: `on_open` gives the receiver of an arrow to the first delimiter
  after it and the pipeline's class to the next. In
  `|A.all()->filter(x|$x.a->project(~[e:y|$y.e]))` the inner `y` is typed as `A`
  and a real property of `$x.a` is masked.
* `let_claim`: `{|let x=A.all();let y=AA.all();$x->...}` types `$x` by the class
  of the last source, as one cursor serves all statements.
* `binder_claim`: the bracket of a multiplicity clears the binder, so
  `{row:A[1]|...}` leaves an outer `row` bound to its own class.

Other limits met while modelling, outside the queries and bounds of the runs above:

* Split independence holds for lexemes, and for masks as long as operators are not cut.
  An arrow cut into `-` and `>` is dispatched as a minus and a comparison.
* A source that begins with `l` in a block is read in the states of a candidate
  `let`, which are inside no lexeme. Its first letters are dispatched on their
  own, its class is not found, and what follows is not narrowed.
* `accept_byte` leaves the tracker behind. After a single `'` fed that way the
  position can be one where narrowing and automaton agree on nothing.
  `NotStranded` is therefore about whole tokens. What holds after byte calls too
  (`NarrowsOnly`, `MemoIsInvisible`, `BindingsUnwind`) holds in spite of the stale
  scope and does not show it.
* A nested source as an argument, `concatenate(AA.all())`, moves the
  class cursor of the pipeline it is an argument of.
* A property whose class is not in the schema resolves to a class without
  members. Its trie is empty, and every name is masked after the dot.
* Operations between masks of different lengths could set bits in the padding
  of the shorter one. A decoder makes all its masks of one length.
* A block of `let` statements without a final pipeline, `{|let x=A.all();}`, is
  accepted as a query, where the comment on `block_stmt` (pda.rs) asks for a
  pipeline at its end. A literal alone, with or without a block, is not.
* The self-check takes the longest token without backtracking, and can fail on a
  sample the vocabulary spells (see `VerdictIsAboutTheVocabulary` for when not).

### Bounds

`MaxDepth` bounds the frames open at once, in the guard of `AcceptByte`. The
step looks at the top frame only, so two frames show every pair of an outer and
an inner scope, and three show a scope between two others. The length of the
stream is not bounded. In `probe_partition` a token of three bytes can push,
use and pop a frame and then reach below it. Two frames below cover a token
that pops one ambient frame and needs the next. The proofs remove both bounds.
In `segmentation`, lexemes of four bytes include a string that is one doubled
quote, and gaps of three include a two-byte operator next to a delimiter. A lexeme
or a gap can be cut after each of its bytes. `StringBytes` keeps the content of
strings to a quote, an opener and a blank, the bytes that could upset the
counting; any other byte of a string takes the same path as the opener. `Bytes`
leaves out classes that `observe` treats like one it contains. The proof has no
bound.
`schema_navigation` explores 49152 states: every choice of parents, declarations and
associations, with each class. Three classes and a path that is none give
cycles of every length, a diamond over a cycle, and parents that dangle.
In `schema_session` the names are cut and fused in every way the vocabulary has a
token for. Names of one to three letters are prefixes of one another, which is
what the trie can get wrong. The six queries use every rule (sources, members,
columns of both kinds, operands), nested lambdas that shadow, a relation inside
a pipeline, a block, and associations both ways; the sources, members and columns
narrowed are those of their pieces. `MaxStray` lets the host make two calls off
its query, at any point of it; the tokens are `)` and `A` and the byte is `)`, since a
closer and a name of a class are what moves the scope, and a name is what leaves a
trie. The vocabulary
holds no token in which `~[` is fused (`opener_claim` is about that one).
In `bit_mask` the lengths fill a word and reach two bits into the next, and the ids
asked for lie on both sides of each boundary and beyond the length.
In `decoder_session`, `MaxText` bounds the bytes all sessions hold together:
nine let two sessions each hold the four-byte source and one of them open a
frame, or one session go five bytes further. `MaxBuilt` bounds how many
partitions exist: two allow an entry that serves and one that is being built.
The vocabulary has a token of every kind the partition distinguishes
(independent, deferred, dropped), some of which push and pop inside one token,
and the empty token. The sessions are interchangeable, which the symmetry
declaration uses. In `self_check` the vocabularies are all subsets of nine
pieces in a fixed order.

### Fairness and deadlock

Only `SelfCheck` states fairness, weak fairness of its next-state relation:
`self_check` is a sequential loop that runs until it returns. The other
modules have no liveness, since a host may stop at any time: the decoder only
answers calls, and promises nothing about how a host samples. `SelfCheck` and
`ProbePartition` stop when the call returns or the token ends, so deadlock is
not checked for them. It is checked for the others, whose calls are always
possible.

## The proofs

Everything below holds for every value of the constants. The assumptions are the
named ones of the modules: the bounds are naturals (`MaxDepth` of the recognizer
positive), and vocabularies, samples, queries, strays and frame stacks are
sequences over the alphabet. No theorem assumes that a set is finite, that a
vocabulary holds a given token. Of a schema they assume what every document read
satisfies: `IsSchema` for the walks, and for a session under a schema
`SchemaAssumption` of `ScopeTracker`, which adds that names are texts. Super-types may
form cycles and diamonds, dangle, or be listed twice.

**The loops.** Whatever the code folds over a token, a text or a stack is a
recursive function over an index here. `Pda_proofs` proves once, by choosing a least
counterexample in a set of indexes, that induction over `0 .. N` holds
(`InductionUpTo`) and that a fold over a sequence has a trace (`TraceExists`). The
lemmas about `FeedAll`, `ProbeAll`, `FlushGap`, `Counted`, `Unwound`, `Observe` and
`Text` are read off their traces.

**The automaton** (Pda_proofs).

* `StepWellFormed`: `step` is total, leads to states of the automaton, and pops only
  over a frame. It is proved arm group by arm group.
* `StepMonotone`: a byte that lives over no frame does exactly the same over any
  frame. Every arm that looks at the top frame only ever adds life because of it.
* `ProbeIsExact`: for a token of any length and any live stack, what the probe
  from the bare state answers is what the replay over the stack finds: alive means
  admitted, dead means refused, and a probe that wanted a frame means refused over
  the empty stack. It is the fact behind the partition cache.

**The recognizer** (Recognizer_proofs).

* `RecognizerTypeInvariant`: `Spec => []TypeOK`. By `StepWellFormed` a pop is only
  ever answered over a frame, in every configuration (`PopsAlwaysFind`).
* `ScopeInvariant`: `Spec => []ScopeOK`. `ScopeOK` is inductive together with
  `TypeOK`. The lemma `StepArrives` says from which states and over which frame
  a step can arrive in a scope-restricted state, and the three kinds of outcome
  are then checked against the stack they leave.
* `NoBareSourceInvariant`: `Spec => []NoBareSource`. The property is about
  accepting configurations and is not inductive. `BeforeInv` strengthens it: until
  the stream has navigated, the automaton is in one of the states
  `BeforeNavigation` (the envelope, the first statement, a source, a `let` with its
  binder), and no byte leaves that set without setting `navigated`. None of
  those states accepts, whatever the stack.
* `NoConfigurationIsATrap` and `CompletableInvariant`: from every state, over
  every stack of any depth, the word computed from the configuration is
  accepted, so `Completable` needs no more than `TypeOK`. `Finishes` says of each state
  that its own word ends the open token without looking below the top frame, and the
  closing word is then followed one frame at a time.
* `ImplementsDelimiters`: `Spec => RefinesDelimiters`. `StepQuotes` says when a
  step enters, stays in and leaves a string, `AcceptNests` that outside strings a
  byte pushes or pops the frame it names. A refused byte, EOS and a failed call
  stutter.

**Partitions, sessions and the self-check.**

* `ProbeTypeInvariant` and `PartitionIsSound` (DecoderSession_proofs):
  `PartitionSound` is inductive, byte by byte, by the lemmas of `ProbeIsExact`.
* `PartitionServes` and `MaskIsExact` (DecoderSession_proofs): a partition built for a
  state, with the live stack, tells exactly the admissible tokens, and the mask
  assembled from it is exactly what the session would accept.
* `SessionTypeInvariant`, `SessionsReadTheirTexts`, `CacheIsSound`, `ImplementsDecoding`
  (DecoderSession_proofs): `Spec => []TypeOK` (types only), that each session is where
  its text leads, `Spec => []CacheServesEveryStack` and
  `Spec => RefinesDecoding`, for any number of sessions. The invariant
  `SessionInv` is what the abstract specification cannot see: each automaton is the one
  its session's text leads to and is alive, the offset is the length of that
  text, and each cached entry is what `build` computes for its state. With it
  the answer of each call is a function of the text, and building a partition, which
  changes the cache only, is invisible.
* `SelfCheckTypeInvariant` and `VerdictIsSound` (SelfCheck_proofs). `CheckInv` adds
  to the verdict what the two loops have established: the samples before the
  current one are queries, and the automaton is the one that the segmented part
  of the current one leads to. A dead end or an open end is then about a sample that is
  no query, and the only alarm left for a query is a position no token covers, whose byte
  has no token of its own (`UncoveredByte`).

**Lexemes and the scope machine.**

* `SegmentationTypeInvariant`, `BufferIsOpenLexeme`, `SplitIndependence`
  (Segmentation_proofs): `Spec => []TypeOK`, `Spec => []PendingIsOpenLexeme` and
  `Spec => RefinesLexing`. The inductive
  invariant `SegInv` says where the bytes of the open lexeme are: between tokens
  in the buffer; inside a token that continues the buffer, in buffer and segment;
  inside any other token, in the segment alone with the buffer empty. The
  refinement mapping `InFlight` puts them back together, so beginning and ending
  a token are stuttering for the lexeme and a byte is a step of `Lexing`.
* `DepthInvariant` (Segmentation_proofs): `Spec => []DepthInStep`. The counter lags
  behind the stack inside a token, so `DepthInv` says that it will have caught up
  once the open segment is dispatched (`Counted`). That munching a gap into one-byte
  and two-byte tokens counts the same delimiters as taking its bytes one by one
  is an induction over the gap.
* `StringsInvariant` (Segmentation_proofs): `Spec => []StringsRoundTrip`. `StringInv`
  follows a literal while it is open: in `StrBody` the bytes are an opening quote and
  content in which quotes are doubled, in `StrQuote` they are a whole literal.
* `UnwindInvariant` (SchemaSession_proofs): `Spec => []BindingsUnwind`, for any
  schema and any cuts. `StreamInv` holds a well-formed automaton beside a
  `GoodTracker`: both save stacks are ordered by depth and below it, and
  there is a chain of bindings from those bound now down to none, each the one before
  the binder above it. A pipe extends the chain, a closer cuts it where its own
  depth begins, and each of the other handlers leaves bindings, saves and depth alone.
  `ObserveIsGood` carries it over all the cuts of a token.
* `SchemaTypeInvariant` (SchemaSession_proofs): `Spec => []TypeOK`.
* `OverlayNarrowsOnly` (SchemaSession_proofs): `Spec => []NarrowsOnly`, for any
  schema, vocabulary, queries and strays. The overlay intersects, so it can only
  remove tokens; what needs an invariant is EOS, as a mask may come from the
  memo, filled any number of calls earlier. `ClearsInv` says that every memoised
  mask, of operands and of tries, holds EOS, and each pass preserves it. The
  proof expands neither the tracker nor the trie.
* `MemoInvariant` (SchemaSession_proofs): `Spec => []MemoFresh`, for any schema,
  vocabulary, queries and strays. `MemoFresh` is not inductive: it says nothing of a
  memo while no mask is known, and nothing of the trie a later mask is filled from.
  `MemoInv` says of every entry at all times that its trie is the one of the names its
  rule has for the first `count` columns (`FreshMemo`), and of the tracker that
  its columns are texts (`Emits`). Three facts carry it. A commit only adds columns: each
  handler, each cut of a token and each gap leaves the columns of an earlier point
  where they were (`ObserveEmits`), so the names of a key do not change under it
  (`FreshGrown`). Every position narrowed by names has names, and they are
  sequences of bytes, whether they come from the walks of the schema or from the
  stream (`PositionType`, `LegalNamesType`). And the cursor that a prefix leads to is
  filled with what the names alone would keep, because the trie is exact
  (`FilledKeeps` and `FusedKeeps`, from `TrieIsExact`); it does not matter which
  prefix filled it, since a cursor is reached by one spelling only (`CursorSpells`).
* `AnswerForgetsTheMemo` (SchemaSession_proofs): `Spec => []MemoIsInvisible`, for any
  schema, vocabulary, queries and strays, and after single bytes. `AnswerInv` adds to
  `MemoInv` that the memo holds only masks as they are filled (`FilledMemo`: an operand
  mask is that of its type, an entry has a trie and masks). Each of the passes is
  then followed twice, with the memo and with none: they apply at the same positions,
  and a mask found and a mask made are the same set, since both are what the names
  alone would keep (`OperandAnswer`, `TrieAnswer`, `FusedAnswer`, from `MemoFresh`'s
  lemmas). The pass for fused tokens starts from the memo the first has just written
  (`OverlaySame`).
* `FragmentsAreInvisible` (SchemaSession_proofs): `Spec => []FragmentsDriveAlike`, for
  tokens of any length. The invariant `FragmentInv` adds to `StreamInv` that what is
  pending is nothing or a whole buffer (`Owes`); inside a token it becomes `CutOwes`,
  that a cut has a buffer exactly as long as it goes on with the lexeme of the token
  before. That needs every handler to leave `pending` alone (`DispatchKeeps`). The
  theorem itself is a simulation (`DrivenInTwo`): beside the loop over the whole token
  runs the loop over its second part, and `Joining` relates the two as long as the
  lexeme of the cut stays open: buffer and segment of the second together are
  buffer and segment of the first. Class, anchor and narrowing position are those of
  the lexeme's first byte in both (`HeldInBuffer`). Where the lexeme closes, both
  dispatch the same bytes under the same anchor (`HeldAlike`), and from there the two
  loops are in the same state; if it does not close, both leave the same buffer
  (`EndAlike`).
* `LexemesAreUncut` (SchemaSession_proofs): `Spec => []UncutLexemes`, the same for a
  whole stream: however the tokens of a query cut its lexemes, automaton and scope
  machine are where a run of tokens that cut none would have brought them. `StopsInv`
  keeps such a run. A token that begins outside every lexeme extends it by a stop, and one
  that begins inside a lexeme moves its last stop on, by `DrivenInTwo`. The run is a
  witness that grows with the stream and no state holds it, so TLC does not check it;
  with `AnswerForgetsTheMemo` the mask is that run's as well.

**The name trie** (Schema_proofs). `TrieIsExact`: for every list of names, whatever
their bytes, and every cursor that the typed bytes lead to, a walk from
the cursor diverges exactly when typed and walked bytes together neither begin a name
nor go beyond one. It is the rule by which a token is kept. The invariant of building
(`Spells`) pairs each node with the bytes that lead to it: one node for each beginning
of a name and no other, an edge wherever one beginning is another and a byte, and
a node terminal when its bytes are a whole name. Inserting a name keeps it, whether the
name shares its first bytes with an earlier one, ends inside one or is one again,
and a walk then reads off the longest beginning.

**The schema walks** (Schema_proofs). `WalksAgreeInvariant`, `InheritedInvariant`,
`OwnThenInheritedInvariant` and `AssociationsInvariant`: in every reachable state of `NavSpec`,
for every schema, the names the narrower collects are those the scope machine
resolves and those of the classes inherited from; a class's own declaration counts before any
above it, and one above it before the class's own associations; and an
association leads both ways. The argument has five parts.

* *A walk is a function.* A recursive function is what its equation says only if
  the equation has a solution. Each call of a walk visits one more path, so
  the paths not yet visited rank the calls. `RecursionExists` builds a solution
  rank by rank, for any function of calls whose value depends on calls of lesser
  rank only. `CollectionUnique` and `FindingUnique` show by the same rank
  that there is one solution, so what is proved of any is true of
  `MemberNames` and `Resolve` (`CollectOf`, `FindOf`).
* *The walks agree.* Until the name is found, both walks have visited the same
  classes; when it is found, the collected names hold it (`Agrees`). So the visited
  list of the walk that stops early makes no difference. `AboveAgrees` proves it over
  the super-types, `CallAgrees` over the calls.
* *The walk gathers what is inherited.* What a call adds is the members of
  the classes it visits first, the super-types of each of these are visited when
  it returns, and nothing outside a set closed under super-types is visited
  (`Gathers`). From the root call this is the least closed set.
  `ReachCloses` shows, by counting, that the relation the properties use is that set too.
* *An answer has a source.* An answer comes from the declarations or associations of
  a class visited during the call (`Traceable`), and a class asks its own
  declarations, then its super-types, then its associations (`OwnFirst`).
* *Steps are ends.* The navigable steps of a class are the other ends of the
  associations at it and no others (`NavigableEntries`).

**Masks** (BitMask_proofs). `MaskTypeInvariant` and `MasksAreSets`: `Spec => []TypeOK`
and `Spec => RefinesSets`, for any number of masks of any length. They rest on the
arithmetic of ids: an id is its word times 64 plus its bit, a bit of a word is
that of one of its bytes, and both decompositions are unique. That no bit is in
the padding is part of the invariant; without it packing, which stops at the
last byte of the length, would lose ids that a word holds.

### Only model-checked

* `Terminates`: a liveness property under fairness.
* `MaskIsOfTheText`: two of its three parts are theorems, that the memo makes no
  difference (`AnswerForgetsTheMemo`) and that cuts inside lexemes make none
  (`LexemesAreUncut`). The third is about cuts outside lexemes, where tokens are fused:
  a gap is dispatched under one anchor, so it is false of queries whose pieces are cut
  inside an operator, or of a vocabulary that fuses `~[` (`opener_claim`). It holds of
  the queries and the vocabulary of the run.
* `EarliestWins`: that a walk which visits each class once meets the members in the
  order of their earliest places is a fact about depth-first search, checked over
  every graph of the run. `OwnThenInherited`, its part about one class, is proved.
* `GoldAdmitted`, `PhantomsMasked`: they relate the scope machine to what a query means
  over a schema. The queries say what is legal one by one, and for some legal queries
  the first is false, as three of the claims show. So neither is a theorem for every
  value of the constants.
* `NotStranded`: it depends on the vocabulary. One whose only tokens at some position
  are a blank and a name the schema does not have is stranded by the narrowing, as it
  should be.

## Not modelled

* The Python boundary (`ffi.rs`): each method is one call of the session or of a
  mask, and adds the marshalling of arguments. The packing it uses is in `BitMask`.
* Reading a schema from JSON and its rejection of malformed documents: a pure
  conversion that ends before a session exists. `SchemaModel` begins with the
  schema built.
* Multiplicities, enumeration values, simple class names and `db_id`: carried by
  the schema and read by no rule.
* Error payloads other than the kind and the offset, and `Vocab::eos`, which the
  decoder stores and never consults.
* Reuse of memory (scratch stacks, buffers), since each use begins by overwriting.
* Several sessions under a schema at once: tracker and memo belong to
  one session, and what sessions share is the cache of `DecoderSession`.
* Tests, fuzz targets, benches, lints and release tooling keep no decoder state.

## Plan

1. (done) `Pda`, `Recognizer`, `Delimiters`, `ProbePartition`, `DecoderSession`
   with `Decoding`, `SelfCheck`; type, scope and partition theorems.
2. (done) `Segmentation` with `Lexing`, and the proof of split independence.
3. (done) `SchemaModel`, `ScopeTracker`, `NameTrie`, `Narrowing` and their
   composition `SchemaSession`; the proof that the overlay only narrows.
4. (done) `BitMask` with `MaskSets`, and the refinement proved.
5. (done) Proofs of `NoBareSource` and of the refinement of `Delimiters`.
6. (done) Proofs about the folds: `Completable`, the partition cache and the
   refinement of `Decoding`, the self-check, depth and strings of `Segmentation`,
   the bindings and the type invariant of `SchemaSession`.
7. (done) The trie is exact for every list of names.
8. (done) The walks of the schema agree, gather what is inherited and find a class's
   own declaration first, for every schema.
9. (done) The memo of the narrower is fresh in every stream (`MemoFresh`).
10. (done) The memo is never seen in a mask, and a lexeme cut by tokens drives the
    scope machine as a whole one, for every schema, vocabulary and stream.
