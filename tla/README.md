# tree-feller in TLA+

tree-feller drives the parser and lexer tables that the tree-sitter CLI generates, once over a
buffer, and reports shifts and reductions to a consumer without building a tree.  This directory
holds a TLA+ model of the library, the TLC runs that check it on small instances, and TLAPS
proofs that hold for every table, grammar, buffer and size: of the LR driver's invariants and that
it implements the LR automaton, of the lexer adapter, the decoder, the table loader, the file
mapping, the binding's slab and `parse_file`, and of the visible filter's arena, values and reports.
Line numbers are in `PROJECT.json` (`map`); every definition there names the code it stands for.

## 1. The system

| Part | Source | State | Operations |
|---|---|---|---|
| LR driver | `lib/src/tf_parser.c` | stack of cells and states, `leading`, current token, error | lex, shift, reduce, reduce the root, demote a keyword, split, accept, fail, discard |
| conflict splits | `lib/src/tf_parser_spec.h` | graph-structured stack, trees, heads, cached lookahead, furthest error | fork, advance, pop, reduce, merge, condense, accept, select, replay, hand back |
| parse tables | `lib/src/tf_language.{c,h}` | dense table, action counts, alias and field rows | load, free, accessors |
| lexer adapter | `lib/src/tf_lexer.{c,h}` | byte, point, lookahead, token marks | advance, mark_end, get_column, seek, next (with keyword re-lex) |
| UTF-8 decoder | `lib/src/tf_utf8.h` | none | `tf_utf8_next` |
| visible filter | `lib/src/tf_visible.c` | arena of settled children, scratch, `declined`, `failed` | on_shift, on_reduce, end of parse |
| file mapping | `lib/src/tf_file.c` | descriptor, mapping | open, close |
| Rust binding | `lib/binding_rust/lib.rs` | slab of values, free list, pending panic | on_node, on_hidden, parse_with, parse_file |

The driver calls the lexer for a token in the current parse state and the sink for each shift and
reduction; the sink returns a pointer the driver keeps in the cell.  The visible filter is such a
sink: it keeps, in one arena, the children each cell would show, and calls the consumer once a
node's parent is known.  Where a table entry has several actions the driver hands over to a split,
which explores the alternatives on a graph-structured stack of its own, sharing the driver's stack
below it and its lexer, and then drives the real stack itself through what it chose.  The Rust
binding is a consumer: its values live in a slab and the C side holds slot numbers.  Everything
runs on one thread; the difficulty is not concurrency but

* positions found by counting (cells from the top of the stack, arena entries from the top of the
  arena, structural children between extras), where one miscount shows much later;
* extras (comments), which are on the stack but in no production, before, between and after
  everything;
* judgements made in one state and used in another (keywords, fields, `named_only`, the
  lookahead kept across a seek, a token lexed by one alternative and used by another);
* alternatives that merge, are compared and are dropped long before it shows which was right;
* who owns a value when one of several steps fails, memory included;
* callbacks that fold, decline, return nothing or panic.

What makes each part correct: the driver stays on a path of the LR automaton, never pops or
writes outside its stack, ends, and gives every value to exactly one owner; a split accepts what
the tables accept, chooses the best of it and leaves the driver as if it had known; the filter shows what
a walk of the finished tree would show; the lexer's byte, point and lookahead never disagree; the
decoder accepts exactly UTF-8; the slab's handles always lead to their own value; the loader's
tables say what the generated ones do; neither a failed load nor a failed open leaves anything
behind.

## 2. Modules

| Module | Role |
|---|---|
| `TFTables` | the tables and their accessors as constants, with the assumptions about generated tables, each named |
| `TFParser` | the driver: state, one action per branch of `tf_parser__run`, invariants, the inductive invariant `IInv` |
| `LRAutomaton` | abstract: the textbook LR automaton over the same tables, no extras, spans or values |
| `SinkContract` | abstract: what `tree_feller.h` promises about the values a sink returns |
| `TFParserRefines` | the two refinement mappings (`ImplementsLR`, `KeepsContract`) |
| `TFParserProofs` | TLAPS: `IInv` is inductive and implies the invariants |
| `TFParserRefinesProofs` | TLAPS: both refinement mappings, step by step |
| `MCParser` | a grammar for TLC |
| `TFSplit` | `tf_parser_spec.h` composed with the driver, and the reference: every run of the LR automaton over the text |
| `MCSplit` | an ambiguous grammar, its lexer and all short texts |
| `VisibleTree` | the reference: syntax trees, and what a walk of one shows at each node |
| `TFVisible`, `TFVisibleProofs` | the visible filter, over a driver that moves cells as `TFParser` does; the proofs |
| `MCVisible` | a grammar with hidden rules, an alias, fields and extras |
| `TFUtf8`, `MCUtf8`, `TFUtf8Proofs` | `tf_utf8_next`, the encoder as its reference, the enumeration of buffers, and the proof |
| `TFLexer`, `MCLexer`, `TFLexerProofs` | the lexer adapter under arbitrary generated lexers |
| `TFLanguage`, `MCLanguage`, `TFLanguageProofs` | `tf_language_load` and `tf_language_free`; grammars around one base |
| `TFFile`, `TFFileProofs` | `tf_file_open` and `tf_file_close` over an operating system, and their proofs |
| `RustBinding` | slab, callbacks and `parse_with` |
| `ParseFile`, `ParseFileProofs` | `parse_file`: `RustBinding` and `TFFile` together, over several calls; the proofs of both slab and calls |

Operators named `...Too...`, `...Stale` and the like that are introduced by a comment "Mutant" are
faulty variants of the definition that follows them.  No specification uses them; they document
which mistake each property would catch (`PROJECT.json`, `mutants`).

### How the models correspond to the code

*Driver.*  `nodes`, `states`, `depth`, `capacity`, `leading`, `root_emitted` and `token` are the
fields of `TFParser` and the locals of `tf_parser__run`.  `nodes` is counted from 1 and the code
from 0; `states[0]` is the start state in both.  `pc` says where the two nested loops are.  A cell
carries symbol, extra flag, byte span and value; points follow the bytes (see `TFLexer`) and are
left out, as is the text of messages.  `issued` and `handed` are history: the sink's values are
numbered, and `handed` counts how often each was handed to a parent or to `on_discard`.  The lexer
may return any token in the rest of the source, subject to what `TFLexer` shows of it
(`TokensAhead`, `KeywordsJudged`); the sink may return a value or NULL.  `realloc` may fail at
every call (`MemoryMayFail`).  The clamp of a capacity at `UINT32_MAX` is not modelled.

*Splits, seen from the driver.*  Where an entry has several actions the driver calls
`tf_parser__split`.  `TFParser` models its outcome (actions `Split`, `SplitDies`, `SplitOom`,
`Replay`): no alternative survives and the stack is as it was, memory runs out, or one of the
actions is taken through the same shift and reduce code and the parse goes on.  Which one is taken
is left open there, so what is shown of the driver holds for every choice.

*Splits, opened up.*  `TFSplit` replaces those outcomes by the code.  `spec` is the `TFSpec`; a node
of its graph has state, byte, precedence and links, a head has its node and its two flags.  The loop
of `tf_parser__split` is one action per step (`Advance` takes one head through
`tf_spec__advance`, `Condense` ends a round, then `Again`, `AllDead`, `Finish` or `Settle`); the
functions it calls are operators from a `TFSpec` to a `TFSpec`, under the names they have in C.
The replay is one action per shift and reduction, through the same operators `tf_parser__shift` and
`tf_parser__reduce` the driver uses.  What is abstracted:

* trees are values with their children inside, not indices into an arena; where the code compares
  indices first, equal values compare equal as well;
* `tf_spec__materialize` runs the parse again from the start, against a private sink, to learn the
  children of cells that were reduced before the fork.  The parse is deterministic, so this finds
  what the driver did: `shape` records it as it happens, and an inherited tree has it from the start;
* the fast path of `tf_spec__pop` for a chain without forks is the general walk, which gives the
  same slice; edges, slices and scratch are the arguments of `Walk`;
* an arena that cannot grow is `Exhausted`, at any step;
* the lexer is a function `Scan` of text, state and byte, which `TFLexer` shows it to be as seen from
  its caller (`LookaheadFresh`); points and production ids are left out.

`dropped` (an alternative fell to one of the three caps) and `score` (the dynamic precedence of what
was reduced so far) are history.  The abstract split of `TFParser` puts a comment that follows an
alternative's last child where the driver would; the replay reduces first and shifts it
afterwards, which gives the same stack.  If the token after the replay cannot be lexed, the code
reports "unexpected character" at `s->error_byte`, which is the furthest error of any
alternative and so may lie beyond the place where this lexer stopped; the model does the same.

*Tables.*  A table entry is a sequence of actions.  `LoadAssumption` is what `tf_language_load`
establishes (SHIFT_REPEAT actions are behind the kept ones).  `HeightAssumption`,
`RootAssumption` and `AcceptAssumption` state what the driver relies on and the code says
"nothing checks".

* `HeightAssumption`: each state certifies how many real cells lie below it.
* `RootAssumption`: an accepting state is entered from the start state only, by a goto.  It may be
  entered in front of any token: a start rule that recurs (the regex grammar's `pattern`, in a group)
  is reduced to be continued, and minimised tables reduce in front of tokens they then reject.  If
  the token is not the end, it must not be one the accepting state shifts as an extra, neither as it
  is nor demoted to the word: an extra is shifted where it is met and decides no reduction.  Tables
  that reduce the root in front of an extra would report no root and accept later, without one.
* `AcceptAssumption`: accept stands alone, on the end of the file.

The first and the last hold by the construction of LR tables, and so does the first half of
`RootAssumption`; its second half is how the generator treats extras, read from what the driver
relies on and not derived here.  The grammars of `MCParser` and `MCSplit` satisfy all three, and TLC
evaluates them there.

*Visible filter.*  `stack` holds the driver's cells with the filter's packed cell (`children`,
`production`) and, as history, the subtree; `arena`, the capacities, `declined` and `failed` are
the fields of `TFFilter`.  One reduction is one action: the loop over the children is the
operators `EntriesUpTo` and `NodesUpTo` (what the first k children became, and the nodes reported for
them), `Owned` is `position` as it moves along, `Settled` the leading run that stays in place, and
`Produced` what goes through scratch; an allocation that fails in the middle of it is `FailsAt`.
The reference is written down separately, in `VisibleTree`, from what a walk with the whole tree at
hand shows.  The walk is recursive (a hidden child shows what its own walk does), so each tree is
given its walk when it is put together, made of the walks of its children, and no definition needs
to recurse.
The driver's moves are those of `TFParser`: an empty production takes no cell and its parent goes
above any extras, so that a file that is empty or holds only comments is a root without real
children; a reduction of the root takes every cell and the end token.  `Viable` and `Rule` stand for
the tables.  The root's symbol is taken to be visible (`FilterAssumption`); a hidden root is not
covered.  The 32-bit build, which keeps cells in an arena of their own, is not modelled.

*Lexer.*  A generated `lex_fn` is the environment: it skips, reads, accepts (which marks the end)
and returns, in any order a generated lexer can.  `tf_lexer_next` is cut where it calls one.
`SpecSeek` is `tf_parser_spec.h` going back to the end of an earlier token.  Bytes are numbers, so
decoding is modelled by what it computes.

*Loader.*  One action per step of `tf_language_load`, in its order, each with the allocation it
makes; `blocks` is what is allocated.  A grammar is a record of the fields of `TSLanguage` that are
read.  A packed row is its sequence of groups; `alias_map` is kept flat, because the walk over it
is what could go wrong.  The properties compare each table with what a scan of the generated one
gives, so `ActionsAsSkipped` is `LoadAssumption` of `TFTables` together with its
`accepts_end`.  What the loader takes from the generator without a check is `WellFormed`: terminals
come first among the symbols, a state's row lists a symbol once, every entry of a row is one of
the action table, the alias map is runs of a symbol, a count and so many names, closed by a zero.
If a row listed a symbol twice, the expansion (last wins) and the scan (first wins) would differ.

*File mapping.*  One action per system call of `tf_file_open` and per way out of it, for the POSIX
and the Windows build (`build`).  `file`, `section` and `view` are what the operating system holds;
`disk` is the size of the file, which another process may change (`Resize`): freely under POSIX,
under Windows only as far as share mode and mapping allow.  Sizes are cut to 32 bits as the code
does (`uint32`), with `MaxSize` for `UINT32_MAX`.  The caller may close at any time, and opens again
only what it closed or what failed to open.

*Rust binding.*  A callback is one action, since C waits for it.  `held` is what the filter holds:
a row of handles, runs of which are shown and replaced.  `ParseFile` runs `parse_file` several times:
each call has a `TFFile` and a slab of its own, the system calls are those of `TFFile`, and the
callbacks those of `RustBinding`.  A visitor's panic leaves through `resume_unwind` and skips
`tf_file_close`; the model counts such mappings (`lost`).

## 3. Runs

| Run | Question | Result |
|---|---|---|
| `driver_stmts` | do the driver's invariants, termination and the refinement of `LRAutomaton` hold with a nullable root whose rule recurs (on the left and in brackets), an empty production above leading comments, a repetition, a true conflict, comments anywhere, keyword demotion and memory failing anywhere? | pass |
| `split` | is every path through the graph-structured stack a stack the driver could have, does the replay rebuild the chosen one, is the token handed back the right one, are exactly the texts with a parse accepted, and with the best of their parses; do driver and split together end and keep `SinkContract`? | pass |
| `driver_oom_leak` | is every value settled also when memory runs out? | violated: finding 1 |
| `visible` | does every report match a walk of the tree, with folding, aliases, fields, comments, empty productions, a nullable root, NULL values, and with and without `named_only`, and is every value used once while memory lasts? | pass |
| `visible_named_fields` | ... and with a field on a hidden rule that holds punctuation? | violated: finding 3 |
| `visible_oom` | is a value discarded only if no parent took it, when memory runs out? | violated: finding 2 |
| `lexer` | do byte, point, lookahead and tokens agree under any lexer, over malformed bytes, a byte order mark and a buffer as long as `TF_NO_END`? | pass |
| `utf8` | does the decoder accept exactly what the encoder produces? | pass |
| `loader` | do the expanded tables agree with the generated ones, do exactly the supported grammars load, and is nothing left allocated by a load that fails at any point? | pass |
| `file` | is nothing left open or mapped whichever call fails, is the view of an opened file as long as the size the system reported (and under Windows within the file), and is closing always safe? | pass |
| `parse_file` | do handles resolve through folds, refusals and panics, is the slab no larger than the live set, is the view there as long as callbacks run, and does every call that returns leave nothing behind? | pass |
| `rust_drain_decline` | ... and when a visitor drains a run and then declines it? | violated: finding 4 |

What `split` says is only as strong as its reference, `Runs`: every run of the plain LR automaton
over the text, comments ignored, taking any action of an entry, with the sum of the dynamic
precedences.  Where an entry has several actions, the head that takes this one's place keeps the
token in hand while the others lex again, perhaps in another mode; the reference allows both, as
the code does, and does not say which head is which.  Texts on which a cap dropped an alternative
are excused from being accepted and from the best parse, and from nothing else.

### Bounds

* Driver: sources of up to 6 bytes (`MaxSize`) with one-byte tokens, so up to six cells, which is
  enough for the longest production (three symbols) with comments before, inside and after it, for
  two repetitions to meet, for a bracketed source to be continued, for the accepting state to be
  entered, left and entered again, and for the capacity (2 at first instead of 64) to double twice.
  `SizeLimit` is 5, so one source is too large.
* Splits: all 1365 texts of up to five letters over number, operator, keyword and comment, and five
  more with blanks, an unknown character and one letter too many.  Five letters hold two
  operators around an operand, so two associations meet, merge and are compared; a keyword that is
  demoted behind one; a comment at every place.  `Links` and `Iterators` are as in the code and are
  not reached; `Versions` is 3 instead of 6, so that the cap on heads drops one of the four
  alternatives before a keyword.  Precedences of -1, 0 and +1 let a later reduction outweigh an
  earlier one.
* Filter: an item is three tokens if the hidden rule inside it is empty and five if it is not, so
  11 tokens, of which at most two are comments, are two items of either length: two short ones or a
  short and a long one with a comment at any two places, two long ones with one comment.  They also
  hold the empty file and the one of comments only.  All with and without `named_only`;
  `InitCapacity` 2 makes arena and scratch grow several times.
* Lexer: every buffer of up to three bytes over newline, letter and the bytes of a byte order
  mark, and four of four bytes; `TF_NO_END` is 4.
* UTF-8: 22 byte values on the edges of every range, sequences of up to four bytes.
* Loader: 2700 grammars of two states, four symbols and two productions: every entry of up to three
  actions, every field map of up to three entries, packed rows in any order of groups, alias runs of
  one to three names, and every header field at a value that is refused.  `MaxCells` is 8, one
  more symbol is too many.
* File: `MaxSize` 3 and files of up to 5 bytes, so sizes of 0, 1, the limit, and two above it, one of
  which is 0 in its low bits.
* Slab: four values a parse, enough for two runs to be
  refused and folded around each other; two calls, files of up to two bytes with one too large.

The runs that end in a state without successors (a parse is over, a buffer has its full length)
turn deadlock checking off; the lexer always has a next step and is checked, and so is `split`, where
only a parse that is done may stop.

### Fairness

Only `Terminates` needs it: `WF_vars(Next)`, since `tf_parser__run` is sequential code that takes
its next step.  Nothing is assumed of the lexer or the sink but that they return.  In `TFSplit` the
same weak fairness is written out (`KeepsRunning`: infinitely often done, or infinitely often a
step), because TLC would evaluate `ENABLED SplitNext` through the whole exploration; that a step is
possible until the parse is done is what the deadlock check of the run shows.

## 4. Findings

1. *A value is leaked when the stack cannot grow* (`driver_oom_leak`).  `tf_parser__shift` calls
   `on_shift` before the push that can fail; the value is then on no cell.  The header says
   `on_discard` is "called once for every value the sink returned that no parent ever consumed".
2. *A value is discarded although a parent took it* (`visible_oom`).  When `tf_filter__reserve`
   fails in the middle of a reduction, the arena still holds entries that were already shown to
   the parent reported before.
3. *`named_only` drops tokens that fill a field* (`visible_named_fields`).  The decision is taken
   when the token's own parent is reduced; if that is a hidden rule and the outer production gives
   it a field, the token would have inherited it.  The header says "fielded tokens ... remain".
   The same test judges by the entries a child has left, not by its children: a rule under an
   anonymous alias is dropped too once everything below it was left out, though the header says
   "non-leaves ... remain".  The run does not show this second form; its grammar has no such alias.
4. *Draining and then declining a hidden run panics later* (`rust_drain_decline`).  What is left
   of the children is restored under the first handles; the last ones are empty when their parent
   arrives, which the code says "cannot happen".

## 5. Proofs

What is proved holds for every value of the constants that meets the named assumptions; each
invariant was checked by TLC before it was proved.  `PROJECT.json` lists the theorems.

| Module | Theorems | From which assumptions |
|---|---|---|
| `TFParserProofs` | every safety invariant of the driver, `IInv` | the table assumptions of `TFTables` |
| `TFParserRefinesProofs` | `DriverKeepsContract`, `DriverImplementsLR` | the same |
| `TFUtf8Proofs` | `DecoderIsExact` | none but types: every buffer of bytes, every offset |
| `TFLexerProofs` | the six properties of run `lexer` | `LexerAssumption`: a buffer of bytes no longer than `TF_NO_END` |
| `TFLanguageProofs` | the four properties of run `loader` | every grammar is `WellFormed` |
| `TFFileProofs` | the three properties of run `file` | none but types: every limit, every size of file |
| `ParseFileProofs` | the four properties of run `parse_file`, and the slab alone | slab: the visitor does not drain a run it declines (`~VisitorMayDrain`); `AlwaysMapped`: none but types |
| `TFVisibleProofs` | `ArenaIsPartition`, `HandedOnceInMemory`, `ValuesSettled`, `ReportsMatchTree` | `FilterAssumption`: the root is visible, symbols have public names, production rows hold such symbols and field names, and only tokens and `Aliasable` rules are aliased; `ReportsMatchTree` with `named_only` also `NamesFit` |

*Driver.*  None of its invariants is inductive alone.  That the pop scan stays on the stack
(`PopsStayOnStack`) needs the stack to be a path of the automaton (`StackIsPath`) and the heights
of the states.  That `leading` is exact needs the start state to be exactly the state of the
leading extras (`StartIsLeading`), which is why no reduction with children can cut into them: in
the start state the height is zero.  That accept follows the root needs `RootThenAccept`: an
accepting state is on top only once the root was reported, or while a token other than the end is
being dispatched that is no extra there (`GoesOn`); then it is shifted, reduced on, demoted first or
rejected, and each of these leaves the accepting state or ends the parse before the next token is
read.  So when the end is met on an accepting state, the reduction that entered it had the end as its
lookahead and the leading extras as its base, and went out as the root.  `WritesWithinCapacity` is an
action property because the end token is written above the top of the stack and gone when the step
ends: the step that reports the root must have had room for it.  That values are handed over once needs
the values on the stack to be distinct and exactly the ones not yet handed over (`ValuesOwned`).
The work is in a reduction: `PopBaseExact` and `PopEndExact` say where the scan stops,
`ReduceShape` what the cut means for `leading` and the root; then one lemma for each conjunct over
the moved cells, for the inner reduction and for the root.  The other actions leave the stack alone
(`FrameInv`) or add one cell.  `IInv` and `TypeOK` are proved and not listed in a run, since their
parts are.

*Refinements.*  For `SinkContract` each driver step is a node built from what left the stack, one of
the three ends, or a stutter, and `IInv` says that what left had not been handed over.  For
`LRAutomaton` the mapping forgets extras, spans and values: an extra is a stutter, a shift and a
reduction are the automaton's, a demotion changes its lookahead, and the step that accepts finds
nothing but the root (`RootAlone`).  Both hold of the splits as the driver sees them, for every
choice made.

*Decoder.*  `DecodesExactly` compares a decoder that tests byte ranges with an encoder that divides.
`Division` splits a scalar into its sextets, and one lemma for each length says that the bytes that
pass the tests are those of exactly one scalar.

*Lexer.*  `Placement` ties every point kept to its byte, `Sighting` the lookahead to the byte it was
read at (nothing while a seek is pending), `Kinds` says which of the two lexers runs and from where,
`Acceptance` that the mark is where that lexer last accepted.  `TokensAhead` and `KeywordsJudged`
belong to the invariant, since a keyword's lexer starts from the word's token.

*Loader.*  `Stage` says which arrays exist at which step and `Ledger` that they are the blocks
allocated; `Vetted` what the checks passed so far have excluded; `Expanded`, `Marked`, `Tallied` and
`Reported` what each table written so far contains.  That the walk over the alias map ends where the
map does is an argument about positions: each run starts where the one before it ends.

*File mapping.*  The invariant adds what is known between two system calls (`UnderWay`: no data and
no view yet, the size is the one reported, and under Windows the file or its mapping object still has
that size, and the object keeps it from being cut) and between two calls (`AtRest`).  That the whole
view lies within the file is proved for Windows; a POSIX file may be cut between `fstat` and `mmap` or
later, and then nothing is said of the tail of the view.

*Slab and `parse_file`.*  `Exact` says that the free list holds each empty slot once; `Leads` that the
handles held are distinct and lead to their own values.  A callback takes a run out, and what it puts
back or drops keeps both.  If the visitor drains a run and then declines it, `Leads` is lost
(finding 4), which is why these theorems exclude it; that the view stays (`AlwaysMapped`) does
not depend on it.  `ParseFileProofs` reuses the file's invariant through an instance and adds what
the caller knows (`CallerInv`).

*Visible filter.*  `Shape` is the types, `Divided` that the arena is as long as the cells own
together, and `Accounted` the account of the values: an entry's value is one the consumer returned,
no two entries have the same, and the values not handed over are those of the entries.  Nothing less
is inductive, because the entries of a reduction are found by counting and their values are spent one
child after the other.  The argument follows the loop: `Live` is the arena as it stands after k
children (what lies below, what they became, what is still to be read), `Book` the account of it, and
`ProgressStep` shows that a hidden child moves its entries and a reported one hands its run to one
node and puts one entry in its place (`BookAdopts`).  The book after the last child gives the
reduction (`SettlesIs`), a fold adopts once more (`BookFolds`), the root adopts what is left
(`BookCloses`), and a step that runs out of memory only keeps the types (`FailsIs`).  For a parse
that fails, `Held` says that each value lies at one place of the arena, so each is handed back once.

*What the filter reports.*  `ReportsMatchTree` speaks of the nodes already reported; what makes it
inductive is `Sees`: while the parse goes on and memory lasts, the stack is `Standing`, which says
of every cell that the entries it owns, wherever counting finds them, are what a walk of its subtree
shows (`Seeing`) and that the subtree is one the driver can have grown (`Carried`).  In a reduction
the entries of the i-th child are then what the walk shows for it (`ChildSeen`): the structural index
the filter counts is the index the walk uses (`RowIsAt`, `AmongIndex` for the comments the root takes
along), a field the filter writes into a hidden child's entries is the one the walk fills in
(`MatchInherit`, `WantedFilled`), and the values it numbers are those of the nodes it reports
(`NodesNumbered`).  Laid one after the other they are the walk of the parent (`UpToSeen`), or the one
value they were folded into.  So the nodes reported are true (`FailsTrue` if memory runs out on the
way, `SettlesTrue` if not) and the parent's cell stands; the cells below keep their entries, the
comments above own none (`ReduceStands`).

Without `named_only` this holds of every grammar. With it, a hidden child has left out its
punctuation before its parent can give it a field. `NamesFit` says when that makes no difference:
some set of rules (`bare`) holds all that may show punctuation without a field, none of them is
given a field where it is hidden, and no rule is shown under an anonymous name. That is what
finding 3 is about; the grammar of run `visible` satisfies it and the one of
`visible_named_fields` does not.

*Recursive functions.*  The prover cannot do induction over data.  Sums and concatenations (`Owned`,
`FlattenSeq`) are handled by `Climb`, the least counterexample of a set of numbers: it shows that a
function with the defining equations exists, hence that the chosen one has them.

*Model-checked only.*

* `Terminates`, of the driver and of driver and split together: liveness under fairness.
* `GraphIsPaths`, `ReplayFollowsPath`, `AcceptsTheLanguage`, `KeepsTheBest`, `HandsBackLookahead`,
  and `KeepsContract` of the driver with the split opened up: `TFSplit` is recursive throughout, as
  the code it models is.

## 6. Not modelled

* `tf_spec__free` and the sizes of the split's arenas, beyond that each may fail to grow;
* the 32-bit cell arena of the filter and the clamp of capacities at `UINT32_MAX`;
* reading a file that another process cuts under POSIX, after `fstat` or while it is parsed: the
  code does not handle it and nothing is promised;
* a hidden root symbol;
* a visitor that replaces or reorders the children of a hidden run and then declines it: the binding
  cannot tell, and every value it puts back is one the visitor left there;
* messages, names, `Display`, accessors, `ffi.rs` and the build script, which change no state;
* `tf_diff`, the benchmarks and the tests, which are programs around the library.

## 7. Plan

1. *(done)* driver, abstract automaton and contract; filter and reference walk; lexer and decoder;
   slab; loader; file mapping; proofs of the driver's and the file mapping's invariants.
2. *(done)* splits in full (`TFSplit`), `parse_file` (`ParseFile`).
3. *(done)* proofs of the driver's two refinements; of the decoder, the lexer adapter and the loader;
   of the slab and `parse_file`; of the visible filter's arena and account, and that it reports what a
   walk of the tree shows.
4. Left: the replay of a split makes only moves of the automaton, for every table, which needs the
   recursive operators of `TFSplit` that the replay uses stated as functions first; that the filter
   keeps what `SinkContract` says of its own consumer, as a refinement.
