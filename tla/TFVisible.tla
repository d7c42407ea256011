----------------------------- MODULE TFVisible ------------------------------
(***************************************************************************)
(* The visible-node filter of lib/src/tf_visible.c: a raw sink that keeps  *)
(* the visible children of every stack cell in one arena, and reports a    *)
(* node to the consumer once its parent's production is known.             *)
(*                                                                         *)
(* The driver is the environment.  It shifts and reduces by the rules of a *)
(* grammar, extras anywhere, and moves its cells as TFParser does: its     *)
(* stack is a viable prefix, the trailing extras stay above the parent, an *)
(* empty production's parent goes above them, and the root takes           *)
(* everything and the end token.  It may fail at any point.  The           *)
(* consumer is the environment too: it answers each offer to fold as it    *)
(* likes.  Cells are packed into the driver's pointer (the 64-bit build),  *)
(* so storing one cannot fail.                                             *)
(***************************************************************************)
EXTENDS VisibleTree

CONSTANTS
  Token,          \* terminals other than the end of the file
  End,            \* the end of the file
  ExtraToken,     \* the tokens that may be shifted as extras
  Rule,           \* productions: [symbol, production, kids]
  Viable(_),      \* the symbols a stack's real cells may spell
  RootSymbol,     \* the symbol of the root
  Aliasable,      \* rules some production aliases
  NamedModes,     \* the values sink->named_only may have
  OnHidden,       \* whether sink->on_hidden is set
  Silent,         \* public symbols the consumer returns NULL for
  MaxTokens,      \* bound: tokens shifted
  MaxExtras,      \* bound: extras among them
  InitCapacity,   \* entries of a first allocation, 64 in the code
  MemoryMayFail   \* whether realloc and calloc may return NULL

NULL == 0         \* no value

(* What a production's rows hold: public aliases, and fields. *)
RowsOf(p) ==
  /\ \A i \in DOMAIN AliasRow[p] : AliasRow[p][i] \in {None} \cup DOMAIN Public
  /\ \A i \in DOMAIN FieldRow[p] : FieldRow[p][i] \in {None} \cup STRING

(* tf_language.h: no other rule can be aliased "into visibility". *)
AliasesOf(p, kids) ==
  \A x \in DOMAIN kids : InRow(AliasRow, p, x) # None => kids[x] \in Token \cup Aliasable

RuleFits(r) ==
  /\ r.symbol \in DOMAIN Public \ (Token \cup {End})
  /\ r.production # 0 => RowsOf(r.production)
  /\ AliasesOf(r.production, r.kids)

ASSUME FilterAssumption ==
  /\ ExtraToken \subseteq Token /\ End \notin Token
  /\ InitCapacity \in Nat \ {0}
  /\ Token \cup {End, RootSymbol} \subseteq DOMAIN Public
  /\ \A r \in Rule : RuleFits(r)
  /\ RootSymbol \in Visible
  /\ NamedModes \subseteq BOOLEAN /\ OnHidden \in BOOLEAN /\ MemoryMayFail \in BOOLEAN

VARIABLES
  named_only,       \* sink->named_only
  pc,               \* "parse" or "done"
  ok,               \* what tf_parse_visible returns
  root,             \* *root
  stack,            \* the driver's cells, with the filter's cell in each
  arena,            \* arena[0 .. arena_len)
  arena_capacity,
  scratch_capacity,
  declined,         \* symbols whose runs the consumer refused
  failed,           \* self->failed
  made,             \* history: the nodes reported, by value or NULL
  handed,           \* history: how often each went to a parent or on_discard
  tokens, extras    \* tokens shifted, and extras among them

filtervars == <<arena, arena_capacity, scratch_capacity, declined, failed, made, handed>>
vars == <<named_only, pc, ok, root, stack, filtervars, tokens, extras>>

(* Mutant: a cell never owns more than one entry. *)
StoreOne(symbol, extra, children, production, tree) ==
  [symbol |-> symbol, extra |-> extra, children |-> IF children > 0 THEN 1 ELSE 0,
   production |-> production, tree |-> tree]

(* A stack cell: the driver's symbol and extra flag, the filter's two      *)
(* fields, and (history) the subtree it stands for.                        *)
tf_filter__store_cell(symbol, extra, children, production, tree) ==
  [symbol |-> symbol, extra |-> extra, children |-> children, production |-> production,
   tree |-> tree]

(* tf_filter__reserve doubles until the request fits; where it has to grow *)
(* it may fail instead.                                                    *)
tf_filter__reserve(cap, needed) ==
  LET from == IF cap = 0 THEN InitCapacity ELSE cap IN
  IF needed <= cap THEN {cap}
  ELSE {c \in needed .. 2 * needed + from :
          \E k \in 0 .. needed : c = from * 2 ^ k /\ (k = 0 \/ c < 2 * needed)}

MayFail(cap, needed) == MemoryMayFail /\ needed > cap

-----------------------------------------------------------------------------
(* What on_reduce makes of the i-th of its children.                       *)

Owns(kids, i) == kids[i].children

(* Mutant: extras are counted too. *)
StructuralAll(kids, i) == i

(* Aliases and fields are indexed by the non-extra children. *)
Structural(kids, i) == 1 + Cardinality({j \in 1 .. i - 1 : ~kids[j].extra})

Row(rows, production, kids, i) ==
  IF kids[i].extra \/ production = 0 \/ Structural(kids, i) \notin DOMAIN rows[production]
  THEN None ELSE rows[production][Structural(kids, i)]

Alias(p, kids, i) == Row(AliasRow, p, kids, i)
Field(p, kids, i) == Row(FieldRow, p, kids, i)

Shown(p, kids, i) == Alias(p, kids, i) # None \/ kids[i].symbol \in Visible

ShownSymbol(p, kids, i) ==
  IF Alias(p, kids, i) # None THEN Alias(p, kids, i) ELSE kids[i].symbol

(* Punctuation the consumer did not ask for. *)
Dropped(p, kids, i) ==
  named_only /\ ShownSymbol(p, kids, i) \notin Named /\ Field(p, kids, i) = None
  /\ Owns(kids, i) = 0

(* How many entries the first i of some cells own: `position`, as it moves *)
(* past one child after the other.                                         *)
Owned(cells) ==
  LET upto[i \in 0 .. Len(cells)] == IF i = 0 THEN 0 ELSE upto[i - 1] + Owns(cells, i)
  IN  upto

(* Mutant: the position does not move on past the earlier children. *)
RunAtBase(base, kids, i) == SubSeq(arena, base + 1, base + Owns(kids, i))

(* The entries of the i-th child: the part of the arena it owns.           *)
Run(base, kids, i) ==
  SubSeq(arena, base + Owned(kids)[i - 1] + 1, base + Owned(kids)[i])

(* A field reaches the entries of a hidden child that have none. *)
Inherit(run, field) ==
  [j \in DOMAIN run |->
     IF field # None /\ ~run[j].extra /\ run[j].field = None
     THEN [run[j] EXCEPT !.field = field] ELSE run[j]]

Reported(p, kids, i) == Shown(p, kids, i) /\ ~Dropped(p, kids, i)

(* The value the consumer returned for the i-th child, the values of one   *)
(* reduction being numbered on from the nodes made before it.              *)
NewValue(p, kids, i) ==
  IF Public[ShownSymbol(p, kids, i)] \in Silent THEN NULL
  ELSE Len(made) + Cardinality({j \in 1 .. i : Reported(p, kids, j)})

(* What takes the place of the i-th child: itself, nothing, or its run.    *)
Entries(p, base, kids, i) ==
  IF ~Shown(p, kids, i) THEN Inherit(Run(base, kids, i), Field(p, kids, i))
  ELSE IF Dropped(p, kids, i) THEN <<>>
  ELSE <<[symbol |-> Public[ShownSymbol(p, kids, i)], field |-> Field(p, kids, i),
          extra |-> kids[i].extra, value |-> NewValue(p, kids, i)]>>

(* The node reported for the i-th child, with the children it was shown.   *)
NodeOf(p, base, kids, i) ==
  [symbol |-> Public[ShownSymbol(p, kids, i)], production |-> kids[i].production,
   extra |-> kids[i].extra, tree |-> kids[i].tree, children |-> Run(base, kids, i)]

NodesUpTo(p, base, kids, k) ==
  FlattenSeq([i \in 1 .. k |-> IF Reported(p, kids, i) THEN <<NodeOf(p, base, kids, i)>> ELSE <<>>])

EntriesUpTo(p, base, kids, k) == FlattenSeq([i \in 1 .. k |-> Entries(p, base, kids, i)])

(* The first child that is shown; those before it keep their entries where *)
(* they are, whatever happens later.                                       *)
FirstShown(p, kids) ==
  CHOOSE k \in 1 .. Len(kids) + 1 :
    /\ k <= Len(kids) => Shown(p, kids, k)
    /\ \A i \in 1 .. k - 1 : ~Shown(p, kids, i)

Settled(p, base, kids) == EntriesUpTo(p, base, kids, FirstShown(p, kids) - 1)

(* The entries that go through the scratch array.                          *)
Produced(p, base, kids, k) == Len(EntriesUpTo(p, base, kids, k)) - Len(Settled(p, base, kids))

(* The places where v is among the children the consumer is shown.         *)
Showings(nodes, v) ==
  {e \in UNION {{n} \X DOMAIN nodes[n].children : n \in DOMAIN nodes} :
     nodes[e[1]].children[e[2]].value = v}

(* The consumer is shown `nodes`, in this order; the values among their    *)
(* children are spent.                                                     *)
Report(nodes) ==
  /\ made' = made \o nodes
  /\ handed' = [v \in 1 .. Len(made) + Len(nodes) |->
                  (IF v <= Len(made) THEN handed[v] ELSE 0) + Cardinality(Showings(nodes, v))]

-----------------------------------------------------------------------------
(* tf_filter__on_reduce.  `kids` are the cells of the reduction and `base` *)
(* counts the arena entries below theirs.                                  *)

(* Memory runs out at the child whose entries no longer fit in the scratch *)
(* array, or in the arena after the last one.  The nodes before it have    *)
(* been reported, the arena still holds what they consumed, and the leading*)
(* run already has its fields.                                             *)
FailsAt(p, base, kids, k) ==
  LET settled == Settled(p, base, kids)
      before  == Produced(p, base, kids, k - 1)
  IN  /\ scratch_capacity' \in tf_filter__reserve(scratch_capacity, before)
      /\ IF k <= Len(kids)
         THEN LET needed == Produced(p, base, kids, k)
              IN  needed > before /\ MayFail(scratch_capacity', needed)
         ELSE before > 0 /\ MayFail(arena_capacity, base + Len(settled) + before)
      /\ Report(NodesUpTo(p, base, kids, k - 1))
      /\ arena' = SubSeq(arena, 1, base) \o settled
                    \o SubSeq(arena, base + Len(settled) + 1, Len(arena))
      /\ failed' = TRUE
      /\ UNCHANGED <<arena_capacity, declined>>

OutOfMemory(p, base, kids) ==
  \E k \in FirstShown(p, kids) .. Len(kids) + 1 : FailsAt(p, base, kids, k)

tf_foldable(symbol) == symbol \notin Aliasable /\ symbol \notin Visible

(* What the run becomes: the consumer folds it into one value, declines it *)
(* for good (if the memory to note that is to be had), or is not asked.    *)
Offer(symbol, run, fold) ==
  LET asked == Len(run) > 1 /\ OnHidden /\ tf_foldable(symbol) /\ symbol \notin declined
  IN  \/ fold /\ asked /\ UNCHANGED declined
      \/ ~fold /\ asked /\ declined' = declined \cup {symbol}
      \/ ~fold /\ asked /\ declined = {} /\ MemoryMayFail /\ UNCHANGED declined
      \/ ~fold /\ ~asked /\ UNCHANGED declined

(* The node of the reduction itself: for on_hidden, or the root.           *)
tf_filter__parent(tree, children) ==
  [symbol |-> Public[tree.symbol], production |-> tree.production, extra |-> FALSE,
   tree |-> tree, children |-> children]

(* The value of the n-th node of this reduction, for a node of `symbol`.   *)
ValueOf(symbol, n) == IF Public[symbol] \in Silent THEN NULL ELSE Len(made) + n

(* The driver puts the parent's cell between what lies below the reduction *)
(* and the trailing extras.                                                *)
Push(place, tree, children, production) ==
  stack' = place.below
             \o <<tf_filter__store_cell(tree.symbol, FALSE, children, production, tree)>>
             \o place.above

(* The reduction of `kids` to `tree`.  The root has no parent to judge it, *)
(* so it is reported on its own terms.                                     *)
Settles(tree, base, kids, isRoot, place) ==
  LET p     == tree.production
      nodes == NodesUpTo(p, base, kids, Len(kids))
      run   == EntriesUpTo(p, base, kids, Len(kids))
      made1 == Len(nodes) + 1
  IN  \E fold \in BOOLEAN :
        LET t     == [tree EXCEPT !.folded = fold]
            value == ValueOf(tree.symbol, made1)
            left  == IF fold THEN <<[symbol |-> Public[tree.symbol], field |-> None,
                                     extra |-> FALSE, value |-> value]>>
                     ELSE run
        IN  /\ Offer(tree.symbol, run, fold)
            /\ fold => value # NULL
            /\ scratch_capacity' \in
                 tf_filter__reserve(scratch_capacity, Produced(p, base, kids, Len(kids)))
            /\ IF Produced(p, base, kids, Len(kids)) = 0 THEN UNCHANGED arena_capacity
               ELSE arena_capacity' \in tf_filter__reserve(arena_capacity, base + Len(run))
            /\ arena' = SubSeq(arena, 1, base) \o left
            /\ Report(nodes \o (IF fold THEN <<tf_filter__parent(t, run)>> ELSE <<>>)
                            \o (IF isRoot THEN <<tf_filter__parent(t, left)>> ELSE <<>>))
            /\ Push(place, t, Len(left), p)
            /\ root' = IF isRoot THEN ValueOf(tree.symbol, made1 + (IF fold THEN 1 ELSE 0))
                       ELSE root
            /\ UNCHANGED failed

tf_filter__on_reduce(tree, kids, isRoot, place) ==
  LET base == Len(arena) - Owned(kids)[Len(kids)] IN
  \/ /\ failed
     /\ Push(place, tree, 0, 0)
     /\ UNCHANGED <<root, filtervars>>
  \/ /\ ~failed
     /\ OutOfMemory(tree.production, base, kids)
     /\ Push(place, tree, 0, 0)
     /\ UNCHANGED root
  \/ /\ ~failed
     /\ Settles(tree, base, kids, isRoot, place)

-----------------------------------------------------------------------------
Init ==
  /\ named_only \in NamedModes
  /\ pc = "parse" /\ ok = FALSE /\ root = NULL
  /\ stack = <<>>
  /\ arena = <<>> /\ arena_capacity = 0 /\ scratch_capacity = 0
  /\ declined = {} /\ failed = FALSE
  /\ made = <<>> /\ handed = <<>>
  /\ tokens = 0 /\ extras = 0

(* The symbols of the cells that are no extras. *)
Spelled(cells) ==
  LET real == {i \in 1 .. Len(cells) : ~cells[i].extra}
  IN  [k \in 1 .. Cardinality(real) |->
         cells[CHOOSE i \in real : Index(cells, i) = k].symbol]

(* tf_filter__on_shift: a token owns no entries.  Shifting is not affected *)
(* by an earlier failure.                                                  *)
Shift ==
  /\ pc = "parse" /\ tokens < MaxTokens
  /\ \E symbol \in Token, extra \in BOOLEAN :
       /\ extra => symbol \in ExtraToken /\ extras < MaxExtras
       /\ stack' = Append(stack, tf_filter__store_cell(symbol, extra, 0, 0, Leaf(symbol, extra)))
       /\ Viable(Spelled(stack'))
       /\ extras' = IF extra THEN extras + 1 ELSE extras
  /\ tokens' = tokens + 1
  /\ UNCHANGED <<named_only, pc, ok, root, filtervars>>

(* The cells a rule reduces: b below it, then its children, then only      *)
(* extras, as tf_parser__reduce delimits them.  An empty production takes  *)
(* no cell, and its parent goes above any extras.                          *)
Reducible(rule, b, e) ==
  /\ \/ rule.kids = <<>> /\ b = Len(stack) /\ e = Len(stack)
     \/ b < e /\ ~stack[b + 1].extra /\ ~stack[e].extra
  /\ \A i \in e + 1 .. Len(stack) : stack[i].extra
  /\ Spelled(SubSeq(stack, b + 1, e)) = rule.kids
  /\ Viable(Append(Spelled(SubSeq(stack, 1, b)), rule.symbol))

TreeOf(rule, kids) ==
  Tree(rule.symbol, rule.production, [i \in 1 .. Len(kids) |-> kids[i].tree])

Reduce ==
  /\ pc = "parse"
  /\ \E rule \in Rule, b \in 0 .. Len(stack), e \in 0 .. Len(stack) :
       /\ rule.symbol # RootSymbol /\ Reducible(rule, b, e)
       /\ LET kids == SubSeq(stack, b + 1, e)
          IN  tf_filter__on_reduce(TreeOf(rule, kids), kids, FALSE,
                                   [below |-> SubSeq(stack, 1, b),
                                    above |-> SubSeq(stack, e + 1, Len(stack))])
  /\ UNCHANGED <<named_only, pc, ok, tokens, extras>>

(* The root takes every cell, extras included, and the end token; the      *)
(* driver accepts next.                                                    *)
ReduceRoot ==
  /\ pc = "parse"
  /\ \E rule \in Rule, b \in 0 .. Len(stack), e \in 0 .. Len(stack) :
       /\ rule.symbol = RootSymbol /\ Reducible(rule, b, e)
       /\ \A i \in 1 .. b : stack[i].extra
       /\ LET kids == Append(stack, tf_filter__store_cell(End, TRUE, 0, 0, Leaf(End, TRUE)))
          IN  tf_filter__on_reduce(TreeOf(rule, kids), kids, TRUE,
                                   [below |-> SubSeq(stack, 1, b),
                                    above |-> SubSeq(stack, e + 1, Len(stack))])
  /\ ok' = TRUE /\ pc' = "end"
  /\ UNCHANGED <<named_only, tokens, extras>>

(* tf_parse returns false. *)
Fail ==
  /\ pc = "parse" /\ pc' = "end"
  /\ UNCHANGED <<named_only, ok, root, stack, filtervars, tokens, extras>>

(* Mutant: a failed parse returns without handing anything back. *)
FinishAtOnce ==
  /\ pc = "end" /\ pc' = "done"
  /\ ok' = (ok /\ ~failed)
  /\ root' = IF ok' THEN root ELSE NULL
  /\ UNCHANGED <<named_only, stack, filtervars, tokens, extras>>

(* The end of tf_parse_visible: a parse that ran out of memory here failed *)
(* too, and what is still in the arena is handed back.                     *)
Finish ==
  /\ pc = "end" /\ pc' = "done"
  /\ ok' = (ok /\ ~failed)
  /\ root' = IF ok' THEN root ELSE NULL
  /\ handed' = [v \in DOMAIN handed |->
                  handed[v] + IF ok' THEN 0
                              ELSE Cardinality({i \in DOMAIN arena : arena[i].value = v})]
  /\ UNCHANGED <<named_only, stack, arena, arena_capacity, scratch_capacity, declined, failed,
                 made, tokens, extras>>

Next == Shift \/ Reduce \/ ReduceRoot \/ Fail \/ Finish

Spec == Init /\ [][Next]_vars

-----------------------------------------------------------------------------
Entry == [symbol : {Public[s] : s \in DOMAIN Public}, field : {None} \cup STRING, extra : BOOLEAN,
          value : 0 .. Len(made)]

(* The filter's fields keep their types: entries carry public symbols and  *)
(* values the consumer really returned.                                    *)
TypeOK ==
  /\ pc \in {"parse", "end", "done"} /\ ok \in BOOLEAN /\ failed \in BOOLEAN
  /\ root \in 0 .. Len(made)
  /\ arena \in Seq(Entry) /\ handed \in [1 .. Len(made) -> Nat]
  /\ arena_capacity \in Nat /\ scratch_capacity \in Nat

(* Every entry of the arena belongs to one cell of the stack: on_reduce    *)
(* finds its children's entries by counting back from the top, and nothing *)
(* else says where they are.  The extras the driver keeps above a parent   *)
(* must own nothing for this to work.  No entry lies beyond the allocation.*)
ArenaIsPartition ==
  /\ TypeOK /\ Len(arena) <= arena_capacity
  /\ pc = "parse" /\ ~failed => Owned(stack)[Len(stack)] = Len(arena)

(* No value goes to two parents, or to a parent and to on_discard, however *)
(* on_reduce has moved its entry about in the arena.                       *)
HandedOnce == \A v \in DOMAIN handed : handed[v] <= 1

(* The same where tf_filter__reserve never failed. *)
HandedOnceInMemory == failed \/ HandedOnce

(* A value: something the consumer returned that was not NULL. *)
IsValue(v) == made[v].symbol \notin Silent

(* "every value no parent consumed, after a failure", and after a success  *)
(* the root is all the consumer is left with.                              *)
ValuesSettled ==
  pc = "done" /\ ~failed =>
    \A v \in DOMAIN made : IsValue(v) => (handed[v] = 1 <=> v # root)

Shows(nodes, entry, s) ==
  /\ entry.symbol = s.symbol /\ entry.field = s.field /\ entry.extra = s.extra
  /\ entry.value # NULL => /\ entry.value \in 1 .. Len(nodes)
                           /\ nodes[entry.value].tree = s.tree
                           /\ nodes[entry.value].symbol = s.symbol
                           /\ nodes[entry.value].production = s.tree.production

(* Every node the consumer was shown had the children, the symbols and the *)
(* fields a walk of the tree shows at that node, and each child's value is *)
(* the one returned for that child: tf_filter__on_reduce moved no entry to *)
(* a wrong place, missed no alias and applied no field to a wrong child.   *)
ShownAsSeen(node) ==
  LET seen == Wanted(named_only, node.tree.walk) IN
  /\ Len(node.children) = Len(seen)
  /\ \A c \in 1 .. Len(seen) : Shows(made, node.children[c], seen[c])

ReportsMatchTree == \A v \in DOMAIN made : ShownAsSeen(made[v])
=============================================================================
