----------------------------- MODULE VisibleTree ----------------------------
(***************************************************************************)
(* Syntax trees, and what a walk of one shows by tree-sitter's rules, with *)
(* the whole tree at hand: the reference for the filter, which has to      *)
(* decide each node when its parent is reduced.  The walk is recursive: a  *)
(* hidden child shows what its own walk does.  So each tree, when it is    *)
(* put together, is given its walk, made of the walks of its children.     *)
(***************************************************************************)
EXTENDS Integers, SequencesExt

CONSTANTS
  Visible, Named, \* symbols by metadata
  Public,         \* public_symbol_map
  AliasRow,       \* per production and structural index, the alias or None
  FieldRow        \* per production and structural index, the field or None

None == "none"    \* no alias, no field

(* The place of a child among those that are no extras. *)
Index(kids, i) == Cardinality({j \in 1 .. i : ~kids[j].extra})

InRow(rows, production, x) ==
  IF production = 0 \/ x \notin DOMAIN rows[production] THEN None ELSE rows[production][x]

At(rows, production, kids, i) ==
  IF kids[i].extra THEN None ELSE InRow(rows, production, Index(kids, i))

Sight(tree, symbol, field) ==
  [symbol |-> Public[symbol], field |-> field, extra |-> tree.extra, tree |-> tree,
   named |-> symbol \in Named]

(* What a hidden child shows: its own children, or the one value they were *)
(* folded into.                                                            *)
Inner(tree) == IF tree.folded THEN <<Sight(tree, tree.symbol, None)>> ELSE tree.walk

(* They fill its field unless they fill one themselves. *)
Fill(s, field) == IF s.extra \/ s.field # None THEN s ELSE [s EXCEPT !.field = field]

Filled(walk, field) == [j \in 1 .. Len(walk) |-> Fill(walk[j], field)]

(* A child is seen under its alias or its own symbol if either is visible. *)
SeenAt(production, kids, i) ==
  LET alias == At(AliasRow, production, kids, i)
      field == At(FieldRow, production, kids, i)
  IN  IF alias # None THEN <<Sight(kids[i], alias, field)>>
      ELSE IF kids[i].symbol \in Visible THEN <<Sight(kids[i], kids[i].symbol, field)>>
      ELSE Filled(Inner(kids[i]), field)

Walk(production, kids) == FlattenSeq([i \in 1 .. Len(kids) |-> SeenAt(production, kids, i)])

Leaf(symbol, extra) ==
  [symbol |-> symbol, extra |-> extra, production |-> 0, kids |-> <<>>, walk |-> <<>>,
   folded |-> FALSE]

Tree(symbol, production, kids) ==
  [symbol |-> symbol, extra |-> FALSE, production |-> production, kids |-> kids,
   walk |-> Walk(production, kids), folded |-> FALSE]

(* With named_only, "anonymous leaves with no field" are left out. *)
Omitted(named_only, s) == named_only /\ ~s.named /\ s.field = None /\ s.tree.kids = <<>>

Wanted(named_only, walk) ==
  FlattenSeq([i \in 1 .. Len(walk) |-> IF Omitted(named_only, walk[i]) THEN <<>> ELSE <<walk[i]>>])
=============================================================================
