------------------------------- MODULE TFSplit ------------------------------
(***************************************************************************)
(* tf_parser__split of lib/src/tf_parser_spec.h, composed with the driver  *)
(* of TFParser: where the tables cannot decide, alternatives are explored  *)
(* on a graph-structured stack, one is chosen, and its shifts and          *)
(* reductions are replayed on the real stack.                              *)
(*                                                                         *)
(* A tree of the arena is a value here, its children inside it; two trees  *)
(* the code tells apart only by their index compare as it compares them.   *)
(* Points and production ids are left out.  The lexer is a function of the *)
(* source, the state and the position (TFLexer is its model).              *)
(***************************************************************************)
EXTENDS TFParserRefines, SequencesExt

CONSTANTS
  Sources,        \* the inputs considered
  Scan(_, _, _),  \* tf_lexer_next(source, state, byte): a token, or where it gave up
  LexMode,        \* lex_modes of each state
  Reusable,       \* entry.reusable of (state, terminal)
  SymbolId,       \* the order of symbol ids
  Links,          \* TF_SPEC_LINKS, 8
  Iterators,      \* TF_SPEC_ITERATORS, 64
  Versions        \* TF_SPEC_VERSIONS, 6

ASSUME SplitAssumption ==
  /\ LexMode \in [State -> Nat] /\ Reusable \in [State -> [Terminal -> BOOLEAN]]
  /\ SymbolId \in [Symbol -> Nat]
  /\ Links \in Nat \ {0} /\ Iterators \in Nat \ {0} /\ Versions \in Nat \ {0}

(* An entry shifts in one way only, and its shift comes last: tf_spec__    *)
(* replay looks the shift up again instead of remembering it.              *)
ASSUME ShiftLastAssumption ==
  \A s \in State, t \in Terminal : \A i \in DOMAIN Entries[s][t] :
    /\ Entries[s][t][i].type = "shift" =>
         \A j \in i + 1 .. Len(Entries[s][t]) : Entries[s][t][j] = Entries[s][t][i]

VARIABLES
  source,     \* the text
  lex_state,  \* lexer.token_lex_state
  shape,      \* the trees under each real cell; the driver keeps none, and a
              \* private replay of the prefix recovers them when asked
  spec,       \* the TFSpec
  agenda,     \* the shifts and reductions still to be replayed
  score       \* history: dynamic precedence of all reductions so far

splitvars == <<lex_state, shape, spec, agenda, score>>
allvars == <<vars, source, splitvars>>

-----------------------------------------------------------------------------
(* TFSpecTree.  A leaf, a parent over `kids`, and cell i of the real stack.*)
Leaf(tok, pad, extra) ==
  [symbol |-> tok.symbol, start |-> tok.start, end |-> tok.end, pad |-> pad, extra |-> extra,
   leaf |-> TRUE, inherited |-> FALSE, count |-> 0, prec |-> 0, kids |-> <<>>]

tf_spec__parent(symbol, count, kids, at) ==
  [symbol |-> symbol, extra |-> FALSE, leaf |-> FALSE, inherited |-> FALSE, count |-> count,
   pad   |-> IF kids = <<>> THEN at ELSE kids[1].pad,
   start |-> IF kids = <<>> THEN at ELSE kids[1].start,
   end   |-> IF kids = <<>> THEN at ELSE Last(kids).end,
   prec  |-> FoldLeft(LAMBDA sum, t : sum + t.prec, 0, kids),
   kids  |-> kids]

EndBelow(i) == IF i = 1 THEN 0 ELSE nodes[i - 1].end

(* An inherited cell is opaque until tf_spec__materialize has run the      *)
(* parse again up to this fork and captured its children.                  *)
Inherited(i) ==
  [symbol |-> nodes[i].symbol, start |-> nodes[i].start, end |-> nodes[i].end,
   pad |-> EndBelow(i), extra |-> nodes[i].extra,
   leaf |-> FALSE, inherited |-> TRUE, count |-> 0, prec |-> 0, kids |-> shape[i]]

NoTree == [inherited |-> TRUE, kids |-> <<>>, symbol |-> "none"]

(* tf_spec__push: a node above `below`; it is the last of the graph. *)
tf_spec__push(s, below, tree, state) ==
  [s EXCEPT !.graph = Append(@,
     [state |-> state, byte |-> tree.end, prec |-> s.graph[below].prec + tree.prec,
      links |-> <<[node |-> below, tree |-> tree]>>])]

(* tf_spec__extend: the real cell below the frontier becomes a node. *)
tf_spec__extend(s) ==
  LET below == Len(s.graph) + 1
      i     == s.left
  IN  [s EXCEPT !.graph = Append(
         [@ EXCEPT ![s.frontier].links = <<[node |-> below, tree |-> Inherited(i)]>>],
         [state |-> states[i - 1], byte |-> EndBelow(i), prec |-> 0, links |-> <<>>]),
       !.frontier = below, !.left = i - 1]

tf_spec__unroll(s, node) == IF node = s.frontier /\ s.left > 0 THEN tf_spec__extend(s) ELSE s

-----------------------------------------------------------------------------
(* Merging.                                                                *)

tf_spec__equivalent(a, b) ==
  /\ a.symbol = b.symbol /\ a.extra = b.extra
  /\ a.start - a.pad = b.start - b.pad /\ a.end - a.start = b.end - b.start
  /\ Len(a.kids) = Len(b.kids)

Higher(m, n) == IF m > n THEN m ELSE n

SamePlace(s, m, n) == s.graph[m].state = s.graph[n].state /\ s.graph[m].byte = s.graph[n].byte

PrecThrough(s, link) == s.graph[link.node].prec + link.tree.prec

Raise(s, target, link) ==
  [s EXCEPT !.graph[target].prec = Higher(PrecThrough(s, link), @)]

RECURSIVE tf_spec__absorb(_, _, _)

(* Link i of the target is equivalent and leads to the same place: the     *)
(* better tree is kept, or the two places are merged.                      *)
Meet(s, target, i, link) ==
  LET old == s.graph[target].links[i] IN
  IF old.node # link.node
  THEN Raise(tf_spec__absorb(s, old.node, s.graph[link.node].links), target, link)
  ELSE IF link.tree.prec > old.tree.prec
  THEN [s EXCEPT !.graph[target].links[i].tree = link.tree,
                 !.graph[target].prec = PrecThrough(s, link)]
  ELSE s

AddLink(s, target, link) ==
  LET ls   == s.graph[target].links
      hits == {i \in DOMAIN ls : /\ tf_spec__equivalent(ls[i].tree, link.tree)
                                 /\ ls[i].node = link.node \/ SamePlace(s, ls[i].node, link.node)}
  IN  IF hits # {} THEN Meet(s, target, Min(hits), link)
      ELSE IF Len(ls) = Links THEN [s EXCEPT !.dropped = TRUE]
      ELSE Raise([s EXCEPT !.graph[target].links = Append(@, link)], target, link)

tf_spec__add_link(s, target, link) ==
  IF link.node = target THEN s ELSE AddLink(tf_spec__unroll(s, target), target, link)

tf_spec__absorb(s, into, links) ==
  IF links = <<>> THEN s
  ELSE tf_spec__absorb(tf_spec__add_link(s, into, Head(links)), into, Tail(links))

Mergeable(s, a, b) ==
  /\ ~s.heads[a].halted /\ ~s.heads[b].halted
  /\ SamePlace(s, s.heads[a].node, s.heads[b].node)

tf_spec__merge(s, a, b) ==
  LET m == tf_spec__absorb(s, s.heads[a].node, s.graph[s.heads[b].node].links)
  IN  [m EXCEPT !.heads = RemoveAt(@, b)]

-----------------------------------------------------------------------------
(* Selection: precedence, then the smaller symbol or the fewer children at *)
(* the first place where the two trees differ, then the earlier.           *)
RECURSIVE Compare(_, _)
Compare(x, y) ==
  IF x.symbol # y.symbol THEN SymbolId[x.symbol] - SymbolId[y.symbol]
  ELSE IF Len(x.kids) # Len(y.kids) THEN Len(x.kids) - Len(y.kids)
  ELSE LET differ == {i \in DOMAIN x.kids : Compare(x.kids[i], y.kids[i]) # 0}
       IN  IF differ = {} THEN 0 ELSE Compare(x.kids[Min(differ)], y.kids[Min(differ)])

(* Mutant: precedence is not looked at. *)
PreferByShape(a, b) == a = NoTree \/ Compare(a, b) > 0

tf_spec__prefer(a, b) ==
  \/ a = NoTree
  \/ b.prec > a.prec
  \/ b.prec = a.prec /\ Compare(a, b) > 0

-----------------------------------------------------------------------------
(* Popping: the paths that take `goal` real trees off a node, or with All  *)
(* the whole speculative region, grouped by the node they reach.  They are *)
(* walked breadth first and by rounds, a fork going on in its first link's *)
(* place and appending the others.                                         *)
All == -1

Grouped(groups, at) ==
  LET same == {k \in DOMAIN groups : groups[k].node = at.node}
  IN  IF same = {} THEN Append(groups, [node |-> at.node, paths |-> <<at.trees>>])
      ELSE [groups EXCEPT ![Min(same)].paths = Append(@, at.trees)]

Along(at, link) ==
  [node  |-> link.node, trees |-> <<link.tree>> \o at.trees,
   count |-> at.count + IF link.tree.extra THEN 0 ELSE 1]

RECURSIVE Walk(_, _, _, _, _, _)

(* The walker at the front goes on below, over a graph already unrolled.   *)
WalkOn(s, goal, now, later, forks, groups) ==
  LET at   == Head(now)
      ls   == s.graph[at.node].links
      room == Iterators - Len(now) - Len(later) - Len(forks)
      more == SubSeq(ls, 2, IF Len(ls) - 1 <= room THEN Len(ls) ELSE room + 1)
  IN  IF (IF goal = All THEN ls = <<>> ELSE at.count = goal)
      THEN Walk(s, goal, Tail(now), later, forks, Grouped(groups, at))
      ELSE IF ls = <<>> THEN Walk(s, goal, Tail(now), later, forks, groups)
      ELSE Walk([s EXCEPT !.dropped = @ \/ Len(ls) - 1 > room], goal, Tail(now),
                Append(later, Along(at, ls[1])),
                forks \o [j \in DOMAIN more |-> Along(at, more[j])], groups)

Walk(s, goal, now, later, forks, groups) ==
  IF now # <<>> THEN
    WalkOn(IF goal # All /\ Head(now).count # goal THEN tf_spec__unroll(s, Head(now).node) ELSE s,
           goal, now, later, forks, groups)
  ELSE IF later \o forks = <<>> THEN [spec |-> s, groups |-> groups]
  ELSE Walk(s, goal, later \o forks, <<>>, <<>>, groups)

tf_spec__pop(s, node, goal) ==
  Walk(s, goal, <<[node |-> node, trees |-> <<>>, count |-> 0]>>, <<>>, <<>>, <<>>)

-----------------------------------------------------------------------------
(* Reducing: one new head per node the pop reached, above the best parent  *)
(* that the paths to it propose and that path's trailing extras.  A head   *)
(* that meets an earlier one merges into it.                               *)
RealPart(path) == Max({0} \cup {i \in DOMAIN path : ~path[i].extra})

NewHead(node) == [node |-> node, halted |-> FALSE, errored |-> FALSE]

Propose(a, path, at) ==
  [tree  |-> tf_spec__parent(a.symbol, a.child_count, SubSeq(path, 1, RealPart(path)), at),
   above |-> SubSeq(path, RealPart(path) + 1, Len(path))]

Better(p, q) == IF tf_spec__prefer(p.tree, q.tree) THEN q ELSE p

Best(a, group, at) ==
  FoldLeft(Better, [tree |-> NoTree, above |-> <<>>],
           [i \in DOMAIN group.paths |-> Propose(a, group.paths[i], at)])

(* Mutant: trailing extras keep the state the parent was reduced from. *)
PushParentStale(s, node, a, best) ==
  FoldLeft(LAMBDA g, t : tf_spec__push(g, Len(g.graph), t, s.graph[node].state),
           tf_spec__push(s, node, [best.tree EXCEPT !.prec = @ + a.dynamic_precedence],
                         tf_next_state(s.graph[node].state, a.symbol)), best.above)

PushParent(s, node, a, best) ==
  LET next == tf_next_state(s.graph[node].state, a.symbol)
  IN  FoldLeft(LAMBDA g, t : tf_spec__push(g, Len(g.graph), t, next),
               tf_spec__push(s, node, [best.tree EXCEPT !.prec = @ + a.dynamic_precedence], next),
               best.above)

WithHead(s) == [s EXCEPT !.heads = Append(@, NewHead(Len(s.graph)))]

MergeLast(s, version) ==
  LET v    == Len(s.heads)
      into == {j \in 1 .. v - 1 : j # version /\ Mergeable(s, j, v)}
  IN  IF into = {} THEN s ELSE tf_spec__merge(s, Min(into), v)

ReduceGroup(s, version, a, limit, group) ==
  IF Len(s.heads) > limit THEN [s EXCEPT !.dropped = TRUE]
  ELSE MergeLast(WithHead(PushParent(s, group.node, a, Best(a, group, s.graph[group.node].byte))),
                 version)

ReduceGroups(popped, version, a, limit) ==
  FoldLeft(LAMBDA g, group : ReduceGroup(g, version, a, limit, group), popped.spec, popped.groups)

tf_spec__reduce(s, version, a) ==
  LET halted == Cardinality({i \in DOMAIN s.heads : s.heads[i].halted /\ ~s.heads[i].errored})
  IN  ReduceGroups(tf_spec__pop(s, s.heads[version].node, a.child_count),
                   version, a, Versions + 4 + halted)

-----------------------------------------------------------------------------
(* Lexing.                                                                 *)

(* The error furthest on is the one reported; the first of several there.  *)
tf_spec__error(s, at, kind) ==
  IF s.error.kind # "none" /\ at <= s.error.byte THEN s
  ELSE [s EXCEPT !.error = [kind |-> kind, byte |-> at]]

(* Mutant: any state with an action for the token may take it. *)
CacheServesAny(c, n) == c.byte = n.byte /\ tf_count(n.state, c.token.symbol) > 0

(* The last token lexed serves another head at the same place if that head *)
(* lexes the same way, or the tables say the token is safe there.          *)
CacheServes(c, n) ==
  /\ c.byte = n.byte
  /\ \/ /\ tf_count(n.state, c.token.symbol) > 0
        /\ LexMode[n.state] = LexMode[c.state]
        /\ c.token.symbol = Word => ~c.keyword /\ c.state = n.state
     \/ /\ c.token.end > c.token.start \/ c.token.symbol = End
        /\ Reusable[n.state][c.token.symbol]

Lexed(state, at) == Scan(source, state, at)

Fresh(s, n, r) ==
  IF ~r.found THEN [found |-> FALSE, spec |-> tf_spec__error(s, r.at, "lex")]
  ELSE [found |-> TRUE,
        spec |-> [s EXCEPT !.cache = [token |-> r.token, keyword |-> r.keyword,
                                      byte |-> n.byte, state |-> n.state]]]

tf_spec__lex(s, node) ==
  LET n == s.graph[node]
  IN  IF CacheServes(s.cache, n) THEN [found |-> TRUE, spec |-> s]
      ELSE Fresh(s, n, Lexed(n.state, n.byte))

-----------------------------------------------------------------------------
(* tf_spec__accept: every path to the bottom of the stack proposes a root, *)
(* its own children between the extras around it and the end token.        *)
RECURSIVE ExtendAll(_)
ExtendAll(s) == IF s.left = 0 THEN s ELSE ExtendAll(tf_spec__extend(s))

RootOver(path) ==
  LET j == RealPart(path) IN
  IF j = 0 THEN NoTree
  ELSE tf_spec__parent(path[j].symbol, path[j].count,
                       SubSeq(path, 1, j - 1) \o path[j].kids \o SubSeq(path, j + 1, Len(path)), 0)

PickRoot(best, t) == IF t # NoTree /\ tf_spec__prefer(best, t) THEN t ELSE best

ProposeRoots(popped, version) ==
  LET paths == popped.groups[1].paths
  IN  [popped.spec EXCEPT
         !.heads[version] = [node |-> Len(popped.spec.graph), halted |-> TRUE, errored |-> FALSE],
         !.finished = FoldLeft(PickRoot, @, [i \in DOMAIN paths |-> RootOver(paths[i])])]

AcceptWhole(s, version, eof) ==
  LET top == s.heads[version].node
  IN  ProposeRoots(
        tf_spec__pop(tf_spec__push(s, top, Leaf(eof, s.graph[top].byte, TRUE), StartState),
                     Len(s.graph) + 1, All), version)

tf_spec__accept(s, version, eof) == AcceptWhole(ExtendAll(s), version, eof)

-----------------------------------------------------------------------------
(* tf_spec__advance: one head up to its next shift.  The actions of an     *)
(* entry are taken in order; reductions add heads, the last of which takes *)
(* this head's place with the token in hand.                               *)
RECURSIVE TakeActions(_, _, _, _, _)

(* One reduction done, `before` heads ago: on to the entry's next action.  *)
AfterReduce(s, version, tok, i, last, before) ==
  TakeActions(s, version, tok, i + 1, IF Len(s.heads) > before THEN before + 1 ELSE last)

ShiftHead(s, version, tok, extra, next) ==
  LET top == s.heads[version].node
  IN  [tf_spec__push(s, top, Leaf(tok, s.graph[top].byte, extra), next)
         EXCEPT !.heads[version].node = Len(s.graph) + 1]

TakeActions(s, version, tok, i, last) ==
  LET state == s.graph[s.heads[version].node].state
      a     == tf_action(state, tok.symbol, i)
  IN  IF i > tf_count(state, tok.symbol) THEN [spec |-> s, over |-> FALSE, last |-> last]
      ELSE CASE a.type = "shift" ->
                  [over |-> TRUE, last |-> 0,
                   spec |-> ShiftHead(s, version, tok, a.extra, IF a.extra THEN state ELSE a.state)]
             [] a.type = "accept" ->
                  [over |-> TRUE, last |-> 0, spec |-> tf_spec__accept(s, version, tok)]
             [] a.type = "reduce" ->
                  AfterReduce(tf_spec__reduce(s, version, a), version, tok, i, last, Len(s.heads))
             [] OTHER -> TakeActions(s, version, tok, i + 1, last)

Reduces(state, symbol) == \E a \in tf_actions(state, symbol) : a.type = "reduce"

Die(s, version) == [s EXCEPT !.heads[version].halted = TRUE, !.heads[version].errored = TRUE]

RECURSIVE AdvanceWith(_, _, _, _)

TakePlace(s, version, last) ==
  [s EXCEPT !.heads = RemoveAt([@ EXCEPT ![version] = s.heads[last]], last)]

(* All actions of the entry of `state` are taken, with result r. *)
Taken(r, version, state, tok, kw) ==
  IF r.over THEN r.spec
  ELSE IF r.last # 0 THEN AdvanceWith(TakePlace(r.spec, version, r.last), version, tok, kw)
  ELSE IF Reduces(state, tok.symbol) THEN [r.spec EXCEPT !.heads[version].halted = TRUE]
  ELSE IF tf_parser__demote_keyword(state, tok.symbol, kw)
    THEN AdvanceWith(r.spec, version, [tok EXCEPT !.symbol = Word], kw)
  ELSE Die(tf_spec__error(r.spec, tok.start, "unexpected"), version)

AdvanceWith(s, version, tok, kw) ==
  Taken(TakeActions(s, version, tok, 1, 0), version, s.graph[s.heads[version].node].state, tok, kw)

AdvanceLexed(r, version) ==
  IF r.found THEN AdvanceWith(r.spec, version, r.spec.cache.token, r.spec.cache.keyword)
  ELSE Die(r.spec, version)

tf_spec__advance(s, version) == AdvanceLexed(tf_spec__lex(s, s.heads[version].node), version)

-----------------------------------------------------------------------------
(* tf_spec__condense: halted heads go, heads in the same place merge, and  *)
(* the higher precedence comes first.                                      *)
Prec(s, i) == s.graph[s.heads[i].node].prec

Swap(s, i, j) == [s EXCEPT !.heads = [@ EXCEPT ![i] = s.heads[j], ![j] = s.heads[i]]]

RECURSIVE CondenseFrom(_, _, _, _)
CondenseFrom(s, i, j, prec) ==
  IF i > Len(s.heads) THEN s
  ELSE IF j = 0 THEN
    IF s.heads[i].halted THEN CondenseFrom([s EXCEPT !.heads = RemoveAt(@, i)], i, 0, 0)
    ELSE CondenseFrom(s, i, 1, Prec(s, i))
  ELSE IF j = i THEN CondenseFrom(s, i + 1, 0, 0)
  ELSE IF Mergeable(s, j, i) THEN CondenseFrom(tf_spec__merge(s, j, i), i, 0, 0)
  ELSE CondenseFrom(IF prec > Prec(s, j) THEN Swap(s, i, j) ELSE s, i, j + 1, prec)

Truncated(s) ==
  IF Len(s.heads) <= Versions THEN s
  ELSE [s EXCEPT !.heads = SubSeq(@, 1, Versions), !.dropped = TRUE]

(* Mutant: dead heads are kept. *)
CondenseNothing(s) == Truncated(s)

tf_spec__condense(s) == Truncated(CondenseFrom(s, 1, 0, 0))

RECURSIVE tf_spec__unique(_, _)
tf_spec__unique(s, node) ==
  LET ls == s.graph[node].links
  IN  ls = <<>> \/ (Len(ls) = 1 /\ tf_spec__unique(s, ls[1].node))

-----------------------------------------------------------------------------
(* tf_spec__replay goes through the chosen trees in postorder; inherited   *)
(* cells are on the real stack already.                                    *)
RECURSIVE Postorder(_)
Postorder(trees) ==
  IF trees = <<>> THEN <<>>
  ELSE LET t == Head(trees)
       IN  (IF t.inherited THEN <<>> ELSE IF t.leaf THEN <<t>> ELSE Append(Postorder(t.kids), t))
           \o Postorder(Tail(trees))

(* Mutant: the first action of the entry is looked up. *)
FirstState(state, symbol) == Entries[state][symbol][1].state

(* tf_next_state of a terminal: the last action of the entry, filtered or  *)
(* not, if that is a shift.                                                *)
ShiftState(state, symbol) ==
  LET e == Entries[state][symbol]
  IN  IF e = <<>> \/ Last(e).type # "shift" THEN ErrorState
      ELSE IF Last(e).extra THEN state ELSE Last(e).state

-----------------------------------------------------------------------------
NoSpec == [graph |-> <<>>, heads |-> <<>>, frontier |-> 0, left |-> 0, version |-> 0, last |-> 0,
           finished |-> NoTree, error |-> [kind |-> "none", byte |-> 0], dropped |-> FALSE,
           cache |-> [token |-> [symbol |-> End, start |-> 0, end |-> 0], keyword |-> FALSE,
                      byte |-> 0, state |-> ErrorState]]

SplitInit ==
  /\ source \in Sources
  /\ Init /\ size = Len(source)
  /\ lex_state = ErrorState /\ shape = <<>>
  /\ spec = NoSpec /\ agenda = <<>> /\ score = 0

(* The collector of the private replay: a cell's children as trees.        *)
CellTree(i) == [symbol |-> nodes[i].symbol, kids |-> shape[i]]

ShapeShift == shape' = IF depth' > depth THEN Append(shape, <<>>) ELSE shape

ShapeReduce(count) ==
  LET base == PopBase(count)
      end  == PopEnd(count)
  IN  shape' = IF pc' = "fail" THEN shape
               ELSE SubSeq(shape, 1, base)
                    \o <<[k \in 1 .. end - base |-> CellTree(base + k)]>>
                    \o SubSeq(shape, end + 1, depth)

(* The driver's own steps, the lexer now being given by the source. *)
DriverLex ==
  /\ Lex
  /\ LET r == Lexed(Top, byte) IN r.found /\ token' = r.token /\ keyword' = r.keyword
  /\ lex_state' = Top
  /\ UNCHANGED <<source, shape, spec, agenda, score>>

DriverLexFail ==
  /\ LexFail
  /\ LET r == Lexed(Top, byte) IN ~r.found /\ byte' = r.at
  /\ UNCHANGED <<source, splitvars>>

DriverDispatch ==
  /\ Dispatch
  /\ LET a == tf_action(Top, token.symbol, 1) IN
       CASE a.type = "shift"  -> ShapeShift /\ UNCHANGED score
         [] a.type = "reduce" -> /\ ShapeReduce(a.child_count)
                                 /\ score' = score + a.dynamic_precedence
         [] OTHER -> UNCHANGED <<shape, score>>
  /\ UNCHANGED <<source, lex_state, spec, agenda>>

DriverOther ==
  /\ TooLarge \/ Start \/ Demote \/ Unexpected \/ Split \/ Discard
  /\ UNCHANGED <<source, splitvars>>

-----------------------------------------------------------------------------
(* tf_parser__split.  The real stack is one node, the frontier; the        *)
(* conflicting token is in the cache.                                      *)
Fork ==
  /\ pc = "split"
  /\ spec' = [NoSpec EXCEPT
       !.graph = <<[state |-> Top, byte |-> Here, prec |-> 0, links |-> <<>>]>>,
       !.heads = <<NewHead(1)>>, !.frontier = 1, !.left = depth, !.version = 1,
       !.dropped = spec.dropped,
       !.cache = [token |-> token, keyword |-> keyword, byte |-> Here, state |-> lex_state]]
  /\ pc' = "round"
  /\ UNCHANGED <<lexvars, stackvars, outvars, split_count, sinkvars, source,
                 lex_state, shape, agenda, score>>

splitonly == <<lexvars, stackvars, outvars, split_count, sinkvars, source, lex_state, shape, score>>

(* A round takes every head, those added on the way included, past the     *)
(* position reached so far.                                                *)
Placed(s, v) ==
  LET pos == s.graph[s.heads[v].node].byte
  IN  IF pos > s.last \/ (v > 1 /\ pos = s.last) THEN [s EXCEPT !.last = pos, !.version = v + 1]
      ELSE s

Advance ==
  /\ pc = "round" /\ spec.version <= Len(spec.heads)
  /\ ~spec.heads[spec.version].halted
  /\ spec' = Placed(tf_spec__advance(spec, spec.version), spec.version)
  /\ UNCHANGED <<splitonly, pc, agenda>>

NextHead ==
  /\ pc = "round" /\ spec.version <= Len(spec.heads)
  /\ spec.heads[spec.version].halted
  /\ spec' = [spec EXCEPT !.version = @ + 1]
  /\ UNCHANGED <<splitonly, pc, agenda>>

Condense ==
  /\ pc = "round" /\ spec.version > Len(spec.heads)
  /\ spec' = tf_spec__condense(spec)
  /\ pc' = "choose"
  /\ UNCHANGED <<splitonly, agenda>>

OnePathLeft ==
  Len(spec.heads) = 1 /\ spec.finished = NoTree /\ tf_spec__unique(spec, spec.heads[1].node)

Again ==
  /\ pc = "choose" /\ spec.heads # <<>> /\ ~OnePathLeft
  /\ spec' = [spec EXCEPT !.version = 1]
  /\ pc' = "round"
  /\ UNCHANGED <<splitonly, agenda>>

(* Mutant: the split returns without the discard loop. *)
AllDeadAtOnce ==
  /\ pc = "choose" /\ spec.heads = <<>> /\ spec.finished = NoTree
  /\ error' = [kind |-> spec.error.kind, byte |-> spec.error.byte] /\ pc' = "done"
  /\ UNCHANGED <<lexvars, stackvars, root_emitted, root, split_count, sinkvars, source, splitvars>>

AllDead ==
  /\ pc = "choose" /\ spec.heads = <<>> /\ spec.finished = NoTree
  /\ tf_parser__fail(spec.error.kind, spec.error.byte)
  /\ UNCHANGED <<lexvars, stackvars, root_emitted, root, split_count, sinkvars, source, splitvars>>

(* The children of the root and the extras around it, less the end token.  *)
Finish ==
  /\ pc = "choose" /\ spec.heads = <<>> /\ spec.finished # NoTree
  /\ agenda' = Postorder(Front(spec.finished.kids))
  /\ pc' = "replay"
  /\ UNCHANGED <<splitonly, spec>>

Chosen == tf_spec__pop(spec, spec.heads[1].node, All).groups[1].paths[1]

Settle ==
  /\ pc = "choose" /\ OnePathLeft
  /\ agenda' = Postorder(Chosen)
  /\ pc' = "replay"
  /\ UNCHANGED <<splitonly, spec>>

OwnPrec(t) == t.prec - FoldLeft(LAMBDA sum, k : sum + k.prec, 0, t.kids)

ReplayShift ==
  /\ pc = "replay" /\ agenda # <<>> /\ Head(agenda).leaf
  /\ LET t == Head(agenda)
     IN  tf_parser__shift(t, t.extra, IF t.extra THEN Top ELSE ShiftState(Top, t.symbol), "replay")
  /\ ShapeShift
  /\ agenda' = Tail(agenda)
  /\ UNCHANGED <<source, lex_state, spec, score>>

ReplayReduce ==
  /\ pc = "replay" /\ agenda # <<>> /\ ~Head(agenda).leaf
  /\ LET t == Head(agenda)
     IN  /\ tf_parser__reduce([symbol |-> t.symbol, child_count |-> t.count], "none", "replay")
         /\ ShapeReduce(t.count)
         /\ score' = score + OwnPrec(t)
  /\ agenda' = Tail(agenda)
  /\ UNCHANGED <<source, lex_state, spec>>

(* Only now are the trailing extras on the stack, so the root is reduced   *)
(* here, with the end token as lookahead.                                  *)
ReplayRoot ==
  /\ pc = "replay" /\ agenda = <<>> /\ spec.finished # NoTree
  /\ LET t == spec.finished
     IN  /\ tf_parser__reduce([symbol |-> t.symbol, child_count |-> t.count], End, "back")
         /\ ShapeReduce(t.count)
  /\ UNCHANGED <<source, lex_state, spec, agenda, score>>

BackAtEnd ==
  /\ pc = "back"
  /\ token' = [symbol |-> End, start |-> size, end |-> size]
  /\ byte' = size
  /\ pc' = "act"
  /\ UNCHANGED <<size, keyword, stackvars, outvars, split_count, sinkvars, source, splitvars>>

(* Mutant: whether the token is a keyword is not handed back. *)
ResumeUnmarked(found, c) ==
  /\ found
  /\ token' = c.token /\ byte' = c.token.end
  /\ lex_state' = c.state
  /\ pc' = "act"
  /\ UNCHANGED <<keyword, error>>

(* The lookahead handed back is lexed at the head that was chosen. *)
Resume(found, c) ==
  /\ found
  /\ token' = c.token /\ keyword' = c.keyword /\ byte' = c.token.end
  /\ lex_state' = c.state
  /\ pc' = "act"
  /\ UNCHANGED error

Stuck(found, at) ==
  /\ ~found
  /\ tf_parser__fail("lex", at)
  /\ UNCHANGED <<token, keyword, byte, lex_state>>

HandBack ==
  /\ pc = "replay" /\ agenda = <<>> /\ spec.finished = NoTree
  /\ LET r == tf_spec__lex(spec, spec.heads[1].node)
     IN  Resume(r.found, r.spec.cache) \/ Stuck(r.found, r.spec.error.byte)
  /\ UNCHANGED <<size, stackvars, root_emitted, root, split_count, sinkvars, source,
                 shape, spec, agenda, score>>

(* An arena of the split could not grow. *)
ReserveFails == MemoryMayFail /\ pc \in {"split", "round", "choose", "replay"}

Exhausted ==
  /\ ReserveFails
  /\ tf_parser__fail("oom", token.start)
  /\ UNCHANGED <<lexvars, stackvars, root_emitted, root, split_count, sinkvars, source, splitvars>>

Speculate == Fork \/ Advance \/ NextHead \/ Condense \/ Again
Choose    == AllDead \/ Finish \/ Settle \/ Exhausted
Replayed  == ReplayShift \/ ReplayReduce \/ ReplayRoot \/ BackAtEnd \/ HandBack

Stop == pc = "done" /\ UNCHANGED allvars

SplitNext ==
  \/ DriverLex \/ DriverLexFail \/ DriverDispatch \/ DriverOther
  \/ Speculate \/ Choose \/ Replayed \/ Stop

(* The thread takes its next step until the parse is done.  This is weak   *)
(* fairness of SplitNext with ENABLED SplitNext written out, which TLC     *)
(* would have to compute through every operator above.                     *)
KeepsRunning == []<>(pc = "done") \/ []<><<SplitNext>>_allvars

SplitSpec == SplitInit /\ [][SplitNext]_allvars /\ KeepsRunning

-----------------------------------------------------------------------------
(* Every link of the graph-structured stack is a move of the LR automaton  *)
(* over text that begins where the node below it ends, through every       *)
(* merge, unrolled prefix cell and trailing extra put on a new parent; so  *)
(* any path from a head is a stack the driver itself could have.           *)
Speculating == pc \in {"round", "choose"}

GraphIsPaths ==
  Speculating =>
    \A x \in DOMAIN spec.graph : \A i \in DOMAIN spec.graph[x].links :
      LET l == spec.graph[x].links[i] IN
      /\ l.tree.symbol # End => Transition(spec.graph[l.node].state, l.tree, spec.graph[x].state)
      /\ spec.graph[x].byte = l.tree.end /\ l.tree.pad = spec.graph[l.node].byte

(* The replay keeps the real stack a path of the automaton and leaves on   *)
(* it exactly the path it was given: the inherited cells below, then cell  *)
(* by cell the symbols, spans and states of the chosen alternative --      *)
(* though it shifts and reduces without a lookahead, moves trailing extras *)
(* that were inherited, and looks every state up again.                    *)
SameCell(cell, t) ==
  /\ cell.symbol = t.symbol /\ cell.extra = t.extra
  /\ cell.start = t.start /\ cell.end = t.end

RECURSIVE PathStates(_, _)
PathStates(s, node) ==
  IF s.graph[node].links = <<>> THEN <<>>
  ELSE Append(PathStates(s, s.graph[node].links[1].node), s.graph[node].state)

ReplayFollowsPath ==
  /\ pc = "replay" => StackIsPath
  /\ pc = "replay" /\ agenda = <<>> =>
    LET trees == IF spec.finished = NoTree THEN Chosen ELSE Front(spec.finished.kids)
    IN  /\ depth = spec.left + Len(trees)
        /\ \A i \in DOMAIN trees : SameCell(nodes[spec.left + i], trees[i])
        /\ spec.finished = NoTree =>
             [i \in DOMAIN trees |-> states[spec.left + i]] = PathStates(spec, spec.heads[1].node)

(* The driver goes on from a split with the token its own lexer would read *)
(* in the state and at the place the replay has reached, keyword or not,   *)
(* whichever head lexed it first and in whatever lex mode.                 *)
HandsBackLookahead ==
  [][pc = "replay" /\ pc' = "act" =>
       /\ Lexed(Top, Here) = [found |-> TRUE, token |-> token', keyword |-> keyword']
       /\ byte' = token'.end]_allvars

-----------------------------------------------------------------------------
(* A reference: every run of the plain LR automaton over the text, extras  *)
(* ignored, that takes any action of an entry.  After a reduction that was *)
(* one of several actions the token may be kept or read again.  The result *)
(* is the dynamic precedence of the runs that accept and where the others  *)
(* stop.                                                                   *)
RECURSIVE Runs(_, _, _, _)
Runs(stack, at, r, sum) ==
  LET top    == Last(stack)
      acts   == tf_actions(top, r.token.symbol)
      Shifted(a) == LET to == IF a.extra THEN stack ELSE Append(stack, a.state)
                    IN  Runs(to, r.token.end, Lexed(Last(to), r.token.end), sum)
      Reduced(a) == LET low == SubSeq(stack, 1, Len(stack) - a.child_count)
                        to  == Append(low, tf_next_state(Last(low), a.symbol))
                        look == {r} \cup {l \in {Lexed(Last(to), at)} : Cardinality(acts) > 1}
                    IN  UNION {Runs(to, at, l, sum + a.dynamic_precedence) : l \in look}
      ByAction(a) == CASE a.type = "shift" -> Shifted(a) [] a.type = "reduce" -> Reduced(a)
                       [] a.type = "accept" -> {<<"accepts", sum>>} [] OTHER -> {}
  IN  IF ~r.found THEN {<<"stops", r.at>>}
      ELSE IF acts # {} THEN UNION {ByAction(a) : a \in acts}
      ELSE IF tf_parser__demote_keyword(top, r.token.symbol, r.keyword)
           THEN Runs(stack, at, [r EXCEPT !.token.symbol = Word], sum)
      ELSE {<<"stops", r.token.start>>}

AllRuns == Runs(<<StartState>>, 0, Lexed(StartState, 0), 0)

(* Exactly the texts with a parse by the tables are accepted, unless a cap *)
(* of tf_parser_spec.h dropped an alternative on the way; and an error is  *)
(* reported where one of the alternatives stops.                           *)
AcceptsTheLanguage ==
  pc = "done" /\ error.kind \notin {"oom", "size"} =>
    IF error.kind = "none" THEN <<"accepts", score>> \in AllRuns
    ELSE /\ <<"stops", error.byte>> \in AllRuns
         /\ spec.dropped \/ \A r \in AllRuns : r[1] = "stops"

(* However alternatives were merged, grouped, reordered and settled along  *)
(* the way, the parse that is replayed has the highest dynamic precedence  *)
(* of all parses of the text.                                              *)
KeepsTheBest ==
  pc = "done" /\ error.kind = "none" /\ ~spec.dropped =>
    \A r \in AllRuns : r[1] = "accepts" => r[2] <= score
=============================================================================
