------------------------------ MODULE TFParser ------------------------------
(***************************************************************************)
(* The LR driver of lib/src/tf_parser.c: tf_parser__run and what it calls, *)
(* one action per branch of its loop.  The lexer and the sink are the      *)
(* driver's environment: the lexer may return any token that fits in the   *)
(* source, and the sink any value, so what holds here holds for every      *)
(* lexer and every consumer.                                               *)
(*                                                                         *)
(* An entry with several actions goes to tf_parser__split, which explores  *)
(* the alternatives in private and replays the chosen one through the same *)
(* tf_parser__shift and tf_parser__reduce.  Here a split is its outcome:   *)
(* it fails before the sink saw anything, or one of the actions is taken.  *)
(* How tf_parser_spec.h chooses is not decided in this module.             *)
(***************************************************************************)
EXTENDS TFTables, FiniteSets

CONSTANTS
  MaxSize,         \* bound: sources of up to this many bytes are considered
  SizeLimit,       \* UINT32_MAX, the largest source the driver takes
  Pads,            \* how many bytes the lexer may skip before a token
  Widths,          \* how many bytes a token may take
  InitCapacity,    \* cells of the first allocation, 64 in the code
  Returns,         \* per symbol, whether the sink returns a value (or may not)
  MemoryMayFail    \* whether realloc may return NULL

NULL == 0          \* no value; sink values are numbered as they are returned

ASSUME DriverAssumption ==
  /\ MaxSize \in Nat /\ SizeLimit \in Nat
  /\ Pads \subseteq Nat /\ Widths \subseteq Nat \ {0}
  /\ InitCapacity \in Nat \ {0}
  /\ Returns \in [Symbol -> SUBSET BOOLEAN]
  /\ MemoryMayFail \in BOOLEAN

VARIABLES
  pc,           \* where tf_parser__run is
  size,         \* bytes of the source
  byte,         \* the lexer's position
  token,        \* the token being dispatched
  keyword,      \* lexer.token_is_keyword
  depth,        \* cells on the stack
  nodes,        \* nodes[i], 1 <= i <= depth (the code counts from 0)
  states,       \* states[i], 0 <= i <= depth
  capacity,     \* cells allocated
  leading,      \* extras at the bottom of the stack
  root_emitted, \* the root went to the sink, end token included
  root,         \* *root
  error,        \* *error: what kind, at which byte
  split_count,  \* conflicts met
  issued,       \* history: values the sink has returned
  handed        \* history: how often each went to a parent or to on_discard

lexvars   == <<size, byte, token, keyword>>
stackvars == <<depth, nodes, states, capacity, leading>>
outvars   == <<root_emitted, root, error>>
sinkvars  == <<issued, handed>>
vars == <<pc, lexvars, stackvars, outvars, split_count, sinkvars>>

Token == [symbol : Terminal, start : Nat, end : Nat]
Cell  == [symbol : Symbol, extra : BOOLEAN, start : Nat, end : Nat, value : Nat]
Error == [kind : {"none", "size", "lex", "unexpected", "oom"}, byte : Nat]

Top == states[depth]

(* The end of the last cell, where the next token is looked for. *)
Here == IF depth = 0 THEN 0 ELSE nodes[depth].end

-----------------------------------------------------------------------------
(* Mutant: an allocation that is full counts as having one cell left.      *)
GrowsTooLate(cap, needed) == IF cap # 0 /\ needed <= cap + 1 THEN {cap} ELSE {2 * needed}

(* tf_parser__grow.  The capacities the call may leave behind, 0 standing  *)
(* for a NULL from realloc: it doubles until the request fits.             *)
tf_parser__grow(cap, needed) ==
  LET from == IF cap = 0 THEN InitCapacity ELSE cap IN
  IF needed <= cap THEN {cap}
  ELSE {c \in needed .. 2 * needed + from :
          /\ \E k \in 0 .. needed : c = from * 2 ^ k
          /\ c = from \/ c < 2 * needed}
       \cup (IF MemoryMayFail THEN {0} ELSE {})

(* Mutant: the position of the error is forgotten. *)
FailNowhere(kind, at) ==
  /\ error' = [kind |-> kind, byte |-> 0]
  /\ pc' = "fail"

(* tf_parser__fail, then the jump to the end of tf_parser__run. *)
tf_parser__fail(kind, at) ==
  /\ error' = [kind |-> kind, byte |-> at]
  /\ pc' = "fail"

(* A sink call that returns values: `new` of them, numbered on from        *)
(* `issued`.  The values in the cells of `kids` and the new ones numbered  *)
(* in `own` are handed to the parent.                                      *)
EmitHanding(new, kids, own) ==
  /\ issued' = issued + new
  /\ handed' = [v \in 1 .. issued + new |->
                  IF v > issued THEN (IF v \in own THEN 1 ELSE 0)
                  ELSE handed[v] + Cardinality({i \in kids : nodes[i].value = v})]

Emit(new) == EmitHanding(new, {}, {})

(* Mutant: any extra counts as a leading one. *)
CountEveryExtra(extra) == IF extra THEN leading + 1 ELSE leading

(* An extra with nothing but extras below it is a leading one. *)
CountLeading(extra) == IF extra /\ depth = leading THEN leading + 1 ELSE leading

(* tf_parser__shift and tf_parser__push of the token `tok`, after which    *)
(* the caller is at `then`.  The sink is called, and a leading extra       *)
(* counted, before the push can run out of memory.                         *)
tf_parser__shift(tok, extra, next, then) ==
  \E returns \in Returns[tok.symbol] :
    LET value == IF returns THEN issued + 1 ELSE NULL
        cell  == [symbol |-> tok.symbol, extra |-> extra, start |-> tok.start,
                  end |-> tok.end, value |-> value]
    IN  /\ Emit(IF returns THEN 1 ELSE 0)
        /\ leading' = CountLeading(extra)
        /\ \E cap \in tf_parser__grow(capacity, depth + 1) :
             \/ /\ cap = 0
                /\ tf_parser__fail("oom", token.start)
                /\ UNCHANGED <<depth, nodes, states, capacity>>
             \/ /\ cap # 0
                /\ capacity' = cap
                /\ depth' = depth + 1
                /\ nodes' = [i \in 1 .. depth + 1 |-> IF i <= depth THEN nodes[i] ELSE cell]
                /\ states' = [i \in 0 .. depth + 1 |-> IF i <= depth THEN states[i] ELSE next]
                /\ pc' = then
                /\ UNCHANGED error
        /\ UNCHANGED <<lexvars, root_emitted, root, split_count>>

-----------------------------------------------------------------------------
(* The scan at the head of tf_parser__reduce.                              *)

(* Mutant: extras count as children. *)
CountExtras(b) == b + 1 .. depth

(* The real (not extra) cells above the first b. *)
Real(b) == {j \in b + 1 .. depth : ~nodes[j].extra}

(* The cells below the reduction: as few as `count` real cells need popped.*)
PopBase(count) ==
  CHOOSE b \in 0 .. depth :
    /\ Cardinality(Real(b)) >= count
    /\ \A c \in b + 1 .. depth : Cardinality(Real(c)) < count

(* The last cell below the trailing extras; an empty production has none.  *)
PopEnd(count) ==
  IF count = 0 THEN depth
  ELSE CHOOSE e \in 1 .. depth : /\ ~nodes[e].extra
                                 /\ \A j \in e + 1 .. depth : nodes[j].extra

(* Mutant: the parent reaches over the trailing extras. *)
ParentOverExtras(a, base, end, value) ==
  [symbol |-> a.symbol, extra |-> FALSE,
   start  |-> IF base < end THEN nodes[base + 1].start ELSE Here,
   end    |-> Here,
   value  |-> value]

(* The parent over cells base+1 .. end.  An empty production sits at the   *)
(* current position, above any extras.                                     *)
ParentCell(a, base, end, value) ==
  [symbol |-> a.symbol, extra |-> FALSE,
   start  |-> IF base < end THEN nodes[base + 1].start ELSE Here,
   end    |-> IF base < end THEN nodes[end].end ELSE Here,
   value  |-> value]

(* Mutants: the trailing extras keep the states they were shifted in; they *)
(* are copied from one cell too low.                                       *)
PutParentStale(parent, base, end, next) ==
  LET top == base + 1 + (depth - end) IN
  /\ depth' = top
  /\ nodes' = [i \in 1 .. top |-> IF i <= base THEN nodes[i]
                                  ELSE IF i = base + 1 THEN parent
                                  ELSE nodes[i - (base + 1) + end]]
  /\ states' = [i \in 0 .. top |-> IF i <= base THEN states[i]
                                   ELSE IF i = base + 1 THEN next
                                   ELSE states[i - (base + 1) + end]]
PutParentLow(parent, base, end, next) ==
  LET top == base + 1 + (depth - end) IN
  /\ depth' = top
  /\ nodes' = [i \in 1 .. top |-> IF i <= base THEN nodes[i]
                                  ELSE IF i = base + 1 THEN parent
                                  ELSE nodes[i - (base + 1) + end - 1]]
  /\ states' = [i \in 0 .. top |-> IF i <= base THEN states[i] ELSE next]
(* The parent takes the cell at `base` and the trailing extras move on top *)
(* of it, in the parent's state.                                           *)
PutParent(parent, base, end, next) ==
  LET top == base + 1 + (depth - end) IN
  /\ depth' = top
  /\ nodes' = [i \in 1 .. top |-> IF i <= base THEN nodes[i]
                                  ELSE IF i = base + 1 THEN parent
                                  ELSE nodes[i - (base + 1) + end]]
  /\ states' = [i \in 0 .. top |-> IF i <= base THEN states[i] ELSE next]

(* Mutant: leading extras are not reckoned with. *)
RootAtBottom(a, base, look) ==
  look = End /\ base = 0 /\ accepts_end(tf_next_state(states[base], a.symbol))

(* A reduction of the root with the end token as lookahead absorbs the     *)
(* whole stack and the end token.                                          *)
IsRoot(a, base, look) ==
  look = End /\ base = leading /\ accepts_end(tf_next_state(states[base], a.symbol))

(* tf_parser__reduce below the root.  The parent has gone to the sink by   *)
(* the time the stack may have to grow (above an empty production).        *)
ReduceInner(a, look, then) ==
  LET base == PopBase(a.child_count)
      end  == PopEnd(a.child_count)
      next == tf_next_state(states[base], a.symbol)
  IN  /\ ~IsRoot(a, base, look)
      /\ \E returns \in Returns[a.symbol] :
           LET value == IF returns THEN issued + 1 ELSE NULL
           IN  /\ EmitHanding(IF returns THEN 1 ELSE 0, base + 1 .. end, {})
               /\ \E cap \in tf_parser__grow(capacity, base + 1 + (depth - end)) :
                    \/ /\ cap = 0
                       /\ tf_parser__fail("oom", token.start)
                       /\ UNCHANGED <<depth, nodes, states, capacity>>
                    \/ /\ cap # 0
                       /\ capacity' = cap
                       /\ PutParent(ParentCell(a, base, end, value), base, end, next)
                       /\ pc' = then
                       /\ UNCHANGED error
      /\ UNCHANGED <<lexvars, leading, root_emitted, root, split_count>>

(* tf_parser__reduce of the root.  The end token's cell is written past    *)
(* the top of the stack, which grows for it first; the parent then needs   *)
(* no more cells than that.                                                *)
ReduceRoot(a, look, then) ==
  LET base == PopBase(a.child_count)
      end  == PopEnd(a.child_count)
      next == tf_next_state(states[base], a.symbol)
  IN  /\ IsRoot(a, base, look)
      /\ \E cap \in tf_parser__grow(capacity, depth + 1) :
           \/ /\ cap = 0
              /\ tf_parser__fail("oom", token.start)
              /\ UNCHANGED <<depth, nodes, states, capacity, root_emitted, sinkvars>>
           \/ /\ cap # 0
              /\ capacity' = cap
              /\ root_emitted' = TRUE
              /\ \E eof \in Returns[End], returns \in Returns[a.symbol] :
                   LET ends  == IF eof THEN 1 ELSE 0
                       value == IF returns THEN issued + ends + 1 ELSE NULL
                   IN  /\ EmitHanding(ends + (IF returns THEN 1 ELSE 0), 1 .. depth,
                                      issued + 1 .. issued + ends)
                       /\ PutParent(ParentCell(a, base, end, value), base, end, next)
              /\ pc' = then
              /\ UNCHANGED error
      /\ UNCHANGED <<lexvars, leading, root, split_count>>

(* `look` is the symbol of the token that will follow, where the caller    *)
(* knows it, and `then` where the caller is afterwards.                    *)
tf_parser__reduce(a, look, then) == ReduceInner(a, look, then) \/ ReduceRoot(a, look, then)

-----------------------------------------------------------------------------
Init ==
  /\ pc = "start"
  /\ size \in 0 .. MaxSize
  /\ byte = 0
  /\ token = [symbol |-> End, start |-> 0, end |-> 0]   \* zeroed
  /\ keyword = FALSE
  /\ depth = 0
  /\ nodes = [i \in 1 .. 0 |-> NULL]
  /\ states = [i \in 0 .. 0 |-> ErrorState]
  /\ capacity = 0
  /\ leading = 0
  /\ root_emitted = FALSE
  /\ root = NULL
  /\ error = [kind |-> "none", byte |-> 0]
  /\ split_count = 0
  /\ issued = 0
  /\ handed = [v \in 1 .. 0 |-> 0]

(* A source the 32-bit offsets cannot address returns at once. *)
TooLarge ==
  /\ pc = "start" /\ size > SizeLimit
  /\ error' = [kind |-> "size", byte |-> 0]
  /\ pc' = "done"
  /\ UNCHANGED <<lexvars, stackvars, root_emitted, root, split_count, sinkvars>>

Start ==
  /\ pc = "start" /\ size <= SizeLimit
  /\ \E cap \in tf_parser__grow(capacity, InitCapacity) :
       \/ /\ cap = 0
          /\ tf_parser__fail("oom", token.start)
          /\ UNCHANGED <<capacity, states>>
       \/ /\ cap # 0
          /\ capacity' = cap
          /\ states' = [i \in 0 .. 0 |-> StartState]
          /\ pc' = "lex"
          /\ UNCHANGED error
  /\ UNCHANGED <<lexvars, depth, nodes, leading, root_emitted, root, split_count, sinkvars>>

(* tf_lexer_next.  The end of the file is a token without width.  A word   *)
(* becomes a keyword only where this state has actions for it or reserves  *)
(* it; the token may be dispatched in a later state.                       *)
Lex ==
  /\ pc = "lex"
  /\ \E t \in Terminal, pad \in Pads :
       /\ \E width \in Widths \cup {0} :
            /\ width = 0 <=> t = End
            /\ t = End => byte + pad = size
            /\ byte + pad + width <= size
            /\ token' = [symbol |-> t, start |-> byte + pad, end |-> byte + pad + width]
            /\ byte' = byte + pad + width
       /\ t \in Keyword => Entries[Top][t] # <<>> \/ tf_is_reserved_word(Top, t)
       /\ keyword' = (t \in Keyword)
  /\ pc' = "act"
  /\ UNCHANGED <<size, stackvars, outvars, split_count, sinkvars>>

(* tf_lexer_next found no token; it stopped somewhere ahead. *)
LexFail ==
  /\ pc = "lex"
  /\ \E at \in byte .. size : tf_parser__fail("lex", at) /\ byte' = at
  /\ UNCHANGED <<size, token, keyword, stackvars, root_emitted, root, split_count, sinkvars>>

tf_parser__demote_keyword(state, symbol, was_keyword) ==
  /\ was_keyword /\ symbol # Word
  /\ ~tf_is_reserved_word(state, symbol)
  /\ tf_count(state, Word) # 0

Demotable == tf_parser__demote_keyword(Top, token.symbol, keyword)

(* Mutant: the token is dispatched again as it was. *)
DemoteForgets ==
  /\ pc = "act" /\ tf_count(Top, token.symbol) = 0
  /\ Demotable
  /\ UNCHANGED vars

Demote ==
  /\ pc = "act" /\ tf_count(Top, token.symbol) = 0
  /\ Demotable
  /\ token' = [token EXCEPT !.symbol = Word]
  /\ UNCHANGED <<pc, size, byte, keyword, stackvars, outvars, split_count, sinkvars>>

(* No action, or error recovery, which tree-feller does not do. *)
Unexpected ==
  /\ pc = "act"
  /\ IF tf_count(Top, token.symbol) = 0 THEN ~Demotable
     ELSE tf_count(Top, token.symbol) = 1 /\ tf_action(Top, token.symbol, 1).type = "recover"
  /\ tf_parser__fail("unexpected", token.start)
  /\ UNCHANGED <<lexvars, stackvars, root_emitted, root, split_count, sinkvars>>

(* The one action of an entry without conflict, or the alternative a split *)
(* settled on.  An extra does not change the state.                        *)
Shift(a) ==
  /\ a.type = "shift"
  /\ tf_parser__shift(token, a.extra, IF a.extra THEN Top ELSE a.state, "lex")

Reduce(a) == a.type = "reduce" /\ tf_parser__reduce(a, token.symbol, "act")

Accept(a) ==
  /\ a.type = "accept"
  /\ root' = IF leading < depth THEN nodes[leading + 1].value ELSE NULL
  /\ pc' = "done"
  /\ UNCHANGED <<lexvars, stackvars, root_emitted, error, split_count, sinkvars>>

Dispatch ==
  /\ pc = "act" /\ tf_count(Top, token.symbol) = 1
  /\ LET a == tf_action(Top, token.symbol, 1) IN Shift(a) \/ Reduce(a) \/ Accept(a)

(* tf_parser__split: the tables cannot decide here. *)
Split ==
  /\ pc = "act" /\ tf_count(Top, token.symbol) > 1
  /\ split_count' = split_count + 1
  /\ pc' = "split"
  /\ UNCHANGED <<lexvars, stackvars, outvars, sinkvars>>

(* Every alternative died, somewhere after the cells already on the stack. *)
SplitDies ==
  /\ pc = "split"
  /\ \E kind \in {"lex", "unexpected"}, at \in Here .. size : tf_parser__fail(kind, at)
  /\ UNCHANGED <<lexvars, stackvars, root_emitted, root, split_count, sinkvars>>

(* An arena of the split could not grow, before or during the replay. *)
SplitOom ==
  /\ MemoryMayFail /\ split_count > 0
  /\ pc \in {"split", "act"} /\ ~root_emitted
  /\ tf_parser__fail("oom", token.start)
  /\ UNCHANGED <<lexvars, stackvars, root_emitted, root, split_count, sinkvars>>

(* tf_spec__replay takes the next step of the chosen alternative. *)
Replay ==
  /\ pc = "split"
  /\ \E a \in tf_actions(Top, token.symbol) : Shift(a) \/ Reduce(a)

(* Mutant: the loop stops one cell short. *)
DiscardShort ==
  /\ pc = "fail"
  /\ handed' = [v \in 1 .. issued |->
                  handed[v] + Cardinality({i \in 1 .. depth - 1 : nodes[i].value = v})]
  /\ pc' = "done"
  /\ UNCHANGED <<lexvars, stackvars, outvars, split_count, issued>>

(* The end of tf_parser__run after a failure: on_discard for every value   *)
(* still on the stack.                                                     *)
Discard ==
  /\ pc = "fail"
  /\ handed' = [v \in 1 .. issued |->
                  handed[v] + Cardinality({i \in 1 .. depth : nodes[i].value = v})]
  /\ pc' = "done"
  /\ UNCHANGED <<lexvars, stackvars, outvars, split_count, issued>>

Next == \/ TooLarge \/ Start \/ Lex \/ LexFail \/ Demote \/ Unexpected \/ Dispatch
        \/ Split \/ SplitDies \/ SplitOom \/ Replay \/ Discard

Spec == Init /\ [][Next]_vars

(* tf_parser__run is sequential code: it takes its next step. *)
FairSpec == Spec /\ WF_vars(Next)

-----------------------------------------------------------------------------
(* The driver's fields keep their types, and nodes and states the lengths  *)
(* tf_parser__push and tf_parser__reduce give them.                        *)
TypeOK ==
  /\ pc \in {"start", "lex", "act", "split", "fail", "done"}
  /\ size \in Nat /\ byte \in Nat
  /\ token \in Token /\ keyword \in BOOLEAN
  /\ depth \in Nat /\ capacity \in Nat /\ leading \in Nat /\ split_count \in Nat
  /\ nodes \in [1 .. depth -> Cell]
  /\ states \in [0 .. depth -> State]
  /\ root_emitted \in BOOLEAN /\ root \in Nat /\ error \in Error
  /\ issued \in Nat
  /\ handed \in [1 .. issued -> Nat]

(* The stack is a path of the LR automaton: an extra leaves the state as   *)
(* it was and a real cell makes the tables' transition.  A reduction has   *)
(* to restate every trailing extra it moves for this to hold.              *)
Transition(s, n, next) ==
  IF n.extra THEN next = s
  ELSE IF n.symbol \in Terminal
       THEN \E a \in tf_actions(s, n.symbol) : a.type = "shift" /\ ~a.extra /\ a.state = next
       ELSE n.symbol \in Nonterminal /\ next = tf_next_state(s, n.symbol)

Started == capacity # 0

StackIsPath ==
  Started =>
    /\ states[0] = StartState
    /\ \A i \in 1 .. depth : Transition(states[i - 1], nodes[i], states[i])

(* There are always enough real cells for the reductions a state can ask   *)
(* for, so the scan of tf_parser__reduce never runs below the stack.       *)
RealBelow(i) == {j \in 1 .. i : ~nodes[j].extra}

PopsStayOnStack ==
  Started => \A i \in 0 .. depth : Cardinality(RealBelow(i)) >= Height[states[i]]

(* `leading` counts exactly the extras below the first real cell, however  *)
(* many reductions have happened since, so nodes[leading] (counted from 0) *)
(* is the root when the parse accepts.                                     *)
LeadingIsExact ==
  error.kind # "oom" =>
    /\ leading <= depth
    /\ \A i \in 1 .. leading : nodes[i].extra
    /\ leading < depth => ~nodes[leading + 1].extra

(* No cell lies beyond the allocation. *)
WithinCapacity == depth <= capacity

(* tf_parser__grow is called before every write to nodes and states, with  *)
(* enough: for a reduction of an empty production, which makes the stack   *)
(* taller, and for the end token that reporting the root writes past the   *)
(* top of the stack, in a cell that is gone when tf_parser__reduce returns.*)
WritesWithinCapacity ==
  [][ /\ depth' <= capacity'
      /\ root_emitted' /\ ~root_emitted => depth + 1 <= capacity' ]_vars

(* Cells lie in source order and do not overlap, the token being           *)
(* dispatched comes after them, and so does the lexer.                     *)
StackInSourceOrder ==
  /\ \A i \in 1 .. depth : nodes[i].start <= nodes[i].end
  /\ \A i, j \in 1 .. depth : i < j => nodes[i].end <= nodes[j].start
  /\ pc \in {"act", "split"} => Here <= token.start
  /\ pc = "lex" => Here <= byte
  /\ byte <= size

(* A parse fails ahead of everything it accepted, and within the source.   *)
ErrorIsAhead ==
  error.kind \in {"lex", "unexpected"} => Here <= error.byte /\ error.byte <= size

(* assert(self.root_emitted) at the accept action, which "nothing checks   *)
(* the tables for": wherever the dispatch can meet an accept action,       *)
(* tf_parser__reduce has reported the root before.                         *)
AcceptFollowsRoot ==
  pc = "act" /\ (\E a \in tf_actions(Top, token.symbol) : a.type = "accept") => root_emitted

(* No value goes to two parents, or to a parent and to on_discard, though  *)
(* tf_parser__reduce moves the cells it left on the stack.                 *)
HandedOnce == \A v \in 1 .. issued : handed[v] <= 1

(* "Called once for every value the sink returned that no parent ever      *)
(* consumed, when a parse fails partway through" (tree_feller.h), and on   *)
(* success the consumer is left with the root and nothing else.            *)
Settled(v) == IF error.kind = "none" THEN handed[v] = 1 \/ v = root ELSE handed[v] = 1

EveryValueSettled == pc = "done" => \A v \in 1 .. issued : Settled(v)

(* The same where memory sufficed: the discard loop of tf_parser__run and  *)
(* the root between them leave nothing behind.                             *)
ValuesSettled == error.kind # "oom" => EveryValueSettled

-----------------------------------------------------------------------------
(* What the invariants above need to be inductive.                         *)

Running == pc \in {"lex", "act", "split"}

Phases ==
  /\ Running => Started
  /\ pc = "start" => depth = 0 /\ issued = 0 /\ byte = 0
  /\ pc = "start" \/ Running => error.kind = "none" /\ root = NULL
  /\ pc = "fail" => error.kind # "none"
  /\ pc \in {"act", "split"} => token.start <= token.end /\ token.end = byte
  /\ pc \in {"act", "split"} /\ keyword => token.symbol \in Keyword \cup {Word}
  /\ ~Started => depth = 0

(* The start state is the state of the leading extras and of nothing else. *)
StartIsLeading ==
  Started /\ error.kind # "oom" => \A i \in 0 .. depth : states[i] = StartState <=> i <= leading

(* The token waiting is not the end of the file, and in state `s` it is no *)
(* extra either: dispatching it leaves `s` or ends the parse.              *)
GoesOn(s) ==
  /\ token.symbol # End
  /\ ~shifts_extra(s, token.symbol)
  /\ keyword => ~shifts_extra(s, Word)

(* Once the root is reported the next step accepts, and before that no     *)
(* accepting state is on top when the end of the file is met.              *)
RootThenAccept ==
  /\ Running /\ root_emitted => accepts_end(Top)
  /\ Running /\ accepts_end(Top) => root_emitted \/ (pc \in {"act", "split"} /\ GoesOn(Top))
  /\ root_emitted => /\ pc \in {"act", "done"} /\ error.kind = "none"
                     /\ token.symbol = End /\ leading < depth

(* Until the root takes them all, exactly the values on the stack are      *)
(* waiting for a parent; running out of memory may lose one.               *)
OnStack(v) == \E i \in 1 .. depth : nodes[i].value = v

ValuesOwned ==
  /\ \A i \in 1 .. depth : nodes[i].value <= issued
  /\ \A i, j \in 1 .. depth : nodes[i].value = nodes[j].value /\ i # j => nodes[i].value = NULL
  /\ pc # "done" /\ ~root_emitted =>
       \A v \in 1 .. issued : IF OnStack(v) THEN handed[v] = 0
                              ELSE handed[v] = 1 \/ (handed[v] = 0 /\ error.kind = "oom")
  /\ root_emitted => \A v \in 1 .. issued :
                       handed[v] = IF v = nodes[leading + 1].value THEN 0 ELSE 1
  /\ pc = "done" /\ error.kind = "none" => root_emitted /\ root = nodes[leading + 1].value
  /\ pc = "done" /\ error.kind \notin {"none", "oom"} => \A v \in 1 .. issued : handed[v] = 1

(* The conjunction the proofs carry through every step of tf_parser__run.  *)
IInv ==
  /\ TypeOK /\ Phases
  /\ StackIsPath /\ PopsStayOnStack /\ LeadingIsExact /\ StartIsLeading /\ WithinCapacity
  /\ StackInSourceOrder /\ ErrorIsAhead
  /\ RootThenAccept /\ ValuesOwned /\ HandedOnce

-----------------------------------------------------------------------------
(* tf_parser__run returns: demotion, repetitions, empty productions and    *)
(* splits do not keep it dispatching the same token for ever.              *)
Terminates == <>(pc = "done")
=============================================================================
