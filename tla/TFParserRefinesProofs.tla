----------------------- MODULE TFParserRefinesProofs ------------------------
(***************************************************************************)
(* The driver implements its abstract specifications for every table that  *)
(* satisfies the assumptions of TFTables, every lexer and every sink.      *)
(***************************************************************************)
EXTENDS TFParserRefines, TFParserProofs, SequenceTheorems

-----------------------------------------------------------------------------
(* The contract about values.                                              *)

(* What the consumer sees of the parse: SinkContract's `outcome`.          *)
Outcome ==
  IF error.kind = "oom" THEN "oom"
  ELSE IF pc # "done" THEN "running" ELSE IF error.kind = "none" THEN "ok" ELSE "failed"

(* A sink call adds values and takes no handing back.                      *)
LEMMA EmitGrows ==
  ASSUME TypeOK, TypeOK', HandedOnce',
         NEW new \in 0 .. 2, NEW K \in SUBSET (1 .. depth), NEW own, EmitHanding(new, K, own)
  PROVE  /\ issued' = issued + new
         /\ handed' \in [1 .. issued' -> {0, 1}]
         /\ \A v \in 1 .. issued : handed[v] <= handed'[v]
<1>1. issued \in Nat /\ depth \in Nat /\ issued' = issued + new
  BY DEF TypeOK, EmitHanding
<1>2. handed' \in [1 .. issued' -> {0, 1}]
  <2>1. handed' \in [1 .. issued' -> Nat] /\ \A v \in 1 .. issued' : handed'[v] <= 1
    BY DEF TypeOK, HandedOnce
  <2>2. \A v \in 1 .. issued' : handed'[v] \in {0, 1}
    BY <2>1
  <2> QED BY <2>1, <2>2
<1>3. ASSUME NEW v \in 1 .. issued PROVE handed[v] <= handed'[v]
  <2> DEFINE C == {i \in K : nodes[i].value = v}
  <2>1. Cardinality(C) \in Nat
    <3>1. IsFiniteSet(1 .. depth)
      BY <1>1, FS_Interval
    <3>2. C \subseteq 1 .. depth
      OBVIOUS
    <3> QED BY <3>1, <3>2, FS_Subset, FS_CardinalityType
  <2>2. handed'[v] = handed[v] + Cardinality(C)
    BY <1>1 DEF EmitHanding
  <2>3. handed[v] \in Nat
    BY DEF TypeOK
  <2> HIDE DEF C
  <2> QED BY <2>1, <2>2, <2>3
<1> QED BY <1>1, <1>2, <1>3

(* Between the calls to the sink nothing is issued or handed over.         *)
LEMMA QuietMeets ==
  ASSUME TypeOK, HandedOnce, UNCHANGED <<issued, handed, root>>,
         Outcome' = Outcome \/ (Outcome = "running" /\ Outcome' = "oom")
  PROVE  [Contract!Next]_(Contract!vars)
<1>1. CASE Outcome' = Outcome
  BY <1>1 DEF Contract!vars, Outcome
<1>2. CASE Outcome = "running" /\ Outcome' = "oom"
  <2>1. issued \in Nat /\ handed \in [1 .. issued -> {0, 1}]
    <3>1. handed \in [1 .. issued -> Nat] /\ \A v \in 1 .. issued : handed[v] <= 1
      BY DEF TypeOK, HandedOnce
    <3>2. \A v \in 1 .. issued : handed[v] \in {0, 1}
      BY <3>1
    <3> QED BY <3>1, <3>2 DEF TypeOK
  <2>2. /\ issued' \in issued .. issued + 1
        /\ handed' \in [1 .. issued' -> {0, 1}]
        /\ \A v \in 1 .. issued : handed[v] <= handed'[v]
    BY <2>1
  <2>3. Contract!RunOut
    BY <1>2, <2>2 DEF Contract!RunOut, Contract!Once, Outcome
  <2> QED BY <2>3 DEF Contract!Next
<1> QED BY <1>1, <1>2

(* A sink call that returns values builds, or runs out of memory after the *)
(* consumer has seen one value.                                            *)
LEMMA SinkMeets ==
  ASSUME TypeOK, TypeOK', HandedOnce', Outcome = "running", root' = root,
         NEW new \in 0 .. 2, NEW K \in SUBSET (1 .. depth), NEW own, EmitHanding(new, K, own),
         Outcome' = "running" \/ (Outcome' = "oom" /\ new <= 1)
  PROVE  Contract!Next
<1>1. /\ issued' = issued + new /\ issued \in Nat
      /\ handed' \in [1 .. issued' -> {0, 1}]
      /\ \A v \in 1 .. issued : handed[v] <= handed'[v]
  BY EmitGrows DEF TypeOK
<1>2. CASE Outcome' = "running"
  <2>1. issued' \in issued .. issued + 2
    BY <1>1
  <2>2. Contract!Build
    BY <1>1, <1>2, <2>1 DEF Contract!Build, Contract!Once, Outcome
  <2> QED BY <2>2 DEF Contract!Next
<1>3. CASE Outcome' = "oom" /\ new <= 1
  <2>1. issued' \in issued .. issued + 1
    BY <1>1, <1>3
  <2>2. Contract!RunOut
    BY <1>1, <1>3, <2>1 DEF Contract!RunOut, Contract!Once, Outcome
  <2> QED BY <2>2 DEF Contract!Next
<1> QED BY <1>2, <1>3

(* tf_parser__shift calls the sink for the token, before it may run out of *)
(* memory.                                                                 *)
LEMMA ShiftMeets ==
  ASSUME IInv, IInv', pc \in {"act", "split"}, NEW a \in tf_actions(Top, token.symbol), Shift(a)
  PROVE  Contract!Next
<1>1. TypeOK /\ TypeOK' /\ HandedOnce'
  BY DEF IInv
<1>2. a.type # "accept" /\ error.kind = "none" /\ Outcome = "running"
  <2>1. a.type # "accept"
    BY DEF Shift
  <2> QED BY <2>1, NotYetRoot DEF Outcome
<1>3. PICK returns \in BOOLEAN : Emit(IF returns THEN 1 ELSE 0)
  <2>1. token.symbol \in Symbol
    BY <1>1 DEF TypeOK, Token, Symbol
  <2> QED BY <2>1, DriverAssumption DEF Shift, tf_parser__shift
<1>4. root' = root /\ (error'.kind = "oom" \/ (pc' = "lex" /\ error' = error))
  BY DEF Shift, tf_parser__shift, tf_parser__fail
<1>5. Outcome' = "running" \/ Outcome' = "oom"
  BY <1>2, <1>4 DEF Outcome
<1> DEFINE new == IF returns THEN 1 ELSE 0
<1>6. new \in 0 .. 2 /\ new <= 1 /\ {} \in SUBSET (1 .. depth) /\ EmitHanding(new, {}, {})
  BY <1>3 DEF Emit
<1> HIDE DEF new
<1> QED BY <1>1, <1>2, <1>4, <1>5, <1>6, SinkMeets

(* tf_parser__reduce below the root hands the children over and, if memory *)
(* lasts, puts the parent in their place.                                  *)
LEMMA ReduceInnerMeets ==
  ASSUME IInv, IInv', pc \in {"act", "split"}, NEW a \in tf_actions(Top, token.symbol),
         a.type = "reduce", ReduceInner(a, token.symbol, "act")
  PROVE  Contract!Next
<1> DEFINE base == PopBase(a.child_count)
           end  == PopEnd(a.child_count)
<1>1. TypeOK /\ TypeOK' /\ HandedOnce'
  BY DEF IInv
<1>2. error.kind = "none" /\ Outcome = "running" /\ a.symbol \in Symbol
  BY NotYetRoot DEF Outcome, Action, Symbol
<1>3. base \in 0 .. depth /\ end \in 0 .. depth
  BY ReduceShape
<1>4. PICK returns \in BOOLEAN : EmitHanding(IF returns THEN 1 ELSE 0, base + 1 .. end, {})
  BY <1>2, DriverAssumption DEF ReduceInner
<1>5. root' = root /\ (error'.kind = "oom" \/ (pc' = "act" /\ error' = error))
  BY DEF ReduceInner, tf_parser__fail
<1>6. Outcome' = "running" \/ Outcome' = "oom"
  BY <1>2, <1>5 DEF Outcome
<1> DEFINE new == IF returns THEN 1 ELSE 0
           K == base + 1 .. end
<1>7. new \in 0 .. 2 /\ new <= 1 /\ K \in SUBSET (1 .. depth) /\ EmitHanding(new, K, {})
  <2> HIDE DEF base, end
  <2>1. depth \in Nat
    BY <1>1 DEF TypeOK
  <2> QED BY <1>3, <1>4, <2>1
<1> HIDE DEF new, K
<1> QED BY <1>1, <1>2, <1>5, <1>6, <1>7, SinkMeets

(* tf_parser__reduce of the root hands the whole stack over, with the end  *)
(* token's value and the root's as new ones.                               *)
LEMMA ReduceRootMeets ==
  ASSUME IInv, IInv', pc \in {"act", "split"}, NEW a \in tf_actions(Top, token.symbol),
         a.type = "reduce", ReduceRoot(a, token.symbol, "act")
  PROVE  [Contract!Next]_(Contract!vars)
<1>1. TypeOK /\ TypeOK' /\ HandedOnce /\ HandedOnce'
  BY DEF IInv
<1>2. error.kind = "none" /\ Outcome = "running" /\ a.symbol \in Symbol /\ End \in Symbol
  BY NotYetRoot, SymbolAssumption DEF Outcome, Action, Symbol
<1>3. CASE error'.kind = "oom" /\ UNCHANGED sinkvars /\ root' = root
  <2>1. Outcome' = "oom" /\ UNCHANGED <<issued, handed, root>>
    BY <1>3 DEF Outcome, sinkvars
  <2> QED BY <1>1, <1>2, <2>1, QuietMeets
<1>4. CASE /\ error' = error /\ pc' = "act" /\ root' = root
           /\ \E eof, returns \in BOOLEAN :
                LET ends == IF eof THEN 1 ELSE 0
                IN  EmitHanding(ends + (IF returns THEN 1 ELSE 0), 1 .. depth,
                                issued + 1 .. issued + ends)
  <2>1. PICK eof \in BOOLEAN, returns \in BOOLEAN :
               LET ends == IF eof THEN 1 ELSE 0
               IN  EmitHanding(ends + (IF returns THEN 1 ELSE 0), 1 .. depth,
                               issued + 1 .. issued + ends)
    BY <1>4
  <2> DEFINE ends == IF eof THEN 1 ELSE 0
             new  == ends + (IF returns THEN 1 ELSE 0)
             K    == 1 .. depth
             own  == issued + 1 .. issued + ends
  <2>2. new \in 0 .. 2 /\ K \in SUBSET (1 .. depth) /\ EmitHanding(new, K, own)
    BY <2>1
  <2>3. Outcome' = "running" /\ root' = root
    BY <1>2, <1>4 DEF Outcome
  <2> HIDE DEF new, K, own
  <2> QED BY <1>1, <1>2, <2>2, <2>3, SinkMeets
<1>5. \/ error'.kind = "oom" /\ UNCHANGED sinkvars /\ root' = root
      \/ /\ error' = error /\ pc' = "act" /\ root' = root
         /\ \E eof, returns \in BOOLEAN :
              LET ends == IF eof THEN 1 ELSE 0
              IN  EmitHanding(ends + (IF returns THEN 1 ELSE 0), 1 .. depth,
                              issued + 1 .. issued + ends)
  <2>1. Returns[End] \subseteq BOOLEAN /\ Returns[a.symbol] \subseteq BOOLEAN
    BY <1>2, DriverAssumption
  <2> QED BY <2>1 DEF ReduceRoot, tf_parser__fail
<1> QED BY <1>3, <1>4, <1>5

(* Accepting gives the caller the one value still in its hands.            *)
LEMMA AcceptMeets ==
  ASSUME IInv, IInv', pc \in {"act", "split"}, NEW a \in tf_actions(Top, token.symbol), Accept(a)
  PROVE  Contract!Next
<1> USE DEF IInv
<1>1. Top \in State /\ token.symbol \in Terminal
  BY DEF Top, TypeOK, Token
<1>2. a.type = "accept" /\ token.symbol = End /\ tf_count(Top, End) = 1
  BY <1>1, AcceptAssumption DEF Accept
<1>3. accepts_end(Top)
  BY <1>2 DEF accepts_end, tf_actions
<1>4. root_emitted /\ error.kind = "none" /\ leading < depth
  BY <1>2, <1>3 DEF RootThenAccept, GoesOn, Running
<1>5. /\ root' = nodes[leading + 1].value /\ pc' = "done" /\ error' = error
      /\ issued' = issued /\ handed' = handed
  BY <1>4 DEF Accept, sinkvars
<1>6. root' \in 0 .. issued
  BY <1>4, <1>5 DEF TypeOK, Cell, ValuesOwned
<1>7. \A v \in 1 .. issued : IF v = root' THEN handed[v] = 0 ELSE handed[v] = 1
  BY <1>4, <1>5 DEF ValuesOwned
<1>8. Outcome = "running" /\ Outcome' = "ok"
  BY <1>4, <1>5 DEF Outcome
<1>9. Contract!Succeed
  BY <1>5, <1>6, <1>7, <1>8 DEF Contract!Succeed, Outcome
<1> QED BY <1>9 DEF Contract!Next

(* The discard loop hands back what is left, all of it unless memory ran   *)
(* out.                                                                    *)
LEMMA DiscardMeets == IInv /\ IInv' /\ Discard => Contract!Next
<1> SUFFICES ASSUME IInv, IInv', Discard PROVE Contract!Next
  OBVIOUS
<1>1. TypeOK /\ TypeOK' /\ HandedOnce'
  BY DEF IInv
<1>2. error' = error /\ error.kind # "none" /\ issued' = issued /\ root' = root /\ pc = "fail" /\ pc' = "done"
  BY DEF IInv, Phases, Discard, outvars
<1>3. CASE error.kind = "oom"
  <2>1. EmitHanding(0, 1 .. depth, {})
    <3>1. issued \in Nat
      BY <1>1 DEF TypeOK
    <3> QED BY <3>1 DEF Discard, EmitHanding
  <2> DEFINE K == 1 .. depth
  <2>2. 0 \in 0 .. 2 /\ K \in SUBSET (1 .. depth) /\ EmitHanding(0, K, {})
    BY <2>1
  <2> HIDE DEF K
  <2>3. /\ issued' = issued + 0 /\ handed' \in [1 .. issued' -> {0, 1}]
        /\ \A v \in 1 .. issued : handed[v] <= handed'[v]
    BY <1>1, <2>2, EmitGrows
  <2>4. issued' \in issued .. issued + 1
    BY <1>1, <1>2 DEF TypeOK
  <2>5. Contract!RunOut
    BY <1>2, <1>3, <2>3, <2>4 DEF Contract!RunOut, Contract!Once
  <2> QED BY <2>5 DEF Contract!Next
<1>4. CASE error.kind # "oom"
  <2>1. \A v \in 1 .. issued : handed'[v] = 1
    BY <1>2, <1>4 DEF IInv, ValuesOwned
  <2>2. handed' = [v \in 1 .. issued |-> 1]
    BY <1>1, <1>2, <2>1 DEF TypeOK
  <2>3. Contract!Fail
    BY <1>2, <1>4, <2>2 DEF Contract!Fail
  <2> QED BY <2>3 DEF Contract!Next
<1> QED BY <1>3, <1>4

(* A source above 4 GiB is refused before the sink sees anything.          *)
LEMMA TooLargeMeets == IInv /\ TooLarge => Contract!Next
<1> SUFFICES ASSUME IInv, TooLarge PROVE Contract!Next
  OBVIOUS
<1>1. /\ issued = 0 /\ issued' = issued /\ handed' = handed /\ root' = root
      /\ pc = "start" /\ pc' = "done" /\ error.kind = "none" /\ error'.kind = "size"
  BY DEF IInv, Phases, TooLarge, sinkvars
<1>2. handed' = [v \in 1 .. issued |-> 1]
  BY <1>1 DEF IInv, TypeOK
<1>3. Contract!Fail
  BY <1>1, <1>2 DEF Contract!Fail
<1> QED BY <1>3 DEF Contract!Next

(* Every step of the driver is a step of the contract, or none.            *)
LEMMA NextMeets == IInv /\ IInv' /\ [Next]_vars => [Contract!Next]_(Contract!vars)
<1> SUFFICES ASSUME IInv, IInv', [Next]_vars PROVE [Contract!Next]_(Contract!vars)
  OBVIOUS
<1>a. TypeOK /\ HandedOnce /\ Phases
  BY DEF IInv
<1>1. CASE TooLarge BY <1>1, TooLargeMeets
<1>2. CASE Start \/ LexFail \/ Unexpected \/ SplitDies \/ SplitOom
  <2>1. /\ UNCHANGED <<issued, handed, root>> /\ pc # "done" /\ error.kind = "none"
        /\ pc' # "done" /\ (error'.kind = "oom" \/ error'.kind # "oom")
    BY <1>2, <1>a DEF Start, LexFail, Unexpected, SplitDies, SplitOom, tf_parser__fail, sinkvars,
                      Phases, Running
  <2>2. Outcome = "running" /\ (Outcome' = "running" \/ Outcome' = "oom")
    BY <2>1 DEF Outcome
  <2> QED BY <1>a, <2>1, <2>2, QuietMeets
<1>3. CASE Lex \/ Demote \/ Split
  <2>1. UNCHANGED <<issued, handed, root, error>> /\ pc # "done" /\ pc' # "done"
    BY <1>3 DEF Lex, Demote, Split, outvars, sinkvars
  <2>2. Outcome' = Outcome
    BY <2>1 DEF Outcome
  <2> QED BY <1>a, <2>1, <2>2, QuietMeets
<1>4. CASE Dispatch
  <2> DEFINE a == tf_action(Top, token.symbol, 1)
  <2>1. pc \in {"act", "split"} /\ (Shift(a) \/ Reduce(a) \/ Accept(a))
    BY <1>4 DEF Dispatch
  <2>2. a \in tf_actions(Top, token.symbol)
    BY <1>4 DEF Dispatch, tf_actions
  <2> HIDE DEF a
  <2>3. CASE Shift(a) BY <2>1, <2>2, <2>3, ShiftMeets
  <2>4. CASE Reduce(a)
    <3>1. a.type = "reduce" /\ (ReduceInner(a, token.symbol, "act") \/ ReduceRoot(a, token.symbol, "act"))
      BY <2>4 DEF Reduce, tf_parser__reduce
    <3> QED BY <2>1, <2>2, <3>1, ReduceInnerMeets, ReduceRootMeets
  <2>5. CASE Accept(a) BY <2>1, <2>2, <2>5, AcceptMeets
  <2> QED BY <2>1, <2>3, <2>4, <2>5
<1>5. CASE Replay
  <2>1. PICK a \in tf_actions(Top, token.symbol) : Shift(a) \/ Reduce(a)
    BY <1>5 DEF Replay
  <2>2. pc \in {"act", "split"}
    BY <1>5 DEF Replay
  <2>3. CASE Shift(a) BY <2>2, <2>3, ShiftMeets
  <2>4. CASE Reduce(a)
    <3>1. a.type = "reduce" /\ (ReduceInner(a, token.symbol, "act") \/ ReduceRoot(a, token.symbol, "act"))
      BY <2>4 DEF Reduce, tf_parser__reduce
    <3> QED BY <2>2, <3>1, ReduceInnerMeets, ReduceRootMeets
  <2> QED BY <2>1, <2>3, <2>4
<1>6. CASE Discard BY <1>6, DiscardMeets
<1>7. CASE UNCHANGED vars
  <2>1. UNCHANGED <<issued, handed, root, error, pc>>
    BY <1>7 DEF vars, outvars, sinkvars
  <2>2. Outcome' = Outcome
    BY <2>1 DEF Outcome
  <2> QED BY <1>a, <2>1, <2>2, QuietMeets
<1> QED BY <1>1, <1>2, <1>3, <1>4, <1>5, <1>6, <1>7 DEF Next

(* The driver implements SinkContract: a value the sink returned goes to   *)
(* one parent, is the root, or comes back through on_discard, whatever the *)
(* grammar, the lexer and the sink do, as long as memory lasts.            *)
THEOREM DriverKeepsContract == Spec => KeepsContract
<1>1. Init => Contract!Init
  BY DEF Init, Contract!Init, Contract!Once, NULL
<1>2. IInv /\ IInv' /\ [Next]_vars => [Contract!Next]_(Contract!vars)
  BY NextMeets
<1>3. Spec => []IInv
  BY Inductive
<1> QED BY <1>1, <1>2, <1>3, PTL DEF Spec, KeepsContract, Contract!Spec

-----------------------------------------------------------------------------
(* The stack of the LR automaton: the cells of the driver without the      *)
(* extras.                                                                 *)

(* The real cells among the first i, for any cells, and how many.          *)
RealAmong(n, i) == {j \in 1 .. i : ~n[j].extra}
Reals(n, i) == Cardinality(RealAmong(n, i))

(* A stack of d cells on which the extras repeat the state below.          *)
ExtrasRepeat(d, n, s) ==
  /\ d \in Nat /\ s \in [0 .. d -> State] /\ s[0] = StartState
  /\ \A i \in 1 .. d : n[i].extra => s[i] = s[i - 1]

(* RealStates of any stack. *)
Stripped(d, n, s) ==
  [k \in 1 .. Reals(n, d) + 1 |->
     IF k = 1 THEN StartState
     ELSE s[CHOOSE i \in 1 .. d : ~n[i].extra /\ Reals(n, i) = k - 1]]

(* Counting real cells: none below the stack, one more at each real cell.  *)
LEMMA RealsCount ==
  ASSUME NEW n, NEW d \in Nat
  PROVE  /\ \A i \in 0 .. d : IsFiniteSet(RealAmong(n, i)) /\ Reals(n, i) \in Nat
         /\ Reals(n, 0) = 0
         /\ \A i \in 1 .. d : Reals(n, i) = Reals(n, i - 1) + (IF n[i].extra THEN 0 ELSE 1)
<1>1. ASSUME NEW i \in 0 .. d PROVE IsFiniteSet(RealAmong(n, i)) /\ Reals(n, i) \in Nat
  <2>1. IsFiniteSet(1 .. i)
    BY FS_Interval
  <2>2. RealAmong(n, i) \in SUBSET (1 .. i)
    BY DEF RealAmong
  <2> QED BY <2>1, <2>2, FS_Subset, FS_CardinalityType DEF Reals
<1>2. Reals(n, 0) = 0
  <2>1. RealAmong(n, 0) = {}
    BY DEF RealAmong
  <2> QED BY <2>1, FS_EmptySet DEF Reals
<1>3. ASSUME NEW i \in 1 .. d
      PROVE  Reals(n, i) = Reals(n, i - 1) + (IF n[i].extra THEN 0 ELSE 1)
  <2>1. IsFiniteSet(RealAmong(n, i - 1)) /\ Reals(n, i - 1) \in Nat
    BY <1>1
  <2>2. CASE n[i].extra
    <3>1. RealAmong(n, i) = RealAmong(n, i - 1)
      BY <2>2 DEF RealAmong
    <3> QED BY <2>1, <2>2, <3>1 DEF Reals
  <2>3. CASE ~n[i].extra
    <3>1. RealAmong(n, i) = RealAmong(n, i - 1) \cup {i} /\ i \notin RealAmong(n, i - 1)
      BY <2>3 DEF RealAmong
    <3> QED BY <2>1, <2>3, <3>1, FS_AddElement DEF Reals
  <2> QED BY <2>2, <2>3
<1> QED BY <1>1, <1>2, <1>3

(* The higher of two cells has as many real cells up to it as the lower,   *)
(* and one more where it is real itself.                                   *)
LEMMA RealsGrow ==
  ASSUME NEW n, NEW d \in Nat, NEW i \in 0 .. d, NEW j \in 0 .. d, i <= j
  PROVE  /\ Reals(n, i) <= Reals(n, j)
         /\ i < j /\ ~n[j].extra => Reals(n, i) < Reals(n, j)
<1>1. /\ IsFiniteSet(RealAmong(n, i)) /\ Reals(n, i) \in Nat
      /\ IsFiniteSet(RealAmong(n, j)) /\ Reals(n, j) \in Nat
  BY RealsCount
<1>2. RealAmong(n, i) \in SUBSET RealAmong(n, j)
  BY DEF RealAmong
<1>3. Reals(n, i) <= Reals(n, j) /\ (Reals(n, j) = Reals(n, i) => RealAmong(n, j) = RealAmong(n, i))
  BY <1>1, <1>2, FS_Subset DEF Reals
<1>4. i < j /\ ~n[j].extra => j \in RealAmong(n, j) /\ j \notin RealAmong(n, i)
  BY DEF RealAmong
<1> QED BY <1>1, <1>3, <1>4

(* The state of a cell depends on the real cells up to it alone.           *)
LEMMA SameState ==
  ASSUME NEW d, NEW n, NEW s, ExtrasRepeat(d, n, s),
         NEW i \in 0 .. d, NEW j \in 0 .. d, i <= j, Reals(n, i) = Reals(n, j)
  PROVE  s[i] = s[j]
<1>0. d \in Nat /\ i \in Nat /\ j \in Nat
  BY DEF ExtrasRepeat
<1> DEFINE Bad == {k \in i .. j : s[k] # s[i]}
<1>1. SUFFICES ASSUME Bad # {} PROVE FALSE
  <2>1. j \in i .. j
    BY <1>0
  <2> QED BY <2>1
<1>2. Bad \subseteq Nat
  BY <1>0
<1>3. PICK m \in Bad : \A k \in Bad : <<k, m>> \notin OpToRel(<, Nat)
  <2> HIDE DEF Bad
  <2> QED BY <1>1, <1>2, WFMin, NatLessThanWellFounded, Zenon
<1>4. m \in i .. j /\ s[m] # s[i] /\ m \in Nat
  BY <1>2, <1>3
<1>5. \A k \in Bad : ~(k < m)
  BY <1>2, <1>3 DEF OpToRel
<1>6. m # i /\ m \in 1 .. d /\ m - 1 \in 0 .. d /\ m - 1 \in i .. j
  BY <1>0, <1>4
<1>7. s[m - 1] = s[i]
  BY <1>0, <1>5, <1>6
<1>8. n[m].extra
  <2>1. Reals(n, i) <= Reals(n, m - 1) /\ Reals(n, m) <= Reals(n, j)
    BY <1>0, <1>4, <1>6, RealsGrow
  <2>2. ~n[m].extra => Reals(n, m - 1) < Reals(n, m)
    BY <1>0, <1>4, <1>6, RealsGrow
  <2>3. /\ Reals(n, i) \in Nat /\ Reals(n, j) \in Nat /\ Reals(n, m) \in Nat /\ Reals(n, m - 1) \in Nat
    BY <1>0, <1>4, <1>6, RealsCount
  <2> QED BY <2>1, <2>2, <2>3
<1>9. s[m] = s[m - 1]
  BY <1>6, <1>8 DEF ExtrasRepeat
<1> QED BY <1>4, <1>7, <1>9

(* However many real cells are asked for, up to those there are, the stack *)
(* has a cell with so many, and a real one unless none is asked for.       *)
LEMMA RealsReach ==
  ASSUME NEW n, NEW d \in Nat, NEW c \in 0 .. Reals(n, d)
  PROVE  \E i \in 0 .. d : Reals(n, i) = c /\ (c > 0 => i > 0 /\ ~n[i].extra)
<1>0. \A i \in 0 .. d : Reals(n, i) \in Nat
  BY RealsCount
<1> DEFINE Enough == {i \in 0 .. d : Reals(n, i) >= c}
<1>1. d \in Enough /\ Enough \subseteq Nat
  BY <1>0
<1>2. PICK m \in Enough : \A k \in Enough : <<k, m>> \notin OpToRel(<, Nat)
  <2> HIDE DEF Enough
  <2> QED BY <1>1, WFMin, NatLessThanWellFounded, Zenon
<1>3. \A k \in Enough : ~(k < m)
  BY <1>1, <1>2 DEF OpToRel
<1>4. m \in 0 .. d /\ Reals(n, m) >= c /\ Reals(n, m) \in Nat /\ c \in Nat
  BY <1>0
<1>5. CASE m = 0
  <2>1. Reals(n, m) = 0
    BY <1>5, RealsCount
  <2> QED BY <1>4, <2>1
<1>6. CASE m # 0
  <2>1. m - 1 \in 0 .. d /\ m \in 1 .. d /\ m > 0
    BY <1>4, <1>6
  <2>2. Reals(n, m - 1) < c /\ Reals(n, m - 1) \in Nat
    BY <1>0, <1>3, <1>4, <2>1
  <2>3. Reals(n, m) = Reals(n, m - 1) + (IF n[m].extra THEN 0 ELSE 1)
    BY <2>1, RealsCount
  <2>4. Reals(n, m) = c /\ ~n[m].extra
    BY <1>4, <2>2, <2>3
  <2> QED BY <1>4, <2>1, <2>4
<1> QED BY <1>5, <1>6

(* The LR automaton's stack, cell by cell of the driver's.                 *)
LEMMA StrippedAt ==
  ASSUME NEW d, NEW n, NEW s, ExtrasRepeat(d, n, s)
  PROVE  /\ Reals(n, d) \in Nat
         /\ Stripped(d, n, s) \in [1 .. Reals(n, d) + 1 -> State]
         /\ \A i \in 0 .. d : /\ Reals(n, i) + 1 \in 1 .. Reals(n, d) + 1
                              /\ Stripped(d, n, s)[Reals(n, i) + 1] = s[i]
<1>0. d \in Nat /\ s \in [0 .. d -> State] /\ s[0] = StartState
  BY DEF ExtrasRepeat
<1>1. \A i \in 0 .. d : Reals(n, i) \in Nat
  BY <1>0, RealsCount
<1>2. Reals(n, d) \in Nat
  BY <1>0, <1>1
<1> DEFINE Place(k, i) == ~n[i].extra /\ Reals(n, i) = k - 1
           At(k) == CHOOSE i \in 1 .. d : Place(k, i)
<1>3. ASSUME NEW k \in 1 .. Reals(n, d) + 1, k # 1
      PROVE  At(k) \in 1 .. d /\ Place(k, At(k))
  <2>1. k - 1 \in 0 .. Reals(n, d) /\ k - 1 > 0
    BY <1>2, <1>3
  <2>2. \E i \in 0 .. d : Reals(n, i) = k - 1 /\ i > 0 /\ ~n[i].extra
    BY <1>0, <2>1, RealsReach
  <2>3. \E i \in 1 .. d : Place(k, i)
    BY <1>0, <2>2
  <2> HIDE DEF Place
  <2> QED BY <2>3
<1>4. ASSUME NEW k \in 1 .. Reals(n, d) + 1
      PROVE  Stripped(d, n, s)[k] = IF k = 1 THEN StartState ELSE s[At(k)]
  BY <1>4 DEF Stripped
<1>5. Stripped(d, n, s) \in [1 .. Reals(n, d) + 1 -> State]
  <2>1. \A k \in 1 .. Reals(n, d) + 1 : Stripped(d, n, s)[k] \in State
    <3> HIDE DEF At
    <3> QED BY <1>0, <1>3, <1>4, SymbolAssumption
  <2> HIDE DEF At
  <2>2. Stripped(d, n, s) = [k \in 1 .. Reals(n, d) + 1 |-> Stripped(d, n, s)[k]]
    BY DEF Stripped
  <2> QED BY <2>1, <2>2
<1>6. ASSUME NEW i \in 0 .. d
      PROVE  /\ Reals(n, i) + 1 \in 1 .. Reals(n, d) + 1
             /\ Stripped(d, n, s)[Reals(n, i) + 1] = s[i]
  <2> DEFINE k == Reals(n, i) + 1
  <2>1. k \in 1 .. Reals(n, d) + 1
    <3>1. Reals(n, i) <= Reals(n, d)
      BY <1>0, RealsGrow
    <3> QED BY <1>0, <1>1, <3>1
  <2>2. CASE Reals(n, i) = 0
    <3>0. 0 \in 0 .. d /\ 0 <= i
      BY <1>0
    <3>1. Reals(n, 0) = 0
      BY <1>0, RealsCount
    <3>2. s[0] = s[i]
      BY <2>2, <3>0, <3>1, SameState
    <3>3. k = 1
      BY <2>2
    <3> QED BY <1>0, <1>4, <2>1, <3>2, <3>3
  <2>3. CASE Reals(n, i) # 0
    <3>1. k # 1 /\ k - 1 = Reals(n, i)
      BY <1>1, <2>3
    <3>2. At(k) \in 1 .. d /\ Reals(n, At(k)) = Reals(n, i)
      BY <1>3, <2>1, <3>1
    <3>3. Stripped(d, n, s)[k] = s[At(k)]
      BY <1>4, <2>1, <3>1
    <3>4. PICK at : at = At(k)
      OBVIOUS
    <3> HIDE DEF At, k
    <3>5. at \in 0 .. d /\ Reals(n, at) = Reals(n, i) /\ (at <= i \/ i <= at)
      BY <1>0, <3>2, <3>4
    <3>6. s[at] = s[i]
      <4>1. CASE at <= i
        BY <3>5, <4>1, SameState
      <4>2. CASE i <= at
        <5>1. s[i] = s[at]
          BY <3>5, <4>2, SameState
        <5> QED BY <5>1
      <4> QED BY <3>5, <4>1, <4>2
    <3>7. Stripped(d, n, s)[k] = s[i]
      BY <3>3, <3>4, <3>6
    <3> QED BY <2>1, <3>7 DEF k
  <2> QED BY <2>2, <2>3
<1> QED BY <1>2, <1>5, <1>6

(* A stack of states is the stripped stack when it agrees at every cell.   *)
LEMMA StrippedIs ==
  ASSUME NEW d, NEW n, NEW s, ExtrasRepeat(d, n, s),
         NEW st \in Seq(State), Len(st) = Reals(n, d) + 1,
         \A i \in 0 .. d : st[Reals(n, i) + 1] = s[i]
  PROVE  Stripped(d, n, s) = st
<1>0. d \in Nat
  BY DEF ExtrasRepeat
<1>1. /\ Stripped(d, n, s) \in [1 .. Reals(n, d) + 1 -> State] /\ Reals(n, d) \in Nat
      /\ \A i \in 0 .. d : Stripped(d, n, s)[Reals(n, i) + 1] = s[i]
  BY StrippedAt
<1>2. st \in [1 .. Reals(n, d) + 1 -> State]
  BY LenProperties
<1>3. ASSUME NEW k \in 1 .. Reals(n, d) + 1 PROVE Stripped(d, n, s)[k] = st[k]
  <2>1. k - 1 \in 0 .. Reals(n, d) /\ k \in Int
    BY <1>1
  <2>2. PICK i \in 0 .. d : Reals(n, i) = k - 1
    BY <1>0, <2>1, RealsReach
  <2>3. Reals(n, i) + 1 = k
    BY <2>1, <2>2
  <2> QED BY <1>1, <2>3
<1> QED BY <1>1, <1>2, <1>3

-----------------------------------------------------------------------------
(* The moves of the LR automaton.                                          *)

(* What LRAutomaton's `look` and `verdict` are. *)
Look == IF pc \in {"act", "split"} THEN {token.symbol} ELSE {}
Verdict ==
  IF error.kind # "none" THEN "rejected" ELSE IF pc = "done" THEN "accepted" ELSE "running"

(* RealStates is the driver's stack, stripped, before a step and after it. *)
LEMMA RealStatesStripped ==
  /\ RealStates = Stripped(depth, nodes, states)
  /\ RealStates' = Stripped(depth', nodes', states')
<1>1. RealStates = Stripped(depth, nodes, states)
  BY DEF RealStates, Stripped, Reals, RealAmong, RealBelow
<1>2. RealStates' = Stripped(depth', nodes', states')
  BY DEF RealStates, Stripped, Reals, RealAmong, RealBelow
<1> QED BY <1>1, <1>2

(* The extras of the driver's stack repeat the state below them. *)
LEMMA DriverRepeats ==
  /\ IInv /\ Started => ExtrasRepeat(depth, nodes, states)
  /\ IInv' /\ Started' => ExtrasRepeat(depth', nodes', states')
<1>1. IInv /\ Started => ExtrasRepeat(depth, nodes, states)
  BY DEF IInv, TypeOK, StackIsPath, Transition, ExtrasRepeat
<1>2. IInv' /\ Started' => ExtrasRepeat(depth', nodes', states')
  BY DEF IInv, TypeOK, StackIsPath, Transition, ExtrasRepeat
<1> QED BY <1>1, <1>2

(* The automaton's stack before a step: a sequence of states that agrees   *)
(* with the driver's cell by cell and has the same top.                    *)
LEMMA StackBefore ==
  ASSUME IInv, Started
  PROVE  /\ depth \in Nat /\ Reals(nodes, depth) \in Nat
         /\ RealStates \in Seq(State) /\ Len(RealStates) = Reals(nodes, depth) + 1
         /\ \A i \in 0 .. depth : /\ Reals(nodes, i) + 1 \in 1 .. Len(RealStates)
                                  /\ RealStates[Reals(nodes, i) + 1] = states[i]
         /\ LR!Last = Top
<1>0. depth \in Nat /\ ExtrasRepeat(depth, nodes, states)
  BY DriverRepeats DEF IInv, TypeOK
<1>1. /\ RealStates \in [1 .. Reals(nodes, depth) + 1 -> State] /\ Reals(nodes, depth) \in Nat
      /\ \A i \in 0 .. depth : /\ Reals(nodes, i) + 1 \in 1 .. Reals(nodes, depth) + 1
                               /\ RealStates[Reals(nodes, i) + 1] = states[i]
  BY <1>0, StrippedAt, RealStatesStripped
<1>2. RealStates \in Seq(State) /\ Len(RealStates) = Reals(nodes, depth) + 1
  <2> DEFINE len == Reals(nodes, depth) + 1
  <2>1. len \in Nat /\ RealStates \in [1 .. len -> State]
    BY <1>1
  <2> HIDE DEF len
  <2>2. RealStates \in Seq(State) /\ Len(RealStates) = len
    BY <2>1
  <2> QED BY <2>2 DEF len
<1>3. LR!Last = Top
  <2>1. depth \in 0 .. depth
    BY <1>0
  <2> QED BY <1>1, <1>2, <2>1 DEF LR!Last, Top
<1> QED BY <1>0, <1>1, <1>2, <1>3

(* The actions the driver dispatches on are those the automaton may take.  *)
LEMMA SameChoices ==
  ASSUME IInv, Started, pc \in {"act", "split"}, NEW a \in tf_actions(Top, token.symbol)
  PROVE  a \in LR!Choices
<1>1. LR!Last = Top
  BY StackBefore
<1>2. LR!tf_actions(Top, token.symbol) = tf_actions(Top, token.symbol)
  BY DEF LR!tf_actions, LR!tf_action, LR!tf_count, tf_actions, tf_action, tf_count
<1> QED BY <1>1, <1>2 DEF LR!Choices

(* A step that leaves the cells alone leaves the automaton's stack alone.  *)
LEMMA StackKept ==
  ASSUME UNCHANGED <<depth, nodes, states>>
  PROVE  RealStates' = RealStates
BY RealStatesStripped

(* A failure, wherever it comes from, is the automaton's Reject. *)
LEMMA FailureRejects ==
  ASSUME Verdict = "running", Verdict' = "rejected", Look' = {}, RealStates' = RealStates
  PROVE  LR!Next
BY DEF LR!Next, LR!Reject, Verdict, Look

(* tf_parser__shift pushes the state the tables name, or only an extra.    *)
LEMMA ShiftMoves ==
  ASSUME IInv, IInv', pc \in {"act", "split"}, NEW a \in tf_actions(Top, token.symbol), Shift(a)
  PROVE  LR!Next
<1> DEFINE next == IF a.extra THEN Top ELSE a.state
<1>1. a.type = "shift" /\ tf_parser__shift(token, a.extra, next, "lex")
  BY DEF Shift
<1>2. error.kind = "none" /\ Started /\ a \in Action /\ Top \in State /\ Verdict = "running"
  BY <1>1, NotYetRoot DEF Verdict
<1>3. a.extra \in BOOLEAN /\ a.state \in State /\ a \in LR!Choices
  BY <1>2, SameChoices DEF Action
<1>4. PICK cell :
        /\ cell.extra = a.extra
        /\ \/ error'.kind = "oom" /\ pc' = "fail" /\ UNCHANGED <<depth, nodes, states>>
           \/ /\ capacity' # 0
              /\ depth' = depth + 1
              /\ nodes' = [i \in 1 .. depth + 1 |-> IF i <= depth THEN nodes[i] ELSE cell]
              /\ states' = [i \in 0 .. depth + 1 |-> IF i <= depth THEN states[i] ELSE next]
              /\ pc' = "lex" /\ error' = error
  <2> HIDE DEF next
  <2>1. PICK returns \in Returns[token.symbol] :
          LET value == IF returns THEN issued + 1 ELSE NULL
              cell  == [symbol |-> token.symbol, extra |-> a.extra, start |-> token.start,
                        end |-> token.end, value |-> value]
          IN  \E cap \in tf_parser__grow(capacity, depth + 1) :
                \/ /\ cap = 0
                   /\ tf_parser__fail("oom", token.start)
                   /\ UNCHANGED <<depth, nodes, states, capacity>>
                \/ /\ cap # 0
                   /\ capacity' = cap
                   /\ depth' = depth + 1
                   /\ nodes' = [i \in 1 .. depth + 1 |-> IF i <= depth THEN nodes[i] ELSE cell]
                   /\ states' = [i \in 0 .. depth + 1 |-> IF i <= depth THEN states[i] ELSE next]
                   /\ pc' = "lex"
                   /\ UNCHANGED error
    BY <1>1 DEF tf_parser__shift
  <2> DEFINE value == IF returns THEN issued + 1 ELSE NULL
             cell  == [symbol |-> token.symbol, extra |-> a.extra, start |-> token.start,
                       end |-> token.end, value |-> value]
  <2>2. cell.extra = a.extra
    OBVIOUS
  <2>3. \E cap \in tf_parser__grow(capacity, depth + 1) :
          \/ /\ cap = 0
             /\ tf_parser__fail("oom", token.start)
             /\ UNCHANGED <<depth, nodes, states, capacity>>
          \/ /\ cap # 0
             /\ capacity' = cap
             /\ depth' = depth + 1
             /\ nodes' = [i \in 1 .. depth + 1 |-> IF i <= depth THEN nodes[i] ELSE cell]
             /\ states' = [i \in 0 .. depth + 1 |-> IF i <= depth THEN states[i] ELSE next]
             /\ pc' = "lex"
             /\ UNCHANGED error
    BY <2>1
  <2> HIDE DEF cell
  <2> QED BY <2>2, <2>3 DEF tf_parser__fail
<1> HIDE DEF next
<1>5. CASE error'.kind = "oom" /\ pc' = "fail" /\ UNCHANGED <<depth, nodes, states>>
  <2>1. Verdict' = "rejected" /\ Look' = {} /\ RealStates' = RealStates
    BY <1>5, StackKept DEF Verdict, Look
  <2> QED BY <1>2, <2>1, FailureRejects
<1>6. CASE /\ capacity' # 0 /\ depth' = depth + 1
           /\ nodes' = [i \in 1 .. depth + 1 |-> IF i <= depth THEN nodes[i] ELSE cell]
           /\ states' = [i \in 0 .. depth + 1 |-> IF i <= depth THEN states[i] ELSE next]
           /\ pc' = "lex" /\ error' = error
  <2> DEFINE st == IF a.extra THEN RealStates ELSE Append(RealStates, a.state)
  <2>1. /\ depth \in Nat /\ Reals(nodes, depth) \in Nat
        /\ RealStates \in Seq(State) /\ Len(RealStates) = Reals(nodes, depth) + 1
        /\ \A i \in 0 .. depth : /\ Reals(nodes, i) + 1 \in 1 .. Len(RealStates)
                                 /\ RealStates[Reals(nodes, i) + 1] = states[i]
    BY <1>2, StackBefore
  <2>2. ExtrasRepeat(depth', nodes', states')
    BY <1>6, DriverRepeats DEF Started
  <2>3. \A i \in 0 .. depth : Reals(nodes', i) = Reals(nodes, i) /\ states'[i] = states[i]
    <3>1. ASSUME NEW i \in 0 .. depth PROVE RealAmong(nodes', i) = RealAmong(nodes, i)
      BY <1>6, <2>1 DEF RealAmong
    <3>2. ASSUME NEW i \in 0 .. depth PROVE Reals(nodes', i) = Reals(nodes, i)
      BY <3>1 DEF Reals
    <3>3. ASSUME NEW i \in 0 .. depth PROVE states'[i] = states[i]
      BY <1>6, <2>1
    <3> QED BY <3>2, <3>3
  <2>4. /\ Reals(nodes', depth + 1) = Reals(nodes, depth) + (IF a.extra THEN 0 ELSE 1)
        /\ states'[depth + 1] = next
    <3>1. depth + 1 \in Nat /\ depth + 1 \in 1 .. depth + 1 /\ (depth + 1) - 1 = depth
      BY <2>1
    <3>2. Reals(nodes', depth + 1) = Reals(nodes', depth + 1 - 1) + (IF nodes'[depth + 1].extra THEN 0 ELSE 1)
      BY <3>1, RealsCount
    <3>3. nodes'[depth + 1] = cell /\ states'[depth + 1] = next
      BY <1>6, <2>1
    <3> QED BY <1>4, <2>1, <2>3, <3>1, <3>2, <3>3
  <2>5. /\ st \in Seq(State) /\ Len(st) = Reals(nodes', depth + 1) + 1
        /\ \A k \in 1 .. Len(RealStates) : st[k] = RealStates[k]
        /\ ~a.extra => st[Len(RealStates) + 1] = a.state
    <3>1. CASE a.extra
      BY <2>1, <2>4, <3>1
    <3>2. CASE ~a.extra
      BY <1>3, <2>1, <2>4, <3>2, AppendProperties
    <3> QED BY <3>1, <3>2
  <2>6. ASSUME NEW i \in 0 .. depth + 1 PROVE st[Reals(nodes', i) + 1] = states'[i]
    <3> HIDE DEF st
    <3>1. CASE i \in 0 .. depth
      BY <2>1, <2>3, <2>5, <3>1
    <3>2. CASE i = depth + 1
      <4>1. CASE a.extra
        <5>1. next = states[depth] /\ depth \in 0 .. depth
          BY <2>1, <4>1 DEF next, Top
        <5> QED BY <2>1, <2>4, <2>5, <3>2, <4>1, <5>1
      <4>2. CASE ~a.extra
        BY <2>1, <2>4, <2>5, <3>2, <4>2 DEF next
      <4> QED BY <4>1, <4>2
    <3> QED BY <2>1, <3>1, <3>2
  <2>7. RealStates' = st
    <3> HIDE DEF st
    <3>1. depth' = depth + 1
      BY <1>6
    <3>2. /\ st \in Seq(State) /\ Len(st) = Reals(nodes', depth') + 1
          /\ \A i \in 0 .. depth' : st[Reals(nodes', i) + 1] = states'[i]
      BY <2>5, <2>6, <3>1
    <3>3. Stripped(depth', nodes', states') = st
      BY <2>2, <3>2, StrippedIs
    <3> QED BY <3>3, RealStatesStripped
  <2>8. Verdict' = "running" /\ Look' = {}
    BY <1>2, <1>6 DEF Verdict, Look
  <2>9. LR!Shift
    BY <1>1, <1>2, <1>3, <2>7, <2>8 DEF LR!Shift, Verdict, Look
  <2> QED BY <2>9 DEF LR!Next
<1> QED BY <1>4, <1>5, <1>6

(* tf_parser__reduce pops as many states as the production has children,   *)
(* the extras among them and above them not counted, and goes on from the  *)
(* state it comes to.                                                      *)
LEMMA PutParentMoves ==
  ASSUME IInv, IInv', pc \in {"act", "split"}, NEW a \in tf_actions(Top, token.symbol),
         a.type = "reduce",
         NEW base, base = PopBase(a.child_count), NEW end, end = PopEnd(a.child_count),
         NEW next, next = tf_next_state(states[base], a.symbol),
         NEW parent, parent.extra = FALSE, PutParent(parent, base, end, next),
         capacity' # 0, pc' = "act", error' = error, token' = token
  PROVE  LR!Next
<1> DEFINE count == a.child_count
           below == SubSeq(RealStates, 1, Len(RealStates) - count)
           st    == Append(below, next)
<1>1. /\ error.kind = "none" /\ Started /\ a \in Action /\ Top \in State /\ a \in LR!Choices
      /\ Verdict = "running" /\ count \in Nat /\ a.symbol \in Nonterminal
  BY NotYetRoot, SameChoices DEF Verdict, Action
<1>2. /\ base \in 0 .. depth /\ end \in 0 .. depth /\ base <= end
      /\ \A j \in end + 1 .. depth : nodes[j].extra
      /\ next \in State
  BY ReduceShape
<1>3. /\ depth \in Nat /\ Reals(nodes, depth) \in Nat
      /\ RealStates \in Seq(State) /\ Len(RealStates) = Reals(nodes, depth) + 1
      /\ \A i \in 0 .. depth : /\ Reals(nodes, i) + 1 \in 1 .. Len(RealStates)
                               /\ RealStates[Reals(nodes, i) + 1] = states[i]
  BY <1>1, StackBefore
<1>4. Reals(nodes, base) \in Nat /\ Reals(nodes, depth) = Reals(nodes, base) + count
  <2>0. TypeOK /\ base \in Nat /\ 0 \in 0 .. depth
    BY <1>2, <1>3 DEF IInv
  <2>1. Cardinality(Real(0)) >= count
    <3>1. count <= Height[Top] /\ Height[Top] \in Nat
      BY <1>1, HeightAssumption DEF IInv, TypeOK, Token
    <3>2. Cardinality(RealBelow(depth)) >= Height[Top]
      BY <1>1, <1>3 DEF IInv, PopsStayOnStack, Top
    <3>3. Real(0) = RealBelow(depth)
      BY DEF Real, RealBelow
    <3>4. Cardinality(RealBelow(depth)) \in Nat
      BY <1>3 DEF Reals, RealAmong, RealBelow
    <3> QED BY <1>1, <3>1, <3>2, <3>3, <3>4
  <2>2. Cardinality(Real(base)) = count
    BY <1>1, <2>0, <2>1, PopBaseExact
  <2>3. IsFiniteSet(Real(base))
    BY <1>2, <2>0, RealFinite
  <2>4. IsFiniteSet(RealAmong(nodes, base)) /\ Reals(nodes, base) \in Nat
    BY <1>2, <1>3, RealsCount
  <2>5. /\ RealAmong(nodes, depth) = RealAmong(nodes, base) \cup Real(base)
        /\ RealAmong(nodes, base) \cap Real(base) = {}
    BY <1>2, <1>3 DEF RealAmong, Real
  <2>6. Cardinality(RealAmong(nodes, depth)) =
          Cardinality(RealAmong(nodes, base)) + Cardinality(Real(base)) - Cardinality({})
    BY <2>3, <2>4, <2>5, FS_Union
  <2> QED BY <1>1, <2>2, <2>4, <2>6, FS_EmptySet DEF Reals
<1>n. depth \in Nat /\ base \in Nat /\ end \in Nat /\ base <= end /\ end <= depth
  BY <1>2, <1>3
<1> DEFINE top == base + 1 + (depth - end)
<1>5. /\ depth' = top /\ top \in Nat
      /\ nodes' = [i \in 1 .. top |-> IF i <= base THEN nodes[i]
                                      ELSE IF i = base + 1 THEN parent
                                      ELSE nodes[i - (base + 1) + end]]
      /\ states' = [i \in 0 .. top |-> IF i <= base THEN states[i] ELSE next]
  BY <1>n DEF PutParent
<1>t. base + 1 \in 1 .. top /\ top \in Nat /\ base + 1 <= top
  BY <1>n
<1>c. /\ \A i \in 1 .. base : nodes'[i] = nodes[i]
      /\ nodes'[base + 1] = parent
      /\ \A i \in base + 2 .. top : /\ i - (base + 1) + end \in end + 1 .. depth
                                    /\ nodes'[i] = nodes[i - (base + 1) + end]
      /\ \A i \in 0 .. base : states'[i] = states[i]
      /\ \A i \in base + 1 .. top : states'[i] = next
  <2> HIDE DEF top
  <2>1. ASSUME NEW i \in 1 .. base PROVE nodes'[i] = nodes[i]
    <3>1. i \in 1 .. top /\ i <= base
      BY <1>n, <1>t
    <3> QED BY <1>5, <3>1
  <2>2. nodes'[base + 1] = parent
    <3>1. base + 1 \in 1 .. top /\ ~(base + 1 <= base)
      BY <1>n, <1>t
    <3> QED BY <1>5, <3>1
  <2>3. ASSUME NEW i \in base + 2 .. top
        PROVE  /\ i - (base + 1) + end \in end + 1 .. depth
               /\ nodes'[i] = nodes[i - (base + 1) + end]
    <3>1. i \in 1 .. top /\ ~(i <= base) /\ i # base + 1
      BY <1>n, <1>t
    <3>2. i - (base + 1) + end \in end + 1 .. depth
      BY <1>n DEF top
    <3> QED BY <1>5, <3>1, <3>2
  <2>4. ASSUME NEW i \in 0 .. base PROVE states'[i] = states[i]
    <3>1. i \in 0 .. top /\ i <= base
      BY <1>n, <1>t
    <3> QED BY <1>5, <3>1
  <2>5. ASSUME NEW i \in base + 1 .. top PROVE states'[i] = next
    <3>1. i \in 0 .. top /\ ~(i <= base)
      BY <1>n, <1>t
    <3> QED BY <1>5, <3>1
  <2> QED BY <2>1, <2>2, <2>3, <2>4, <2>5
<1>6. ASSUME NEW i \in 0 .. base
      PROVE  Reals(nodes', i) = Reals(nodes, i) /\ states'[i] = states[i] /\ i \in 0 .. depth
  <2>1. RealAmong(nodes', i) = RealAmong(nodes, i)
    BY <1>n, <1>c DEF RealAmong
  <2>2. states'[i] = states[i]
    BY <1>c
  <2>3. i \in 0 .. depth
    BY <1>n
  <2> QED BY <2>1, <2>2, <2>3 DEF Reals
<1>7. ASSUME NEW i \in base + 1 .. top
      PROVE  Reals(nodes', i) = Reals(nodes, base) + 1 /\ states'[i] = next
  <2>1. nodes'[base + 1] = parent
    BY <1>c
  <2>2. ASSUME NEW j \in base + 2 .. top PROVE nodes'[j].extra
    BY <1>2, <1>c
  <2>3. ASSUME NEW j \in 1 .. base PROVE nodes'[j] = nodes[j]
    BY <1>c
  <2>4. RealAmong(nodes', i) = RealAmong(nodes, base) \cup {base + 1}
    <3> HIDE DEF top
    <3>1. \A j \in 1 .. i : j \in 1 .. base \/ j = base + 1 \/ j \in base + 2 .. top
      BY <1>n, <1>t
    <3>2. \A j \in 1 .. base : j \in 1 .. i
      BY <1>n, <1>t
    <3>3. base + 1 \in 1 .. i
      BY <1>n, <1>t
    <3> QED BY <2>1, <2>2, <2>3, <3>1, <3>2, <3>3 DEF RealAmong
  <2>5. base + 1 \notin RealAmong(nodes, base)
    BY <1>n DEF RealAmong
  <2>6. IsFiniteSet(RealAmong(nodes, base))
    <3>1. base \in 0 .. depth
      BY <1>n
    <3> QED BY <1>n, <3>1, RealsCount
  <2>7. Reals(nodes', i) = Reals(nodes, base) + 1
    BY <2>4, <2>5, <2>6, FS_AddElement DEF Reals
  <2>8. states'[i] = next
    BY <1>c
  <2> QED BY <2>7, <2>8
<1> HIDE DEF top
<1>8. /\ below \in Seq(State) /\ Len(below) = Reals(nodes, base) + 1
      /\ \A k \in 1 .. Len(below) : below[k] = RealStates[k]
  <2> DEFINE m == Len(RealStates) - count
  <2>1. m \in Int /\ m = Reals(nodes, base) + 1 /\ 1 <= m /\ m <= Len(RealStates)
    BY <1>1, <1>3, <1>4
  <2>2. \A k \in 1 .. m : RealStates[k] \in State
    <3>1. \A k \in 1 .. m : k \in 1 .. Len(RealStates)
      BY <1>3, <2>1
    <3> QED BY <1>3, <3>1, ElementOfSeq
  <2> HIDE DEF m
  <2>3. /\ SubSeq(RealStates, 1, m) \in Seq(State)
        /\ Len(SubSeq(RealStates, 1, m)) = IF 1 <= m THEN m - 1 + 1 ELSE 0
        /\ \A k \in 1 .. m - 1 + 1 : SubSeq(RealStates, 1, m)[k] = RealStates[1 + k - 1]
    BY <2>1, <2>2, SubSeqProperties
  <2>4. Len(SubSeq(RealStates, 1, m)) = m
    BY <2>1, <2>3
  <2>5. \A k \in 1 .. m : SubSeq(RealStates, 1, m)[k] = RealStates[k]
    <3>1. \A k \in 1 .. m : k \in 1 .. m - 1 + 1 /\ 1 + k - 1 = k
      BY <2>1
    <3> QED BY <2>3, <3>1
  <2> QED BY <2>1, <2>3, <2>4, <2>5 DEF m
<1> HIDE DEF below
<1>9. below[Len(below)] = states[base]
  BY <1>2, <1>3, <1>4, <1>8
<1>10. /\ st \in Seq(State) /\ Len(st) = Reals(nodes, base) + 2
       /\ \A k \in 1 .. Len(below) : st[k] = below[k]
       /\ st[Reals(nodes, base) + 2] = next
  <2>1. /\ st \in Seq(State) /\ Len(st) = Len(below) + 1
        /\ \A k \in 1 .. Len(below) : st[k] = below[k]
        /\ st[Len(below) + 1] = next
    BY <1>2, <1>8, AppendProperties
  <2>2. Len(below) + 1 = Reals(nodes, base) + 2
    BY <1>4, <1>8
  <2> HIDE DEF st
  <2> QED BY <2>1, <2>2
<1> HIDE DEF st
<1>11. ASSUME NEW i \in 0 .. depth' PROVE st[Reals(nodes', i) + 1] = states'[i]
  <2>1. CASE i \in 0 .. base
    <3>1. Reals(nodes', i) = Reals(nodes, i) /\ states'[i] = states[i] /\ i \in 0 .. depth
      BY <1>6, <2>1
    <3>2. Reals(nodes, i) <= Reals(nodes, base)
      <4>1. i <= base /\ base \in 0 .. depth
        BY <1>n, <2>1
      <4> QED BY <1>n, <3>1, <4>1, RealsGrow
    <3>3. Reals(nodes, i) + 1 \in 1 .. Len(RealStates) /\ RealStates[Reals(nodes, i) + 1] = states[i]
      BY <1>3, <3>1
    <3>4. Reals(nodes, i) \in Nat
      BY <1>3, <3>1, RealsCount
    <3>5. Reals(nodes, i) + 1 \in 1 .. Len(below)
      BY <1>4, <1>8, <3>2, <3>4
    <3> QED BY <1>8, <1>10, <3>1, <3>3, <3>5
  <2>2. CASE i \in base + 1 .. top
    <3>1. Reals(nodes', i) = Reals(nodes, base) + 1 /\ states'[i] = next
      BY <1>7, <2>2
    <3>2. Reals(nodes', i) + 1 = Reals(nodes, base) + 2
      BY <1>4, <3>1
    <3> QED BY <1>10, <3>1, <3>2
  <2> QED BY <1>2, <1>3, <1>5, <2>1, <2>2
<1>12. RealStates' = st
  <2>1. ExtrasRepeat(depth', nodes', states')
    BY DriverRepeats DEF Started
  <2>2. depth' \in base + 1 .. top
    BY <1>n, <1>t, <1>5
  <2>3. Len(st) = Reals(nodes', depth') + 1
    BY <1>4, <1>7, <1>10, <2>2
  <2>4. Stripped(depth', nodes', states') = st
    BY <1>10, <1>11, <2>1, <2>3, StrippedIs
  <2> QED BY <2>4, RealStatesStripped
<1>13. Verdict' = "running" /\ Look' = Look
  BY <1>1 DEF Verdict, Look
<1>14. LR!Reduce
  <2>1. a.child_count < Len(RealStates)
    BY <1>1, <1>3, <1>4
  <2>2. LR!Below(a.child_count) = below
    BY DEF LR!Below, below
  <2>3. RealStates' = Append(below, Goto[below[Len(below)]][a.symbol])
    BY <1>9, <1>12 DEF st, tf_next_state
  <2> QED BY <1>1, <1>13, <2>1, <2>2, <2>3 DEF LR!Reduce, Verdict, Look
<1> QED BY <1>14 DEF LR!Next

(* A reduction, the root's or another's, is the automaton's Reduce, or     *)
(* memory ran out.                                                         *)
LEMMA ReduceMoves ==
  ASSUME IInv, IInv', pc \in {"act", "split"}, NEW a \in tf_actions(Top, token.symbol), Reduce(a)
  PROVE  LR!Next
<1> DEFINE base == PopBase(a.child_count)
           end  == PopEnd(a.child_count)
           next == tf_next_state(states[base], a.symbol)
           Puts(value) == PutParent(ParentCell(a, base, end, value), base, end, next)
<1>1. a.type = "reduce" /\ (ReduceInner(a, token.symbol, "act") \/ ReduceRoot(a, token.symbol, "act"))
  BY DEF Reduce, tf_parser__reduce
<1>2. error.kind = "none" /\ Verdict = "running"
  BY <1>1, NotYetRoot DEF Verdict
<1>3. \/ error'.kind = "oom" /\ pc' = "fail" /\ UNCHANGED <<depth, nodes, states>>
      \/ /\ capacity' # 0 /\ pc' = "act" /\ error' = error /\ token' = token
         /\ \E value : Puts(value)
  <2>1. CASE ReduceInner(a, token.symbol, "act")
    BY <2>1 DEF ReduceInner, tf_parser__fail, lexvars
  <2>2. CASE ReduceRoot(a, token.symbol, "act")
    BY <2>2 DEF ReduceRoot, tf_parser__fail, lexvars
  <2> QED BY <1>1, <2>1, <2>2
<1>4. CASE error'.kind = "oom" /\ pc' = "fail" /\ UNCHANGED <<depth, nodes, states>>
  <2>1. Verdict' = "rejected" /\ Look' = {} /\ RealStates' = RealStates
    BY <1>4, StackKept DEF Verdict, Look
  <2> QED BY <1>2, <2>1, FailureRejects
<1>5. CASE /\ capacity' # 0 /\ pc' = "act" /\ error' = error /\ token' = token
           /\ \E value : Puts(value)
  <2>1. PICK value : Puts(value)
    BY <1>5
  <2> DEFINE parent == ParentCell(a, base, end, value)
  <2>2. parent.extra = FALSE
    BY DEF ParentCell
  <2>3. PutParent(parent, base, end, next)
    BY <2>1
  <2>4. PICK b, e, n : b = base /\ e = end /\ n = next
    OBVIOUS
  <2> HIDE DEF parent
  <2>5. PutParent(parent, b, e, n)
    BY <2>3, <2>4
  <2>6. b = PopBase(a.child_count) /\ e = PopEnd(a.child_count) /\ n = tf_next_state(states[b], a.symbol)
    BY <2>4
  <2> QED BY <1>1, <1>5, <2>2, <2>5, <2>6, PutParentMoves
<1> QED BY <1>3, <1>4, <1>5

(* When the parse accepts, the root is the one real cell on the stack: an  *)
(* accepting state is entered from the start state only, and that is the   *)
(* state of the leading extras.                                            *)
LEMMA RootAlone ==
  ASSUME IInv, Started, error.kind = "none", leading < depth, accepts_end(Top)
  PROVE  Reals(nodes, depth) = 1
<1>1. /\ TypeOK /\ StackIsPath /\ LeadingIsExact /\ StartIsLeading
      /\ depth \in Nat /\ leading \in Nat /\ ExtrasRepeat(depth, nodes, states)
  BY DriverRepeats DEF IInv, TypeOK
<1>2. /\ \A i \in 1 .. leading : nodes[i].extra
      /\ leading + 1 \in 1 .. depth /\ ~nodes[leading + 1].extra
  BY <1>1 DEF LeadingIsExact
<1>3. ASSUME NEW m \in 1 .. depth, ~nodes[m].extra, Reals(nodes, m) = Reals(nodes, depth)
      PROVE  m = leading + 1
  <2>0. m \in 0 .. depth /\ depth \in 0 .. depth /\ m <= depth /\ m - 1 \in 0 .. depth
    BY <1>1
  <2>1. states[m] = Top
    BY <1>1, <1>3, <2>0, SameState DEF Top
  <2>2. states[m - 1] \in State
    BY <1>1, <2>0 DEF TypeOK
  <2>3. Transition(states[m - 1], nodes[m], states[m])
    BY <1>1 DEF StackIsPath
  <2>4. nodes[m].symbol \in Symbol
    BY <1>1 DEF TypeOK, Cell
  <2>5. nodes[m].symbol \notin Terminal
    <3> SUFFICES ASSUME nodes[m].symbol \in Terminal PROVE FALSE
      OBVIOUS
    <3>1. PICK a \in tf_actions(states[m - 1], nodes[m].symbol) :
                 a.type = "shift" /\ ~a.extra /\ a.state = states[m]
      BY <1>3, <2>3 DEF Transition
    <3>2. ~accepts_end(a.state)
      BY <2>2, <3>1, RootAssumption
    <3> QED BY <2>1, <3>1, <3>2
  <2>6. nodes[m].symbol \in Nonterminal /\ Top = Goto[states[m - 1]][nodes[m].symbol]
    BY <1>3, <2>1, <2>3, <2>4, <2>5 DEF Transition, tf_next_state, Symbol
  <2>7. states[m - 1] = StartState
    BY <2>2, <2>6, RootAssumption
  <2>8. m - 1 <= leading
    BY <1>1, <2>0, <2>7 DEF StartIsLeading
  <2>9. ~(m <= leading)
    BY <1>2, <1>3, <1>1
  <2> QED BY <1>1, <2>8, <2>9
<1>4. Reals(nodes, depth) \in Nat /\ Reals(nodes, leading) \in Nat /\ Reals(nodes, leading + 1) \in Nat
  <2>1. depth \in 0 .. depth /\ leading \in 0 .. depth /\ leading + 1 \in 0 .. depth
    BY <1>1
  <2> QED BY <1>1, <2>1, RealsCount
<1>5. Reals(nodes, leading) = 0
  <2>1. RealAmong(nodes, leading) = {}
    BY <1>2 DEF RealAmong
  <2> QED BY <2>1, FS_EmptySet DEF Reals
<1>6. Reals(nodes, leading + 1) = 1
  <2>1. Reals(nodes, leading + 1) = Reals(nodes, leading + 1 - 1) + (IF nodes[leading + 1].extra THEN 0 ELSE 1)
    BY <1>1, <1>2, RealsCount
  <2>2. leading + 1 - 1 = leading
    BY <1>1
  <2> QED BY <1>2, <1>5, <2>1, <2>2
<1>7. Reals(nodes, leading + 1) <= Reals(nodes, depth)
  <2>1. leading + 1 \in 0 .. depth /\ depth \in 0 .. depth /\ leading + 1 <= depth
    BY <1>1, <1>2
  <2> QED BY <1>1, <2>1, RealsGrow
<1>8. Reals(nodes, depth) \in 0 .. Reals(nodes, depth) /\ Reals(nodes, depth) > 0
  BY <1>4, <1>6, <1>7
<1>9. PICK m \in 0 .. depth : Reals(nodes, m) = Reals(nodes, depth) /\ m > 0 /\ ~nodes[m].extra
  BY <1>1, <1>8, RealsReach
<1>10. m \in 1 .. depth
  BY <1>1, <1>9
<1>11. m = leading + 1
  BY <1>3, <1>9, <1>10
<1> QED BY <1>6, <1>9, <1>11

(* The accept action finds the root, and nothing else, above the start     *)
(* state.                                                                  *)
LEMMA AcceptMoves ==
  ASSUME IInv, pc \in {"act", "split"}, NEW a \in tf_actions(Top, token.symbol), Accept(a)
  PROVE  LR!Next
<1>1. Top \in State /\ token.symbol \in Terminal
  BY DEF Top, IInv, TypeOK, Token
<1>2. a.type = "accept" /\ token.symbol = End /\ tf_count(Top, End) = 1
  BY <1>1, AcceptAssumption DEF Accept
<1>3. accepts_end(Top)
  BY <1>2 DEF accepts_end, tf_actions
<1>4. error.kind = "none" /\ leading < depth /\ Started
  BY <1>2, <1>3 DEF IInv, Phases, RootThenAccept, GoesOn, Running
<1>5. Reals(nodes, depth) = 1 /\ Len(RealStates) = 2
  <2>1. Reals(nodes, depth) = 1
    BY <1>3, <1>4, RootAlone
  <2> QED BY <1>4, <2>1, StackBefore
<1>6. error' = error /\ pc' = "done" /\ RealStates' = RealStates
  BY StackKept DEF Accept, stackvars
<1>7. Verdict = "running" /\ Verdict' = "accepted" /\ Look' = {}
  BY <1>4, <1>6 DEF Verdict, Look
<1>8. a \in LR!Choices
  BY <1>4, SameChoices
<1>9. LR!Accept
  BY <1>2, <1>5, <1>6, <1>7, <1>8 DEF LR!Accept, Verdict, Look
<1> QED BY <1>9 DEF LR!Next

(* lexer.token_is_keyword is up only while the token is a keyword, or the  *)
(* word it was demoted to.                                                 *)
KeywordFlag == pc \in {"act", "split"} /\ keyword => token.symbol \in Keyword \cup {Word}

(* tf_parser__demote_keyword is the only thing that changes a token's      *)
(* symbol between the lexer and the dispatch.                              *)
LEMMA NextKeyword == TypeOK /\ KeywordFlag /\ [Next]_vars => KeywordFlag'
<1> SUFFICES ASSUME TypeOK, KeywordFlag, [Next]_vars PROVE KeywordFlag'
  OBVIOUS
<1>1. CASE Lex
  <2>1. PICK t \in Terminal, pad \in Pads, width \in Widths \cup {0} :
               /\ token' = [symbol |-> t, start |-> byte + pad, end |-> byte + pad + width]
               /\ keyword' = (t \in Keyword)
    BY <1>1 DEF Lex
  <2> QED BY <2>1 DEF KeywordFlag
<1>2. CASE Demote
  <2>1. token'.symbol = Word
    BY <1>2 DEF Demote, TypeOK, Token
  <2> QED BY <2>1 DEF KeywordFlag
<1>3. CASE TooLarge \/ Start \/ LexFail \/ Unexpected \/ SplitDies \/ SplitOom \/ Discard
  <2>1. pc' \notin {"act", "split"}
    BY <1>3 DEF TooLarge, Start, LexFail, Unexpected, SplitDies, SplitOom, Discard, tf_parser__fail
  <2> QED BY <2>1 DEF KeywordFlag
<1>4. CASE Dispatch \/ Split \/ Replay
  <2>1. pc \in {"act", "split"} /\ token' = token /\ keyword' = keyword
    BY <1>4 DEF Dispatch, Split, Replay, Shift, Reduce, Accept, tf_parser__shift, tf_parser__reduce,
                ReduceInner, ReduceRoot, lexvars
  <2> QED BY <2>1 DEF KeywordFlag
<1>5. CASE UNCHANGED vars
  BY <1>5 DEF vars, lexvars, KeywordFlag
<1> QED BY <1>1, <1>2, <1>3, <1>4, <1>5 DEF Next

(* Reading and demoting the lookahead. *)
LEMMA LexMoves == IInv /\ Lex => LR!Next
<1> SUFFICES ASSUME IInv, Lex PROVE LR!Next
  OBVIOUS
<1>1. PICK t \in Terminal : token'.symbol = t
  BY DEF Lex
<1>2. error' = error /\ pc = "lex" /\ pc' = "act" /\ error.kind = "none" /\ RealStates' = RealStates
  BY StackKept DEF Lex, outvars, stackvars, IInv, Phases, Running
<1>3. Verdict = "running" /\ Verdict' = "running" /\ Look = {} /\ Look' = {t}
  BY <1>1, <1>2 DEF Verdict, Look
<1>4. LR!Read
  BY <1>2, <1>3 DEF LR!Read, Verdict, Look
<1> QED BY <1>4 DEF LR!Next

(* The driver demotes the keywords the automaton demotes. *)
LEMMA DemoteMoves == IInv /\ KeywordFlag /\ Demote => LR!Next
<1> SUFFICES ASSUME IInv, KeywordFlag, Demote PROVE LR!Next
  OBVIOUS
<1>1. /\ error' = error /\ pc = "act" /\ pc' = pc /\ error.kind = "none" /\ Started
      /\ RealStates' = RealStates
  BY StackKept DEF Demote, outvars, stackvars, IInv, Phases, Running
<1>2. LR!Last = Top
  BY <1>1, StackBefore
<1>3. token.symbol \in Keyword /\ token'.symbol = Word
  BY <1>1 DEF Demote, Demotable, tf_parser__demote_keyword, KeywordFlag, IInv, TypeOK, Token
<1>4. /\ tf_count(Top, token.symbol) = 0 /\ token.symbol \notin Reserved[Top]
      /\ tf_count(Top, Word) # 0
  BY DEF Demote, Demotable, tf_parser__demote_keyword, tf_is_reserved_word
<1>5. /\ Verdict = "running" /\ Verdict' = "running"
      /\ Look = {token.symbol} /\ Look' = {Word}
  BY <1>1, <1>3 DEF Verdict, Look
<1>6. LR!Demote
  BY <1>1, <1>2, <1>3, <1>4, <1>5 DEF LR!Demote, LR!tf_count, tf_count, Verdict, Look
<1> QED BY <1>6 DEF LR!Next

(* Every step of the driver is a move of the automaton, or none.           *)
LEMMA NextMoves == IInv /\ IInv' /\ KeywordFlag /\ [Next]_vars => [LR!Next]_(LR!vars)
<1> SUFFICES ASSUME IInv, IInv', KeywordFlag, [Next]_vars PROVE [LR!Next]_(LR!vars)
  OBVIOUS
<1>1. CASE TooLarge \/ LexFail \/ Unexpected \/ SplitDies \/ SplitOom
  <2>1. /\ UNCHANGED <<depth, nodes, states>> /\ pc # "done" /\ error.kind = "none"
        /\ pc' \in {"fail", "done"} /\ error'.kind # "none"
    BY <1>1 DEF TooLarge, LexFail, Unexpected, SplitDies, SplitOom, tf_parser__fail, stackvars,
                IInv, Phases, Running
  <2>2. Verdict = "running" /\ Verdict' = "rejected" /\ Look' = {} /\ RealStates' = RealStates
    BY <2>1, StackKept DEF Verdict, Look
  <2> QED BY <2>2, FailureRejects
<1>2. CASE Start
  <2>1. /\ depth = 0 /\ depth' = 0 /\ nodes' = nodes /\ pc = "start" /\ error.kind = "none"
    BY <1>2 DEF Start, IInv, Phases
  <2>2. RealStates' = RealStates
    <3>1. RealBelow(0) = {} /\ Cardinality(RealBelow(0)) = 0
      BY FS_EmptySet DEF RealBelow
    <3>2. RealBelow(0)' = {} /\ Cardinality({}) = 0
      BY FS_EmptySet DEF RealBelow
    <3>3. RealStates = [k \in 1 .. 1 |-> StartState] /\ RealStates' = [k \in 1 .. 1 |-> StartState]
      BY <2>1, <3>1, <3>2 DEF RealStates, RealBelow
    <3> QED BY <3>3
  <2>3. CASE error'.kind = "oom" /\ pc' = "fail"
    <3>1. Verdict = "running" /\ Verdict' = "rejected" /\ Look' = {}
      BY <2>1, <2>3 DEF Verdict, Look
    <3> QED BY <2>2, <3>1, FailureRejects
  <2>4. CASE pc' = "lex" /\ error' = error
    <3>1. Verdict' = Verdict /\ Look' = Look
      BY <2>1, <2>4 DEF Verdict, Look
    <3> QED BY <2>2, <3>1 DEF LR!vars, Verdict, Look
  <2> QED BY <1>2, <2>3, <2>4 DEF Start, tf_parser__fail
<1>3. CASE Lex BY <1>3, LexMoves
<1>4. CASE Demote BY <1>4, DemoteMoves
<1>5. CASE Dispatch
  <2> DEFINE a == tf_action(Top, token.symbol, 1)
  <2>1. pc \in {"act", "split"} /\ (Shift(a) \/ Reduce(a) \/ Accept(a))
    BY <1>5 DEF Dispatch
  <2>2. a \in tf_actions(Top, token.symbol)
    BY <1>5 DEF Dispatch, tf_actions
  <2> HIDE DEF a
  <2>3. CASE Shift(a) BY <2>1, <2>2, <2>3, ShiftMoves
  <2>4. CASE Reduce(a) BY <2>1, <2>2, <2>4, ReduceMoves
  <2>5. CASE Accept(a) BY <2>1, <2>2, <2>5, AcceptMoves
  <2> QED BY <2>1, <2>3, <2>4, <2>5
<1>6. CASE Replay
  <2>1. PICK a \in tf_actions(Top, token.symbol) : Shift(a) \/ Reduce(a)
    BY <1>6 DEF Replay
  <2>2. pc \in {"act", "split"}
    BY <1>6 DEF Replay
  <2>3. CASE Shift(a) BY <2>2, <2>3, ShiftMoves
  <2>4. CASE Reduce(a) BY <2>2, <2>4, ReduceMoves
  <2> QED BY <2>1, <2>3, <2>4
<1>7. CASE Split \/ Discard \/ UNCHANGED vars
  <2>1. UNCHANGED <<depth, nodes, states, token, error>>
    BY <1>7 DEF Split, Discard, vars, lexvars, stackvars, outvars
  <2>2. \/ pc' = pc
        \/ pc = "act" /\ pc' = "split"
        \/ pc = "fail" /\ pc' = "done" /\ error.kind # "none"
    BY <1>7 DEF Split, Discard, vars, IInv, Phases
  <2>3. Verdict' = Verdict /\ Look' = Look /\ RealStates' = RealStates
    BY <2>1, <2>2, StackKept DEF Verdict, Look
  <2> QED BY <2>3 DEF LR!vars, Verdict, Look
<1> QED BY <1>1, <1>2, <1>3, <1>4, <1>5, <1>6, <1>7 DEF Next

(* The driver implements LRAutomaton: with its extras, its keyword         *)
(* demotion, its splits and its failures it makes only moves of the        *)
(* textbook automaton, whatever the tables, the lexer and the memory.      *)
THEOREM DriverImplementsLR == Spec => ImplementsLR
<1>1. Init => LR!Init
  <2> SUFFICES ASSUME Init PROVE LR!Init
    OBVIOUS
  <2>1. RealBelow(0) = {} /\ Cardinality(RealBelow(0)) = 0
    BY FS_EmptySet DEF RealBelow
  <2>2. RealStates = [k \in 1 .. 1 |-> StartState]
    BY <2>1 DEF Init, RealStates
  <2>3. RealStates = <<StartState>>
    BY <2>2
  <2> QED BY <2>3 DEF Init, LR!Init
<1>2. Init => KeywordFlag
  BY DEF Init, KeywordFlag
<1>3. IInv /\ KeywordFlag /\ [Next]_vars => KeywordFlag'
  BY NextKeyword DEF IInv
<1>4. IInv /\ IInv' /\ KeywordFlag /\ [Next]_vars => [LR!Next]_(LR!vars)
  BY NextMoves
<1>5. Spec => []IInv
  BY Inductive
<1>6. Spec => []KeywordFlag
  BY <1>2, <1>3, <1>5, PTL DEF Spec
<1> QED BY <1>1, <1>4, <1>5, <1>6, PTL DEF Spec, ImplementsLR, LR!Spec
=============================================================================
