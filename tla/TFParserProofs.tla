--------------------------- MODULE TFParserProofs ---------------------------
(***************************************************************************)
(* The driver's invariants, proved for every table that satisfies the      *)
(* assumptions of TFTables, every source, every lexer and every sink.      *)
(***************************************************************************)
EXTENDS TFParser, FiniteSetTheorems, WellFoundedInduction, TLAPS

-----------------------------------------------------------------------------
(* Numbers and finite sets.                                                *)

(* A non-empty set of naturals below a bound has a greatest element; the   *)
(* scan of tf_parser__reduce stops at one.                                 *)
LEMMA Greatest ==
  ASSUME NEW d \in Nat, NEW S \in SUBSET (0 .. d), S # {}
  PROVE  \E b \in S : \A c \in S : c <= b
<1> DEFINE T == {n \in Nat : d - n \in S}
<1>1. T \subseteq Nat /\ T # {}
  <2>1. PICK s \in S : TRUE
    OBVIOUS
  <2>2. d - s \in T
    BY <2>1
  <2> QED BY <2>2
<1>2. PICK m \in T : \A k \in T : <<k, m>> \notin OpToRel(<, Nat)
  BY <1>1, WFMin, NatLessThanWellFounded, Zenon
<1>3. \A k \in T : ~(k < m)
  BY <1>2 DEF OpToRel
<1>4. \A c \in S : d - c \in T
  OBVIOUS
<1>5. \A c \in S : c <= d - m
  BY <1>3, <1>4
<1> QED BY <1>5

(* The real cells in a range of the stack are finitely many.               *)
LEMMA RealFinite ==
  ASSUME TypeOK, NEW b \in 0 .. depth
  PROVE  /\ IsFiniteSet(Real(b)) /\ Cardinality(Real(b)) \in Nat
         /\ IsFiniteSet(RealBelow(b)) /\ Cardinality(RealBelow(b)) \in Nat
<1>1. depth \in Nat /\ b \in Nat
  BY DEF TypeOK
<1>2. IsFiniteSet(1 .. depth)
  BY <1>1, FS_Interval
<1>3. Real(b) \in SUBSET (1 .. depth) /\ RealBelow(b) \in SUBSET (1 .. depth)
  BY <1>1 DEF Real, RealBelow
<1> QED BY <1>2, <1>3, FS_Subset, FS_CardinalityType

(* One cell more to scan is one real cell more, unless it is an extra.     *)
LEMMA RealStep ==
  ASSUME TypeOK, NEW b \in 0 .. depth, b < depth
  PROVE  Cardinality(Real(b)) = Cardinality(Real(b + 1)) + (IF nodes[b + 1].extra THEN 0 ELSE 1)
<1>1. b + 1 \in 0 .. depth /\ depth \in Nat
  BY DEF TypeOK
<1>2. IsFiniteSet(Real(b + 1)) /\ Cardinality(Real(b + 1)) \in Nat
  BY <1>1, RealFinite
<1>3. CASE nodes[b + 1].extra
  <2>1. Real(b) = Real(b + 1)
    BY <1>1, <1>3 DEF Real
  <2> QED BY <2>1, <1>2, <1>3
<1>4. CASE ~nodes[b + 1].extra
  <2>1. Real(b) = Real(b + 1) \cup {b + 1} /\ b + 1 \notin Real(b + 1)
    BY <1>1, <1>4 DEF Real
  <2> QED BY <2>1, <1>2, <1>4, FS_AddElement
<1> QED BY <1>3, <1>4

(* The scan ends on the stack, at a real cell, with exactly the children   *)
(* asked for above it.                                                     *)
LEMMA PopBaseExact ==
  ASSUME TypeOK, NEW count \in Nat, Cardinality(Real(0)) >= count
  PROVE  /\ PopBase(count) \in 0 .. depth
         /\ Cardinality(Real(PopBase(count))) = count
         /\ count = 0 => PopBase(count) = depth
         /\ count > 0 => PopBase(count) < depth /\ ~nodes[PopBase(count) + 1].extra
<1> DEFINE S == {b \in 0 .. depth : Cardinality(Real(b)) >= count}
           P(b) == /\ Cardinality(Real(b)) >= count
                   /\ \A c \in b + 1 .. depth : Cardinality(Real(c)) < count
<1>0. depth \in Nat /\ \A b \in 0 .. depth : Cardinality(Real(b)) \in Nat
  BY RealFinite DEF TypeOK
<1>1. 0 \in S /\ S \in SUBSET (0 .. depth)
  BY <1>0
<1>2. PICK m \in S : \A c \in S : c <= m
  <2> HIDE DEF S
  <2> QED BY <1>0, <1>1, Greatest
<1>3. m \in 0 .. depth /\ P(m)
  BY <1>0, <1>2
<1>4. PopBase(count) = CHOOSE b \in 0 .. depth : P(b)
  BY DEF PopBase
<1> DEFINE base == PopBase(count)
<1>5. base \in 0 .. depth /\ P(base)
  <2> HIDE DEF P
  <2> QED BY <1>3, <1>4
<1>6. CASE base = depth
  <2>1. Real(base) = {}
    BY <1>0, <1>6 DEF Real
  <2>2. Cardinality(Real(base)) = 0
    BY <2>1, FS_EmptySet
  <2> QED BY <1>5, <1>6, <2>2
<1>7. CASE base < depth
  <2> HIDE DEF base
  <2>1. base + 1 \in base + 1 .. depth
    BY <1>0, <1>5, <1>7
  <2>2. Cardinality(Real(base + 1)) < count /\ Cardinality(Real(base + 1)) \in Nat
    BY <1>0, <1>5, <2>1
  <2>3. Cardinality(Real(base)) = Cardinality(Real(base + 1)) + (IF nodes[base + 1].extra THEN 0 ELSE 1)
    BY <1>5, <1>7, RealStep
  <2>4. Cardinality(Real(base)) = count /\ ~nodes[base + 1].extra
    BY <1>0, <1>5, <2>2, <2>3
  <2> QED BY <1>5, <1>7, <2>2, <2>4 DEF base
<1> QED BY <1>0, <1>5, <1>6, <1>7

(* The trailing extras: everything above the end of a reduction.           *)
LEMMA PopEndExact ==
  ASSUME TypeOK, NEW count \in Nat, Cardinality(Real(0)) >= count
  PROVE  /\ PopEnd(count) \in 0 .. depth /\ PopBase(count) <= PopEnd(count)
         /\ \A j \in PopEnd(count) + 1 .. depth : nodes[j].extra
         /\ count = 0 => PopEnd(count) = depth
         /\ count > 0 => PopBase(count) < PopEnd(count)
<1>0. depth \in Nat
  BY DEF TypeOK
<1>1. CASE count = 0
  BY <1>0, <1>1, PopBaseExact DEF PopEnd
<1>2. CASE count > 0
  <2> DEFINE base == PopBase(count)
             S == {j \in 1 .. depth : ~nodes[j].extra}
             P(e) == ~nodes[e].extra /\ \A j \in e + 1 .. depth : nodes[j].extra
  <2>1. base \in 0 .. depth /\ base < depth /\ ~nodes[base + 1].extra
    BY <1>2, PopBaseExact
  <2>2. base + 1 \in S /\ S \in SUBSET (0 .. depth)
    BY <1>0, <2>1
  <2>3. PICK m \in S : \A c \in S : c <= m
    <3> HIDE DEF S
    <3> QED BY <1>0, <2>2, Greatest
  <2>4. m \in 1 .. depth /\ P(m)
    BY <1>0, <2>3
  <2> DEFINE end == PopEnd(count)
  <2>5. end = CHOOSE e \in 1 .. depth : P(e)
    BY <1>2 DEF PopEnd
  <2>6. end \in 1 .. depth /\ P(end)
    <3> HIDE DEF P, end
    <3> QED BY <2>4, <2>5
  <2>7. base + 1 <= end
    <3> HIDE DEF base, end
    <3> QED BY <1>0, <2>1, <2>6
  <2> HIDE DEF end, base
  <2>8. end \in 0 .. depth /\ base <= end /\ base < end
        /\ \A j \in end + 1 .. depth : nodes[j].extra
    BY <1>0, <2>1, <2>6, <2>7
  <2> QED BY <1>2, <2>8 DEF end, base
<1> QED BY <1>1, <1>2

-----------------------------------------------------------------------------
(* The tables.                                                             *)

(* A kept action of an entry is an action. *)
LEMMA ActionTyped ==
  ASSUME NEW s \in State, NEW t \in Terminal, NEW a \in tf_actions(s, t)
  PROVE  a \in Action
BY TableAssumption, LoadAssumption DEF tf_actions, tf_action, tf_count

(* Growing gives at least the room asked for, or says that it cannot.      *)
LEMMA GrowFits ==
  ASSUME NEW cap \in Nat, NEW needed \in Nat, NEW c \in tf_parser__grow(cap, needed)
  PROVE  c \in Nat /\ (c # 0 => c >= needed)
BY DriverAssumption DEF tf_parser__grow

-----------------------------------------------------------------------------
(* The invariant holds initially, and the steps that leave the stack alone *)
(* preserve it.                                                            *)

(* The state tf_parser__run starts in, nothing allocated, satisfies IInv.  *)
LEMMA InitInv == Init => IInv
<1> SUFFICES ASSUME Init PROVE IInv
  OBVIOUS
<1> USE SymbolAssumption, DriverAssumption DEF Init, NULL
<1>1. TypeOK
  <2>1. token \in Token /\ error \in Error
    BY DEF Token, Error
  <2>2. nodes \in [1 .. depth -> Cell] /\ handed \in [1 .. issued -> Nat]
    OBVIOUS
  <2>3. states \in [0 .. depth -> State]
    OBVIOUS
  <2> QED BY <2>1, <2>2, <2>3 DEF TypeOK
<1>2. Phases /\ StackIsPath /\ PopsStayOnStack /\ StartIsLeading
  BY DEF Phases, Running, Started, StackIsPath, PopsStayOnStack, StartIsLeading
<1>3. LeadingIsExact /\ WithinCapacity /\ StackInSourceOrder /\ ErrorIsAhead
  BY DEF LeadingIsExact, WithinCapacity, StackInSourceOrder, ErrorIsAhead
<1>4. RootThenAccept /\ ValuesOwned /\ HandedOnce
  BY DEF RootThenAccept, Running, ValuesOwned, HandedOnce, OnStack
<1> QED BY <1>1, <1>2, <1>3, <1>4 DEF IInv

(* What no step changes that leaves the stack and its values alone. *)
LEMMA FrameInv ==
  ASSUME IInv, UNCHANGED <<stackvars, sinkvars, root_emitted>>,
         error'.kind = "oom" \/ error.kind # "oom"
  PROVE  /\ StackIsPath' /\ PopsStayOnStack' /\ LeadingIsExact' /\ StartIsLeading'
         /\ WithinCapacity' /\ HandedOnce'
<1> USE DEF IInv, stackvars, sinkvars
<1>1. StackIsPath'
  BY DEF StackIsPath, Started
<1>2. PopsStayOnStack'
  BY DEF PopsStayOnStack, Started, RealBelow
<1>3. LeadingIsExact' /\ WithinCapacity'
  BY DEF LeadingIsExact, WithinCapacity
<1>4. StartIsLeading'
  BY DEF StartIsLeading, Started
<1>5. HandedOnce'
  BY DEF HandedOnce
<1> QED BY <1>1, <1>2, <1>3, <1>4, <1>5

(* Refusing a source above 4 GiB touches neither stack nor sink.           *)
LEMMA TooLargeInv == IInv /\ TooLarge => IInv'
<1> SUFFICES ASSUME IInv, TooLarge PROVE IInv'
  OBVIOUS
<1> USE DEF IInv, TooLarge, lexvars, stackvars, sinkvars
<1>1. TypeOK'
  BY DEF TypeOK, Error
<1>2. Phases' /\ StackInSourceOrder' /\ ErrorIsAhead'
  BY DEF TypeOK, Phases, Running, Started, StackInSourceOrder, Here, ErrorIsAhead
<1>3. RootThenAccept' /\ ValuesOwned'
  BY DEF RootThenAccept, ValuesOwned, HandedOnce, Running, OnStack, Phases, TypeOK
<1>4. error'.kind = "oom" \/ error.kind # "oom"
  BY DEF Phases
<1> QED BY <1>1, <1>2, <1>3, <1>4, FrameInv

(* The lexer's steps and the failures keep the stack. *)
LEMMA LexInv == IInv /\ Lex => IInv'
<1> SUFFICES ASSUME IInv, Lex PROVE IInv'
  OBVIOUS
<1> USE DEF IInv, Lex, stackvars, sinkvars, outvars
<1>1. /\ error' = error /\ error.kind = "none" /\ ~root_emitted
      /\ token' \in Token /\ keyword' \in BOOLEAN /\ byte' \in Nat
      /\ Here <= token'.start /\ token'.start <= token'.end /\ token'.end = byte' /\ byte' <= size
  <2>1. PICK t \in Terminal, pad \in Pads, width \in Widths \cup {0} :
          /\ byte + pad + width <= size
          /\ token' = [symbol |-> t, start |-> byte + pad, end |-> byte + pad + width]
          /\ byte' = byte + pad + width
          /\ keyword' = (t \in Keyword)
    OBVIOUS
  <2>2. pad \in Nat /\ width \in Nat /\ byte \in Nat /\ size \in Nat
    BY DriverAssumption DEF TypeOK
  <2>3. error.kind = "none" /\ ~root_emitted /\ Here <= byte /\ Here \in Nat
    BY DEF TypeOK, Phases, Running, RootThenAccept, StackInSourceOrder, Here, Cell
  <2>4. token' \in Token
    BY <2>1, <2>2 DEF Token
  <2>5. keyword' \in BOOLEAN
    BY <2>1
  <2> QED BY <2>1, <2>2, <2>3, <2>4, <2>5
<1>2. TypeOK'
  BY <1>1 DEF TypeOK
<1>3. Phases' /\ StackInSourceOrder' /\ ErrorIsAhead'
  BY <1>1 DEF TypeOK, Phases, Running, Started, StackInSourceOrder, Here, ErrorIsAhead
<1>4. RootThenAccept' /\ ValuesOwned'
  BY <1>1 DEF RootThenAccept, GoesOn, shifts_extra, ValuesOwned, Running, OnStack, Top, accepts_end
<1> QED BY <1>1, <1>2, <1>3, <1>4, FrameInv

(* tf_lexer_next finding no token fails ahead of the stack.                *)
LEMMA LexFailInv == IInv /\ LexFail => IInv'
<1> SUFFICES ASSUME IInv, LexFail PROVE IInv'
  OBVIOUS
<1> USE DEF IInv, LexFail, stackvars, sinkvars, tf_parser__fail
<1>1. /\ error' \in Error /\ error'.kind = "lex" /\ error.kind = "none" /\ ~root_emitted
      /\ error'.byte = byte' /\ byte' \in Nat
      /\ Here <= byte' /\ byte' <= size /\ pc' = "fail"
  BY DEF TypeOK, Phases, Running, RootThenAccept, StackInSourceOrder, Error, Here, Cell
<1>2. TypeOK'
  BY <1>1 DEF TypeOK
<1>3. Phases' /\ StackInSourceOrder' /\ ErrorIsAhead'
  BY <1>1 DEF TypeOK, Phases, Running, Started, StackInSourceOrder, Here, ErrorIsAhead
<1>4. RootThenAccept' /\ ValuesOwned'
  BY <1>1 DEF RootThenAccept, GoesOn, shifts_extra, ValuesOwned, Running, OnStack, Top, accepts_end
<1> QED BY <1>1, <1>2, <1>3, <1>4, FrameInv

(* A demoted keyword keeps its place in the source.                        *)
LEMMA DemoteInv == IInv /\ Demote => IInv'
<1> SUFFICES ASSUME IInv, Demote PROVE IInv'
  OBVIOUS
<1> USE DEF IInv, Demote, stackvars, sinkvars, outvars
<1>1. /\ token' \in Token /\ token'.start = token.start /\ token'.end = token.end
      /\ error' = error /\ error.kind = "none"
  BY SymbolAssumption DEF TypeOK, Token, Phases, Running
<1>2. ~root_emitted
  BY DEF RootThenAccept, Running, accepts_end, Top, TypeOK
<1>3. TypeOK'
  BY <1>1 DEF TypeOK
<1>4. Phases' /\ StackInSourceOrder' /\ ErrorIsAhead'
  BY <1>1 DEF TypeOK, Phases, Running, Started, StackInSourceOrder, Here, ErrorIsAhead
<1>5. RootThenAccept' /\ ValuesOwned'
  <2>1. /\ keyword /\ token'.symbol = Word /\ Word # End /\ keyword' = keyword
        /\ pc' = pc /\ pc = "act" /\ Top' = Top /\ ~root_emitted'
    BY <1>2, SymbolAssumption DEF TypeOK, Token, Demotable, tf_parser__demote_keyword, Top
  <2>2. (accepts_end(Top))' => accepts_end(Top)
    BY <2>1 DEF accepts_end, tf_count, tf_action
  <2>3. accepts_end(Top) => ~shifts_extra(Top, Word)
    BY <1>2, <2>1 DEF RootThenAccept, Running, GoesOn
  <2>4. (accepts_end(Top))' => (GoesOn(Top))'
    BY <2>1, <2>2, <2>3 DEF GoesOn, shifts_extra, tf_actions, tf_count, tf_action
  <2>5. RootThenAccept'
    BY <2>1, <2>4 DEF RootThenAccept, Running
  <2>6. ValuesOwned'
    BY <1>1, <1>2 DEF ValuesOwned, Running, OnStack
  <2> QED BY <2>5, <2>6
<1> QED BY <1>1, <1>3, <1>4, <1>5, FrameInv

(* A failure before the root was emitted, ahead of the stack or for lack   *)
(* of memory.                                                              *)
LEMMA FailInv ==
  ASSUME IInv, Running, ~root_emitted, NEW kind \in {"lex", "unexpected", "oom"}, NEW at \in Nat,
         tf_parser__fail(kind, at), kind # "oom" => Here <= at /\ at <= size,
         UNCHANGED <<lexvars, stackvars, root_emitted, root, split_count, sinkvars>>
  PROVE  IInv'
<1> USE DEF IInv, stackvars, sinkvars, lexvars, tf_parser__fail
<1>1. error' \in Error /\ error'.kind = kind /\ error.kind = "none" /\ error'.byte = at
  BY DEF Phases, Running, Error
<1>2. TypeOK'
  BY <1>1 DEF TypeOK
<1>3. Phases' /\ StackInSourceOrder' /\ ErrorIsAhead'
  BY <1>1 DEF TypeOK, Phases, Running, Started, StackInSourceOrder, Here, ErrorIsAhead
<1>4. RootThenAccept' /\ ValuesOwned'
  BY <1>1 DEF RootThenAccept, GoesOn, shifts_extra, ValuesOwned, Running, OnStack, Top, accepts_end
<1> QED BY <1>1, <1>2, <1>3, <1>4, FrameInv

(* tf_parser__fail_unexpected fails at the token, ahead of the stack.      *)
LEMMA UnexpectedInv == IInv /\ Unexpected => IInv'
<1> SUFFICES ASSUME IInv, Unexpected PROVE IInv'
  OBVIOUS
<1>1. ~root_emitted /\ Running
  BY DEF IInv, Unexpected, RootThenAccept, Running, accepts_end, Top, TypeOK
<1>2. token.start \in Nat /\ Here <= token.start /\ token.start <= size
  BY DEF IInv, Unexpected, TypeOK, Token, StackInSourceOrder, Phases
<1> QED BY <1>1, <1>2, FailInv DEF Unexpected

(* A split without a survivor has changed nothing but the error.           *)
LEMMA SplitDiesInv == IInv /\ SplitDies => IInv'
<1> SUFFICES ASSUME IInv, SplitDies PROVE IInv'
  OBVIOUS
<1>1. ~root_emitted /\ Running
  BY DEF IInv, SplitDies, RootThenAccept, Running
<1>2. Here \in Nat /\ size \in Nat
  BY DEF IInv, TypeOK, Here, Cell
<1>3. PICK kind \in {"lex", "unexpected"}, at \in Here .. size : tf_parser__fail(kind, at)
  BY DEF SplitDies
<1>4. at \in Nat /\ Here <= at /\ at <= size
  BY <1>2
<1> QED BY <1>1, <1>3, <1>4, FailInv DEF SplitDies

(* A split that ran out of memory leaves the stack to the discard loop.    *)
LEMMA SplitOomInv == IInv /\ SplitOom => IInv'
<1> SUFFICES ASSUME IInv, SplitOom PROVE IInv'
  OBVIOUS
<1>1. ~root_emitted /\ Running /\ token.start \in Nat
  BY DEF IInv, SplitOom, Running, TypeOK, Token
<1> QED BY <1>1, FailInv DEF SplitOom

(* Entering tf_parser__split only counts it.                               *)
LEMMA SplitInv == IInv /\ Split => IInv'
<1> SUFFICES ASSUME IInv, Split PROVE IInv'
  OBVIOUS
<1> USE DEF IInv, Split, stackvars, sinkvars, lexvars, outvars
<1>1. ~root_emitted /\ error.kind = "none" /\ error' = error
  BY DEF RootThenAccept, Running, accepts_end, Top, TypeOK, Phases
<1>2. TypeOK'
  BY DEF TypeOK
<1>3. Phases' /\ StackInSourceOrder' /\ ErrorIsAhead'
  BY DEF TypeOK, Phases, Running, Started, StackInSourceOrder, Here, ErrorIsAhead
<1>4. RootThenAccept' /\ ValuesOwned'
  BY <1>1 DEF RootThenAccept, GoesOn, shifts_extra, ValuesOwned, Running, OnStack, Top, accepts_end
<1> QED BY <1>1, <1>2, <1>3, <1>4, FrameInv

(* The first allocation puts the start state at the bottom.                *)
LEMMA StartInv == IInv /\ Start => IInv'
<1> SUFFICES ASSUME IInv, Start PROVE IInv'
  OBVIOUS
<1> USE DEF IInv, Start
<1>0. /\ depth = 0 /\ issued = 0 /\ error.kind = "none" /\ root = NULL /\ leading = 0
      /\ ~root_emitted /\ byte = 0 /\ size \in Nat
  BY DEF Phases, RootThenAccept, LeadingIsExact, TypeOK
<1>1. PICK cap \in tf_parser__grow(capacity, InitCapacity) :
        \/ /\ cap = 0
           /\ tf_parser__fail("oom", token.start)
           /\ UNCHANGED <<capacity, states>>
        \/ /\ cap # 0
           /\ capacity' = cap
           /\ states' = [i \in 0 .. 0 |-> StartState]
           /\ pc' = "lex"
           /\ UNCHANGED error
  OBVIOUS
<1>2. cap \in Nat
  BY GrowFits, DriverAssumption DEF TypeOK
<1>3. CASE cap = 0
  <2> USE DEF stackvars, sinkvars, lexvars, tf_parser__fail
  <2>1. /\ UNCHANGED <<lexvars, stackvars, root_emitted, root, split_count, sinkvars>>
        /\ tf_parser__fail("oom", token.start) /\ token.start \in Nat
    BY <1>1, <1>3 DEF TypeOK, Token
  <2>2. error' \in Error /\ error'.kind = "oom"
    BY <2>1 DEF Error
  <2>3. TypeOK'
    BY <2>1, <2>2 DEF TypeOK
  <2>4. Phases' /\ StackInSourceOrder' /\ ErrorIsAhead'
    BY <1>0, <2>1, <2>2 DEF TypeOK, Phases, Running, Started, StackInSourceOrder, Here, ErrorIsAhead
  <2>5. RootThenAccept' /\ ValuesOwned'
    BY <1>0, <2>1, <2>2 DEF RootThenAccept, GoesOn, shifts_extra, ValuesOwned, Running, OnStack, Top, accepts_end
  <2> QED BY <2>1, <2>2, <2>3, <2>4, <2>5, FrameInv
<1>4. CASE cap # 0
  <2> USE DEF sinkvars, lexvars
  <2>1. /\ UNCHANGED <<lexvars, depth, nodes, leading, root_emitted, root, split_count, error, sinkvars>>
        /\ capacity' = cap /\ states' = [i \in 0 .. 0 |-> StartState] /\ pc' = "lex"
    BY <1>1, <1>4
  <2>2. TypeOK'
    BY <1>0, <1>2, <2>1, SymbolAssumption DEF TypeOK
  <2>3. Phases' /\ StackInSourceOrder' /\ ErrorIsAhead' /\ LeadingIsExact' /\ WithinCapacity'
    BY <1>0, <1>2, <1>4, <2>1 DEF TypeOK, Phases, Running, Started, StackInSourceOrder, Here,
       ErrorIsAhead, LeadingIsExact, WithinCapacity, NULL
  <2>4. StackIsPath' /\ StartIsLeading'
    BY <1>0, <2>1 DEF StackIsPath, StartIsLeading, Started
  <2>5. PopsStayOnStack'
    <3>1. (RealBelow(0))' = {}
      BY DEF RealBelow
    <3>2. Cardinality((RealBelow(0))') = 0
      BY <3>1, FS_EmptySet
    <3>3. states'[0] = StartState
      BY <2>1
    <3>4. Height[states'[0]] = 0
      BY <3>3, HeightAssumption
    <3> QED BY <1>0, <2>1, <3>2, <3>4 DEF PopsStayOnStack
  <2>6. RootThenAccept' /\ ValuesOwned' /\ HandedOnce'
    BY <1>0, <2>1, RootAssumption
       DEF RootThenAccept, ValuesOwned, HandedOnce, Running, OnStack, Top, accepts_end
  <2> QED BY <2>2, <2>3, <2>4, <2>5, <2>6
<1> QED BY <1>1, <1>3, <1>4

(* The values on the stack are distinct, so a value is handed over once    *)
(* for each time its cell is.                                              *)
LEMMA CountOnce ==
  ASSUME TypeOK, ValuesOwned, NEW K \in SUBSET (1 .. depth), NEW v \in 1 .. issued
  PROVE  Cardinality({i \in K : nodes[i].value = v}) =
           IF \E i \in K : nodes[i].value = v THEN 1 ELSE 0
<1> DEFINE C == {i \in K : nodes[i].value = v}
<1>1. CASE \E i \in K : nodes[i].value = v
  <2>1. PICK i \in K : nodes[i].value = v
    BY <1>1
  <2>0. v # NULL /\ \A j, k \in 1 .. depth :
                      nodes[j].value = nodes[k].value /\ j # k => nodes[j].value = NULL
    BY DEF ValuesOwned, NULL, TypeOK
  <2>2. \A j \in C : j = i
    BY <2>0, <2>1
  <2>3. C = {i}
    BY <2>1, <2>2
  <2> QED BY <1>1, <2>3, FS_Singleton
<1>2. CASE ~\E i \in K : nodes[i].value = v
  <2>1. C = {}
    BY <1>2
  <2> QED BY <1>2, <2>1, FS_EmptySet
<1> QED BY <1>1, <1>2

(* The discard loop hands every value still on the stack over, once.       *)
LEMMA DiscardInv == IInv /\ Discard => IInv'
<1> SUFFICES ASSUME IInv, Discard PROVE IInv'
  OBVIOUS
<1> USE DEF IInv, Discard, stackvars, lexvars, outvars
<1>1. error' = error /\ error.kind # "none" /\ ~root_emitted
  BY DEF Phases, RootThenAccept
<1>2. 1 .. depth \in SUBSET (1 .. depth)
  OBVIOUS
<1>3. \A v \in 1 .. issued : handed'[v] = handed[v] + (IF OnStack(v) THEN 1 ELSE 0)
  BY <1>2, CountOnce DEF OnStack
<1>4. \A v \in 1 .. issued : handed[v] \in Nat /\ handed'[v] \in Nat /\ handed'[v] <= 1
  <2>1. \A v \in 1 .. issued : handed[v] \in Nat
    BY DEF TypeOK
  <2>2. \A v \in 1 .. issued : /\ OnStack(v) => handed[v] = 0
                               /\ ~OnStack(v) => handed[v] = 0 \/ handed[v] = 1
    BY <1>1 DEF ValuesOwned
  <2> QED BY <1>3, <2>1, <2>2
<1>5. TypeOK'
  <2>1. handed' \in [1 .. issued -> Nat]
    BY <1>4 DEF TypeOK
  <2> QED BY <2>1 DEF TypeOK
<1>6. Phases' /\ StackInSourceOrder' /\ ErrorIsAhead' /\ LeadingIsExact' /\ WithinCapacity'
  BY <1>1 DEF TypeOK, Phases, Running, Started, StackInSourceOrder, Here, ErrorIsAhead,
              LeadingIsExact, WithinCapacity
<1>7. StackIsPath' /\ PopsStayOnStack' /\ StartIsLeading'
  BY <1>1 DEF StackIsPath, PopsStayOnStack, StartIsLeading, Started, RealBelow
<1>8. error.kind # "oom" => \A v \in 1 .. issued : handed'[v] = 1
  <2>1. error.kind # "oom" => \A v \in 1 .. issued : handed[v] = IF OnStack(v) THEN 0 ELSE 1
    BY <1>1 DEF ValuesOwned
  <2> QED BY <1>3, <2>1
<1>9. RootThenAccept' /\ HandedOnce'
  BY <1>1, <1>4 DEF RootThenAccept, HandedOnce, Running
<1>10. ValuesOwned'
  <2>1. issued' = issued /\ depth' = depth /\ nodes' = nodes /\ pc' = "done" /\ ~root_emitted'
    BY <1>1
  <2> HIDE DEF Discard
  <2> QED BY <1>1, <1>8, <2>1 DEF ValuesOwned
<1> QED BY <1>9, <1>10, <1>5, <1>6, <1>7, <1>8

(* Accepting takes the root from above the leading extras.                 *)
LEMMA AcceptInv ==
  ASSUME IInv, pc \in {"act", "split"}, NEW a \in tf_actions(Top, token.symbol), Accept(a)
  PROVE  IInv'
<1> USE DEF IInv, Accept, lexvars, stackvars, sinkvars
<1>1. Top \in State /\ token.symbol \in Terminal
  BY DEF Top, TypeOK, Token
<1>2. token.symbol = End /\ tf_count(Top, End) = 1
  BY <1>1, AcceptAssumption
<1>3. accepts_end(Top)
  BY <1>2 DEF accepts_end, tf_actions
<1>4. root_emitted /\ error.kind = "none" /\ leading < depth /\ error' = error
  BY <1>2, <1>3 DEF RootThenAccept, GoesOn, Running
<1>5. root' = nodes[leading + 1].value /\ root' \in Nat
  BY <1>4 DEF TypeOK, Cell
<1>6. TypeOK'
  BY <1>5 DEF TypeOK
<1>7. Phases' /\ StackInSourceOrder' /\ ErrorIsAhead'
  BY <1>4 DEF TypeOK, Phases, Running, Started, StackInSourceOrder, Here, ErrorIsAhead
<1>8. RootThenAccept' /\ ValuesOwned'
  BY <1>4, <1>5 DEF RootThenAccept, ValuesOwned, Running, OnStack
<1> QED BY <1>4, <1>6, <1>7, <1>8, FrameInv

-----------------------------------------------------------------------------
(* Shifting.                                                               *)

(* Where there is something to shift or reduce the root is still to come. *)
LEMMA NotYetRoot ==
  ASSUME IInv, pc \in {"act", "split"}, NEW a \in tf_actions(Top, token.symbol), a.type # "accept"
  PROVE  /\ ~root_emitted /\ (accepts_end(Top) => GoesOn(Top))
         /\ error.kind = "none" /\ Started /\ root = NULL
         /\ a \in Action /\ Top \in State /\ token.symbol \in Terminal
<1>1. Top \in State /\ token.symbol \in Terminal
  BY DEF IInv, TypeOK, Token, Top
<1>2. ~root_emitted
  <2> SUFFICES ASSUME root_emitted PROVE FALSE
    OBVIOUS
  <2>1. accepts_end(Top) /\ token.symbol = End
    BY DEF IInv, RootThenAccept, Running
  <2> QED BY <2>1 DEF accepts_end, tf_actions
<1>3. (accepts_end(Top) => GoesOn(Top)) /\ error.kind = "none" /\ Started /\ root = NULL
  BY <1>2 DEF IInv, RootThenAccept, Running, Phases
<1> QED BY <1>1, <1>2, <1>3, ActionTyped

(* tf_parser__shift preserves IInv, whether or not there was memory.       *)
LEMMA ShiftInv ==
  ASSUME IInv, pc \in {"act", "split"}, NEW a \in tf_actions(Top, token.symbol), Shift(a)
  PROVE  IInv'
<1> DEFINE next == IF a.extra THEN Top ELSE a.state
<1>a. /\ TypeOK /\ Phases /\ StackIsPath /\ PopsStayOnStack /\ LeadingIsExact /\ StartIsLeading
      /\ WithinCapacity /\ StackInSourceOrder /\ ErrorIsAhead /\ RootThenAccept /\ ValuesOwned
      /\ HandedOnce
  BY DEF IInv
<1>0. a.type = "shift" /\ tf_parser__shift(token, a.extra, next, "lex")
  BY DEF Shift
<1>1. /\ ~root_emitted /\ (accepts_end(Top) => GoesOn(Top))
      /\ error.kind = "none" /\ Started /\ root = NULL
      /\ a \in Action /\ Top \in State /\ token.symbol \in Terminal
  BY <1>0, NotYetRoot
<1> USE <1>a
<1>2. /\ next \in State /\ ~accepts_end(next)
      /\ next = StartState <=> a.extra /\ Top = StartState
  <2>1. ~a.extra => a.state # StartState /\ ~accepts_end(a.state)
    BY <1>0, <1>1, RootAssumption
  <2>2. a.state \in State /\ a.extra \in BOOLEAN
    BY <1>1 DEF Action
  <2>3. a.extra => ~accepts_end(Top)
    BY <1>0, <1>1 DEF GoesOn, shifts_extra
  <2> QED BY <1>1, <2>1, <2>2, <2>3
<1>3. Height[next] \in Nat /\ Height[Top] \in Nat
      /\ Height[next] <= Height[Top] + (IF a.extra THEN 0 ELSE 1)
  <2>1. ~a.extra => Height[a.state] <= Height[Top] + 1
    BY <1>0, <1>1, HeightAssumption
  <2>2. Height \in [State -> Nat]
    BY HeightAssumption
  <2> QED BY <1>1, <1>2, <2>1, <2>2
<1> HIDE DEF next
<1>4. PICK returns \in Returns[token.symbol] :
        LET value == IF returns THEN issued + 1 ELSE NULL
            cell  == [symbol |-> token.symbol, extra |-> a.extra, start |-> token.start,
                      end |-> token.end, value |-> value]
        IN  /\ Emit(IF returns THEN 1 ELSE 0)
            /\ leading' = IF a.extra /\ depth = leading THEN leading + 1 ELSE leading
            /\ \E cap \in tf_parser__grow(capacity, depth + 1) :
                 \/ /\ cap = 0
                    /\ tf_parser__fail("oom", token.start)
                    /\ UNCHANGED <<depth, nodes, states, capacity>>
                 \/ /\ cap # 0
                    /\ capacity' = cap
                    /\ depth' = depth + 1
                    /\ nodes' = [i \in 1 .. depth + 1 |-> IF i <= depth THEN nodes[i] ELSE cell]
                    /\ states' = [i \in 0 .. depth + 1 |-> IF i <= depth THEN states[i] ELSE next]
                    /\ pc' = "lex"
                    /\ UNCHANGED error
            /\ UNCHANGED <<lexvars, root_emitted, root, split_count>>
  BY <1>0 DEF tf_parser__shift, CountLeading
<1> DEFINE new   == IF returns THEN 1 ELSE 0
           value == IF returns THEN issued + 1 ELSE NULL
           cell  == [symbol |-> token.symbol, extra |-> a.extra, start |-> token.start,
                     end |-> token.end, value |-> value]
<1>5. /\ depth \in Nat /\ capacity \in Nat /\ leading \in Nat /\ issued \in Nat
      /\ token.start \in Nat /\ token.end \in Nat /\ a.extra \in BOOLEAN
      /\ leading <= depth /\ new \in {0, 1} /\ value \in {0, issued + 1}
      /\ value = issued + 1 <=> new = 1
  BY <1>1 DEF TypeOK, Token, Action, LeadingIsExact, NULL
<1>6. cell \in Cell
  BY <1>1, <1>5 DEF Cell, Symbol
<1>7. /\ issued' = issued + new
      /\ handed' = [v \in 1 .. issued + new |-> IF v > issued THEN 0 ELSE handed[v]]
  <2>1. Cardinality({}) = 0
    BY FS_EmptySet
  <2>2. \A v : {i \in {} : nodes[i].value = v} = {}
    OBVIOUS
  <2>3. \A v \in 1 .. issued : handed[v] \in Nat
    BY DEF TypeOK
  <2>4. /\ issued' = issued + new
        /\ handed' = [v \in 1 .. issued + new |->
                        IF v > issued THEN (IF v \in {} THEN 1 ELSE 0)
                        ELSE handed[v] + Cardinality({i \in {} : nodes[i].value = v})]
    BY <1>4 DEF Emit, EmitHanding
  <2> QED BY <1>5, <2>1, <2>2, <2>3, <2>4
<1>8. /\ issued' \in Nat /\ handed' \in [1 .. issued' -> Nat]
      /\ \A v \in 1 .. issued' : handed'[v] <= 1
      /\ \A v \in 1 .. issued' : handed'[v] = IF v > issued THEN 0 ELSE handed[v]
      /\ leading' = IF a.extra /\ depth = leading THEN leading + 1 ELSE leading
      /\ leading' \in Nat
  BY <1>4, <1>5, <1>7 DEF TypeOK, HandedOnce
<1>9. PICK cap \in tf_parser__grow(capacity, depth + 1) :
        \/ /\ cap = 0
           /\ tf_parser__fail("oom", token.start)
           /\ UNCHANGED <<depth, nodes, states, capacity>>
        \/ /\ cap # 0
           /\ capacity' = cap
           /\ depth' = depth + 1
           /\ nodes' = [i \in 1 .. depth + 1 |-> IF i <= depth THEN nodes[i] ELSE cell]
           /\ states' = [i \in 0 .. depth + 1 |-> IF i <= depth THEN states[i] ELSE next]
           /\ pc' = "lex"
           /\ UNCHANGED error
  BY <1>4
<1>10. UNCHANGED <<lexvars, root_emitted, root, split_count>>
  BY <1>4
<1> HIDE DEF new, value
<1>11. CASE cap = 0
  <2>0. /\ tf_parser__fail("oom", token.start) /\ UNCHANGED <<depth, nodes, states, capacity>>
    BY <1>9, <1>11
  <2>1. error' \in Error /\ error'.kind = "oom" /\ pc' = "fail"
    BY <1>5, <2>0 DEF tf_parser__fail, Error
  <2> USE DEF lexvars
  <2>2. TypeOK'
    BY <1>8, <1>10, <2>0, <2>1 DEF TypeOK
  <2>3. Phases' /\ StackInSourceOrder' /\ ErrorIsAhead' /\ LeadingIsExact' /\ WithinCapacity'
    BY <1>1, <1>10, <2>0, <2>1 DEF TypeOK, Phases, Running, Started, StackInSourceOrder, Here,
       ErrorIsAhead, LeadingIsExact, WithinCapacity
  <2>4. StackIsPath' /\ PopsStayOnStack' /\ StartIsLeading'
    BY <2>0, <2>1 DEF StackIsPath, PopsStayOnStack, StartIsLeading, Started, RealBelow
  <2>5. RootThenAccept' /\ HandedOnce'
    BY <1>1, <1>8, <1>10, <2>1 DEF RootThenAccept, HandedOnce, Running
  <2>6. ValuesOwned'
    <3>1. \A i \in 1 .. depth : nodes[i].value \in Nat /\ nodes[i].value <= issued
      BY DEF TypeOK, Cell, ValuesOwned
    <3>2. \A i \in 1 .. depth : nodes'[i].value <= issued'
      BY <1>5, <1>7, <2>0, <3>1
    <3>3. \A v \in 1 .. issued' : (OnStack(v))' => v <= issued
      BY <2>0, <3>1 DEF OnStack
    <3>4. \A v \in 1 .. issued : /\ OnStack(v) => handed[v] = 0
                                 /\ ~OnStack(v) => handed[v] = 1
                                 /\ handed[v] = handed'[v]
                                 /\ (OnStack(v))' <=> OnStack(v)
      <4>1. \A v \in 1 .. issued : (OnStack(v))' <=> OnStack(v)
        BY <2>0 DEF OnStack
      <4>2. \A v \in 1 .. issued : handed[v] = handed'[v]
        BY <1>5, <1>7, <1>8
      <4> QED BY <1>1, <4>1, <4>2 DEF ValuesOwned
    <3>5. \A v \in 1 .. issued' : IF (OnStack(v))' THEN handed'[v] = 0
                                  ELSE handed'[v] = 1 \/ handed'[v] = 0
      BY <1>5, <1>8, <3>3, <3>4
    <3> QED BY <1>1, <1>10, <2>0, <2>1, <3>2, <3>5 DEF ValuesOwned
  <2> QED BY <2>2, <2>3, <2>4, <2>5, <2>6 DEF IInv
<1>12. CASE cap # 0
  <2>0. /\ capacity' = cap /\ cap \in Nat /\ cap >= depth + 1
        /\ depth' = depth + 1
        /\ nodes' = [i \in 1 .. depth + 1 |-> IF i <= depth THEN nodes[i] ELSE cell]
        /\ states' = [i \in 0 .. depth + 1 |-> IF i <= depth THEN states[i] ELSE next]
        /\ pc' = "lex" /\ error' = error
    BY <1>5, <1>9, <1>12, GrowFits
  <2>1. /\ cell.symbol = token.symbol /\ cell.extra = a.extra /\ cell.start = token.start
        /\ cell.end = token.end /\ cell.value = value
    OBVIOUS
  <2> HIDE DEF cell
  <2>2. /\ \A i \in 1 .. depth : nodes'[i] = nodes[i] /\ i \in 1 .. depth'
        /\ nodes'[depth + 1] = cell
        /\ \A i \in 0 .. depth : states'[i] = states[i] /\ i \in 0 .. depth'
        /\ states'[depth + 1] = next
        /\ \A i \in 1 .. depth' : i \in 1 .. depth \/ i = depth + 1
        /\ \A i \in 0 .. depth' : i \in 0 .. depth \/ i = depth + 1
    BY <1>5, <2>0
  <2>3. nodes' \in [1 .. depth' -> Cell] /\ states' \in [0 .. depth' -> State]
    BY <1>2, <1>5, <1>6, <2>0 DEF TypeOK
  <2> USE DEF lexvars
  <2>4. TypeOK'
    <3>1. depth' \in Nat /\ capacity' \in Nat /\ pc' = "lex" /\ error' = error
      BY <1>5, <2>0
    <3> QED BY <1>8, <1>10, <2>3, <3>1 DEF TypeOK
  <2>5. Phases' /\ ErrorIsAhead' /\ WithinCapacity'
    BY <1>1, <1>5, <1>10, <2>0 DEF TypeOK, Phases, Running, Started, ErrorIsAhead, WithinCapacity
  <2>6. StackInSourceOrder'
    <3>1. /\ Here <= token.start /\ token.start <= token.end /\ token.end = byte /\ byte <= size
          /\ depth > 0 => nodes[depth].end <= token.start
      BY <1>5 DEF StackInSourceOrder, Phases, Here
    <3>2. \A i \in 1 .. depth : /\ nodes[i].start \in Nat /\ nodes[i].end \in Nat
                                /\ nodes[i].start <= nodes[i].end
                                /\ nodes[i].end <= nodes[depth].end
      <4>1. \A i \in 1 .. depth : nodes[i].start \in Nat /\ nodes[i].end \in Nat
        BY DEF TypeOK, Cell
      <4>2. /\ \A i \in 1 .. depth : nodes[i].start <= nodes[i].end
            /\ \A i, j \in 1 .. depth : i < j => nodes[i].end <= nodes[j].start
        BY DEF StackInSourceOrder
      <4> QED BY <1>5, <4>1, <4>2
    <3>3. \A i \in 1 .. depth : nodes[i].end <= token.start
      BY <1>5, <3>1, <3>2
    <3>4. \A i \in 1 .. depth' : nodes'[i].start <= nodes'[i].end
      BY <2>1, <2>2, <3>1, <3>2
    <3>5. \A i, j \in 1 .. depth' : i < j => nodes'[i].end <= nodes'[j].start
      <4> SUFFICES ASSUME NEW i \in 1 .. depth', NEW j \in 1 .. depth', i < j
                   PROVE  nodes'[i].end <= nodes'[j].start
        OBVIOUS
      <4>1. i \in 1 .. depth
        BY <1>5, <2>0
      <4>2. CASE j \in 1 .. depth
        BY <2>2, <4>1, <4>2 DEF StackInSourceOrder
      <4>3. CASE j = depth + 1
        BY <2>1, <2>2, <3>3, <4>1, <4>3
      <4> QED BY <2>2, <4>2, <4>3
    <3>6. Here' = token.end
      BY <1>5, <2>0, <2>1, <2>2 DEF Here
    <3>7. pc' = "lex" /\ byte' = byte /\ size' = size /\ Here' <= byte' /\ byte' <= size'
      BY <1>5, <1>10, <2>0, <3>1, <3>6
    <3> QED BY <3>4, <3>5, <3>7 DEF StackInSourceOrder
  <2>7. StackIsPath'
    <3>1. states[0] = StartState /\ \A i \in 1 .. depth : Transition(states[i - 1], nodes[i], states[i])
      BY <1>1 DEF StackIsPath
    <3>2. Transition(Top, cell, next)
      BY <1>0, <1>1, <2>1 DEF Transition, next
    <3>3. \A i \in 1 .. depth' : Transition(states'[i - 1], nodes'[i], states'[i])
      <4> SUFFICES ASSUME NEW i \in 1 .. depth'
                   PROVE  Transition(states'[i - 1], nodes'[i], states'[i])
        OBVIOUS
      <4>1. CASE i \in 1 .. depth
        <5>1. i - 1 \in 0 .. depth /\ i \in 0 .. depth
          BY <1>5, <4>1
        <5> QED BY <2>2, <3>1, <4>1, <5>1
      <4>2. CASE i = depth + 1
        <5>1. i - 1 = depth /\ depth \in 0 .. depth
          BY <1>5, <4>2
        <5> QED BY <2>2, <3>2, <4>2, <5>1 DEF Top
      <4> QED BY <2>2, <4>1, <4>2
    <3>4. states'[0] = StartState
      BY <1>5, <2>2, <3>1
    <3> QED BY <3>3, <3>4 DEF StackIsPath, Transition, tf_actions, tf_action, tf_count, tf_next_state
  <2>8. PopsStayOnStack'
    <3>0. IsFiniteSet(RealBelow(depth)) /\ Cardinality(RealBelow(depth)) \in Nat
          /\ Cardinality(RealBelow(depth)) >= Height[Top]
      <4>1. depth \in 0 .. depth
        BY <1>5
      <4> QED BY <1>1, <4>1, RealFinite DEF PopsStayOnStack, Top
    <3> DEFINE Below(i) == {j \in 1 .. i : ~nodes'[j].extra}
    <3>1. \A i \in 0 .. depth : Below(i) = RealBelow(i)
      BY <1>5, <2>2 DEF RealBelow
    <3>2. Cardinality(Below(depth + 1)) >= Height[next]
      <4>1. CASE a.extra
        <5>0. nodes'[depth + 1].extra
          BY <2>1, <2>2, <4>1
        <5>1. Below(depth + 1) = RealBelow(depth)
          BY <1>5, <2>2, <5>0 DEF RealBelow
        <5> QED BY <1>3, <3>0, <4>1, <5>1
      <4>2. CASE ~a.extra
        <5>1. Below(depth + 1) = RealBelow(depth) \cup {depth + 1} /\ depth + 1 \notin RealBelow(depth)
          BY <1>5, <2>1, <2>2, <4>2 DEF RealBelow
        <5>2. Cardinality(Below(depth + 1)) = Cardinality(RealBelow(depth)) + 1
          BY <3>0, <5>1, FS_AddElement
        <5> QED BY <1>3, <3>0, <4>2, <5>2
      <4> QED BY <4>1, <4>2
    <3>3. \A i \in 0 .. depth' : Cardinality(Below(i)) >= Height[states'[i]]
      <4> HIDE DEF Below
      <4> QED BY <1>1, <2>2, <3>1, <3>2 DEF PopsStayOnStack
    <3> QED BY <3>3 DEF PopsStayOnStack, RealBelow
  <2>9. LeadingIsExact'
    <3>1. /\ \A i \in 1 .. leading : nodes[i].extra
          /\ leading < depth => ~nodes[leading + 1].extra
      BY <1>1 DEF LeadingIsExact
    <3>2. leading' <= depth'
      BY <1>5, <1>8, <2>0
    <3>3. \A i \in 1 .. leading' : nodes'[i].extra
      <4>1. \A i \in 1 .. leading : i \in 1 .. depth
        BY <1>5
      <4>2. \A i \in 1 .. leading : nodes'[i].extra
        BY <2>2, <3>1, <4>1
      <4>3. CASE a.extra /\ depth = leading
        <5>1. nodes'[leading + 1].extra
          BY <2>1, <2>2, <4>3
        <5>2. leading' = leading + 1
          BY <1>8, <4>3
        <5>3. \A i \in 1 .. leading + 1 : i \in 1 .. leading \/ i = leading + 1
          BY <1>5
        <5> QED BY <4>2, <5>1, <5>2, <5>3
      <4>4. CASE ~(a.extra /\ depth = leading)
        BY <1>8, <4>2, <4>4
      <4> QED BY <4>3, <4>4
    <3>4. leading' < depth' => ~nodes'[leading' + 1].extra
      BY <1>5, <1>8, <2>0, <2>1, <2>2, <3>1
    <3> QED BY <3>2, <3>3, <3>4 DEF LeadingIsExact
  <2>10. StartIsLeading'
    <3>1. \A i \in 0 .. depth : states[i] = StartState <=> i <= leading
      BY <1>1 DEF StartIsLeading
    <3>2. Top = StartState <=> depth = leading
      BY <1>5, <3>1 DEF Top
    <3>3. \A i \in 0 .. depth : states'[i] = StartState <=> i <= leading'
      <4>1. \A i \in 0 .. depth : states'[i] = StartState <=> i <= leading
        BY <2>2, <3>1
      <4>2. \A i \in 0 .. depth : i <= leading <=> i <= leading'
        BY <1>5, <1>8
      <4> QED BY <4>1, <4>2
    <3>4. states'[depth + 1] = StartState <=> depth + 1 <= leading'
      BY <1>2, <1>5, <1>8, <2>2, <3>2
    <3> QED BY <2>2, <3>3, <3>4 DEF StartIsLeading
  <2>11. RootThenAccept' /\ HandedOnce'
    <3>1. Top' = next
      BY <2>0, <2>2 DEF Top
    <3>2. ~(accepts_end(Top))'
      BY <1>2, <3>1 DEF accepts_end, tf_count, tf_action
    <3> QED BY <1>1, <1>8, <1>10, <3>2 DEF RootThenAccept, HandedOnce
  <2>12. ValuesOwned'
    <3>1. \A i \in 1 .. depth : nodes[i].value \in Nat /\ nodes[i].value <= issued
      BY DEF TypeOK, Cell, ValuesOwned
    <3>2. \A i \in 1 .. depth' : nodes'[i].value <= issued'
      <4>1. nodes'[depth + 1].value <= issued'
        BY <1>5, <1>7, <2>1, <2>2
      <4>2. \A i \in 1 .. depth : nodes'[i].value <= issued'
        BY <1>5, <1>7, <2>2, <3>1
      <4> QED BY <2>2, <4>1, <4>2
    <3>3. \A i, j \in 1 .. depth' :
            nodes'[i].value = nodes'[j].value /\ i # j => nodes'[i].value = NULL
      <4>1. \A i, j \in 1 .. depth : nodes[i].value = nodes[j].value /\ i # j => nodes[i].value = NULL
        BY DEF ValuesOwned
      <4> QED BY <1>5, <2>1, <2>2, <3>1, <4>1 DEF NULL
    <3>4. \A v \in 1 .. issued : /\ OnStack(v) => handed[v] = 0
                                 /\ ~OnStack(v) => handed[v] = 1
      BY <1>1 DEF ValuesOwned
    <3>5. \A v \in 1 .. issued : /\ handed[v] = handed'[v]
                                 /\ (OnStack(v))' <=> OnStack(v)
      <4>1. \A v \in 1 .. issued : handed[v] = handed'[v] /\ v # value
        BY <1>5, <1>7, <1>8
      <4> QED BY <2>1, <2>2, <4>1 DEF OnStack
    <3>6. \A v \in issued + 1 .. issued' : handed'[v] = 0 /\ (OnStack(v))'
      <4>1. \A v \in issued + 1 .. issued' : handed'[v] = 0 /\ v = value
        BY <1>5, <1>7, <1>8
      <4>2. depth + 1 \in 1 .. depth'
        BY <1>5, <2>0
      <4> QED BY <2>1, <2>2, <4>1, <4>2 DEF OnStack
    <3>7. \A v \in 1 .. issued' : IF (OnStack(v))' THEN handed'[v] = 0 ELSE handed'[v] = 1
      <4>1. \A v \in 1 .. issued' : v \in 1 .. issued \/ v \in issued + 1 .. issued'
        BY <1>5, <1>7
      <4> QED BY <3>4, <3>5, <3>6, <4>1
    <3> QED BY <1>1, <1>10, <2>0, <3>2, <3>3, <3>7 DEF ValuesOwned
  <2> QED BY <2>4, <2>5, <2>6, <2>7, <2>8, <2>9, <2>10, <2>11, <2>12 DEF IInv
<1> QED BY <1>9, <1>11, <1>12

-----------------------------------------------------------------------------
(* Reducing.                                                               *)

(* Where a reduction cuts the stack, and where it leads.  The leading      *)
(* extras are never cut, and an accepting state is entered by the root, or *)
(* in front of a token that leads out of it.                               *)
LEMMA ReduceShape ==
  ASSUME IInv, pc \in {"act", "split"}, NEW a \in tf_actions(Top, token.symbol), a.type = "reduce"
  PROVE  LET base == PopBase(a.child_count)
             end  == PopEnd(a.child_count)
             next == tf_next_state(states[base], a.symbol)
         IN  /\ base \in 0 .. depth /\ end \in 0 .. depth /\ base <= end /\ leading <= base
             /\ base = end => end = depth
             /\ base < end => ~nodes[base + 1].extra
             /\ \A j \in end + 1 .. depth : nodes[j].extra
             /\ next \in State /\ next # StartState
             /\ Height[next] <= Height[states[base]] + 1
             /\ Height[next] \in Nat /\ Height[states[base]] \in Nat
             /\ accepts_end(next) => IsRoot(a, base, token.symbol) \/ GoesOn(next)
<1> DEFINE base == PopBase(a.child_count)
           end  == PopEnd(a.child_count)
           next == tf_next_state(states[base], a.symbol)
<1>0. /\ TypeOK /\ PopsStayOnStack /\ LeadingIsExact /\ StartIsLeading
      /\ depth \in Nat /\ leading \in Nat
  BY DEF IInv, TypeOK
<1>1. /\ error.kind = "none" /\ Started /\ a \in Action /\ Top \in State /\ token.symbol \in Terminal
  BY NotYetRoot
<1>2. a.child_count \in Nat /\ a.symbol \in Nonterminal
  BY <1>1 DEF Action
<1>3. Cardinality(Real(0)) >= a.child_count
  <2>1. a.child_count <= Height[Top] /\ Height[Top] \in Nat
    BY <1>1, HeightAssumption
  <2>2. Cardinality(RealBelow(depth)) >= Height[Top] /\ Cardinality(RealBelow(depth)) \in Nat
    BY <1>0, <1>1, RealFinite DEF PopsStayOnStack, Top
  <2>3. Real(0) = RealBelow(depth)
    BY DEF Real, RealBelow
  <2> QED BY <1>2, <2>1, <2>2, <2>3
<1>4. /\ base \in 0 .. depth
      /\ a.child_count = 0 => base = depth
      /\ a.child_count > 0 => base < depth /\ ~nodes[base + 1].extra
  BY <1>0, <1>2, <1>3, PopBaseExact
<1>5. /\ end \in 0 .. depth /\ base <= end
      /\ \A j \in end + 1 .. depth : nodes[j].extra
      /\ a.child_count = 0 => end = depth
      /\ a.child_count > 0 => base < end
  BY <1>0, <1>2, <1>3, PopEndExact
<1> HIDE DEF base, end
<1>6. /\ base = end => end = depth
      /\ base < end => ~nodes[base + 1].extra
  BY <1>0, <1>2, <1>4, <1>5
<1>7. leading <= base
  <2>1. /\ \A i \in 1 .. leading : nodes[i].extra
        /\ leading <= depth
    BY <1>0, <1>1 DEF LeadingIsExact
  <2> QED BY <1>0, <1>4, <1>5, <1>6, <2>1
<1>8. states[base] \in State
  BY <1>0, <1>4 DEF TypeOK
<1>9. next \in State /\ next # StartState
  BY <1>2, <1>8, TableAssumption, RootAssumption DEF tf_next_state
<1>10. Height[next] <= Height[states[base]] + 1 /\ Height[next] \in Nat /\ Height[states[base]] \in Nat
  BY <1>2, <1>8, <1>9, HeightAssumption DEF tf_next_state
<1>11. ASSUME accepts_end(next) PROVE IsRoot(a, base, token.symbol) \/ GoesOn(next)
  <2>1. states[base] = StartState
    BY <1>2, <1>8, <1>11, RootAssumption DEF tf_next_state
  <2>2. base <= leading
    BY <1>0, <1>1, <1>4, <2>1 DEF StartIsLeading
  <2>3. base = leading
    BY <1>0, <1>4, <1>7, <2>2
  <2>4. CASE token.symbol = End
    BY <1>11, <2>3, <2>4 DEF IsRoot
  <2>5. CASE token.symbol # End
    <3>1. next = Goto[StartState][a.symbol]
      BY <2>1 DEF tf_next_state
    <3>2. \A u \in Becomes(token.symbol) : ~shifts_extra(next, u)
      BY <1>1, <1>11, <2>5, <3>1, RootAssumption
    <3>3. token.symbol \in Becomes(token.symbol)
      BY DEF Becomes
    <3>4. keyword => Word \in Becomes(token.symbol)
      BY DEF IInv, Phases, Becomes
    <3> QED BY <2>5, <3>2, <3>3, <3>4 DEF GoesOn
  <2> QED BY <2>4, <2>5
<1> QED BY <1>4, <1>5, <1>6, <1>7, <1>9, <1>10, <1>11 DEF base, end

(* The stack after the parent has taken the cell at `base`: every          *)
(* invariant of the stack survives the move of the trailing extras.        *)
LEMMA PutParentInv ==
  ASSUME TypeOK, StackIsPath, PopsStayOnStack, LeadingIsExact, StartIsLeading, StackInSourceOrder,
         Started, error.kind = "none",
         NEW base \in 0 .. depth, NEW end \in 0 .. depth, base <= end, leading <= base,
         base = end => end = depth,
         \A j \in end + 1 .. depth : nodes[j].extra,
         NEW parent \in Cell, parent.extra = FALSE, parent.symbol \in Nonterminal,
         parent.start = (IF base < end THEN nodes[base + 1].start ELSE Here),
         parent.end = (IF base < end THEN nodes[end].end ELSE Here),
         NEW next \in State, next = tf_next_state(states[base], parent.symbol), next # StartState,
         Height[next] <= Height[states[base]] + 1,
         Height[next] \in Nat, Height[states[base]] \in Nat,
         PutParent(parent, base, end, next), leading' = leading, Started', error' = error
  PROVE  /\ depth' = base + 1 + (depth - end) /\ depth' \in Nat
         /\ nodes' \in [1 .. depth' -> Cell] /\ states' \in [0 .. depth' -> State]
         /\ \A i \in 1 .. base : nodes'[i] = nodes[i]
         /\ nodes'[base + 1] = parent
         /\ \A i \in base + 2 .. depth' : /\ i - (base + 1) + end \in end + 1 .. depth
                                          /\ nodes'[i] = nodes[i - (base + 1) + end]
         /\ Top' = next /\ Here' = Here
         /\ StackIsPath' /\ PopsStayOnStack' /\ LeadingIsExact' /\ StartIsLeading'
         /\ \A i \in 1 .. depth' : nodes'[i].start <= nodes'[i].end
         /\ \A i, j \in 1 .. depth' : i < j => nodes'[i].end <= nodes'[j].start
<1>0. depth \in Nat /\ leading \in Nat
  BY DEF TypeOK
<1>1. /\ depth' = base + 1 + (depth - end) /\ depth' \in Nat
      /\ nodes' = [i \in 1 .. depth' |-> IF i <= base THEN nodes[i]
                                         ELSE IF i = base + 1 THEN parent
                                         ELSE nodes[i - (base + 1) + end]]
      /\ states' = [i \in 0 .. depth' |-> IF i <= base THEN states[i] ELSE next]
  BY <1>0 DEF PutParent
<1>d. depth' = base + 1 + (depth - end) /\ depth' \in Nat
  BY <1>1
<1>2. /\ \A i \in 1 .. base : nodes'[i] = nodes[i]
      /\ nodes'[base + 1] = parent
      /\ \A i \in base + 2 .. depth' : /\ i - (base + 1) + end \in end + 1 .. depth
                                       /\ nodes'[i] = nodes[i - (base + 1) + end]
      /\ \A i \in 0 .. base : states'[i] = states[i]
      /\ \A i \in base + 1 .. depth' : states'[i] = next
  BY <1>0, <1>1
<1>3. \A i \in 1 .. depth' : i \in 1 .. base \/ i = base + 1 \/ i \in base + 2 .. depth'
  BY <1>0, <1>1
<1>4. nodes' \in [1 .. depth' -> Cell]
  <2>1. \A i \in 1 .. depth' : nodes'[i] \in Cell
    BY <1>0, <1>2, <1>3 DEF TypeOK
  <2> QED BY <1>1, <2>1
<1>5. states' \in [0 .. depth' -> State]
  <2>1. \A i \in 0 .. depth' : states'[i] \in State
    BY <1>0, <1>1, <1>2 DEF TypeOK
  <2> QED BY <1>1, <2>1
<1>6. \A i \in base + 2 .. depth' : nodes'[i].extra
  BY <1>2
<1>7. Top' = next
  BY <1>0, <1>1, <1>2 DEF Top
<1>8. StackIsPath'
  <2>1. states[0] = StartState /\ \A i \in 1 .. depth : Transition(states[i - 1], nodes[i], states[i])
    BY DEF StackIsPath
  <2>2. states'[0] = StartState
    BY <1>0, <1>2, <2>1
  <2>3. \A i \in 1 .. depth' : Transition(states'[i - 1], nodes'[i], states'[i])
    <3> SUFFICES ASSUME NEW i \in 1 .. depth'
                 PROVE  Transition(states'[i - 1], nodes'[i], states'[i])
      OBVIOUS
    <3>1. CASE i \in 1 .. base
      <4>1. i - 1 \in 0 .. base /\ i \in 0 .. base /\ i \in 1 .. depth
        BY <1>0, <3>1
      <4> QED BY <1>2, <2>1, <3>1, <4>1
    <3>2. CASE i = base + 1
      <4>0. i - 1 = base /\ base \in 0 .. base /\ i \in base + 1 .. depth'
        BY <1>0, <3>2
      <4>1. states'[i - 1] = states[base] /\ nodes'[i] = parent /\ states'[i] = next
        BY <1>2, <3>2, <4>0
      <4> QED BY <4>1, SymbolAssumption DEF Transition
    <3>3. CASE i \in base + 2 .. depth'
      <4>1. states'[i - 1] = next /\ states'[i] = next /\ nodes'[i].extra
        <5>1. i - 1 \in base + 1 .. depth' /\ i \in base + 1 .. depth'
          BY <1>0, <1>d, <3>3
        <5> QED BY <1>2, <1>6, <3>3, <5>1
      <4> QED BY <4>1 DEF Transition
    <3> QED BY <1>3, <3>1, <3>2, <3>3
  <2> QED BY <2>2, <2>3 DEF StackIsPath, Transition, tf_actions, tf_action, tf_count, tf_next_state
<1>9. PopsStayOnStack'
  <2> DEFINE Below(i) == {j \in 1 .. i : ~nodes'[j].extra}
  <2>1. \A i \in 0 .. base : Below(i) = RealBelow(i)
    BY <1>0, <1>2 DEF RealBelow
  <2>2. \A i \in base + 1 .. depth' : Below(i) = RealBelow(base) \cup {base + 1}
    <3> SUFFICES ASSUME NEW i \in base + 1 .. depth'
                 PROVE  \A j : j \in Below(i) <=> j \in RealBelow(base) \/ j = base + 1
      OBVIOUS
    <3>1. \A j \in 1 .. i : j \in 1 .. base \/ j = base + 1 \/ j \in base + 2 .. depth'
      BY <1>0, <1>1
    <3>2. \A j \in 1 .. base : j \in 1 .. i /\ (~nodes'[j].extra <=> j \in RealBelow(base))
      BY <1>0, <1>2 DEF RealBelow
    <3>3. base + 1 \in 1 .. i /\ ~nodes'[base + 1].extra
      BY <1>0, <1>2
    <3>4. RealBelow(base) \subseteq 1 .. base
      BY DEF RealBelow
    <3> QED BY <1>6, <3>1, <3>2, <3>3, <3>4
  <2>3. /\ IsFiniteSet(RealBelow(base)) /\ Cardinality(RealBelow(base)) \in Nat
        /\ base + 1 \notin RealBelow(base)
        /\ Cardinality(RealBelow(base)) >= Height[states[base]]
    BY RealFinite DEF PopsStayOnStack, RealBelow
  <2>4. Cardinality(RealBelow(base) \cup {base + 1}) >= Height[next]
    <3>1. Cardinality(RealBelow(base) \cup {base + 1}) = Cardinality(RealBelow(base)) + 1
      BY <2>3, FS_AddElement
    <3> QED BY <2>3, <3>1
  <2>5. \A i \in 0 .. depth' : Cardinality(Below(i)) >= Height[states'[i]]
    <3> HIDE DEF Below
    <3> SUFFICES ASSUME NEW i \in 0 .. depth' PROVE Cardinality(Below(i)) >= Height[states'[i]]
      OBVIOUS
    <3>1. CASE i \in 0 .. base
      <4>1. i \in 0 .. depth
        BY <1>0, <3>1
      <4> QED BY <1>2, <2>1, <3>1, <4>1 DEF PopsStayOnStack
    <3>2. CASE i \in base + 1 .. depth'
      BY <1>2, <2>2, <2>4, <3>2
    <3> QED BY <1>0, <3>1, <3>2
  <2> QED BY <2>5 DEF PopsStayOnStack, RealBelow
<1>10. LeadingIsExact'
  <2>1. /\ \A i \in 1 .. leading : nodes[i].extra
        /\ leading < depth => ~nodes[leading + 1].extra
    BY DEF LeadingIsExact
  <2>2. leading' <= depth'
    BY <1>0, <1>1
  <2>3. \A i \in 1 .. leading' : nodes'[i].extra
    BY <1>0, <1>2, <2>1
  <2>4. ~nodes'[leading' + 1].extra
    <3>1. CASE leading = base
      BY <1>2, <3>1
    <3>2. CASE leading < base
      BY <1>0, <1>2, <2>1, <3>2
    <3> QED BY <1>0, <3>1, <3>2
  <2> QED BY <2>2, <2>3, <2>4 DEF LeadingIsExact
<1>11. StartIsLeading'
  <2>1. \A i \in 0 .. depth : states[i] = StartState <=> i <= leading
    BY DEF StartIsLeading
  <2>2. \A i \in 0 .. base : states'[i] = StartState <=> i <= leading'
    BY <1>0, <1>2, <2>1
  <2>3. \A i \in base + 1 .. depth' : states'[i] # StartState /\ ~(i <= leading')
    BY <1>0, <1>2
  <2>4. \A i \in 0 .. depth' : i \in 0 .. base \/ i \in base + 1 .. depth'
    BY <1>0, <1>1
  <2> QED BY <2>2, <2>3, <2>4 DEF StartIsLeading
<1>12. /\ Here' = Here
       /\ \A i \in 1 .. depth' : nodes'[i].start <= nodes'[i].end
       /\ \A i, j \in 1 .. depth' : i < j => nodes'[i].end <= nodes'[j].start
  <2>1. /\ \A i \in 1 .. depth : /\ nodes[i].start \in Nat /\ nodes[i].end \in Nat
                                 /\ nodes[i].start <= nodes[i].end
        /\ \A i, j \in 1 .. depth : i < j => nodes[i].end <= nodes[j].start
        /\ Here \in Nat
    <3>1. \A i \in 1 .. depth : nodes[i].start \in Nat /\ nodes[i].end \in Nat
      BY DEF TypeOK, Cell
    <3> QED BY <1>0, <3>1 DEF StackInSourceOrder, Here
  <2>2. \A i, j \in 1 .. depth : i <= j => nodes[i].end <= nodes[j].end /\ nodes[i].start <= nodes[j].end
    BY <1>0, <2>1
  <2>3. \A i \in 1 .. depth : nodes[i].end <= Here
    BY <1>0, <2>2 DEF Here
  <2>4. /\ parent.start <= parent.end
        /\ \A i \in 1 .. base : nodes[i].end <= parent.start
        /\ \A j \in end + 1 .. depth : parent.end <= nodes[j].start
    <3>1. CASE base < end
      BY <1>0, <2>1, <2>2, <3>1
    <3>2. CASE ~(base < end)
      <4>1. base = depth /\ end = depth /\ parent.start = Here /\ parent.end = Here
        BY <1>0, <3>2
      <4> QED BY <1>0, <2>1, <2>3, <4>1
    <3> QED BY <3>1, <3>2
  <2>5. Here' = Here
    <3>1. depth' > 0 /\ Here' = nodes'[depth'].end
      BY <1>0, <1>1 DEF Here
    <3>2. CASE end = depth
      <4>1. depth' = base + 1 /\ nodes'[depth'] = parent
        BY <1>0, <1>1, <1>2, <3>2
      <4> QED BY <1>0, <3>1, <3>2, <4>1 DEF Here
    <3>3. CASE end < depth
      <4>1. depth' \in base + 2 .. depth' /\ depth' - (base + 1) + end = depth
        BY <1>0, <1>1, <3>3
      <4>2. nodes'[depth'] = nodes[depth]
        BY <1>2, <4>1
      <4> QED BY <1>0, <3>1, <3>3, <4>2 DEF Here
    <3> QED BY <1>0, <3>2, <3>3
  <2>6. \A i \in 1 .. depth' : nodes'[i].start <= nodes'[i].end
    <3> SUFFICES ASSUME NEW i \in 1 .. depth' PROVE nodes'[i].start <= nodes'[i].end
      OBVIOUS
    <3>1. CASE i \in 1 .. base
      BY <1>0, <1>2, <2>1, <3>1
    <3>2. CASE i = base + 1
      BY <1>2, <2>4, <3>2
    <3>3. CASE i \in base + 2 .. depth'
      BY <1>0, <1>2, <2>1, <3>3
    <3> QED BY <1>3, <3>1, <3>2, <3>3
  <2>7. \A i, j \in 1 .. depth' : i < j => nodes'[i].end <= nodes'[j].start
    <3> SUFFICES ASSUME NEW i \in 1 .. depth', NEW j \in 1 .. depth', i < j
                 PROVE  nodes'[i].end <= nodes'[j].start
      OBVIOUS
    <3>1. CASE i \in 1 .. base /\ j \in 1 .. base
      BY <1>0, <1>2, <2>1, <3>1
    <3>2. CASE i \in 1 .. base /\ j = base + 1
      BY <1>2, <2>4, <3>2
    <3>3. CASE i \in 1 .. base /\ j \in base + 2 .. depth'
      <4>1. /\ i \in 1 .. depth /\ j - (base + 1) + end \in 1 .. depth /\ i < j - (base + 1) + end
        BY <1>0, <1>d, <3>3
      <4> QED BY <1>2, <2>1, <3>3, <4>1
    <3>4. CASE i = base + 1 /\ j \in base + 2 .. depth'
      BY <1>2, <2>4, <3>4
    <3>5. CASE i \in base + 2 .. depth' /\ j \in base + 2 .. depth'
      <4>1. /\ i - (base + 1) + end \in 1 .. depth /\ j - (base + 1) + end \in 1 .. depth
            /\ i - (base + 1) + end < j - (base + 1) + end
        BY <1>0, <1>d, <3>5
      <4> QED BY <1>2, <2>1, <3>5, <4>1
    <3> QED BY <1>0, <1>3, <3>1, <3>2, <3>3, <3>4, <3>5
  <2> QED BY <2>5, <2>6, <2>7
<1> QED BY <1>1, <1>2, <1>4, <1>5, <1>7, <1>8, <1>9, <1>10, <1>11, <1>12

(* The parent's cell, and its place in the source. *)
LEMMA ParentTyped ==
  ASSUME TypeOK, NEW a \in Action, NEW base \in 0 .. depth, NEW end \in 0 .. depth, NEW value \in Nat
  PROVE  LET parent == ParentCell(a, base, end, value)
         IN  /\ parent \in Cell /\ parent.extra = FALSE /\ parent.symbol = a.symbol
             /\ parent.symbol \in Nonterminal /\ parent.value = value
             /\ parent.start = (IF base < end THEN nodes[base + 1].start ELSE Here)
             /\ parent.end = (IF base < end THEN nodes[end].end ELSE Here)
<1>0. depth \in Nat /\ a.symbol \in Nonterminal
  BY DEF TypeOK, Action
<1>1. \A i \in 1 .. depth : nodes[i].start \in Nat /\ nodes[i].end \in Nat
  BY DEF TypeOK, Cell
<1>2. Here \in Nat
  BY <1>0, <1>1 DEF Here
<1>3. /\ (IF base < end THEN nodes[base + 1].start ELSE Here) \in Nat
      /\ (IF base < end THEN nodes[end].end ELSE Here) \in Nat
  BY <1>0, <1>1, <1>2
<1> QED BY <1>0, <1>3 DEF ParentCell, Cell, Symbol

(* Values below a reduction that has been handed to the sink: the children *)
(* are spent, the parent is new, and nobody else is touched.               *)
LEMMA HandOver ==
  ASSUME TypeOK, ValuesOwned, HandedOnce, pc # "done", ~root_emitted, error.kind = "none",
         NEW new \in 0 .. 2, NEW K \in SUBSET (1 .. depth), NEW own \in SUBSET Nat,
         EmitHanding(new, K, own)
  PROVE  /\ issued' = issued + new /\ issued' \in Nat
         /\ handed' \in [1 .. issued' -> Nat]
         /\ HandedOnce'
         /\ \A v \in 1 .. issued :
              handed'[v] = IF OnStack(v) /\ ~\E i \in K : nodes[i].value = v THEN 0 ELSE 1
         /\ \A v \in issued + 1 .. issued' : handed'[v] = IF v \in own THEN 1 ELSE 0
<1>0. issued \in Nat /\ depth \in Nat
  BY DEF TypeOK
<1>1. /\ issued' = issued + new /\ issued' \in Nat
      /\ handed' = [v \in 1 .. issued' |->
                      IF v > issued THEN (IF v \in own THEN 1 ELSE 0)
                      ELSE handed[v] + Cardinality({i \in K : nodes[i].value = v})]
  BY <1>0 DEF EmitHanding
<1>2. \A v \in 1 .. issued : handed[v] = IF OnStack(v) THEN 0 ELSE 1
  BY DEF ValuesOwned
<1>3. \A v \in 1 .. issued : (\E i \in K : nodes[i].value = v) => OnStack(v)
  BY DEF OnStack
<1>4. \A v \in 1 .. issued :
        handed'[v] = handed[v] + (IF \E i \in K : nodes[i].value = v THEN 1 ELSE 0)
  <2> SUFFICES ASSUME NEW v \in 1 .. issued
               PROVE  handed'[v] = handed[v] + (IF \E i \in K : nodes[i].value = v THEN 1 ELSE 0)
    OBVIOUS
  <2>1. v \in 1 .. issued' /\ ~(v > issued)
    BY <1>0, <1>1
  <2>2. handed'[v] = handed[v] + Cardinality({i \in K : nodes[i].value = v})
    BY <1>1, <2>1
  <2> QED BY <2>2, CountOnce
<1>5. \A v \in 1 .. issued :
        handed'[v] = IF OnStack(v) /\ ~\E i \in K : nodes[i].value = v THEN 0 ELSE 1
  <2> SUFFICES ASSUME NEW v \in 1 .. issued
               PROVE  handed'[v] = IF OnStack(v) /\ ~\E i \in K : nodes[i].value = v THEN 0 ELSE 1
    OBVIOUS
  <2> DEFINE taken == \E i \in K : nodes[i].value = v
  <2>1. /\ handed[v] = IF OnStack(v) THEN 0 ELSE 1
        /\ taken => OnStack(v)
        /\ handed'[v] = handed[v] + (IF taken THEN 1 ELSE 0)
    BY <1>2, <1>3, <1>4
  <2> HIDE DEF taken
  <2>2. handed'[v] = IF OnStack(v) /\ ~taken THEN 0 ELSE 1
    BY <2>1
  <2> QED BY <2>2 DEF taken
<1>6. \A v \in issued + 1 .. issued' : handed'[v] = IF v \in own THEN 1 ELSE 0
  BY <1>0, <1>1
<1>7. \A v \in 1 .. issued' : handed'[v] \in {0, 1}
  <2>1. \A v \in 1 .. issued' : v \in 1 .. issued \/ v \in issued + 1 .. issued'
    BY <1>0, <1>1
  <2> QED BY <1>5, <1>6, <2>1
<1>8. handed' \in [1 .. issued' -> Nat] /\ HandedOnce'
  BY <1>1, <1>7 DEF HandedOnce
<1> QED BY <1>1, <1>5, <1>6, <1>8

(* A new value in the parent's cell leaves the stack's values distinct. *)
LEMMA DistinctValues ==
  ASSUME TypeOK, ValuesOwned, NEW base \in 0 .. depth, NEW end \in 0 .. depth, base <= end,
         depth' = base + 1 + (depth - end),
         \A i \in 1 .. base : nodes'[i] = nodes[i],
         \A i \in base + 2 .. depth' : /\ i - (base + 1) + end \in end + 1 .. depth
                                       /\ nodes'[i] = nodes[i - (base + 1) + end],
         NEW top \in Nat, issued <= top, NEW value \in Nat, nodes'[base + 1].value = value,
         value = NULL \/ (issued < value /\ value <= top)
  PROVE  /\ \A i \in 1 .. depth' : nodes'[i].value <= top
         /\ \A i, j \in 1 .. depth' :
              nodes'[i].value = nodes'[j].value /\ i # j => nodes'[i].value = NULL
<1> DEFINE Old(i) == IF i <= base THEN i ELSE i - (base + 1) + end
           Kept == {i \in 1 .. depth' : i # base + 1}
<1>0. base \in Nat /\ end \in Nat /\ depth \in Nat /\ issued \in Nat
  BY DEF TypeOK
<1>1. \A i \in Kept : Old(i) \in 1 .. depth /\ nodes'[i] = nodes[Old(i)] /\ i \in 1 .. depth'
  <2> SUFFICES ASSUME NEW i \in Kept
               PROVE  Old(i) \in 1 .. depth /\ nodes'[i] = nodes[Old(i)] /\ i \in 1 .. depth'
    OBVIOUS
  <2>1. CASE i <= base
    BY <1>0, <2>1
  <2>2. CASE ~(i <= base)
    <3>1. i \in base + 2 .. depth'
      BY <1>0, <2>2
    <3>2. Old(i) \in end + 1 .. depth /\ nodes'[i] = nodes[Old(i)]
      BY <2>2, <3>1
    <3> QED BY <1>0, <3>2
  <2> QED BY <2>1, <2>2
<1>2. \A i, j \in Kept : Old(i) = Old(j) => i = j
  BY <1>0
<1>3. \A i \in 1 .. depth' : i \in Kept \/ i = base + 1
  OBVIOUS
<1>4. \A i \in 1 .. depth : nodes[i].value \in Nat /\ nodes[i].value <= issued
  BY DEF TypeOK, Cell, ValuesOwned
<1> HIDE DEF Old, Kept
<1>5. \A i \in Kept : nodes'[i].value \in Nat /\ nodes'[i].value <= issued
  BY <1>1, <1>4
<1>6. \A i \in 1 .. depth' : nodes'[i].value <= top
  <2>1. \A i \in Kept : nodes'[i].value <= top
    BY <1>0, <1>5
  <2>2. nodes'[base + 1].value <= top
    BY <1>0 DEF NULL
  <2> QED BY <1>3, <2>1, <2>2
<1>7. \A i, j \in Kept : nodes'[i].value = nodes'[j].value /\ i # j => nodes'[i].value = NULL
  BY <1>1, <1>2 DEF ValuesOwned
<1>8. \A i \in Kept : nodes'[i].value = value => value = NULL
  BY <1>0, <1>5 DEF NULL
<1>9. \A i, j \in 1 .. depth' :
        nodes'[i].value = nodes'[j].value /\ i # j => nodes'[i].value = NULL
  BY <1>3, <1>7, <1>8
<1> QED BY <1>6, <1>9

(* tf_parser__reduce below the root preserves IInv: parent, trailing       *)
(* extras, states and values are where they belong.                        *)
LEMMA ReduceInnerInv ==
  ASSUME IInv, pc \in {"act", "split"}, NEW a \in tf_actions(Top, token.symbol), a.type = "reduce",
         ReduceInner(a, token.symbol, "act")
  PROVE  IInv'
<1> DEFINE base == PopBase(a.child_count)
           end  == PopEnd(a.child_count)
           next == tf_next_state(states[base], a.symbol)
<1>a. /\ TypeOK /\ Phases /\ StackIsPath /\ PopsStayOnStack /\ LeadingIsExact /\ StartIsLeading
      /\ WithinCapacity /\ StackInSourceOrder /\ ErrorIsAhead /\ RootThenAccept /\ ValuesOwned
      /\ HandedOnce
  BY DEF IInv
<1>1. /\ ~root_emitted /\ error.kind = "none" /\ Started /\ root = NULL
      /\ a \in Action /\ token.symbol \in Terminal
  BY NotYetRoot
<1>2. /\ base \in 0 .. depth /\ end \in 0 .. depth /\ base <= end /\ leading <= base
      /\ base = end => end = depth
      /\ \A j \in end + 1 .. depth : nodes[j].extra
      /\ next \in State /\ next # StartState
      /\ Height[next] <= Height[states[base]] + 1
      /\ Height[next] \in Nat /\ Height[states[base]] \in Nat
      /\ accepts_end(next) => IsRoot(a, base, token.symbol) \/ GoesOn(next)
  BY ReduceShape
<1>3. /\ ~IsRoot(a, base, token.symbol)
      /\ UNCHANGED <<lexvars, leading, root_emitted, root, split_count>>
  BY DEF ReduceInner
<1>4. PICK returns \in Returns[a.symbol] :
        LET value == IF returns THEN issued + 1 ELSE NULL
        IN  /\ EmitHanding(IF returns THEN 1 ELSE 0, base + 1 .. end, {})
            /\ \E cap \in tf_parser__grow(capacity, base + 1 + (depth - end)) :
                 \/ /\ cap = 0
                    /\ tf_parser__fail("oom", token.start)
                    /\ UNCHANGED <<depth, nodes, states, capacity>>
                 \/ /\ cap # 0
                    /\ capacity' = cap
                    /\ PutParent(ParentCell(a, base, end, value), base, end, next)
                    /\ pc' = "act"
                    /\ UNCHANGED error
  BY DEF ReduceInner
<1> DEFINE new    == IF returns THEN 1 ELSE 0
           value  == IF returns THEN issued + 1 ELSE NULL
           parent == ParentCell(a, base, end, value)
           taken(v) == \E i \in base + 1 .. end : nodes[i].value = v
<1> HIDE DEF base, end, next
<1>5. /\ depth \in Nat /\ capacity \in Nat /\ leading \in Nat /\ issued \in Nat
      /\ token.start \in Nat /\ new \in 0 .. 1 /\ new \in 0 .. 2 /\ value \in {0, issued + 1}
      /\ value = issued + 1 <=> new = 1
  BY <1>a DEF TypeOK, Token, NULL
<1>6. /\ issued' = issued + new /\ issued' \in Nat
      /\ handed' \in [1 .. issued' -> Nat]
      /\ HandedOnce'
      /\ \A v \in 1 .. issued : handed'[v] = IF OnStack(v) /\ ~taken(v) THEN 0 ELSE 1
      /\ \A v \in issued + 1 .. issued' : handed'[v] = 0
  <2>1. PICK K, n, own : K = base + 1 .. end /\ n = new /\ own = {}
    OBVIOUS
  <2>2. K \in SUBSET (1 .. depth) /\ own \in SUBSET Nat /\ pc # "done" /\ n \in 0 .. 2
    BY <1>2, <1>5, <2>1
  <2>3. EmitHanding(n, K, own)
    BY <1>4, <2>1
  <2>4. /\ issued' = issued + n /\ issued' \in Nat
        /\ handed' \in [1 .. issued' -> Nat]
        /\ HandedOnce'
        /\ \A v \in 1 .. issued :
             handed'[v] = IF OnStack(v) /\ ~\E i \in K : nodes[i].value = v THEN 0 ELSE 1
        /\ \A v \in issued + 1 .. issued' : handed'[v] = IF v \in own THEN 1 ELSE 0
    BY <1>a, <1>1, <2>2, <2>3, HandOver
  <2> QED BY <2>1, <2>4
<1>7. PICK cap \in tf_parser__grow(capacity, base + 1 + (depth - end)) :
        \/ /\ cap = 0
           /\ tf_parser__fail("oom", token.start)
           /\ UNCHANGED <<depth, nodes, states, capacity>>
        \/ /\ cap # 0
           /\ capacity' = cap
           /\ PutParent(parent, base, end, next)
           /\ pc' = "act"
           /\ UNCHANGED error
  BY <1>4
<1>8. \A i \in 1 .. depth : nodes[i].value \in Nat /\ nodes[i].value <= issued
  BY <1>a DEF TypeOK, Cell, ValuesOwned
<1> HIDE DEF new, value
<1>9. CASE cap = 0
  <2>0. /\ tf_parser__fail("oom", token.start) /\ UNCHANGED <<depth, nodes, states, capacity>>
    BY <1>7, <1>9
  <2>e. base = depth /\ end = depth
    <3>1. capacity < base + 1 + (depth - end) \/ capacity = 0
      BY <1>2, <1>5, <1>7, <1>9 DEF tf_parser__grow
    <3>2. depth <= capacity /\ capacity # 0
      BY <1>a, <1>1 DEF WithinCapacity, Started
    <3> QED BY <1>2, <1>5, <3>1, <3>2
  <2>1. error' \in Error /\ error'.kind = "oom" /\ pc' = "fail"
    BY <1>5, <2>0 DEF tf_parser__fail, Error
  <2> USE <1>a DEF lexvars
  <2>2. TypeOK'
    BY <1>3, <1>6, <2>0, <2>1 DEF TypeOK
  <2>3. Phases' /\ StackInSourceOrder' /\ ErrorIsAhead' /\ LeadingIsExact' /\ WithinCapacity'
    BY <1>1, <1>3, <2>0, <2>1 DEF TypeOK, Phases, Running, Started, StackInSourceOrder, Here,
       ErrorIsAhead, LeadingIsExact, WithinCapacity
  <2>4. StackIsPath' /\ PopsStayOnStack' /\ StartIsLeading'
    BY <2>0, <2>1 DEF StackIsPath, PopsStayOnStack, StartIsLeading, Started, RealBelow
  <2>5. RootThenAccept'
    BY <1>1, <1>3, <2>1 DEF RootThenAccept, Running
  <2>6. ValuesOwned'
    <3>1. \A v \in 1 .. issued : ~taken(v)
      BY <1>5, <2>e
    <3>2. \A i \in 1 .. depth : nodes'[i].value <= issued'
      BY <1>5, <1>6, <1>8, <2>0
    <3>3. \A v \in 1 .. issued : /\ (OnStack(v))' <=> OnStack(v)
                                 /\ handed'[v] = IF OnStack(v) THEN 0 ELSE 1
      <4>1. \A v \in 1 .. issued : (OnStack(v))' <=> OnStack(v)
        BY <2>0 DEF OnStack
      <4> QED BY <1>6, <3>1, <4>1
    <3>4. \A v \in issued + 1 .. issued' : ~(OnStack(v))' /\ handed'[v] = 0
      BY <1>5, <1>6, <1>8, <2>0 DEF OnStack
    <3>5. \A v \in 1 .. issued' : IF (OnStack(v))' THEN handed'[v] = 0
                                  ELSE handed'[v] = 1 \/ handed'[v] = 0
      <4>1. \A v \in 1 .. issued' : v \in 1 .. issued \/ v \in issued + 1 .. issued'
        BY <1>5, <1>6
      <4> QED BY <3>3, <3>4, <4>1
    <3>6. \A i, j \in 1 .. depth' : nodes'[i].value = nodes'[j].value /\ i # j => nodes'[i].value = NULL
      BY <2>0 DEF ValuesOwned
    <3> QED BY <1>1, <1>3, <2>0, <2>1, <3>2, <3>5, <3>6 DEF ValuesOwned
  <2> QED BY <1>6, <2>2, <2>3, <2>4, <2>5, <2>6 DEF IInv
<1>10. CASE cap # 0
  <2>0. /\ capacity' = cap /\ cap \in Nat /\ cap >= base + 1 + (depth - end)
        /\ PutParent(parent, base, end, next)
        /\ pc' = "act" /\ error' = error
    BY <1>2, <1>5, <1>7, <1>10, GrowFits
  <2>1. /\ parent \in Cell /\ parent.extra = FALSE /\ parent.symbol = a.symbol
        /\ parent.symbol \in Nonterminal /\ parent.value = value
        /\ parent.start = (IF base < end THEN nodes[base + 1].start ELSE Here)
        /\ parent.end = (IF base < end THEN nodes[end].end ELSE Here)
    <3>1. value \in Nat
      BY <1>5
    <3> QED BY <1>a, <1>1, <1>2, <3>1, ParentTyped
  <2> HIDE DEF parent
  <2>2. next = tf_next_state(states[base], parent.symbol) /\ Started' /\ leading' = leading
    BY <1>3, <1>10, <2>0, <2>1 DEF next, Started
  <2>3. /\ depth' = base + 1 + (depth - end) /\ depth' \in Nat
        /\ nodes' \in [1 .. depth' -> Cell] /\ states' \in [0 .. depth' -> State]
        /\ \A i \in 1 .. base : nodes'[i] = nodes[i]
        /\ nodes'[base + 1] = parent
        /\ \A i \in base + 2 .. depth' : /\ i - (base + 1) + end \in end + 1 .. depth
                                         /\ nodes'[i] = nodes[i - (base + 1) + end]
        /\ Top' = next /\ Here' = Here
        /\ StackIsPath' /\ PopsStayOnStack' /\ LeadingIsExact' /\ StartIsLeading'
        /\ \A i \in 1 .. depth' : nodes'[i].start <= nodes'[i].end
        /\ \A i, j \in 1 .. depth' : i < j => nodes'[i].end <= nodes'[j].start
    BY <1>a, <1>1, <1>2, <2>0, <2>1, <2>2, PutParentInv DEF PutParent
  <2> USE <1>a DEF lexvars
  <2>4. TypeOK'
    <3>1. pc' \in {"start", "lex", "act", "split", "fail", "done"} /\ error' \in Error
          /\ capacity' \in Nat
      BY <2>0 DEF TypeOK
    <3>2. /\ size' \in Nat /\ byte' \in Nat /\ token' \in Token /\ keyword' \in BOOLEAN
          /\ leading' \in Nat /\ split_count' \in Nat /\ root_emitted' \in BOOLEAN /\ root' \in Nat
      BY <1>3 DEF TypeOK
    <3> QED BY <1>6, <2>3, <3>1, <3>2 DEF TypeOK
  <2>5. Phases' /\ ErrorIsAhead' /\ WithinCapacity'
    BY <1>1, <1>3, <2>0, <2>2, <2>3 DEF TypeOK, Phases, Running, ErrorIsAhead, WithinCapacity
  <2>6. StackInSourceOrder'
    <3>1. Here <= token.start /\ byte <= size
      BY DEF StackInSourceOrder
    <3>2. pc' = "act" /\ Here' <= token'.start /\ byte' <= size'
      BY <1>3, <2>0, <2>3, <3>1
    <3> QED BY <2>3, <3>2 DEF StackInSourceOrder
  <2>7. RootThenAccept'
    <3>1. (accepts_end(Top))' => GoesOn(next)
      BY <1>2, <1>3, <2>3 DEF accepts_end, tf_count, tf_action
    <3>2. GoesOn(next) => (GoesOn(Top))'
      BY <1>3, <2>3 DEF GoesOn, shifts_extra, tf_actions, tf_count, tf_action, lexvars
    <3> QED BY <1>1, <1>3, <2>0, <3>1, <3>2 DEF RootThenAccept
  <2>8. ValuesOwned'
    <3> DEFINE Old(i) == IF i <= base THEN i ELSE i - (base + 1) + end
               Kept == {i \in 1 .. depth' : i # base + 1}
    <3>0. base \in Nat /\ end \in Nat
      BY <1>2, <1>5
    <3>1. \A i \in Kept : /\ Old(i) \in 1 .. depth /\ nodes'[i] = nodes[Old(i)]
                          /\ Old(i) \notin base + 1 .. end
                          /\ i \in 1 .. depth'
      <4> SUFFICES ASSUME NEW i \in Kept
                   PROVE  /\ Old(i) \in 1 .. depth /\ nodes'[i] = nodes[Old(i)]
                          /\ Old(i) \notin base + 1 .. end
                          /\ i \in 1 .. depth'
        OBVIOUS
      <4>1. CASE i <= base
        BY <1>2, <1>5, <2>3, <3>0, <4>1
      <4>2. CASE ~(i <= base)
        <5>1. i \in base + 2 .. depth'
          BY <2>3, <3>0, <4>2
        <5>2. Old(i) \in end + 1 .. depth /\ nodes'[i] = nodes[Old(i)]
          BY <2>3, <4>2, <5>1
        <5> QED BY <1>2, <1>5, <3>0, <5>2
      <4> QED BY <4>1, <4>2
    <3>3. \A k \in 1 .. depth : k \notin base + 1 .. end => \E i \in Kept : Old(i) = k
      <4> SUFFICES ASSUME NEW k \in 1 .. depth, k \notin base + 1 .. end
                   PROVE  \E i \in Kept : Old(i) = k
        OBVIOUS
      <4>1. CASE k <= base
        <5>1. k \in Kept /\ Old(k) = k
          BY <1>2, <1>5, <2>3, <3>0, <4>1
        <5> QED BY <5>1
      <4>2. CASE k > end
        <5> DEFINE i == k - end + (base + 1)
        <5>1. i \in 1 .. depth' /\ i # base + 1 /\ ~(i <= base) /\ i - (base + 1) + end = k
          BY <1>2, <1>5, <2>3, <3>0, <4>2
        <5>2. i \in Kept /\ Old(i) = k
          BY <5>1
        <5> QED BY <5>2
      <4> QED BY <1>5, <3>0, <4>1, <4>2
    <3>4. \A i \in 1 .. depth' : i \in Kept \/ i = base + 1
      OBVIOUS
    <3> HIDE DEF Old, Kept
    <3>5. /\ \A i \in 1 .. depth' : nodes'[i].value <= issued'
          /\ \A i, j \in 1 .. depth' :
               nodes'[i].value = nodes'[j].value /\ i # j => nodes'[i].value = NULL
      <4>1. /\ issued' \in Nat /\ issued <= issued' /\ value \in Nat
            /\ value = NULL \/ (issued < value /\ value <= issued')
        BY <1>5, <1>6 DEF NULL
      <4>2. nodes'[base + 1].value = value
        BY <2>1, <2>3
      <4>3. PICK top, w : top = issued' /\ w = value
        OBVIOUS
      <4>4. /\ \A i \in 1 .. depth' : nodes'[i].value <= top
            /\ \A i, j \in 1 .. depth' :
                 nodes'[i].value = nodes'[j].value /\ i # j => nodes'[i].value = NULL
        <5>1. /\ top \in Nat /\ issued <= top /\ w \in Nat
              /\ w = NULL \/ (issued < w /\ w <= top)
              /\ nodes'[base + 1].value = w
          BY <4>1, <4>2, <4>3
        <5>2. /\ base \in 0 .. depth /\ end \in 0 .. depth /\ base <= end
              /\ depth' = base + 1 + (depth - end)
              /\ \A i \in 1 .. base : nodes'[i] = nodes[i]
              /\ \A i \in base + 2 .. depth' : /\ i - (base + 1) + end \in end + 1 .. depth
                                               /\ nodes'[i] = nodes[i - (base + 1) + end]
          BY <1>2, <2>3
        <5>3. TypeOK /\ ValuesOwned
          OBVIOUS
        <5> HIDE <1>a
        <5> QED BY <5>1, <5>2, <5>3, DistinctValues
      <4> QED BY <4>3, <4>4
    <3>7. \A v \in 1 .. issued : (OnStack(v))' <=> OnStack(v) /\ ~taken(v)
      <4> SUFFICES ASSUME NEW v \in 1 .. issued PROVE (OnStack(v))' <=> OnStack(v) /\ ~taken(v)
        OBVIOUS
      <4>0. v # NULL /\ v # value
        BY <1>5 DEF NULL
      <4>1. (OnStack(v))' <=> \E i \in Kept : nodes'[i].value = v
        BY <2>1, <2>3, <3>1, <3>4, <4>0 DEF OnStack
      <4>2. ASSUME NEW i \in Kept, nodes'[i].value = v PROVE OnStack(v) /\ ~taken(v)
        <5>1. Old(i) \in 1 .. depth /\ nodes[Old(i)].value = v /\ Old(i) \notin base + 1 .. end
          BY <3>1, <4>2
        <5>2. OnStack(v)
          BY <5>1 DEF OnStack
        <5>3. ASSUME NEW j \in base + 1 .. end, nodes[j].value = v PROVE FALSE
          <6>1. j \in 1 .. depth /\ j # Old(i)
            BY <1>2, <1>5, <3>0, <5>1
          <6> QED BY <4>0, <5>1, <5>3, <6>1 DEF ValuesOwned
        <5> QED BY <5>2, <5>3
      <4>3. ASSUME OnStack(v), ~taken(v) PROVE \E i \in Kept : nodes'[i].value = v
        <5>1. PICK k \in 1 .. depth : nodes[k].value = v
          BY <4>3 DEF OnStack
        <5>2. k \notin base + 1 .. end
          BY <4>3, <5>1
        <5>3. PICK i \in Kept : Old(i) = k
          BY <3>3, <5>2
        <5> QED BY <3>1, <5>1, <5>3
      <4> QED BY <4>1, <4>2, <4>3
    <3>8. \A v \in issued + 1 .. issued' : handed'[v] = 0 /\ (OnStack(v))'
      <4>1. \A v \in issued + 1 .. issued' : handed'[v] = 0 /\ v = value
        BY <1>5, <1>6
      <4>2. base + 1 \in 1 .. depth'
        <5>1. depth' = base + 1 + (depth - end)
          BY <2>3
        <5> QED BY <1>2, <1>5, <3>0, <5>1
      <4>3. nodes'[base + 1].value = value
        BY <2>1, <2>3
      <4>4. \A v \in issued + 1 .. issued' : (OnStack(v))'
        BY <4>1, <4>2, <4>3 DEF OnStack
      <4> QED BY <4>1, <4>4
    <3>9. \A v \in 1 .. issued' : IF (OnStack(v))' THEN handed'[v] = 0 ELSE handed'[v] = 1
      <4>1. \A v \in 1 .. issued' : v \in 1 .. issued \/ v \in issued + 1 .. issued'
        BY <1>5, <1>6
      <4>2. \A v \in 1 .. issued : IF (OnStack(v))' THEN handed'[v] = 0 ELSE handed'[v] = 1
        BY <1>6, <3>7
      <4> QED BY <3>8, <4>1, <4>2
    <3> QED BY <1>1, <1>3, <2>0, <3>5, <3>9 DEF ValuesOwned
  <2> QED BY <1>6, <2>3, <2>4, <2>5, <2>6, <2>7, <2>8 DEF IInv
<1> QED BY <1>7, <1>9, <1>10

(* tf_parser__reduce of the root preserves IInv: everything but the        *)
(* root value is spent, and the next action accepts.                       *)
LEMMA ReduceRootInv ==
  ASSUME IInv, pc \in {"act", "split"}, NEW a \in tf_actions(Top, token.symbol), a.type = "reduce",
         ReduceRoot(a, token.symbol, "act")
  PROVE  IInv'
<1> DEFINE base == PopBase(a.child_count)
           end  == PopEnd(a.child_count)
           next == tf_next_state(states[base], a.symbol)
<1>a. /\ TypeOK /\ Phases /\ StackIsPath /\ PopsStayOnStack /\ LeadingIsExact /\ StartIsLeading
      /\ WithinCapacity /\ StackInSourceOrder /\ ErrorIsAhead /\ RootThenAccept /\ ValuesOwned
      /\ HandedOnce
  BY DEF IInv
<1>1. /\ ~root_emitted /\ error.kind = "none" /\ Started /\ root = NULL
      /\ a \in Action /\ token.symbol \in Terminal
  BY NotYetRoot
<1>2. /\ base \in 0 .. depth /\ end \in 0 .. depth /\ base <= end /\ leading <= base
      /\ base = end => end = depth
      /\ \A j \in end + 1 .. depth : nodes[j].extra
      /\ next \in State /\ next # StartState
      /\ Height[next] <= Height[states[base]] + 1
      /\ Height[next] \in Nat /\ Height[states[base]] \in Nat
  BY ReduceShape
<1>3. /\ token.symbol = End /\ base = leading /\ accepts_end(next)
      /\ UNCHANGED <<lexvars, leading, root, split_count>>
  BY DEF ReduceRoot, IsRoot
<1>4. PICK cap \in tf_parser__grow(capacity, depth + 1) :
        \/ /\ cap = 0
           /\ tf_parser__fail("oom", token.start)
           /\ UNCHANGED <<depth, nodes, states, capacity, root_emitted, sinkvars>>
        \/ /\ cap # 0
           /\ capacity' = cap
           /\ root_emitted' = TRUE
           /\ \E eof \in Returns[End], returns \in Returns[a.symbol] :
                LET ends  == IF eof THEN 1 ELSE 0
                    value == IF returns THEN issued + ends + 1 ELSE NULL
                IN  /\ EmitHanding(ends + (IF returns THEN 1 ELSE 0), 1 .. depth,
                                   issued + 1 .. issued + ends)
                    /\ PutParent(ParentCell(a, base, end, value), base, end, next)
           /\ pc' = "act"
           /\ UNCHANGED error
  BY DEF ReduceRoot
<1> HIDE DEF base, end, next
<1>5. /\ depth \in Nat /\ capacity \in Nat /\ leading \in Nat /\ issued \in Nat
      /\ token.start \in Nat
  BY <1>a DEF TypeOK, Token
<1>6. CASE cap = 0
  <2>1. /\ tf_parser__fail("oom", token.start)
        /\ UNCHANGED <<depth, nodes, states, capacity, root_emitted, sinkvars>>
    BY <1>4, <1>6
  <2>2. UNCHANGED <<lexvars, stackvars, root_emitted, root, split_count, sinkvars>>
    BY <1>3, <2>1 DEF stackvars
  <2>3. Running
    BY DEF Running
  <2>4. PICK at : at = token.start
    OBVIOUS
  <2>5. at \in Nat /\ tf_parser__fail("oom", at)
    BY <1>5, <2>1, <2>4
  <2> QED BY <1>1, <2>2, <2>3, <2>5, FailInv
<1>7. CASE cap # 0
  <2>0. /\ capacity' = cap /\ cap \in Nat /\ cap >= depth + 1
        /\ root_emitted' = TRUE /\ pc' = "act" /\ error' = error
    BY <1>4, <1>5, <1>7, GrowFits
  <2>p. PICK eof \in Returns[End], returns \in Returns[a.symbol] :
          LET ends  == IF eof THEN 1 ELSE 0
              value == IF returns THEN issued + ends + 1 ELSE NULL
          IN  /\ EmitHanding(ends + (IF returns THEN 1 ELSE 0), 1 .. depth,
                             issued + 1 .. issued + ends)
              /\ PutParent(ParentCell(a, base, end, value), base, end, next)
    BY <1>4, <1>7
  <2> DEFINE ends == IF eof THEN 1 ELSE 0
             new  == ends + (IF returns THEN 1 ELSE 0)
             val  == IF returns THEN issued + ends + 1 ELSE NULL
  <2>v. PICK value, n, own, K :
          value = val /\ n = new /\ own = issued + 1 .. issued + ends /\ K = 1 .. depth
    OBVIOUS
  <2>q. EmitHanding(n, K, own) /\ PutParent(ParentCell(a, base, end, value), base, end, next)
    BY <2>p, <2>v
  <2>r. /\ n \in 0 .. 2 /\ own \in SUBSET Nat /\ K \in SUBSET (1 .. depth) /\ value \in Nat
        /\ value = NULL \/ (issued < value /\ value = issued + n)
        /\ \A v \in issued + 1 .. issued + n : v \in own <=> v # value
    <3>1. CASE eof /\ returns BY <1>5, <2>v, <3>1 DEF NULL
    <3>2. CASE eof /\ ~returns BY <1>5, <2>v, <3>2 DEF NULL
    <3>3. CASE ~eof /\ returns BY <1>5, <2>v, <3>3 DEF NULL
    <3>4. CASE ~eof /\ ~returns BY <1>5, <2>v, <3>4 DEF NULL
    <3> QED BY <3>1, <3>2, <3>3, <3>4
  <2> HIDE DEF ends, new, val
  <2>6. /\ issued' = issued + n /\ issued' \in Nat
        /\ handed' \in [1 .. issued' -> Nat]
        /\ HandedOnce'
        /\ \A v \in 1 .. issued :
             handed'[v] = IF OnStack(v) /\ ~\E i \in K : nodes[i].value = v THEN 0 ELSE 1
        /\ \A v \in issued + 1 .. issued' : handed'[v] = IF v \in own THEN 1 ELSE 0
    <3>1. pc # "done"
      OBVIOUS
    <3> QED BY <1>a, <1>1, <2>q, <2>r, <3>1, HandOver
  <2>7. PICK parent : parent = ParentCell(a, base, end, value)
    OBVIOUS
  <2>1. /\ parent \in Cell /\ parent.extra = FALSE /\ parent.symbol = a.symbol
        /\ parent.symbol \in Nonterminal /\ parent.value = value
        /\ parent.start = (IF base < end THEN nodes[base + 1].start ELSE Here)
        /\ parent.end = (IF base < end THEN nodes[end].end ELSE Here)
    <3> DEFINE cell == ParentCell(a, base, end, value)
    <3>1. /\ cell \in Cell /\ cell.extra = FALSE /\ cell.symbol = a.symbol
          /\ cell.symbol \in Nonterminal /\ cell.value = value
          /\ cell.start = (IF base < end THEN nodes[base + 1].start ELSE Here)
          /\ cell.end = (IF base < end THEN nodes[end].end ELSE Here)
      BY <1>a, <1>1, <1>2, <2>r, ParentTyped
    <3> HIDE DEF cell
    <3>2. parent = cell
      BY <2>7 DEF cell
    <3> QED BY <3>1, <3>2
  <2>2. /\ next = tf_next_state(states[base], parent.symbol) /\ Started' /\ leading' = leading
        /\ PutParent(parent, base, end, next)
    BY <1>3, <1>7, <2>0, <2>1, <2>q, <2>7 DEF next, Started
  <2>3. /\ depth' = base + 1 + (depth - end) /\ depth' \in Nat
        /\ nodes' \in [1 .. depth' -> Cell] /\ states' \in [0 .. depth' -> State]
        /\ \A i \in 1 .. base : nodes'[i] = nodes[i]
        /\ nodes'[base + 1] = parent
        /\ \A i \in base + 2 .. depth' : /\ i - (base + 1) + end \in end + 1 .. depth
                                         /\ nodes'[i] = nodes[i - (base + 1) + end]
        /\ Top' = next /\ Here' = Here
        /\ StackIsPath' /\ PopsStayOnStack' /\ LeadingIsExact' /\ StartIsLeading'
        /\ \A i \in 1 .. depth' : nodes'[i].start <= nodes'[i].end
        /\ \A i, j \in 1 .. depth' : i < j => nodes'[i].end <= nodes'[j].start
    BY <1>a, <1>1, <1>2, <2>0, <2>1, <2>2, PutParentInv DEF PutParent
  <2>4. TypeOK'
    <3>1. /\ pc' \in {"start", "lex", "act", "split", "fail", "done"} /\ error' \in Error
          /\ capacity' \in Nat /\ root_emitted' \in BOOLEAN
      BY <1>a, <2>0 DEF TypeOK
    <3>2. /\ size' \in Nat /\ byte' \in Nat /\ token' \in Token /\ keyword' \in BOOLEAN
          /\ leading' \in Nat /\ split_count' \in Nat /\ root' \in Nat
      BY <1>a, <1>3 DEF TypeOK, lexvars
    <3> QED BY <2>3, <2>6, <3>1, <3>2 DEF TypeOK
  <2>d. depth' \in Nat /\ depth' = base + 1 + (depth - end) /\ leading' = leading
    BY <2>2, <2>3
  <2>5. Phases' /\ ErrorIsAhead' /\ WithinCapacity'
    <3>1. depth' <= capacity'
      BY <1>2, <1>5, <2>0, <2>d
    <3>2. Phases' /\ ErrorIsAhead'
      BY <1>a, <1>1, <1>3, <2>0, <2>2, <2>3 DEF Phases, Running, ErrorIsAhead, lexvars
    <3> QED BY <3>1, <3>2 DEF WithinCapacity
  <2>8. StackInSourceOrder'
    <3>1. Here <= token.start /\ byte <= size
      BY <1>a DEF StackInSourceOrder
    <3>2. pc' = "act" /\ Here' <= token'.start /\ byte' <= size'
      BY <1>3, <2>0, <2>3, <3>1 DEF lexvars
    <3> QED BY <2>3, <3>2 DEF StackInSourceOrder
  <2>9. RootThenAccept'
    <3>1. (accepts_end(Top))'
      BY <1>3, <2>3 DEF accepts_end, tf_count, tf_action
    <3>2. leading' < depth'
      BY <1>2, <1>3, <1>5, <2>d
    <3> QED BY <1>1, <1>3, <2>0, <3>1, <3>2 DEF RootThenAccept, lexvars
  <2>10. ValuesOwned'
    <3>1. /\ \A i \in 1 .. depth' : nodes'[i].value <= issued'
          /\ \A i, j \in 1 .. depth' :
               nodes'[i].value = nodes'[j].value /\ i # j => nodes'[i].value = NULL
      <4>3. PICK top : top = issued'
        OBVIOUS
      <4>4. /\ \A i \in 1 .. depth' : nodes'[i].value <= top
            /\ \A i, j \in 1 .. depth' :
                 nodes'[i].value = nodes'[j].value /\ i # j => nodes'[i].value = NULL
        <5>1. /\ top \in Nat /\ issued <= top /\ value \in Nat
              /\ value = NULL \/ (issued < value /\ value <= top)
          BY <1>5, <2>r, <2>6, <4>3
        <5>2. /\ base \in 0 .. depth /\ end \in 0 .. depth /\ base <= end
              /\ depth' = base + 1 + (depth - end)
              /\ \A i \in 1 .. base : nodes'[i] = nodes[i]
              /\ \A i \in base + 2 .. depth' : /\ i - (base + 1) + end \in end + 1 .. depth
                                               /\ nodes'[i] = nodes[i - (base + 1) + end]
              /\ nodes'[base + 1].value = value
          BY <1>2, <2>1, <2>3
        <5> QED BY <1>a, <5>1, <5>2, DistinctValues
      <4> QED BY <4>3, <4>4
    <3>2. nodes'[leading' + 1].value = value
      BY <1>3, <2>1, <2>2, <2>3
    <3>3. \A v \in 1 .. issued : handed'[v] = 1 /\ v # value
      <4>1. \A v \in 1 .. issued : OnStack(v) => \E i \in K : nodes[i].value = v
        BY <2>v DEF OnStack
      <4>2. \A v \in 1 .. issued : handed'[v] = 1
        BY <2>6, <4>1
      <4> QED BY <1>5, <2>r, <4>2 DEF NULL
    <3>4. \A v \in issued + 1 .. issued' : handed'[v] = IF v = value THEN 0 ELSE 1
      BY <2>r, <2>6
    <3>5. \A v \in 1 .. issued' : v \in 1 .. issued \/ v \in issued + 1 .. issued'
      BY <1>5, <2>r, <2>6
    <3>6. \A v \in 1 .. issued' : handed'[v] = IF v = value THEN 0 ELSE 1
      BY <3>3, <3>4, <3>5
    <3> QED BY <2>0, <3>1, <3>2, <3>6 DEF ValuesOwned
  <2> QED BY <2>3, <2>4, <2>5, <2>6, <2>8, <2>9, <2>10 DEF IInv
<1> QED BY <1>4, <1>6, <1>7

-----------------------------------------------------------------------------
(* Every step preserves the invariant: one case per action. *)
LEMMA NextInv == IInv /\ [Next]_vars => IInv'
<1> SUFFICES ASSUME IInv, [Next]_vars PROVE IInv'
  OBVIOUS
<1>1. CASE TooLarge BY <1>1, TooLargeInv
<1>2. CASE Start BY <1>2, StartInv
<1>3. CASE Lex BY <1>3, LexInv
<1>4. CASE LexFail BY <1>4, LexFailInv
<1>5. CASE Demote BY <1>5, DemoteInv
<1>6. CASE Unexpected BY <1>6, UnexpectedInv
<1>7. CASE Dispatch
  <2> DEFINE a == tf_action(Top, token.symbol, 1)
  <2>1. pc \in {"act", "split"} /\ (Shift(a) \/ Reduce(a) \/ Accept(a))
    BY <1>7 DEF Dispatch
  <2>2. a \in tf_actions(Top, token.symbol)
    BY <1>7 DEF Dispatch, tf_actions
  <2>3. CASE Shift(a)
    <3> HIDE DEF a
    <3> QED BY <2>1, <2>2, <2>3, ShiftInv
  <2>4. CASE Reduce(a)
    <3>1. a.type = "reduce" /\ (ReduceInner(a, token.symbol, "act") \/ ReduceRoot(a, token.symbol, "act"))
      BY <2>4 DEF Reduce, tf_parser__reduce
    <3> HIDE DEF a
    <3> QED BY <2>1, <2>2, <3>1, ReduceInnerInv, ReduceRootInv
  <2>5. CASE Accept(a)
    <3> HIDE DEF a
    <3> QED BY <2>1, <2>2, <2>5, AcceptInv
  <2> QED BY <2>1, <2>3, <2>4, <2>5
<1>8. CASE Split BY <1>8, SplitInv
<1>9. CASE SplitDies BY <1>9, SplitDiesInv
<1>10. CASE SplitOom BY <1>10, SplitOomInv
<1>11. CASE Replay
  <2>1. PICK a \in tf_actions(Top, token.symbol) : Shift(a) \/ Reduce(a)
    BY <1>11 DEF Replay
  <2>2. pc \in {"act", "split"}
    BY <1>11 DEF Replay
  <2>3. CASE Shift(a)
    BY <2>2, <2>3, ShiftInv
  <2>4. CASE Reduce(a)
    <3>1. a.type = "reduce" /\ (ReduceInner(a, token.symbol, "act") \/ ReduceRoot(a, token.symbol, "act"))
      BY <2>4 DEF Reduce, tf_parser__reduce
    <3> QED BY <2>2, <3>1, ReduceInnerInv, ReduceRootInv
  <2> QED BY <2>1, <2>3, <2>4
<1>12. CASE Discard BY <1>12, DiscardInv
<1>13. CASE UNCHANGED vars
  BY <1>13 DEF vars, IInv, lexvars, stackvars, outvars, sinkvars, TypeOK, Phases, Running, Started,
     StackIsPath, PopsStayOnStack, RealBelow, LeadingIsExact, StartIsLeading, WithinCapacity,
     StackInSourceOrder, Here, ErrorIsAhead, RootThenAccept, GoesOn, shifts_extra, Top, accepts_end, ValuesOwned, OnStack,
     HandedOnce
<1> QED BY <1>1, <1>2, <1>3, <1>4, <1>5, <1>6, <1>7, <1>8, <1>9, <1>10, <1>11, <1>12, <1>13 DEF Next

(* The inductive invariant of tf_parser__run, for every grammar whose      *)
(* tables are as tree-sitter generates them, every lexer and every sink.   *)
THEOREM Inductive == Spec => []IInv
<1>1. Init => IInv
  BY InitInv
<1>2. IInv /\ [Next]_vars => IInv'
  BY NextInv
<1> QED BY <1>1, <1>2, PTL DEF Spec

(* The fields of the driver keep their types through every step of         *)
(* tf_parser__run.                                                         *)
THEOREM Typed == Spec => []TypeOK
<1>1. IInv => TypeOK
  BY DEF IInv
<1> QED BY <1>1, Inductive, PTL

(* The stack is always a path of the LR automaton through the real cells,  *)
(* however many extras tf_parser__reduce has moved.                        *)
THEOREM StackPath == Spec => []StackIsPath
<1>1. IInv => StackIsPath
  BY DEF IInv
<1> QED BY <1>1, Inductive, PTL

(* The pop scan of tf_parser__reduce, which checks nothing, stays within   *)
(* the stack.                                                              *)
THEOREM PopsSafe == Spec => []PopsStayOnStack
<1>1. IInv => PopsStayOnStack
  BY DEF IInv
<1> QED BY <1>1, Inductive, PTL

(* No cell is ever written beyond the allocation of tf_parser__grow, the   *)
(* end token's passing cell included.                                      *)
THEOREM NoOverrun == Spec => WritesWithinCapacity
<1> DEFINE Fits == /\ depth' <= capacity'
                   /\ root_emitted' /\ ~root_emitted => depth + 1 <= capacity'
<1>1. IInv /\ IInv' /\ [Next]_vars => [Fits]_vars
  <2> SUFFICES ASSUME IInv, IInv', Next, root_emitted', ~root_emitted
               PROVE  depth + 1 <= capacity'
    BY DEF IInv, WithinCapacity
  <2>1. PICK a \in tf_actions(Top, token.symbol) : ReduceRoot(a, token.symbol, "act")
    <3>1. CASE Dispatch
      <4>1. tf_action(Top, token.symbol, 1) \in tf_actions(Top, token.symbol)
        BY <3>1 DEF Dispatch, tf_actions
      <4> QED BY <3>1, <4>1 DEF Dispatch, Shift, tf_parser__shift, Accept, Reduce,
                    tf_parser__reduce, ReduceInner
    <3>2. CASE Replay
      BY <3>2 DEF Replay, Shift, tf_parser__shift, Reduce, tf_parser__reduce, ReduceInner
    <3> QED BY <3>1, <3>2 DEF Next, TooLarge, Start, Lex, LexFail, Demote, Unexpected, Split,
                  SplitDies, SplitOom, Discard, outvars
  <2>2. \E cap \in tf_parser__grow(capacity, depth + 1) : cap # 0 /\ capacity' = cap
    BY <2>1 DEF ReduceRoot
  <2>3. capacity \in Nat /\ depth + 1 \in Nat
    BY DEF IInv, TypeOK
  <2> QED BY <2>2, <2>3, GrowFits
<1>2. [][Fits]_vars => WritesWithinCapacity
  BY PTL DEF WritesWithinCapacity
<1> QED BY <1>1, <1>2, Inductive, PTL DEF Spec

(* `leading` is exact, so the cell tf_parser__run accepts is the root. *)
THEOREM LeadingExact == Spec => []LeadingIsExact
<1>1. IInv => LeadingIsExact
  BY DEF IInv
<1> QED BY <1>1, Inductive, PTL

(* Cells stay in source order, behind the token and the lexer. *)
THEOREM SourceOrder == Spec => []StackInSourceOrder
<1>1. IInv => StackInSourceOrder
  BY DEF IInv
<1> QED BY <1>1, Inductive, PTL

(* An error is reported ahead of everything accepted, within the source. *)
THEOREM ErrorsAhead == Spec => []ErrorIsAhead
<1>1. IInv => ErrorIsAhead
  BY DEF IInv
<1> QED BY <1>1, Inductive, PTL

(* The assertion at the accept action of tf_parser__run cannot fail. *)
THEOREM AcceptAssertion == Spec => []AcceptFollowsRoot
<1>1. IInv => AcceptFollowsRoot
  <2> SUFFICES ASSUME IInv, pc = "act", NEW a \in tf_actions(Top, token.symbol), a.type = "accept"
               PROVE  root_emitted
    BY DEF AcceptFollowsRoot
  <2>1. Top \in State /\ token.symbol \in Terminal
    BY DEF IInv, TypeOK, Token, Top
  <2>2. token.symbol = End /\ tf_count(Top, End) = 1
    BY <2>1, AcceptAssumption
  <2>3. tf_action(Top, End, 1).type = "accept"
    BY <2>2 DEF tf_actions
  <2> QED BY <2>2, <2>3 DEF IInv, RootThenAccept, GoesOn, Running, accepts_end
<1> QED BY <1>1, Inductive, PTL

(* No sink value reaches two parents, or a parent and on_discard. *)
THEOREM ValuesOnce == Spec => []HandedOnce
<1>1. IInv => HandedOnce
  BY DEF IInv
<1> QED BY <1>1, Inductive, PTL

(* Where memory suffices every value the sink returned has, by the end of  *)
(* the parse, reached a parent or on_discard exactly once, or is the root. *)
THEOREM NothingLost == Spec => []ValuesSettled
<1>1. IInv => ValuesSettled
  <2> SUFFICES ASSUME IInv, error.kind # "oom", pc = "done", NEW v \in 1 .. issued
               PROVE  Settled(v)
    BY DEF ValuesSettled, EveryValueSettled
  <2>1. CASE error.kind = "none"
    BY <2>1 DEF IInv, ValuesOwned, Settled
  <2>2. CASE error.kind # "none"
    BY <2>2 DEF IInv, ValuesOwned, Settled
  <2> QED BY <2>1, <2>2
<1> QED BY <1>1, Inductive, PTL
=============================================================================
