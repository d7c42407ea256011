-------------------------- MODULE TFVisibleProofs ---------------------------
(***************************************************************************)
(* The visible filter keeps its arena divided among the cells of the stack *)
(* and, while memory lasts, gives every value to exactly one owner; and it *)
(* reports at every node what a walk of the tree shows there: for every    *)
(* grammar, alias and field table, and whatever the consumer folds.        *)
(***************************************************************************)
EXTENDS TFVisible, FiniteSetTheorems, SequenceTheorems, WellFoundedInduction, TLAPS

-----------------------------------------------------------------------------
(* Counting up.                                                            *)

(* What holds of 0 and of the next number holds up to n.                   *)
LEMMA Climb ==
  ASSUME NEW n \in Nat, NEW G, 0 \in G, \A i \in 0 .. n : i # n /\ i \in G => i + 1 \in G
  PROVE  \A i \in 0 .. n : i \in G
<1> SUFFICES ASSUME NEW k \in 0 .. n, k \notin G PROVE FALSE
  OBVIOUS
<1> DEFINE Lacking == {i \in Nat : i <= n /\ i \notin G}
<1>1. PICK i \in Lacking : \A h \in Lacking : <<h, i>> \notin OpToRel(<, Nat)
  <2>1. Lacking \subseteq Nat /\ Lacking # {}
    OBVIOUS
  <2> HIDE DEF Lacking
  <2> QED BY <2>1, WFMin, NatLessThanWellFounded, Zenon
<1>2. \A h \in Lacking : ~(h < i)
  BY <1>1 DEF OpToRel
<1>3. i \in Nat /\ i <= n /\ i \notin G
  OBVIOUS
<1>4. i # 0
  BY <1>3
<1>5. i - 1 \in 0 .. n /\ i - 1 # n /\ i - 1 < i /\ (i - 1) + 1 = i
  BY <1>3, <1>4
<1>6. i - 1 \in G
  BY <1>2, <1>5
<1> QED BY <1>3, <1>5, <1>6

(* f iterates F, a function of the step and the last value, n times.       *)
StaysIn(F, n, S) == \A i \in 1 .. n, y \in S : F[i][y] \in S
Iterates(f, F, x, n, S) ==
  f \in [0 .. n -> S] /\ f[0] = x /\ \A i \in 1 .. n : f[i] = F[i][f[i - 1]]

(* There is an iteration of every function.                                *)
LEMMA IterationExists ==
  ASSUME NEW S, NEW x \in S, NEW n \in Nat, NEW F, StaysIn(F, n, S)
  PROVE  \E f : Iterates(f, F, x, n, S)
<1> USE DEF StaysIn, Iterates
<1> DEFINE Has(i) == \E f \in [0 .. i -> S] : f[0] = x /\ \A j \in 1 .. i : f[j] = F[j][f[j - 1]]
           G == {i \in 0 .. n : Has(i)}
<1>1. 0 \in G
  <2> DEFINE f == [j \in 0 .. 0 |-> x]
  <2>1. f \in [0 .. 0 -> S] /\ f[0] = x /\ \A j \in 1 .. 0 : f[j] = F[j][f[j - 1]]
    OBVIOUS
  <2>2. Has(0)
    <3> HIDE DEF f
    <3> QED BY <2>1
  <2> HIDE DEF Has
  <2> QED BY <2>2
<1>2. ASSUME NEW i \in 0 .. n, i # n, i \in G
      PROVE  i + 1 \in G
  <2>1. PICK f \in [0 .. i -> S] : f[0] = x /\ \A j \in 1 .. i : f[j] = F[j][f[j - 1]]
    BY <1>2
  <2> DEFINE g == [j \in 0 .. i + 1 |-> IF j = i + 1 THEN F[i + 1][f[i]] ELSE f[j]]
  <2>2. f[i] \in S /\ i + 1 \in 1 .. n /\ i + 1 \in 0 .. n
    BY <1>2
  <2>3. F[i + 1][f[i]] \in S
    BY <2>2
  <2>4. g \in [0 .. i + 1 -> S] /\ g[0] = x
    BY <2>1, <2>3
  <2>5. ASSUME NEW j \in 1 .. i + 1
        PROVE  g[j] = F[j][g[j - 1]]
    BY <2>1
  <2>6. Has(i + 1)
    <3> HIDE DEF g
    <3> QED BY <2>4, <2>5
  <2> HIDE DEF Has
  <2> QED BY <2>2, <2>6
<1>3. n \in G
  <2> HIDE DEF G
  <2> QED BY <1>1, <1>2, Climb
<1> QED BY <1>3

(* at runs through the sums of the first n lengths.                        *)
Adds(at, lengths, n) ==
  /\ at \in [0 .. n -> Nat] /\ at[0] = 0
  /\ \A i \in 1 .. n : lengths[i] \in Nat /\ at[i] = at[i - 1] + lengths[i]

(* Sums grow.                                                              *)
LEMMA AddsGrow ==
  ASSUME NEW n \in Nat, NEW at, NEW lengths, Adds(at, lengths, n),
         NEW j \in 0 .. n, NEW i \in 0 .. j
  PROVE  at[i] \in Nat /\ at[j] \in Nat /\ at[i] <= at[j]
<1> DEFINE G == {k \in 0 .. n : i <= k => at[i] <= at[k]}
<1>1. \A k \in 0 .. n : at[k] \in Nat
  BY DEF Adds
<1>2. 0 \in G
  BY <1>1
<1>3. ASSUME NEW k \in 0 .. n, k # n, k \in G
      PROVE  k + 1 \in G
  <2>1. k + 1 \in 1 .. n /\ (k + 1) - 1 = k
    BY <1>3
  <2>2. at[k + 1] = at[k] + lengths[k + 1] /\ lengths[k + 1] \in Nat
    BY <2>1 DEF Adds
  <2>3. at[i] \in Nat /\ at[k] \in Nat /\ at[k + 1] \in Nat
    BY <1>1, <2>1
  <2>4. CASE i = k + 1
    BY <2>1, <2>3, <2>4
  <2>5. CASE i # k + 1
    BY <1>3, <2>1, <2>2, <2>3, <2>5
  <2> QED BY <2>4, <2>5
<1>4. j \in G
  <2> HIDE DEF G
  <2> QED BY <1>2, <1>3, Climb
<1> QED BY <1>1, <1>4

Matches(lengths, widths, b, m) == \A i \in 1 .. m : lengths[b + i] = widths[i]
Offset(at, bt, b, m) == \A i \in 0 .. m : at[b + i] = at[b] + bt[i]

(* Two runs of sums over the same lengths, one from the middle of another, *)
(* run in step.                                                            *)
LEMMA AddsAgree ==
  ASSUME NEW n \in Nat, NEW at, NEW lengths, Adds(at, lengths, n),
         NEW m \in Nat, NEW bt, NEW widths, Adds(bt, widths, m),
         NEW b \in 0 .. n, b + m <= n, Matches(lengths, widths, b, m)
  PROVE  Offset(at, bt, b, m)
<1> USE DEF Matches, Offset
<1> DEFINE G == {i \in 0 .. m : at[b + i] = at[b] + bt[i]}
<1>1. 0 \in G
  <2>1. at[b] \in Nat /\ bt[0] = 0 /\ b + 0 = b
    BY DEF Adds
  <2> QED BY <2>1
<1>2. ASSUME NEW i \in 0 .. m, i # m, i \in G
      PROVE  i + 1 \in G
  <2>1. i + 1 \in 1 .. m /\ (i + 1) - 1 = i /\ b + (i + 1) \in 1 .. n /\ (b + (i + 1)) - 1 = b + i
    BY <1>2
  <2>2. at[b + (i + 1)] = at[b + i] + lengths[b + (i + 1)]
    BY <2>1 DEF Adds
  <2>3. bt[i + 1] = bt[i] + widths[i + 1]
    BY <2>1 DEF Adds
  <2>4. at[b] \in Nat /\ bt[i] \in Nat /\ widths[i + 1] \in Nat
    BY <2>1 DEF Adds
  <2>5. lengths[b + (i + 1)] = widths[i + 1]
    BY <2>1
  <2> QED BY <1>2, <2>1, <2>2, <2>3, <2>4, <2>5
<1>3. \A i \in 0 .. m : i \in G
  <2> HIDE DEF G
  <2> QED BY <1>1, <1>2, Climb
<1> QED BY <1>3

-----------------------------------------------------------------------------
(* What cells own.                                                         *)

Widths(cells) == [i \in 1 .. Len(cells) |-> cells[i].children]
Rated(cells) == Len(cells) \in Nat /\ \A i \in 1 .. Len(cells) : cells[i].children \in Nat

(* There are sums of any lengths.                                          *)
LEMMA SumsExist ==
  ASSUME NEW n \in Nat, NEW lengths, \A i \in 1 .. n : lengths[i] \in Nat
  PROVE  \E at : Adds(at, lengths, n)
<1> DEFINE F == [i \in 1 .. n |-> [y \in Nat |-> y + lengths[i]]]
<1>1. \A i \in 1 .. n, y \in Nat : F[i][y] \in Nat
  OBVIOUS
<1>2. PICK f \in [0 .. n -> Nat] : f[0] = 0 /\ \A i \in 1 .. n : f[i] = F[i][f[i - 1]]
  <2> DEFINE none == 0
  <2>1. none \in Nat
    OBVIOUS
  <2> HIDE DEF F, none
  <2>2. StaysIn(F, n, Nat)
    BY <1>1 DEF StaysIn
  <2>3. \E f : Iterates(f, F, none, n, Nat)
    BY <2>1, <2>2, IterationExists, Zenon
  <2> QED BY <2>3 DEF none, Iterates
<1>3. \A i \in 1 .. n : f[i - 1] \in Nat
  BY <1>2
<1>4. \A i \in 1 .. n : f[i] = f[i - 1] + lengths[i]
  BY <1>2, <1>3
<1> QED BY <1>2, <1>4 DEF Adds

(* Owned is the sum of what the cells own.                                 *)
LEMMA OwnedAdds ==
  ASSUME NEW cells, Rated(cells)
  PROVE  Adds(Owned(cells), Widths(cells), Len(cells))
<1> DEFINE n == Len(cells)
           u == Owned(cells)
           Step(f) == [i \in 0 .. n |-> IF i = 0 THEN 0 ELSE f[i - 1] + cells[i].children]
<1>1. n \in Nat /\ \A i \in 1 .. n : Widths(cells)[i] = cells[i].children /\ cells[i].children \in Nat
  BY DEF Rated, Widths
<1>2. u = CHOOSE f : f = Step(f)
  BY Zenon DEF Owned, Owns
<1>3. \E f : f = Step(f)
  <2>1. \A i \in 1 .. n : Widths(cells)[i] \in Nat
    BY <1>1
  <2>2. PICK f : Adds(f, Widths(cells), n)
    <3> HIDE DEF n
    <3> QED BY <1>1, <2>1, SumsExist
  <2>3. f \in [0 .. n -> Nat] /\ f[0] = 0 /\ \A i \in 1 .. n : f[i] = f[i - 1] + cells[i].children
    BY <1>1, <2>2 DEF Adds
  <2>4. \A i \in 0 .. n : f[i] = IF i = 0 THEN 0 ELSE f[i - 1] + cells[i].children
    BY <1>1, <2>3
  <2>5. f = Step(f)
    BY <2>3, <2>4
  <2> QED BY <2>5
<1>4. u = Step(u)
  <2> HIDE DEF u, Step
  <2> QED BY <1>2, <1>3
<1> HIDE DEF u
<1>5. \A i \in 0 .. n : u[i] = IF i = 0 THEN 0 ELSE u[i - 1] + cells[i].children
  BY <1>4, Zenon
<1>6. u[0] = 0 /\ \A i \in 1 .. n : u[i] = u[i - 1] + cells[i].children
  BY <1>1, <1>5
<1>7. \A i \in 0 .. n : u[i] \in Nat
  <2> DEFINE G == {i \in 0 .. n : u[i] \in Nat}
  <2>1. 0 \in G
    BY <1>1, <1>6
  <2>2. ASSUME NEW i \in 0 .. n, i # n, i \in G PROVE i + 1 \in G
    <3>1. i + 1 \in 1 .. n /\ (i + 1) - 1 = i
      BY <1>1, <2>2
    <3> QED BY <1>1, <1>6, <2>2, <3>1
  <2>3. \A i \in 0 .. n : i \in G
    <3> HIDE DEF G, n
    <3> QED BY <1>1, <2>1, <2>2, Climb
  <2> QED BY <2>3
<1>8. u \in [0 .. n -> Nat]
  <2>1. u = [i \in 0 .. n |-> u[i]]
    BY <1>4, Zenon
  <2> QED BY <1>7, <2>1
<1>9. \A i \in 1 .. n : u[i] = u[i - 1] + Widths(cells)[i] /\ Widths(cells)[i] \in Nat
  BY <1>1, <1>6
<1> QED BY <1>6, <1>8, <1>9 DEF Adds, u

(* g[i] is the first i of n sequences laid end to end, and FlattenSeq their*)
(* last.                                                                   *)
Runs(g, ss, n, S) ==
  /\ g \in [0 .. n -> Seq(S)] /\ g[0] = << >> /\ FlattenSeq(ss) = g[n]
  /\ \A i \in 1 .. n : g[i] = g[i - 1] \o ss[i]
Seqs(ss, n, S) == Len(ss) = n /\ (n = 0 => ss = << >>) /\ \A i \in 1 .. n : ss[i] \in Seq(S)

(* There is such a g.                                                      *)
LEMMA FlatRuns ==
  ASSUME NEW S, NEW n \in Nat, NEW ss, Seqs(ss, n, S)
  PROVE  \E g : Runs(g, ss, n, S)
<1> USE DEF Runs, Seqs
<1>1. CASE n = 0
  <2> DEFINE g == [i \in 0 .. 0 |-> << >>]
  <2>1. FlattenSeq(ss) = ss /\ ss = << >>
    BY <1>1 DEF FlattenSeq
  <2>2. g \in [0 .. 0 -> Seq(S)] /\ g[0] = << >> /\ \A i \in 1 .. 0 : g[i] = g[i - 1] \o ss[i]
    OBVIOUS
  <2> HIDE DEF g
  <2> QED BY <1>1, <2>1, <2>2
<1>2. CASE n # 0
  <2> DEFINE Step(f) == [i \in 1 .. n |-> IF i = 1 THEN ss[i] ELSE f[i - 1] \o ss[i]]
             u == CHOOSE f : f = Step(f)
             F == [i \in 1 .. n |-> [y \in Seq(S) |-> IF i = 1 THEN ss[1] ELSE y \o ss[i]]]
  <2>1. FlattenSeq(ss) = u[n]
    BY <1>2, Zenon DEF FlattenSeq
  <2>2. \A i \in 1 .. n, y \in Seq(S) : F[i][y] \in Seq(S)
    BY ConcatProperties
  <2>3. PICK g \in [0 .. n -> Seq(S)] : g[0] = << >> /\ \A i \in 1 .. n : g[i] = F[i][g[i - 1]]
    <3> DEFINE none == << >>
               T == Seq(S)
    <3>1. none \in T
      OBVIOUS
    <3> HIDE DEF F, none, T
    <3>2. StaysIn(F, n, T)
      BY <2>2 DEF T, StaysIn
    <3>3. \E g : Iterates(g, F, none, n, T)
      BY <3>1, <3>2, IterationExists, Zenon
    <3> QED BY <3>3 DEF none, T, Iterates
  <2>4. \A i \in 1 .. n : i \in 0 .. n /\ i - 1 \in 0 .. n /\ (i # 1 => i - 1 \in 1 .. n)
    OBVIOUS
  <2>5. \A i \in 1 .. n : g[i - 1] \in Seq(S) /\ g[i] \in Seq(S)
    BY <2>3, <2>4
  <2>6. \A i \in 1 .. n : g[i] = IF i = 1 THEN ss[i] ELSE g[i - 1] \o ss[i]
    BY <2>3, <2>5
  <2>7. \E f : f = Step(f)
    <3> DEFINE f == [i \in 1 .. n |-> g[i]]
    <3>1. \A i \in 1 .. n : f[i] = IF i = 1 THEN ss[i] ELSE f[i - 1] \o ss[i]
      BY <2>4, <2>6
    <3>2. f = [i \in 1 .. n |-> f[i]]
      OBVIOUS
    <3> HIDE DEF f
    <3>3. f = Step(f)
      BY <3>1, <3>2
    <3> QED BY <3>3
  <2>8. u = Step(u)
    <3> HIDE DEF Step
    <3> QED BY <2>7
  <2> HIDE DEF u, F
  <2>9. \A i \in 1 .. n : u[i] = IF i = 1 THEN ss[i] ELSE u[i - 1] \o ss[i]
    BY <2>8, Zenon
  <2>10. \A i \in 0 .. n : i \in {j \in 0 .. n : j # 0 => u[j] = g[j]}
    <3> DEFINE G == {j \in 0 .. n : j # 0 => u[j] = g[j]}
    <3>1. 0 \in G
      OBVIOUS
    <3>2. ASSUME NEW i \in 0 .. n, i # n, i \in G PROVE i + 1 \in G
      <4>1. i + 1 \in 1 .. n /\ (i + 1) - 1 = i /\ i + 1 \in 0 .. n /\ (i + 1 # 1 => i # 0)
        BY <3>2
      <4>2. u[i + 1] = g[i + 1]
        BY <2>6, <2>9, <3>2, <4>1
      <4> QED BY <4>1, <4>2
    <3> HIDE DEF G
    <3>3. \A i \in 0 .. n : i \in G
      BY <3>1, <3>2, Climb
    <3> QED BY <3>3 DEF G
  <2>11. u[n] = g[n]
    BY <1>2, <2>10
  <2>12. ASSUME NEW i \in 1 .. n PROVE g[i] = g[i - 1] \o ss[i]
    <3>1. CASE i = 1
      <4>1. g[i - 1] = << >> /\ ss[i] \in Seq(S) /\ g[i] = ss[i]
        BY <2>3, <2>6, <3>1
      <4> QED BY <4>1
    <3>2. CASE i # 1
      BY <2>6, <3>2
    <3> QED BY <3>1, <3>2
  <2> QED BY <2>1, <2>3, <2>11, <2>12
<1> QED BY <1>1, <1>2

(* What FlattenSeq makes of the first k rows of R.                         *)
Laid(R, k) == FlattenSeq([i \in 1 .. k |-> R[i]])

(* It makes nothing of none, and adds row by row.                          *)
LEMMA LaidStep ==
  ASSUME NEW S, NEW R, NEW k \in Nat, \A i \in 1 .. k + 1 : R[i] \in Seq(S)
  PROVE  /\ Laid(R, 0) = << >> /\ Laid(R, k) \in Seq(S)
         /\ Laid(R, k + 1) = Laid(R, k) \o R[k + 1] /\ Laid(R, k + 1) \in Seq(S)
<1> DEFINE ss == [i \in 1 .. k |-> R[i]]
           tt == [i \in 1 .. k + 1 |-> R[i]]
<1>1. Laid(R, 0) = << >>
  <2>1. [i \in 1 .. 0 |-> R[i]] = << >>
    OBVIOUS
  <2>2. FlattenSeq(<< >>) = << >>
    BY DEF FlattenSeq
  <2> QED BY <2>1, <2>2 DEF Laid
<1>2. /\ Len(ss) = k /\ (k = 0 => ss = << >>) /\ \A i \in 1 .. k : ss[i] \in Seq(S) /\ ss[i] = R[i]
      /\ k + 1 \in Nat /\ k + 1 # 0 /\ Len(tt) = k + 1
      /\ \A i \in 1 .. k + 1 : tt[i] \in Seq(S) /\ tt[i] = R[i]
  OBVIOUS
<1>3. Laid(R, k) = FlattenSeq(ss) /\ Laid(R, k + 1) = FlattenSeq(tt)
  BY Zenon DEF Laid
<1> HIDE DEF ss, tt
<1>4. PICK g : Runs(g, ss, k, S)
  <2>1. Seqs(ss, k, S)
    BY <1>2 DEF Seqs
  <2> QED BY <2>1, FlatRuns, Zenon
<1>5. PICK h : Runs(h, tt, k + 1, S)
  <2> DEFINE n == k + 1
  <2>1. Seqs(tt, n, S) /\ n \in Nat
    BY <1>2 DEF Seqs
  <2> HIDE DEF n
  <2>2. \E h : Runs(h, tt, n, S)
    BY <2>1, FlatRuns, Zenon
  <2> QED BY <2>2 DEF n
<1> USE DEF Runs
<1> DEFINE G == {i \in 0 .. k : h[i] = g[i]}
<1>6. 0 \in G
  BY <1>4, <1>5
<1>7. ASSUME NEW i \in 0 .. k, i # k, i \in G PROVE i + 1 \in G
  <2>1. i + 1 \in 1 .. k /\ i + 1 \in 1 .. k + 1 /\ (i + 1) - 1 = i /\ i + 1 \in 0 .. k
    BY <1>7
  <2>2. ss[i + 1] = tt[i + 1]
    BY <1>2, <2>1
  <2>3. g[i + 1] = g[i] \o ss[i + 1] /\ h[i + 1] = h[i] \o tt[i + 1] /\ h[i] = g[i]
    BY <1>4, <1>5, <1>7, <2>1
  <2> QED BY <2>1, <2>2, <2>3
<1>8. k \in G
  <2>1. k \in 0 .. k
    OBVIOUS
  <2> HIDE DEF G
  <2> QED BY <1>6, <1>7, <2>1, Climb
<1>9. k + 1 \in 1 .. k + 1 /\ (k + 1) - 1 = k /\ k \in 0 .. k /\ k + 1 \in 0 .. k + 1
  OBVIOUS
<1>10. h[k + 1] = h[k] \o tt[k + 1] /\ tt[k + 1] = R[k + 1] /\ h[k] = g[k]
  BY <1>2, <1>5, <1>8, <1>9
<1>11. g[k] \in Seq(S) /\ h[k + 1] \in Seq(S)
  BY <1>4, <1>5, <1>9
<1> QED BY <1>1, <1>3, <1>4, <1>5, <1>10, <1>11

-----------------------------------------------------------------------------
(* The inductive invariant.                                                *)

(* The cells of the stack: an extra owns nothing, since only a token is    *)
(* shifted as one.                                                         *)
Cells(cells) ==
  /\ Rated(cells) /\ cells \in Seq(Range(cells))
  /\ \A i \in 1 .. Len(cells) : /\ cells[i].extra \in BOOLEAN /\ cells[i].symbol \in DOMAIN Public
                                /\ cells[i].extra => cells[i].children = 0

Shape ==
  /\ TypeOK /\ named_only \in BOOLEAN /\ made \in Seq(Range(made))
  /\ Len(arena) <= arena_capacity /\ Cells(stack)

Divided == pc = "parse" /\ ~failed => Owned(stack)[Len(stack)] = Len(arena)

Holds(entries, v) == \E i \in 1 .. Len(entries) : entries[i].value = v

(* The account of the values: each was handed over at most once, an entry's*)
(* value is one the consumer returned, no two entries have the same, and   *)
(* the values that were not handed over are those of the entries.          *)
Account(nodes, given, entries) ==
  /\ \A v \in 1 .. Len(nodes) : given[v] \in {0, 1}
  /\ \A i \in 1 .. Len(entries) :
       /\ entries[i].value \in 0 .. Len(nodes)
       /\ entries[i].value # NULL => nodes[entries[i].value].symbol \notin Silent
  /\ \A i, j \in 1 .. Len(entries) :
       entries[i].value # NULL /\ entries[i].value = entries[j].value => i = j
  /\ \A v \in 1 .. Len(nodes) :
       nodes[v].symbol \notin Silent => (given[v] = 0 <=> Holds(entries, v))

(* When the root is reported it takes what is left.                        *)
Closed(nodes, given, last) ==
  /\ \A v \in 1 .. Len(nodes) : given[v] \in {0, 1}
  /\ \A v \in 1 .. Len(nodes) : nodes[v].symbol \notin Silent => (given[v] = 1 <=> v # last)

Accounted ==
  ~failed =>
    /\ pc = "parse" => ~ok /\ root = NULL
    /\ pc # "done" /\ ~ok => Account(made, handed, arena)
    /\ pc # "done" /\ ok => Closed(made, handed, root)
    /\ pc = "done" => Closed(made, handed, root)

IInv == Shape /\ Divided /\ Accounted

-----------------------------------------------------------------------------
(* Counting where a value is shown.                                        *)

(* Nodes with their children.                                              *)
Parents(nodes) ==
  /\ nodes \in Seq(Range(nodes)) /\ Len(nodes) \in Nat
  /\ \A n \in 1 .. Len(nodes) : /\ Len(nodes[n].children) \in Nat
                                /\ DOMAIN nodes[n].children = 1 .. Len(nodes[n].children)

(* A place where v is shown, spelled out.                                  *)
LEMMA ShowingsAre ==
  ASSUME NEW nodes, Parents(nodes), NEW v
  PROVE  \A e : e \in Showings(nodes, v) <=>
           \E n \in 1 .. Len(nodes) : \E c \in 1 .. Len(nodes[n].children) :
             e = <<n, c>> /\ nodes[n].children[c].value = v
<1>1. DOMAIN nodes = 1 .. Len(nodes)
  BY LenProperties DEF Parents
<1>2. \A n \in 1 .. Len(nodes) : DOMAIN nodes[n].children = 1 .. Len(nodes[n].children)
  BY DEF Parents
<1>3. ASSUME NEW e PROVE e \in UNION {{n} \X DOMAIN nodes[n].children : n \in DOMAIN nodes} <=>
                  \E n \in 1 .. Len(nodes) : \E c \in 1 .. Len(nodes[n].children) : e = <<n, c>>
  BY <1>1, <1>2
<1>4. \A n, c : <<n, c>>[1] = n /\ <<n, c>>[2] = c
  OBVIOUS
<1> QED BY <1>3, <1>4 DEF Showings

(* There are finitely many.                                                *)
LEMMA ShowingsFinite ==
  ASSUME NEW nodes, Parents(nodes), NEW v
  PROVE  IsFiniteSet(Showings(nodes, v)) /\ Cardinality(Showings(nodes, v)) \in Nat
<1> DEFINE N == 1 .. Len(nodes)
           P(n) == {n} \X (1 .. Len(nodes[n].children))
           T == {P(n) : n \in N}
           f == [n \in N |-> P(n)]
<1>1. IsFiniteSet(N)
  BY FS_Interval DEF Parents
<1>2. \A n \in N : IsFiniteSet(P(n))
  <2> SUFFICES ASSUME NEW n \in N PROVE IsFiniteSet(P(n))
    OBVIOUS
  <2> DEFINE l == Len(nodes[n].children)
  <2>1. IsFiniteSet(1 .. l)
    <3>1. l \in Int /\ 1 \in Int
      BY DEF Parents
    <3> HIDE DEF l
    <3> QED BY <3>1, FS_Interval
  <2>2. IsFiniteSet({n})
    BY FS_Singleton
  <2> QED BY <2>1, <2>2, FS_Product
<1>3. f \in Surjection(N, T)
  <2> HIDE DEF P
  <2>1. f \in [N -> T]
    OBVIOUS
  <2>2. \A t \in T : \E n \in N : f[n] = t
    OBVIOUS
  <2> HIDE DEF f, N, T
  <2> QED BY <2>1, <2>2 DEF Surjection
<1>4. IsFiniteSet(T)
  <2> HIDE DEF f, N, T
  <2> QED BY <1>1, <1>3, FS_Surjection
<1>5. \A t \in T : IsFiniteSet(t)
  <2> HIDE DEF P
  <2> QED BY <1>2
<1>6. IsFiniteSet(UNION T)
  <2> HIDE DEF T
  <2> QED BY <1>4, <1>5, FS_UNION
<1>7. Showings(nodes, v) \in SUBSET (UNION T)
  <2> SUFFICES ASSUME NEW e \in Showings(nodes, v) PROVE e \in UNION T
    OBVIOUS
  <2>1. PICK n \in N : \E c \in 1 .. Len(nodes[n].children) : e = <<n, c>>
    BY ShowingsAre
  <2>2. e \in P(n) /\ P(n) \in T
    BY <2>1
  <2> HIDE DEF T, P
  <2> QED BY <2>2
<1> QED
  <2> HIDE DEF T
  <2> QED BY <1>6, <1>7, FS_Subset, FS_CardinalityType

(* What is shown in two goes is shown once after the other.                *)
LEMMA ShowingsAdd ==
  ASSUME NEW a, Parents(a), NEW b, Parents(b), NEW v
  PROVE  /\ Parents(a \o b) /\ Len(a \o b) = Len(a) + Len(b)
         /\ Cardinality(Showings(a \o b, v)) = Cardinality(Showings(a, v)) + Cardinality(Showings(b, v))
<1> DEFINE S == Range(a) \cup Range(b)
           k == Len(a)
           h(e) == <<k + e[1], e[2]>>
           B == Showings(b, v)
           f == [e \in B |-> h(e)]
           Moved == {h(e) : e \in B}
<1>1. a \in Seq(S) /\ b \in Seq(S) /\ Len(a) \in Nat /\ Len(b) \in Nat
  BY SeqMonotonic DEF Parents
<1>2. /\ a \o b \in Seq(S) /\ Len(a \o b) = Len(a) + Len(b)
      /\ \A i \in 1 .. Len(a) + Len(b) : (a \o b)[i] = IF i <= Len(a) THEN a[i] ELSE b[i - Len(a)]
  <2> HIDE DEF S
  <2> QED BY <1>1, ConcatProperties
<1>3. /\ \A n \in 1 .. Len(a) : (a \o b)[n] = a[n]
      /\ \A n \in 1 .. Len(b) : (a \o b)[k + n] = b[n]
  BY <1>1, <1>2
<1>4. Parents(a \o b)
  <2>1. a \o b \in Seq(Range(a \o b))
    BY <1>2, SeqOfRange
  <2>2. \A n \in 1 .. Len(a \o b) : n \in 1 .. Len(a) \/ (n - k \in 1 .. Len(b) /\ k + (n - k) = n)
    BY <1>1, <1>2
  <2>3. \A n \in 1 .. Len(a \o b) : \/ \E m \in 1 .. Len(a) : (a \o b)[n] = a[m]
                                    \/ \E m \in 1 .. Len(b) : (a \o b)[n] = b[m]
    BY <1>3, <2>2
  <2> QED BY <1>1, <1>2, <2>1, <2>3 DEF Parents
<1>5. Showings(a \o b, v) = Showings(a, v) \cup Moved
  <2>1. ASSUME NEW e \in Showings(a \o b, v) PROVE e \in Showings(a, v) \cup Moved
    <3>1. PICK n \in 1 .. Len(a \o b) : \E c \in 1 .. Len((a \o b)[n].children) :
                                          e = <<n, c>> /\ (a \o b)[n].children[c].value = v
      <4> DEFINE ab == a \o b
      <4> HIDE DEF ab
      <4>1. Parents(ab) /\ e \in Showings(ab, v)
        BY <1>4, <2>1 DEF ab
      <4>2. \E n \in 1 .. Len(ab) : \E c \in 1 .. Len(ab[n].children) :
              e = <<n, c>> /\ ab[n].children[c].value = v
        BY <4>1, ShowingsAre
      <4> QED BY <4>2 DEF ab
    <3>2. CASE n \in 1 .. Len(a)
      <4>1. e \in Showings(a, v)
        BY <1>3, <3>1, <3>2, ShowingsAre
      <4> QED BY <4>1
    <3>3. CASE n \notin 1 .. Len(a)
      <4>1. n - k \in 1 .. Len(b) /\ k + (n - k) = n
        BY <1>1, <1>2, <3>3
      <4>2. PICK c \in 1 .. Len(b[n - k].children) : e = <<n, c>> /\ b[n - k].children[c].value = v
        BY <1>3, <3>1, <4>1
      <4>3. <<n - k, c>> \in B
        BY <4>1, <4>2, ShowingsAre
      <4>4. h(<<n - k, c>>) = e
        BY <4>1, <4>2
      <4> HIDE DEF h, B
      <4> QED BY <4>3, <4>4
    <3> QED BY <3>2, <3>3
  <2>2. Showings(a, v) \subseteq Showings(a \o b, v)
    <3> SUFFICES ASSUME NEW e \in Showings(a, v) PROVE e \in Showings(a \o b, v)
      OBVIOUS
    <3>1. PICK n \in 1 .. Len(a) : \E c \in 1 .. Len(a[n].children) :
                                          e = <<n, c>> /\ a[n].children[c].value = v
      BY ShowingsAre
    <3>2. n \in 1 .. Len(a \o b) /\ (a \o b)[n] = a[n]
      BY <1>1, <1>2, <1>3
    <3> QED BY <1>4, <3>1, <3>2, ShowingsAre
  <2>3. Moved \subseteq Showings(a \o b, v)
    <3> SUFFICES ASSUME NEW e \in B PROVE h(e) \in Showings(a \o b, v)
      OBVIOUS
    <3>1. PICK n \in 1 .. Len(b) : \E c \in 1 .. Len(b[n].children) :
                                          e = <<n, c>> /\ b[n].children[c].value = v
      BY ShowingsAre
    <3>2. k + n \in 1 .. Len(a \o b) /\ (a \o b)[k + n] = b[n]
      BY <1>1, <1>2, <1>3
    <3>3. PICK c \in 1 .. Len(b[n].children) : e = <<n, c>> /\ b[n].children[c].value = v
      BY <3>1
    <3>4. h(e) = <<k + n, c>>
      BY <3>3
    <3> HIDE DEF h
    <3> QED BY <1>4, <3>2, <3>3, <3>4, ShowingsAre
  <2> HIDE DEF Moved
  <2> QED BY <2>1, <2>2, <2>3
<1>6. Showings(a, v) \cap Moved = {}
  <2> SUFFICES ASSUME NEW d \in Showings(a, v), NEW e \in B, d = h(e) PROVE FALSE
    OBVIOUS
  <2>1. d[1] \in 1 .. k /\ e[1] \in 1 .. Len(b)
    BY ShowingsAre
  <2>2. d[1] = k + e[1]
    OBVIOUS
  <2> QED BY <1>1, <2>1, <2>2
<1>7. IsFiniteSet(B) /\ IsFiniteSet(Showings(a, v)) /\ Cardinality(Showings(a, v)) \in Nat
  BY ShowingsFinite
<1>8. \A d, e \in B : h(d) = h(e) => d = e
  <2> SUFFICES ASSUME NEW d \in B, NEW e \in B, h(d) = h(e) PROVE d = e
    OBVIOUS
  <2>1. \E n \in 1 .. Len(b), c \in Nat : d = <<n, c>>
    BY ShowingsAre DEF Parents
  <2>2. \E n \in 1 .. Len(b), c \in Nat : e = <<n, c>>
    BY ShowingsAre DEF Parents
  <2>3. k + d[1] = k + e[1] /\ d[2] = e[2]
    OBVIOUS
  <2> HIDE DEF B
  <2> QED BY <1>1, <2>1, <2>2, <2>3
<1>9. IsFiniteSet(Moved) /\ Cardinality(Moved) = Cardinality(B)
  <2>1. f \in Bijection(B, Moved)
    <3> HIDE DEF h, B
    <3>1. f \in [B -> Moved]
      OBVIOUS
    <3>2. \A d, e \in B : f[d] = f[e] => d = e
      BY <1>8
    <3>3. \A t \in Moved : \E e \in B : f[e] = t
      OBVIOUS
    <3> HIDE DEF f, Moved
    <3> QED BY <3>1, <3>2, <3>3 DEF Bijection, Injection, Surjection, IsInjective
  <2>2. ExistsBijection(B, Moved)
    <3> HIDE DEF f, Moved, B
    <3> QED BY <2>1 DEF ExistsBijection
  <2> HIDE DEF Moved, B
  <2> QED BY <1>7, <2>2, FS_Bijection
<1>10. Cardinality(Moved) \in Nat
  BY <1>9, ShowingsFinite
<1> HIDE DEF Moved
<1>11. Cardinality(Showings(a \o b, v)) = Cardinality(Showings(a, v)) + Cardinality(Moved)
  <2> HIDE DEF B
  <2>1. Cardinality(Showings(a, v) \cup Moved) =
          Cardinality(Showings(a, v)) + Cardinality(Moved) - Cardinality(Showings(a, v) \cap Moved)
    BY <1>7, <1>9, FS_Union
  <2>2. Cardinality(Showings(a, v) \cap Moved) = 0
    BY <1>6, FS_EmptySet
  <2> QED BY <1>5, <1>7, <1>10, <2>1, <2>2
<1> QED BY <1>2, <1>4, <1>9, <1>11

-----------------------------------------------------------------------------
(* The children of a reduction.                                            *)

(* `kids` are cells whose entries are those of the arena above base.       *)
Kids(base, kids) == Cells(kids) /\ base \in Nat /\ base + Owned(kids)[Len(kids)] = Len(arena)

(* The arithmetic of a slice of w entries from x, where t lie above base.  *)
LEMMA Slice ==
  ASSUME NEW base \in Nat, NEW x \in Nat, NEW w \in Nat, NEW t \in Nat, x + w <= t
  PROVE  /\ base + x + 1 \in Int /\ base + (x + w) \in Int /\ 1 <= base + x + 1
         /\ base + (x + w) <= base + t /\ (base + (x + w)) - (base + x + 1) + 1 = w
         /\ \A j \in 1 .. w : /\ base + x + j \in base + 1 .. base + t
                             /\ (base + x + 1) + j - 1 = base + x + j
  OBVIOUS

(* A child's run is its part of the arena.                                 *)
LEMMA RunIs ==
  ASSUME TypeOK, NEW base, NEW kids, Kids(base, kids), NEW i \in 1 .. Len(kids)
  PROVE  /\ Run(base, kids, i) \in Seq(Entry) /\ Len(Run(base, kids, i)) = kids[i].children
         /\ kids[i].children \in Nat /\ Owned(kids)[i - 1] \in Nat
         /\ \A j \in 1 .. kids[i].children :
              /\ base + Owned(kids)[i - 1] + j \in base + 1 .. Len(arena)
              /\ Run(base, kids, i)[j] = arena[base + Owned(kids)[i - 1] + j]
<1> DEFINE n == Len(kids)
           at == Owned(kids)
           a == base + at[i - 1] + 1
           z == base + at[i]
<1>1. Adds(at, Widths(kids), n) /\ n \in Nat /\ base \in Nat
  BY OwnedAdds DEF Kids, Cells, Rated
<1>2. kids[i].children \in Nat /\ Widths(kids)[i] = kids[i].children
  BY DEF Kids, Cells, Rated, Widths
<1>3. at[i] = at[i - 1] + kids[i].children
  BY <1>1, <1>2 DEF Adds
<1>4. i - 1 \in 0 .. n /\ i \in 0 .. n /\ i \in 0 .. n /\ n \in 0 .. n /\ i \in 0 .. n
  BY <1>1
<1>5. at[i - 1] \in Nat /\ at[i] \in Nat /\ at[n] \in Nat /\ at[i] <= at[n]
  BY <1>1, <1>4, AddsGrow
<1>6. Len(arena) = base + at[n] /\ arena \in Seq(Entry) /\ Len(arena) \in Nat
  BY LenProperties DEF Kids, TypeOK
<1> HIDE DEF at, n
<1>b. base \in Nat /\ at[i - 1] \in Nat /\ kids[i].children \in Nat /\ at[n] \in Nat
      /\ at[i - 1] + kids[i].children <= at[n]
  BY <1>1, <1>2, <1>3, <1>5
<1>7. /\ a \in Int /\ z \in Int /\ 1 <= a /\ z <= Len(arena) /\ z - a + 1 = kids[i].children
      /\ \A j \in 1 .. kids[i].children : /\ base + at[i - 1] + j \in base + 1 .. Len(arena)
                                          /\ a + j - 1 = base + at[i - 1] + j
  <2> DEFINE x == at[i - 1]
             w == kids[i].children
             t == at[n]
             y == x + w
  <2>1. base \in Nat /\ x \in Nat /\ w \in Nat /\ t \in Nat /\ x + w <= t
    BY <1>b
  <2>2. Len(arena) = base + t /\ z = base + (x + w) /\ a = base + x + 1
    BY <1>3, <1>6
  <2> HIDE DEF x, w, t, a, z
  <2>3. /\ base + x + 1 \in Int /\ base + (x + w) \in Int /\ 1 <= base + x + 1
        /\ base + (x + w) <= base + t /\ (base + (x + w)) - (base + x + 1) + 1 = w
        /\ \A j \in 1 .. w : /\ base + x + j \in base + 1 .. base + t
                            /\ (base + x + 1) + j - 1 = base + x + j
    BY <2>1, Slice
  <2>4. /\ a \in Int /\ z \in Int /\ 1 <= a /\ z <= Len(arena) /\ z - a + 1 = w
        /\ \A j \in 1 .. w : /\ base + x + j \in base + 1 .. Len(arena)
                            /\ a + j - 1 = base + x + j
    BY <2>2, <2>3, Zenon
  <2> QED BY <2>4, Zenon DEF x, w
<1>8. Run(base, kids, i) = SubSeq(arena, a, z)
  BY Zenon DEF Run, at
<1> HIDE DEF a, z
<1>9. \A k \in a .. z : arena[k] \in Entry
  BY <1>6, <1>7, ElementOfSeq
<1>10. /\ SubSeq(arena, a, z) \in Seq(Entry)
       /\ Len(SubSeq(arena, a, z)) = IF a <= z THEN z - a + 1 ELSE 0
       /\ \A k \in 1 .. z - a + 1 : SubSeq(arena, a, z)[k] = arena[a + k - 1]
  BY <1>7, <1>9, SubSeqProperties
<1>11. Len(SubSeq(arena, a, z)) = kids[i].children
  BY <1>2, <1>7, <1>10
<1>12. \A j \in 1 .. kids[i].children : SubSeq(arena, a, z)[j] = arena[base + at[i - 1] + j]
  BY <1>7, <1>10
<1> QED BY <1>2, <1>5, <1>7, <1>8, <1>10, <1>11, <1>12, Zenon DEF at

(* A production's rows say what FilterAssumption says.                     *)
RowsFit(p) == p = 0 \/ RowsOf(p)

(* What the rows say of a child.                                           *)
LEMMA RowTyped ==
  ASSUME NEW p, RowsFit(p), NEW kids, Cells(kids), NEW i \in 1 .. Len(kids)
  PROVE  /\ Alias(p, kids, i) \in {None} \cup DOMAIN Public /\ Field(p, kids, i) \in {None} \cup STRING
         /\ ShownSymbol(p, kids, i) \in DOMAIN Public
<1>1. Alias(p, kids, i) \in {None} \cup DOMAIN Public
  BY DEF Alias, Row, RowsFit, RowsOf
<1>2. Field(p, kids, i) \in {None} \cup STRING
  BY DEF Field, Row, RowsFit, RowsOf
<1> QED BY <1>1, <1>2 DEF ShownSymbol, Cells


-----------------------------------------------------------------------------
(* The book of one reduction: the account when `nodes` have been reported  *)
(* and `entries` are what the arena and the scratch array hold.            *)

Given(nodes) ==
  [v \in 1 .. Len(made) + Len(nodes) |->
     (IF v <= Len(made) THEN handed[v] ELSE 0) + Cardinality(Showings(nodes, v))]

Known(nodes, top) ==
  \A n \in 1 .. Len(nodes) : \A c \in 1 .. Len(nodes[n].children) : nodes[n].children[c].value \in 0 .. top

Book(nodes, entries) ==
  /\ Parents(nodes) /\ Known(nodes, Len(made) + Len(nodes))
  /\ Account(made \o nodes, Given(nodes), entries)

(* A node whose children have values up to top, each once.                 *)
Parent(N, top) ==
  /\ Len(N.children) \in Nat /\ DOMAIN N.children = 1 .. Len(N.children)
  /\ \A c \in 1 .. Len(N.children) : N.children[c].value \in 0 .. top
  /\ \A c, d \in 1 .. Len(N.children) :
       N.children[c].value # NULL /\ N.children[c].value = N.children[d].value => c = d

(* Such a node shows each of its values once.                              *)
LEMMA OneShown ==
  ASSUME NEW N, NEW top \in Nat, Parent(N, top), NEW v, v # NULL
  PROVE  /\ Parents(<<N>>)
         /\ Cardinality(Showings(<<N>>, v)) = IF Holds(N.children, v) THEN 1 ELSE 0
<1>1. /\ <<N>> \in Seq({N}) /\ Len(<<N>>) = 1 /\ <<N>>[1] = N
  OBVIOUS
<1>2. Parents(<<N>>)
  <2>1. <<N>> \in Seq(Range(<<N>>))
    BY <1>1, SeqOfRange
  <2>2. \A n \in 1 .. Len(<<N>>) : n = 1
    BY <1>1
  <2> QED BY <1>1, <2>1, <2>2 DEF Parents, Parent
<1>3. \A e : e \in Showings(<<N>>, v) <=> \E c \in 1 .. Len(N.children) : e = <<1, c>> /\ N.children[c].value = v
  <2> DEFINE nodes == <<N>>
  <2>1. Len(nodes) = 1 /\ nodes[1] = N /\ Parents(nodes) /\ \A n \in 1 .. Len(nodes) : n = 1
    BY <1>1, <1>2
  <2>2. 1 \in 1 .. Len(nodes)
    BY <2>1
  <2> HIDE DEF nodes
  <2>3. \A e : e \in Showings(nodes, v) <=>
           \E n \in 1 .. Len(nodes) : \E c \in 1 .. Len(nodes[n].children) :
             e = <<n, c>> /\ nodes[n].children[c].value = v
    BY <2>1, ShowingsAre
  <2>4. \A e : e \in Showings(nodes, v) <=> \E c \in 1 .. Len(N.children) : e = <<1, c>> /\ N.children[c].value = v
    <3> SUFFICES ASSUME NEW e
                 PROVE  e \in Showings(nodes, v) <=> \E c \in 1 .. Len(N.children) : e = <<1, c>> /\ N.children[c].value = v
      OBVIOUS
    <3>1. ASSUME e \in Showings(nodes, v) PROVE \E c \in 1 .. Len(N.children) : e = <<1, c>> /\ N.children[c].value = v
      <4>1. PICK n \in 1 .. Len(nodes) : \E c \in 1 .. Len(nodes[n].children) :
             e = <<n, c>> /\ nodes[n].children[c].value = v
        BY <2>3, <3>1
      <4>2. n = 1 /\ nodes[n] = N
        BY <2>1
      <4> QED BY <4>1, <4>2
    <3>2. ASSUME NEW c \in 1 .. Len(N.children), e = <<1, c>>, N.children[c].value = v PROVE e \in Showings(nodes, v)
      BY <2>1, <2>2, <2>3, <3>2
    <3> QED BY <3>1, <3>2
  <2> QED BY <2>4 DEF nodes
<1>4. CASE Holds(N.children, v)
  <2>1. PICK c \in 1 .. Len(N.children) : N.children[c].value = v
    BY <1>4 DEF Holds
  <2>2. \A d \in 1 .. Len(N.children) : N.children[d].value = v => d = c
    BY <2>1 DEF Parent
  <2>3. Showings(<<N>>, v) = {<<1, c>>}
    BY <1>3, <2>1, <2>2
  <2>4. Cardinality({<<1, c>>}) = 1
    BY FS_Singleton
  <2> QED BY <1>2, <1>4, <2>3, <2>4
<1>5. CASE ~Holds(N.children, v)
  <2>1. Showings(<<N>>, v) = {}
    BY <1>3, <1>5 DEF Holds
  <2> QED BY <1>2, <1>5, <2>1, FS_EmptySet
<1> QED BY <1>4, <1>5

(* A value nobody knows is shown nowhere.                                  *)
LEMMA NoneShown ==
  ASSUME NEW nodes, Parents(nodes), NEW top \in Nat, Known(nodes, top), NEW v, v \notin 0 .. top
  PROVE  Cardinality(Showings(nodes, v)) = 0
<1>1. Showings(nodes, v) = {}
  <2> SUFFICES ASSUME NEW e \in Showings(nodes, v) PROVE FALSE
    OBVIOUS
  <2>1. PICK n \in 1 .. Len(nodes) : \E c \in 1 .. Len(nodes[n].children) : nodes[n].children[c].value = v
    BY ShowingsAre
  <2> QED BY <2>1 DEF Known
<1> QED BY <1>1, FS_EmptySet

(* What one more node changes.                                             *)
LEMMA GivenStep ==
  ASSUME Shape, NEW nodes, Parents(nodes), Known(nodes, Len(made) + Len(nodes)),
         NEW N, Parent(N, Len(made) + Len(nodes))
  PROVE  LET M == Len(made) + Len(nodes)
             more == nodes \o <<N>>
         IN  /\ M \in Nat /\ Parents(more) /\ Len(more) = Len(nodes) + 1 /\ Known(more, Len(made) + Len(more))
             /\ Len(made \o nodes) = M /\ Len(made \o more) = M + 1
             /\ \A v \in 1 .. M : (made \o more)[v] = (made \o nodes)[v]
             /\ (made \o more)[M + 1] = N
             /\ \A v \in 1 .. M : Given(more)[v] = Given(nodes)[v] + IF Holds(N.children, v) THEN 1 ELSE 0
             /\ \A v \in 1 .. M : Given(nodes)[v] \in Nat
             /\ Given(more)[M + 1] = 0
<1> DEFINE M == Len(made) + Len(nodes)
           more == nodes \o <<N>>
           S == Range(made) \cup Range(nodes) \cup {N}
<1>1. made \in Seq(S) /\ nodes \in Seq(S) /\ <<N>> \in Seq(S) /\ Len(made) \in Nat /\ Len(nodes) \in Nat
  <2>1. made \in Seq(Range(made)) /\ nodes \in Seq(Range(nodes)) /\ <<N>> \in Seq({N}) /\ Len(nodes) \in Nat
    BY DEF Shape, Parents
  <2>2. Len(made) \in Nat
    BY <2>1, LenProperties
  <2> QED BY <2>1, <2>2, SeqMonotonic
<1>2. Len(<<N>>) = 1 /\ <<N>>[1] = N /\ M \in Nat
  BY <1>1
<1> HIDE DEF S
<1>3. /\ more \in Seq(S) /\ Len(more) = Len(nodes) + 1
      /\ \A i \in 1 .. Len(nodes) : more[i] = nodes[i]
      /\ more[Len(nodes) + 1] = N
  BY <1>1, <1>2, ConcatProperties
<1>4. /\ Len(made \o nodes) = M
      /\ \A v \in 1 .. M : (made \o nodes)[v] = IF v <= Len(made) THEN made[v] ELSE nodes[v - Len(made)]
  BY <1>1, ConcatProperties
<1>5. \A v \in Nat : Cardinality(Showings(nodes, v)) \in Nat
  BY ShowingsFinite
<1>6. Parents(<<N>>) /\ \A v \in 1 .. M + 1 : Cardinality(Showings(<<N>>, v)) = IF Holds(N.children, v) THEN 1 ELSE 0
  <2> HIDE DEF M
  <2>1. \A v : v # NULL => Parents(<<N>>) /\ Cardinality(Showings(<<N>>, v)) = IF Holds(N.children, v) THEN 1 ELSE 0
    BY <1>2, OneShown DEF M
  <2>2. \A v \in 1 .. M + 1 : v # NULL
    BY <1>2 DEF NULL
  <2>3. 1 # NULL
    BY DEF NULL
  <2> QED BY <2>1, <2>2, <2>3
<1>7. Parents(more) /\ \A v : Cardinality(Showings(more, v)) = Cardinality(Showings(nodes, v)) + Cardinality(Showings(<<N>>, v))
  <2> DEFINE one == <<N>>
  <2> HIDE DEF one
  <2>1. Parents(one)
    BY <1>6 DEF one
  <2>2. \A v : Parents(nodes \o one) /\ Cardinality(Showings(nodes \o one, v)) = Cardinality(Showings(nodes, v)) + Cardinality(Showings(one, v))
    BY <2>1, ShowingsAdd
  <2> QED BY <2>2 DEF one
<1> HIDE DEF more
<1>8. /\ Len(made \o more) = M + 1
      /\ \A v \in 1 .. M + 1 : (made \o more)[v] = IF v <= Len(made) THEN made[v] ELSE more[v - Len(made)]
  BY <1>1, <1>3, ConcatProperties
<1>9. (made \o more)[M + 1] = N
  <2>1. M + 1 \in 1 .. M + 1 /\ ~(M + 1 <= Len(made)) /\ (M + 1) - Len(made) = Len(nodes) + 1
    BY <1>1
  <2> QED BY <1>3, <1>8, <2>1
<1>10. \A v \in 1 .. M : (made \o more)[v] = (made \o nodes)[v]
  <2>1. \A v \in 1 .. M : v \in 1 .. M + 1 /\ (~(v <= Len(made)) => v - Len(made) \in 1 .. Len(nodes))
    BY <1>1
  <2> QED BY <1>3, <1>4, <1>8, <2>1
<1>11. Known(more, Len(made) + Len(more))
  <2> SUFFICES ASSUME NEW n \in 1 .. Len(more), NEW c \in 1 .. Len(more[n].children)
               PROVE  more[n].children[c].value \in 0 .. Len(made) + Len(more)
    BY DEF Known
  <2>1. 0 .. M \subseteq 0 .. Len(made) + Len(more)
    BY <1>1, <1>3
  <2>2. CASE n = Len(nodes) + 1
    <3>1. more[n] = N
      BY <1>3, <2>2
    <3>2. N.children[c].value \in 0 .. M
      BY <3>1 DEF Parent
    <3> QED BY <2>1, <3>1, <3>2
  <2>3. CASE n # Len(nodes) + 1
    <3>1. n \in 1 .. Len(nodes)
      BY <1>1, <1>3, <2>3
    <3>2. more[n].children[c].value \in 0 .. M
      BY <1>3, <3>1 DEF Known
    <3> QED BY <2>1, <3>2
  <2> QED BY <2>2, <2>3
<1>12. \A v \in 1 .. M : v \in Nat /\ v \in 1 .. M + 1 /\ v \in 1 .. Len(made) + Len(more)
  BY <1>1, <1>3
<1>13. \A v \in 1 .. M : (IF v <= Len(made) THEN handed[v] ELSE 0) \in Nat
  <2>1. \A v \in 1 .. M : v <= Len(made) => v \in 1 .. Len(made)
    BY <1>1
  <2>2. handed \in [1 .. Len(made) -> Nat]
    BY DEF Shape, TypeOK
  <2> QED BY <2>1, <2>2
<1>14. ASSUME NEW v \in 1 .. M
       PROVE  /\ Given(more)[v] = Given(nodes)[v] + IF Holds(N.children, v) THEN 1 ELSE 0
              /\ Given(nodes)[v] \in Nat
  <2> DEFINE h == IF v <= Len(made) THEN handed[v] ELSE 0
             s == Cardinality(Showings(nodes, v))
  <2>1. Given(nodes)[v] = h + s
    BY DEF Given
  <2>2. Given(more)[v] = h + Cardinality(Showings(more, v))
    BY <1>12 DEF Given
  <2>3. Cardinality(Showings(more, v)) = s + IF Holds(N.children, v) THEN 1 ELSE 0
    BY <1>6, <1>7, <1>12
  <2>4. h \in Nat /\ s \in Nat
    BY <1>5, <1>12, <1>13
  <2> HIDE DEF h, s
  <2> QED BY <2>1, <2>2, <2>3, <2>4
<1>15. Given(more)[M + 1] = 0
  <2>1. M + 1 \in 1 .. Len(made) + Len(more) /\ ~(M + 1 <= Len(made)) /\ M + 1 \notin 0 .. M /\ M + 1 \in 1 .. M + 1
    BY <1>1, <1>3
  <2>2. Cardinality(Showings(nodes, M + 1)) = 0
    <3> DEFINE m == M
               w == M + 1
    <3>1. m \in Nat /\ Known(nodes, m) /\ w \notin 0 .. m
      BY <1>2, <2>1
    <3> HIDE DEF m, w
    <3>2. Cardinality(Showings(nodes, w)) = 0
      BY <3>1, NoneShown
    <3> QED BY <3>2 DEF w
  <2>3. ~Holds(N.children, M + 1)
    BY <2>1 DEF Holds, Parent
  <2>4. Cardinality(Showings(more, M + 1)) = 0
    BY <1>6, <1>7, <2>1, <2>2, <2>3
  <2> QED BY <2>1, <2>4 DEF Given
<1> QED BY <1>2, <1>3, <1>4, <1>7, <1>8, <1>9, <1>10, <1>11, <1>14, <1>15 DEF more

(* N's children have the values of the r entries after the first a.        *)
Takes(N, entries, a, r) ==
  /\ Len(N.children) = r /\ DOMAIN N.children = 1 .. r
  /\ \A j \in 1 .. r : N.children[j].value = entries[a + j].value

(* The value of the top-th node, when it is N.                             *)
ValueFor(N, top) == IF N.symbol \in Silent THEN NULL ELSE top

(* Those are values N may have, and the entries are still in the book.     *)
LEMMA TakesParent ==
  ASSUME NEW nodes, NEW entries, Book(nodes, entries), NEW N, NEW a \in Nat, NEW r \in Nat, NEW top,
         Len(entries) \in Nat, a + r <= Len(entries), Takes(N, entries, a, r),
         Len(made \o nodes) = top
  PROVE  Parent(N, top)
<1>1. \A j \in 1 .. r : a + j \in 1 .. Len(entries)
  OBVIOUS
<1>2. \A i \in 1 .. Len(entries) : entries[i].value \in 0 .. top
  BY DEF Book, Account
<1>3. \A j \in 1 .. r : N.children[j].value \in 0 .. top
  BY <1>1, <1>2 DEF Takes
<1>4. ASSUME NEW c \in 1 .. r, NEW d \in 1 .. r,
             N.children[c].value # NULL, N.children[c].value = N.children[d].value
      PROVE  c = d
  <2>1. entries[a + c].value # NULL /\ entries[a + c].value = entries[a + d].value
    BY <1>4 DEF Takes
  <2>2. a + c = a + d
    BY <1>1, <2>1 DEF Book, Account
  <2> QED BY <2>2
<1> QED BY <1>3, <1>4 DEF Takes, Parent

Takings(N, nodes, given, entries, a, r, v) ==
  /\ Holds(N.children, v) => given[v] = 0 /\ nodes[v].symbol \notin Silent
  /\ Holds(N.children, v) =>
       \A i \in 1 .. Len(entries) : entries[i].value = v => i \in a + 1 .. a + r
  /\ ~Holds(N.children, v) =>
       \A i \in 1 .. Len(entries) : entries[i].value = v => i \notin a + 1 .. a + r

(* Its values were handed to nobody, and afterwards no one else has them.  *)
LEMMA TakesOnce ==
  ASSUME NEW M \in Nat, NEW nodes, Len(nodes) = M, NEW given, NEW entries, Account(nodes, given, entries),
         NEW N, NEW a \in Nat, NEW r \in Nat, NEW c \in Nat, Len(entries) = a + r + c, Takes(N, entries, a, r),
         NEW v \in 1 .. M
  PROVE  Takings(N, nodes, given, entries, a, r, v)
<1> USE DEF Takings
<1>1. \A j \in 1 .. r : a + j \in 1 .. Len(entries) /\ a + j \in a + 1 .. a + r
  OBVIOUS
<1>2. v # NULL
  BY DEF NULL
<1>3. ASSUME Holds(N.children, v)
      PROVE  /\ given[v] = 0 /\ nodes[v].symbol \notin Silent
             /\ \A i \in 1 .. Len(entries) : entries[i].value = v => i \in a + 1 .. a + r
  <2>1. PICK j \in 1 .. r : N.children[j].value = v
    BY <1>3 DEF Holds, Takes
  <2>2. a + j \in 1 .. Len(entries) /\ a + j \in a + 1 .. a + r /\ entries[a + j].value = v
    BY <1>1, <2>1 DEF Takes
  <2>3. nodes[v].symbol \notin Silent
    BY <1>2, <2>2 DEF Account
  <2>4. given[v] = 0
    BY <2>2, <2>3 DEF Account, Holds
  <2>5. \A i \in 1 .. Len(entries) : entries[i].value = v => i = a + j
    BY <1>2, <2>2 DEF Account
  <2> QED BY <2>2, <2>3, <2>4, <2>5
<1>4. ASSUME ~Holds(N.children, v), NEW i \in a + 1 .. a + r, entries[i].value = v PROVE FALSE
  <2>1. i - a \in 1 .. r /\ a + (i - a) = i
    OBVIOUS
  <2>2. N.children[i - a].value = v
    BY <1>4, <2>1 DEF Takes
  <2> QED BY <1>4, <2>1, <2>2 DEF Holds, Takes
<1> QED BY <1>3, <1>4

(* N takes r entries after the first a, one takes its place, and c follow. *)
Adoption(nodes, N, entries, after, a, r, c) ==
  /\ Len(entries) = a + r + c /\ Takes(N, entries, a, r)
  /\ Len(after) = a + 1 + c
  /\ \A i \in 1 .. a : after[i].value = entries[i].value
  /\ after[a + 1].value = ValueFor(N, Len(made) + Len(nodes) + 1)
  /\ \A i \in 1 .. c : after[a + 1 + i].value = entries[a + r + i].value

(* The book stays right.                                                   *)
LEMMA BookAdopts ==
  ASSUME Shape, NEW nodes, NEW entries, Book(nodes, entries), NEW N, NEW after,
         NEW a \in Nat, NEW r \in Nat, NEW c \in Nat, Adoption(nodes, N, entries, after, a, r, c)
  PROVE  Book(nodes \o <<N>>, after)
<1> USE DEF Adoption
<1> DEFINE M == Len(made) + Len(nodes)
           more == nodes \o <<N>>
           all == made \o nodes
           all1 == made \o more
           given == Given(nodes)
           given1 == Given(more)
<1>1. Len(made \o nodes) = Len(made) + Len(nodes)
  <2>1. made \in Seq(Range(made)) /\ nodes \in Seq(Range(nodes))
    BY DEF Shape, Book, Parents
  <2>2. made \in Seq(Range(made) \cup Range(nodes)) /\ nodes \in Seq(Range(made) \cup Range(nodes))
    BY <2>1, SeqMonotonic
  <2> QED BY <2>2, ConcatProperties
<1>2. Parent(N, Len(made) + Len(nodes))
  BY <1>1, TakesParent
<1>3. Parents(nodes) /\ Known(nodes, Len(made) + Len(nodes))
  BY DEF Book
<1>4. /\ M \in Nat /\ Parents(more) /\ Len(more) = Len(nodes) + 1 /\ Known(more, Len(made) + Len(more))
      /\ Len(all) = M /\ Len(all1) = M + 1
      /\ \A v \in 1 .. M : all1[v] = all[v]
      /\ all1[M + 1] = N
      /\ \A v \in 1 .. M : given1[v] = given[v] + IF Holds(N.children, v) THEN 1 ELSE 0
      /\ given1[M + 1] = 0
  BY <1>2, <1>3, GivenStep
<1>5. Account(all, given, entries)
  BY DEF Book
<1>6. after[a + 1].value = ValueFor(N, M + 1)
  OBVIOUS
<1> HIDE DEF M, more, all, all1, given, given1
<1> DEFINE back(g) == IF g <= a THEN g ELSE g - 1 + r
<1>7. ASSUME NEW i \in 1 .. Len(after), i # a + 1
      PROVE  /\ back(i) \in 1 .. Len(entries) /\ back(i) \notin a + 1 .. a + r
             /\ after[i].value = entries[back(i)].value
  <2>1. CASE i <= a
    <3>1. i \in 1 .. a /\ i \in 1 .. Len(entries)
      BY <2>1
    <3> QED BY <2>1, <3>1
  <2>2. CASE ~(i <= a)
    <3>0. i \in Nat /\ a + 1 < i /\ i <= a + 1 + c
      BY <1>7, <2>2
    <3>1. i - (a + 1) \in 1 .. c /\ a + 1 + (i - (a + 1)) = i /\ a + r + (i - (a + 1)) = i - 1 + r
          /\ i - 1 + r \in 1 .. Len(entries) /\ i - 1 + r \notin a + 1 .. a + r
      BY <3>0
    <3>2. after[a + 1 + (i - (a + 1))].value = entries[a + r + (i - (a + 1))].value
      BY <3>1
    <3> QED BY <2>2, <3>1, <3>2
  <2> QED BY <2>1, <2>2
<1>a. ASSUME NEW i \in 1 .. Len(after), NEW k \in 1 .. Len(after), i # a + 1, k # a + 1, back(i) = back(k)
      PROVE  i = k
  <2>1. i \in Nat /\ k \in Nat /\ (i <= a \/ a + 2 <= i) /\ (k <= a \/ a + 2 <= k)
    BY <1>a
  <2>2. /\ i <= a /\ a + 2 <= k => back(i) <= a /\ a < back(k)
        /\ k <= a /\ a + 2 <= i => back(k) <= a /\ a < back(i)
    BY <2>1
  <2>3. i <= a /\ k <= a => i = k
    BY <1>a
  <2>4. a + 2 <= i /\ a + 2 <= k => i - 1 + r = k - 1 + r
    BY <1>a, <2>1
  <2>5. i \in Nat /\ k \in Nat /\ r \in Nat /\ i - 1 + r = k - 1 + r => i = k
    OBVIOUS
  <2>6. i <= a /\ a + 2 <= k => FALSE
    BY <1>a, <2>1, <2>2
  <2>7. k <= a /\ a + 2 <= i => FALSE
    BY <1>a, <2>1, <2>2
  <2> QED BY <2>1, <2>3, <2>4, <2>5, <2>6, <2>7
<1> HIDE DEF back
<1>b. M \in Nat /\ Len(all) = M
  BY <1>4
<1>c. ASSUME NEW v \in 1 .. M PROVE Takings(N, all, given, entries, a, r, v)
  BY <1>5, <1>b, TakesOnce, Zenon
<1> USE DEF Takings
<1>8. \A i \in 1 .. Len(entries) : entries[i].value \in 0 .. M
  BY <1>4, <1>5 DEF Account
<1>9. ValueFor(N, M + 1) \in {0, M + 1} /\ M + 1 \in 0 .. M + 1 /\ M + 1 \notin 0 .. M /\ M + 1 # 0
  BY <1>4 DEF ValueFor, NULL
<1>10. \A v \in 1 .. M + 1 : given1[v] \in {0, 1}
  <2> SUFFICES ASSUME NEW v \in 1 .. M + 1 PROVE given1[v] \in {0, 1}
    OBVIOUS
  <2>1. CASE v = M + 1
    BY <1>4, <2>1
  <2>2. CASE v # M + 1
    <3>1. v \in 1 .. M
      BY <1>4, <2>2
    <3>2. given[v] \in {0, 1}
      BY <1>4, <1>5, <3>1 DEF Account
    <3>3. Holds(N.children, v) => given[v] = 0
      BY <1>c, <3>1
    <3> QED BY <1>4, <3>1, <3>2, <3>3
  <2> QED BY <2>1, <2>2
<1>11. ASSUME NEW i \in 1 .. Len(after)
       PROVE  after[i].value \in 0 .. M + 1 /\ (after[i].value # NULL => all1[after[i].value].symbol \notin Silent)
  <2>1. CASE i = a + 1
    BY <1>4, <1>6, <1>9, <2>1 DEF ValueFor
  <2>2. CASE i # a + 1
    <3>1. PICK j \in 1 .. Len(entries) : after[i].value = entries[j].value
      BY <1>7, <2>2
    <3>2. entries[j].value \in 0 .. M /\ (entries[j].value # NULL => all[entries[j].value].symbol \notin Silent)
      BY <1>4, <1>5 DEF Account
    <3>3. entries[j].value # NULL => entries[j].value \in 1 .. M
      BY <1>4, <3>2 DEF NULL
    <3>4. entries[j].value \in 0 .. M + 1
      BY <1>4, <3>2
    <3> QED BY <1>4, <3>1, <3>2, <3>3, <3>4
  <2> QED BY <2>1, <2>2
<1>12. ASSUME NEW i \in 1 .. Len(after), NEW k \in 1 .. Len(after), after[i].value # NULL, after[i].value = after[k].value
       PROVE  i = k
  <2>1. \A j \in 1 .. Len(entries) : entries[j].value # M + 1
    BY <1>8, <1>9
  <2>2. after[a + 1].value \in {NULL, M + 1}
    BY <1>6, <1>9 DEF NULL
  <2>3. CASE i = a + 1 \/ k = a + 1
    <3>1. \A g \in 1 .. Len(after) : g # a + 1 => after[g].value # M + 1
      <4> SUFFICES ASSUME NEW g \in 1 .. Len(after), g # a + 1 PROVE after[g].value # M + 1
        OBVIOUS
      <4>1. \E j \in 1 .. Len(entries) : after[g].value = entries[j].value
        BY <1>7
      <4> QED BY <2>1, <4>1
    <3> QED BY <1>12, <2>2, <2>3, <3>1
  <2>4. CASE i # a + 1 /\ k # a + 1
    <3>1. back(i) \in 1 .. Len(entries) /\ back(k) \in 1 .. Len(entries)
          /\ entries[back(i)].value # NULL /\ entries[back(i)].value = entries[back(k)].value
      BY <1>7, <1>12, <2>4
    <3>2. back(i) = back(k)
      BY <1>5, <3>1 DEF Account
    <3> QED BY <1>a, <2>4, <3>2
  <2> QED BY <2>3, <2>4
<1>13. ASSUME NEW v \in 1 .. M + 1, all1[v].symbol \notin Silent
       PROVE  given1[v] = 0 <=> Holds(after, v)
  <2>1. CASE v = M + 1
    <3>1. after[a + 1].value = v /\ a + 1 \in 1 .. Len(after)
      BY <1>4, <1>6, <1>13, <2>1 DEF ValueFor
    <3> QED BY <1>4, <2>1, <3>1 DEF Holds
  <2>2. CASE v # M + 1
    <3>1. v \in 1 .. M
      BY <1>4, <2>2
    <3>2. given[v] = 0 <=> Holds(entries, v)
      BY <1>4, <1>5, <1>13, <3>1 DEF Account
    <3>3. after[a + 1].value # v
      BY <1>6, <1>9, <2>2
    <3>4. CASE Holds(N.children, v)
      <4>1. given[v] = 0 /\ \A i \in 1 .. Len(entries) : entries[i].value = v => i \in a + 1 .. a + r
        BY <1>c, <3>1, <3>4
      <4>2. given1[v] # 0
        BY <1>4, <3>1, <3>4, <4>1
      <4>3. ASSUME NEW i \in 1 .. Len(after), after[i].value = v PROVE FALSE
        <5>1. i # a + 1
          BY <3>3, <4>3
        <5>2. PICK j \in 1 .. Len(entries) : j \notin a + 1 .. a + r /\ after[i].value = entries[j].value
          BY <1>7, <5>1
        <5>3. j \in a + 1 .. a + r
          BY <4>1, <4>3, <5>2
        <5> QED BY <5>2, <5>3
      <4> QED BY <4>2, <4>3 DEF Holds
    <3>5. CASE ~Holds(N.children, v)
      <4>1. \A i \in 1 .. Len(entries) : entries[i].value = v => i \notin a + 1 .. a + r
        BY <1>c, <3>1, <3>5
      <4>2. given1[v] = given[v]
        <5>1. given[v] \in {0, 1}
          BY <1>4, <1>5, <3>1 DEF Account
        <5> QED BY <1>4, <3>1, <3>5, <5>1
      <4>3. ASSUME NEW i \in 1 .. Len(entries), entries[i].value = v PROVE Holds(after, v)
        <5>1. i \notin a + 1 .. a + r
          BY <4>1, <4>3
        <5>2. CASE i <= a
          <6>1. i \in 1 .. a /\ i \in 1 .. Len(after)
            BY <5>2
          <6> QED BY <4>3, <6>1 DEF Holds
        <5>3. CASE ~(i <= a)
          <6>1. i - (a + r) \in 1 .. c /\ a + r + (i - (a + r)) = i /\ a + 1 + (i - (a + r)) \in 1 .. Len(after)
            BY <5>1, <5>3
          <6>2. after[a + 1 + (i - (a + r))].value = v
            BY <4>3, <6>1
          <6> QED BY <6>1, <6>2 DEF Holds
        <5> QED BY <5>2, <5>3
      <4>4. ASSUME NEW i \in 1 .. Len(after), after[i].value = v PROVE Holds(entries, v)
        <5>1. i # a + 1
          BY <3>3, <4>4
        <5>2. \E j \in 1 .. Len(entries) : after[i].value = entries[j].value
          BY <1>7, <5>1
        <5> QED BY <4>4, <5>2 DEF Holds
      <4>5. Holds(entries, v) <=> Holds(after, v)
        <5>1. Holds(entries, v) => Holds(after, v)
          BY <4>3 DEF Holds
        <5>2. Holds(after, v) => Holds(entries, v)
          <6> SUFFICES ASSUME Holds(after, v) PROVE Holds(entries, v)
            OBVIOUS
          <6>1. PICK i \in 1 .. Len(after) : after[i].value = v
            BY DEF Holds
          <6> QED BY <4>4, <6>1
        <5> QED BY <5>1, <5>2
      <4> QED BY <3>2, <4>2, <4>5
    <3> QED BY <3>4, <3>5
  <2> QED BY <2>1, <2>2
<1>14. Account(all1, given1, after)
  BY <1>4, <1>10, <1>11, <1>12, <1>13 DEF Account
<1> QED BY <1>4, <1>14 DEF Book, more, all1, given1

(* Only the entries' values matter.                                        *)
LEMMA BookSame ==
  ASSUME NEW nodes, NEW entries, Book(nodes, entries), NEW after, Len(after) = Len(entries),
         \A i \in 1 .. Len(entries) : after[i].value = entries[i].value
  PROVE  Book(nodes, after)
<1> DEFINE all == made \o nodes
           given == Given(nodes)
<1>1. Account(all, given, entries)
  BY DEF Book
<1> HIDE DEF all, given
<1>2. \A v : Holds(entries, v) <=> Holds(after, v)
  BY DEF Holds
<1>3. Account(all, given, after)
  BY <1>1, <1>2 DEF Account
<1> QED BY <1>3 DEF Book, all, given

(* The book opens with what is in the arena.                               *)
LEMMA BookOpens ==
  ASSUME Shape, Account(made, handed, arena)
  PROVE  Book(<< >>, arena) /\ made \o << >> = made
<1>1. made \in Seq(Range(made)) /\ Len(made) \in Nat /\ handed \in [1 .. Len(made) -> Nat]
  BY LenProperties DEF Shape, TypeOK
<1>2. made \o << >> = made
  BY <1>1
<1>3. << >> \in Seq(Range(<< >>)) /\ Len(<< >>) = 0 /\ \A n \in 1 .. Len(<< >>) : FALSE
  OBVIOUS
<1>4. Parents(<< >>) /\ Known(<< >>, Len(made) + Len(<< >>))
  BY <1>3 DEF Parents, Known
<1>5. Len(made) + Len(<< >>) = Len(made)
  BY <1>1, <1>3
<1>6. \A v \in 1 .. Len(made) : Given(<< >>)[v] = handed[v]
  <2> SUFFICES ASSUME NEW v \in 1 .. Len(made) PROVE Given(<< >>)[v] = handed[v]
    OBVIOUS
  <2>1. Showings(<< >>, v) = {}
    <3> DEFINE nodes == << >>
    <3>1. Parents(nodes) /\ \A n \in 1 .. Len(nodes) : FALSE
      BY <1>3, <1>4
    <3> HIDE DEF nodes
    <3>2. Showings(nodes, v) = {}
      BY <3>1, ShowingsAre
    <3> QED BY <3>2 DEF nodes
  <2>2. Cardinality(Showings(<< >>, v)) = 0
    BY <2>1, FS_EmptySet
  <2>3. v <= Len(made) /\ v \in 1 .. Len(made) + Len(<< >>) /\ handed[v] \in Nat
    BY <1>1, <1>5
  <2>4. Given(<< >>)[v] = handed[v] + 0
    BY <2>2, <2>3 DEF Given
  <2> QED BY <2>3, <2>4
<1>7. Account(made, Given(<< >>), arena)
  <2> DEFINE given == Given(<< >>)
  <2> HIDE DEF given
  <2> QED BY <1>6 DEF Account, given
<1> QED BY <1>2, <1>4, <1>7 DEF Book

(* A node that takes every entry closes the book.                          *)
LEMMA BookCloses ==
  ASSUME Shape, NEW nodes, NEW entries, Book(nodes, entries), NEW N, Len(entries) \in Nat,
         Takes(N, entries, 0, Len(entries))
  PROVE  /\ Closed(made \o (nodes \o <<N>>), Given(nodes \o <<N>>), ValueFor(N, Len(made) + Len(nodes) + 1))
         /\ Parents(nodes \o <<N>>) /\ Len(nodes \o <<N>>) = Len(nodes) + 1
<1> DEFINE M == Len(made) + Len(nodes)
           more == nodes \o <<N>>
           all == made \o nodes
           all1 == made \o more
           given == Given(nodes)
           given1 == Given(more)
           r == Len(entries)
           a == 0
<1>1. Len(made \o nodes) = Len(made) + Len(nodes)
  <2>1. made \in Seq(Range(made)) /\ nodes \in Seq(Range(nodes))
    BY DEF Shape, Book, Parents
  <2>2. made \in Seq(Range(made) \cup Range(nodes)) /\ nodes \in Seq(Range(made) \cup Range(nodes))
    BY <2>1, SeqMonotonic
  <2> QED BY <2>2, ConcatProperties
<1>2. Parent(N, Len(made) + Len(nodes))
  <2>1. a \in Nat /\ r \in Nat /\ Len(entries) \in Nat /\ a + r <= Len(entries) /\ Takes(N, entries, a, r)
    OBVIOUS
  <2> HIDE DEF a, r
  <2> QED BY <1>1, <2>1, TakesParent
<1>3. Parents(nodes) /\ Known(nodes, Len(made) + Len(nodes))
  BY DEF Book
<1>4. /\ M \in Nat /\ Len(all) = M /\ Len(all1) = M + 1
      /\ Parents(more) /\ Len(more) = Len(nodes) + 1
      /\ \A v \in 1 .. M : all1[v] = all[v]
      /\ all1[M + 1] = N
      /\ \A v \in 1 .. M : given1[v] = given[v] + IF Holds(N.children, v) THEN 1 ELSE 0
      /\ given1[M + 1] = 0
  BY <1>2, <1>3, GivenStep
<1>5. Account(all, given, entries)
  BY DEF Book
<1>6. /\ r \in Nat /\ Len(N.children) = r
      /\ \A j \in 1 .. r : N.children[j].value = entries[j].value
  BY DEF Takes
<1>7. \A v : Holds(entries, v) <=> Holds(N.children, v)
  BY <1>6 DEF Holds
<1>8. ValueFor(N, M + 1) = IF N.symbol \in Silent THEN NULL ELSE M + 1
  BY DEF ValueFor
<1> HIDE DEF M, more, all, all1, given, given1, r, a
<1>9. ASSUME NEW v \in 1 .. M
      PROVE  given1[v] \in {0, 1} /\ (all1[v].symbol \notin Silent => given1[v] = 1)
  <2>1. given[v] \in {0, 1}
    BY <1>4, <1>5 DEF Account
  <2>2. Holds(entries, v) => all[v].symbol \notin Silent
    <3> SUFFICES ASSUME NEW i \in 1 .. Len(entries), entries[i].value = v PROVE all[v].symbol \notin Silent
      BY DEF Holds
    <3>1. v # NULL
      BY DEF NULL
    <3> QED BY <1>5, <3>1 DEF Account
  <2>3. all[v].symbol \notin Silent => (given[v] = 0 <=> Holds(entries, v))
    BY <1>4, <1>5 DEF Account
  <2> QED BY <1>4, <1>7, <2>1, <2>2, <2>3
<1>10. \A v \in 1 .. M + 1 : v \in 1 .. M \/ v = M + 1
  BY <1>4
<1>11. ASSUME NEW v \in 1 .. M + 1
       PROVE  /\ given1[v] \in {0, 1}
              /\ all1[v].symbol \notin Silent => (given1[v] = 1 <=> v # ValueFor(N, M + 1))
  <2>1. CASE v = M + 1
    BY <1>4, <1>8, <2>1
  <2>2. CASE v \in 1 .. M
    <3>1. v # M + 1 /\ v # NULL
      BY <1>4, <2>2 DEF NULL
    <3> QED BY <1>8, <1>9, <2>2, <3>1
  <2> QED BY <1>10, <2>1, <2>2
<1>12. Closed(all1, given1, ValueFor(N, M + 1))
  BY <1>4, <1>11 DEF Closed
<1> QED BY <1>4, <1>12 DEF M, more, all1, given1

-----------------------------------------------------------------------------
(* One reduction, child by child.                                          *)

NodeRow(p, base, kids) ==
  [i \in 1 .. Len(kids) |-> IF Reported(p, kids, i) THEN <<NodeOf(p, base, kids, i)>> ELSE <<>>]
EntryRow(p, base, kids) == [i \in 1 .. Len(kids) |-> Entries(p, base, kids, i)]
Counted(p, kids, k) == Cardinality({j \in 1 .. k : Reported(p, kids, j)})
EntryIn(top) == [symbol : {Public[s] : s \in DOMAIN Public}, field : {None} \cup STRING, extra : BOOLEAN,
                 value : 0 .. top]

(* The nodes of the first k children are numbered by how many there are.   *)
LEMMA CountStep ==
  ASSUME NEW p, NEW kids, NEW k \in Nat
  PROVE  /\ Counted(p, kids, 0) = 0 /\ Counted(p, kids, k) \in Nat
         /\ Counted(p, kids, k + 1) = Counted(p, kids, k) + IF Reported(p, kids, k + 1) THEN 1 ELSE 0
<1> DEFINE S == {j \in 1 .. k : Reported(p, kids, j)}
           T == {j \in 1 .. k + 1 : Reported(p, kids, j)}
<1>1. IsFiniteSet(S)
  <2>1. IsFiniteSet(1 .. k)
    BY FS_Interval
  <2>2. S \subseteq 1 .. k
    OBVIOUS
  <2> HIDE DEF S
  <2> QED BY <2>1, <2>2, FS_Subset
<1>2. Cardinality(S) \in Nat
  <2> HIDE DEF S
  <2> QED BY <1>1, FS_CardinalityType
<1>3. {j \in 1 .. 0 : Reported(p, kids, j)} = {}
  OBVIOUS
<1>4. CASE Reported(p, kids, k + 1)
  <2>1. T = S \cup {k + 1} /\ k + 1 \notin S
    BY <1>4
  <2>2. Cardinality(T) = Cardinality(S) + 1
    <3> HIDE DEF S, T
    <3> QED BY <1>1, <2>1, FS_AddElement
  <2> QED BY <1>2, <1>3, <1>4, <2>2, FS_EmptySet DEF Counted
<1>5. CASE ~Reported(p, kids, k + 1)
  <2>1. T = S
    BY <1>5
  <2>2. Counted(p, kids, 0) = 0
    BY <1>3, FS_EmptySet DEF Counted
  <2>3. Counted(p, kids, k) = Cardinality(S) /\ Counted(p, kids, k + 1) = Cardinality(T)
    BY Zenon DEF Counted
  <2> HIDE DEF S, T
  <2> QED BY <1>2, <1>5, <2>1, <2>2, <2>3
<1> QED BY <1>4, <1>5

(* What one child leaves: itself, nothing, or its run.                     *)
LEMMA EntriesAre ==
  ASSUME Shape, NEW p, RowsFit(p), NEW base, NEW kids, Kids(base, kids), NEW i \in 1 .. Len(kids)
  PROVE  LET e == Entries(p, base, kids, i)
             N == NodeOf(p, base, kids, i)
             top == Len(made) + Counted(p, kids, i)
         IN  /\ e \in Seq(EntryIn(top)) /\ top \in Nat
             /\ Reported(p, kids, i) => Len(e) = 1 /\ e[1].value = ValueFor(N, top)
             /\ ~Reported(p, kids, i) =>
                  /\ Len(e) = kids[i].children
                  /\ \A j \in 1 .. kids[i].children : e[j].value = Run(base, kids, i)[j].value
<1> DEFINE e == Entries(p, base, kids, i)
           N == NodeOf(p, base, kids, i)
           top == Len(made) + Counted(p, kids, i)
           run == Run(base, kids, i)
           symbol == Public[ShownSymbol(p, kids, i)]
           field == Field(p, kids, i)
           z == [symbol |-> symbol, field |-> field, extra |-> kids[i].extra, value |-> NewValue(p, kids, i)]
<1>1. Len(made) \in Nat /\ made \in Seq(Range(made))
  BY LenProperties DEF Shape
<1>2. Len(kids) \in Nat /\ Cells(kids) /\ i \in Nat
  BY DEF Kids, Cells, Rated
<1>3. Counted(p, kids, i) \in Nat
  BY <1>2, CountStep
<1>4. top \in Nat /\ Len(made) <= top
  BY <1>1, <1>3
<1>5. /\ run \in Seq(Entry) /\ Len(run) = kids[i].children /\ kids[i].children \in Nat
  BY RunIs DEF Shape
<1>6. symbol \in {Public[s] : s \in DOMAIN Public} /\ field \in {None} \cup STRING /\ kids[i].extra \in BOOLEAN
  <2>1. ShownSymbol(p, kids, i) \in DOMAIN Public /\ field \in {None} \cup STRING
    BY <1>2, RowTyped
  <2> QED BY <1>2, <2>1 DEF Cells
<1>7. N.symbol = symbol
  BY DEF NodeOf
<1>8. NewValue(p, kids, i) = ValueFor(N, top) /\ NewValue(p, kids, i) \in 0 .. top
  BY <1>4, <1>7 DEF NewValue, ValueFor, Counted, NULL
<1>9. z \in EntryIn(top) /\ z.value = ValueFor(N, top)
  BY <1>6, <1>8 DEF EntryIn
<1>10. Entry \subseteq EntryIn(top)
  BY <1>1, <1>4 DEF Entry, EntryIn
<1>11. Reported(p, kids, i) => e = <<z>>
  BY DEF Entries, Reported
<1>12. ~Reported(p, kids, i) => \/ ~Shown(p, kids, i) /\ e = Inherit(run, field)
                                \/ Dropped(p, kids, i) /\ e = << >> /\ kids[i].children = 0
  <2>1. e = IF ~Shown(p, kids, i) THEN Inherit(run, field) ELSE IF Dropped(p, kids, i) THEN <<>> ELSE <<z>>
    BY Zenon DEF Entries
  <2>2. Dropped(p, kids, i) => kids[i].children = 0
    BY DEF Dropped, Owns
  <2> HIDE DEF e, run, field, z
  <2> QED BY <2>1, <2>2 DEF Reported
<1>13. /\ Inherit(run, field) \in Seq(EntryIn(top)) /\ Len(Inherit(run, field)) = Len(run)
       /\ \A j \in 1 .. Len(run) : Inherit(run, field)[j].value = run[j].value
  <2> DEFINE r(j) == IF field # None /\ ~run[j].extra /\ run[j].field = None
                     THEN [run[j] EXCEPT !.field = field] ELSE run[j]
             n == Len(run)
             S == EntryIn(top)
  <2>1. DOMAIN run = 1 .. n /\ n \in Nat
    BY <1>5, LenProperties
  <2>2. \A j \in 1 .. n : run[j] \in S
    BY <1>5, <1>10, ElementOfSeq
  <2>3. \A j \in 1 .. n : r(j) \in S /\ r(j).value = run[j].value
    BY <1>6, <2>2 DEF EntryIn
  <2>4. Inherit(run, field) = [j \in 1 .. n |-> r(j)]
    BY <2>1 DEF Inherit
  <2> HIDE DEF r, n, S
  <2>5. [j \in 1 .. n |-> r(j)] \in Seq(S) /\ Len([j \in 1 .. n |-> r(j)]) = n
    BY <2>1, <2>3
  <2>6. \A j \in 1 .. n : [h \in 1 .. n |-> r(h)][j] = r(j)
    OBVIOUS
  <2>7. Inherit(run, field) \in Seq(S) /\ Len(Inherit(run, field)) = n
        /\ \A j \in 1 .. n : Inherit(run, field)[j].value = run[j].value
    BY <2>3, <2>4, <2>5, <2>6
  <2> QED BY <2>7 DEF S, n
<1> HIDE DEF z, e, top, run, field, N
<1>14. CASE Reported(p, kids, i)
  <2>1. e = <<z>> /\ Len(<<z>>) = 1 /\ <<z>>[1] = z /\ <<z>> \in Seq(EntryIn(top))
    BY <1>9, <1>11, <1>14
  <2> QED BY <1>4, <1>9, <1>14, <2>1 DEF e, top, N
<1>15. CASE ~Reported(p, kids, i)
  <2>1. CASE e = Inherit(run, field)
    <3>1. e \in Seq(EntryIn(top)) /\ Len(e) = kids[i].children
          /\ \A j \in 1 .. kids[i].children : e[j].value = run[j].value
      BY <1>5, <1>13, <2>1
    <3> QED BY <1>4, <1>15, <3>1 DEF e, top, N, run
  <2>2. CASE e = << >> /\ kids[i].children = 0
    <3>1. e \in Seq(EntryIn(top)) /\ Len(e) = kids[i].children /\ \A j \in 1 .. kids[i].children : FALSE
      BY <2>2
    <3> QED BY <1>4, <1>15, <3>1 DEF e, top, N, run
  <2> QED BY <1>12, <1>15, <2>1, <2>2
<1> QED BY <1>14, <1>15

(* The first k + 1 children leave what the first k do, and the next.       *)
LEMMA UpToStep ==
  ASSUME Shape, NEW p, RowsFit(p), NEW base, NEW kids, Kids(base, kids), NEW k \in Nat, k < Len(kids)
  PROVE  /\ NodesUpTo(p, base, kids, 0) = << >> /\ EntriesUpTo(p, base, kids, 0) = << >>
         /\ NodesUpTo(p, base, kids, k + 1) =
              NodesUpTo(p, base, kids, k)
                \o IF Reported(p, kids, k + 1) THEN <<NodeOf(p, base, kids, k + 1)>> ELSE <<>>
         /\ EntriesUpTo(p, base, kids, k + 1) =
              EntriesUpTo(p, base, kids, k) \o Entries(p, base, kids, k + 1)
<1> DEFINE n == Len(kids)
           nodes(i) == IF Reported(p, kids, i) THEN <<NodeOf(p, base, kids, i)>> ELSE <<>>
           entries(i) == Entries(p, base, kids, i)
           S == {NodeOf(p, base, kids, i) : i \in 1 .. n}
           T == EntryIn(Len(made) + Counted(p, kids, n))
<1>1. n \in Nat
  BY DEF Kids, Cells, Rated
<1>2. \A m \in 0 .. n : NodesUpTo(p, base, kids, m) = Laid(NodeRow(p, base, kids), m)
  <2> SUFFICES ASSUME NEW m \in 0 .. n
               PROVE  NodesUpTo(p, base, kids, m) = Laid(NodeRow(p, base, kids), m)
    OBVIOUS
  <2> HIDE DEF nodes
  <2>1. \A i \in 1 .. m : i \in 1 .. n
    BY <1>1
  <2>2. NodeRow(p, base, kids) = [i \in 1 .. n |-> nodes(i)]
    BY Zenon DEF NodeRow, nodes
  <2>3. [i \in 1 .. m |-> nodes(i)] = [i \in 1 .. m |-> NodeRow(p, base, kids)[i]]
    BY <2>1, <2>2
  <2>4. NodesUpTo(p, base, kids, m) = FlattenSeq([i \in 1 .. m |-> nodes(i)])
    BY Zenon DEF NodesUpTo, nodes
  <2> QED BY <2>3, <2>4 DEF Laid
<1>3. \A m \in 0 .. n : EntriesUpTo(p, base, kids, m) = Laid(EntryRow(p, base, kids), m)
  <2> SUFFICES ASSUME NEW m \in 0 .. n
               PROVE  EntriesUpTo(p, base, kids, m) = Laid(EntryRow(p, base, kids), m)
    OBVIOUS
  <2> HIDE DEF entries
  <2>1. \A i \in 1 .. m : i \in 1 .. n
    BY <1>1
  <2>2. EntryRow(p, base, kids) = [i \in 1 .. n |-> entries(i)]
    BY Zenon DEF EntryRow, entries
  <2>3. [i \in 1 .. m |-> entries(i)] = [i \in 1 .. m |-> EntryRow(p, base, kids)[i]]
    BY <2>1, <2>2
  <2>4. EntriesUpTo(p, base, kids, m) = FlattenSeq([i \in 1 .. m |-> entries(i)])
    BY Zenon DEF EntriesUpTo, entries
  <2> QED BY <2>3, <2>4 DEF Laid
<1>4. \A i \in 1 .. n : NodeRow(p, base, kids)[i] = nodes(i) /\ EntryRow(p, base, kids)[i] = entries(i)
  BY DEF NodeRow, EntryRow
<1>5. \A i \in 1 .. n : nodes(i) \in Seq(S)
  <2> SUFFICES ASSUME NEW i \in 1 .. n PROVE nodes(i) \in Seq(S)
    OBVIOUS
  <2> DEFINE N == NodeOf(p, base, kids, i)
  <2>1. N \in S
    OBVIOUS
  <2> HIDE DEF N, S
  <2>2. <<N>> \in Seq(S) /\ << >> \in Seq(S)
    BY <2>1
  <2> QED BY <2>2 DEF N
<1>6. \A i \in 1 .. n : entries(i) \in Seq(UNION {EntryIn(t) : t \in Nat})
  <2> SUFFICES ASSUME NEW i \in 1 .. n PROVE entries(i) \in Seq(UNION {EntryIn(t) : t \in Nat})
    OBVIOUS
  <2> DEFINE t == Len(made) + Counted(p, kids, i)
             U == UNION {EntryIn(h) : h \in Nat}
             V == EntryIn(t)
  <2>1. entries(i) \in Seq(V) /\ t \in Nat
    BY EntriesAre
  <2>2. V \subseteq U
    <3> HIDE DEF t
    <3> QED BY <2>1
  <2> HIDE DEF t, entries, U, V
  <2>3. Seq(V) \subseteq Seq(U)
    BY <2>2, SeqMonotonic
  <2> QED BY <2>1, <2>3 DEF U
<1>7. \A i \in 1 .. k + 1 : i \in 1 .. n
  BY <1>1
<1>8. /\ Laid(NodeRow(p, base, kids), 0) = << >>
      /\ Laid(NodeRow(p, base, kids), k + 1) = Laid(NodeRow(p, base, kids), k) \o NodeRow(p, base, kids)[k + 1]
  <2> DEFINE R == NodeRow(p, base, kids)
  <2> HIDE DEF R, S, nodes
  <2>1. \A i \in 1 .. k + 1 : R[i] \in Seq(S)
    BY <1>4, <1>5, <1>7 DEF R
  <2>2. Laid(R, 0) = << >> /\ Laid(R, k + 1) = Laid(R, k) \o R[k + 1]
    BY <2>1, LaidStep
  <2> QED BY <2>2 DEF R
<1>9. /\ Laid(EntryRow(p, base, kids), 0) = << >>
      /\ Laid(EntryRow(p, base, kids), k + 1) = Laid(EntryRow(p, base, kids), k) \o EntryRow(p, base, kids)[k + 1]
  <2> DEFINE R == EntryRow(p, base, kids)
             U == UNION {EntryIn(t) : t \in Nat}
  <2> HIDE DEF R, U, entries
  <2>1. \A i \in 1 .. k + 1 : R[i] \in Seq(U)
    BY <1>4, <1>6, <1>7 DEF R, U
  <2>2. Laid(R, 0) = << >> /\ Laid(R, k + 1) = Laid(R, k) \o R[k + 1]
    BY <2>1, LaidStep
  <2> QED BY <2>2 DEF R
<1>10. 0 \in 0 .. n /\ k \in 0 .. n /\ k + 1 \in 0 .. n /\ k + 1 \in 1 .. n
  BY <1>1
<1> HIDE DEF n, nodes, entries
<1>11. NodeRow(p, base, kids)[k + 1] = nodes(k + 1) /\ EntryRow(p, base, kids)[k + 1] = entries(k + 1)
  BY <1>4, <1>10
<1>12. /\ NodesUpTo(p, base, kids, 0) = << >> /\ EntriesUpTo(p, base, kids, 0) = << >>
       /\ NodesUpTo(p, base, kids, k + 1) = NodesUpTo(p, base, kids, k) \o nodes(k + 1)
       /\ EntriesUpTo(p, base, kids, k + 1) = EntriesUpTo(p, base, kids, k) \o entries(k + 1)
  BY <1>2, <1>3, <1>8, <1>9, <1>10, <1>11
<1> QED BY <1>12, Zenon DEF nodes, entries

(* What some cells own, up to each of them.                                *)
LEMMA OwnedUpTo ==
  ASSUME NEW kids, Cells(kids)
  PROVE  /\ Len(kids) \in Nat /\ Owned(kids)[0] = 0
         /\ \A i \in 0 .. Len(kids) : Owned(kids)[i] \in Nat /\ Owned(kids)[i] <= Owned(kids)[Len(kids)]
         /\ \A i \in 1 .. Len(kids) : /\ kids[i].children \in Nat
                                      /\ Owned(kids)[i] = Owned(kids)[i - 1] + kids[i].children
<1> DEFINE n == Len(kids)
           at == Owned(kids)
<1>1. n \in Nat /\ Rated(kids) /\ \A i \in 1 .. n : Widths(kids)[i] = kids[i].children /\ kids[i].children \in Nat
  BY DEF Cells, Rated, Widths
<1>2. Adds(at, Widths(kids), n)
  BY <1>1, OwnedAdds
<1> HIDE DEF n, at
<1>3. \A i \in 0 .. n : n \in 0 .. n /\ i \in 0 .. n
  BY <1>1
<1>4. \A i \in 0 .. n : at[i] \in Nat /\ at[i] <= at[n]
  BY <1>1, <1>2, <1>3, AddsGrow
<1>5. at[0] = 0 /\ \A i \in 1 .. n : at[i] = at[i - 1] + kids[i].children
  BY <1>1, <1>2 DEF Adds
<1> QED BY <1>1, <1>4, <1>5 DEF n, at

(* The entries there are when the first k children have left theirs: what  *)
(* is below, those, and the runs of the other children.                    *)
Live(base, kids, left, k) ==
  [i \in 1 .. base + Len(left) + (Len(arena) - (base + Owned(kids)[k])) |->
     IF i <= base THEN arena[i]
     ELSE IF i <= base + Len(left) THEN left[i - base]
     ELSE arena[i - Len(left) + Owned(kids)[k]]]

Hidden(p, kids, k) == \A i \in 1 .. k : ~Shown(p, kids, i)

Progress(p, base, kids, k) ==
  /\ Len(NodesUpTo(p, base, kids, k)) = Counted(p, kids, k)
  /\ EntriesUpTo(p, base, kids, k) \in Seq(EntryIn(Len(made) + Counted(p, kids, k)))
  /\ Hidden(p, kids, k) => Len(EntriesUpTo(p, base, kids, k)) = Owned(kids)[k]
  /\ Book(NodesUpTo(p, base, kids, k), Live(base, kids, EntriesUpTo(p, base, kids, k), k))

(* Its places: o entries of the arena are replaced, and rest follow.       *)
Laying(live, base, left, o, rest) ==
  /\ base \in Nat /\ o \in Nat /\ rest \in Nat /\ Len(left) \in Nat
  /\ Len(live) = base + Len(left) + rest
  /\ \A i \in 1 .. base : live[i] = arena[i]
  /\ \A i \in 1 .. Len(left) : live[base + i] = left[i]
  /\ \A i \in 1 .. rest : live[base + Len(left) + i] = arena[base + o + i]

(* See Laying.                                                             *)
LEMMA LiveIs ==
  ASSUME TypeOK, NEW base, NEW kids, Kids(base, kids), NEW k \in 0 .. Len(kids), NEW left, Len(left) \in Nat
  PROVE  Laying(Live(base, kids, left, k), base, left, Owned(kids)[k], Len(arena) - (base + Owned(kids)[k]))
<1> DEFINE all == Len(arena)
           o == Owned(kids)[k]
           rest == all - (base + o)
           live == Live(base, kids, left, k)
           l == Len(left)
           m == base + l + rest
           x(i) == IF i <= base THEN arena[i] ELSE IF i <= base + l THEN left[i - base] ELSE arena[i - l + o]
<1>1. base \in Nat /\ o \in Nat /\ all \in Nat /\ base + o <= all
  <2>1. base \in Nat /\ all = base + Owned(kids)[Len(kids)] /\ Cells(kids)
    BY DEF Kids
  <2>2. o \in Nat /\ o <= Owned(kids)[Len(kids)] /\ Owned(kids)[Len(kids)] \in Nat
    <3>1. Len(kids) \in 0 .. Len(kids)
      BY DEF Kids, Cells, Rated
    <3> QED BY <2>1, <3>1, OwnedUpTo
  <2> HIDE DEF o, all
  <2> QED BY <2>1, <2>2
<1>2. live = [i \in 1 .. m |-> x(i)]
  BY Zenon DEF Live
<1> HIDE DEF o, live, l, all, x
<1>3. rest \in Nat /\ m \in Nat /\ l \in Nat
  BY <1>1 DEF l
<1>4. Len(live) = m /\ \A i \in 1 .. m : live[i] = x(i)
  BY <1>2, <1>3
<1>5. \A i \in 1 .. base : live[i] = arena[i]
  <2>1. \A i \in 1 .. base : i \in 1 .. m /\ i <= base
    BY <1>1, <1>3
  <2> QED BY <1>4, <2>1 DEF x
<1>6. \A i \in 1 .. l : live[base + i] = left[i]
  <2>1. \A i \in 1 .. l : base + i \in 1 .. m /\ ~(base + i <= base) /\ base + i <= base + l /\ (base + i) - base = i
    BY <1>1, <1>3
  <2> QED BY <1>4, <2>1 DEF x
<1>7. \A i \in 1 .. rest : live[base + l + i] = arena[base + o + i]
  <2>1. \A i \in 1 .. rest : /\ base + l + i \in 1 .. m /\ ~(base + l + i <= base) /\ ~(base + l + i <= base + l)
                             /\ (base + l + i) - l + o = base + o + i
    BY <1>1, <1>3
  <2> QED BY <1>4, <2>1 DEF x
<1> QED BY <1>1, <1>3, <1>4, <1>5, <1>6, <1>7 DEF o, live, l, all, Laying

(* No child, no node and no entry.                                         *)
LEMMA NothingUpTo ==
  ASSUME NEW p, NEW base, NEW kids
  PROVE  NodesUpTo(p, base, kids, 0) = << >> /\ EntriesUpTo(p, base, kids, 0) = << >>
<1>1. NodesUpTo(p, base, kids, 0) = FlattenSeq(<< >>) /\ EntriesUpTo(p, base, kids, 0) = FlattenSeq(<< >>)
  <2> DEFINE nodes(i) == IF Reported(p, kids, i) THEN <<NodeOf(p, base, kids, i)>> ELSE <<>>
             entries(i) == Entries(p, base, kids, i)
  <2>1. /\ NodesUpTo(p, base, kids, 0) = FlattenSeq([i \in 1 .. 0 |-> nodes(i)])
        /\ EntriesUpTo(p, base, kids, 0) = FlattenSeq([i \in 1 .. 0 |-> entries(i)])
    BY Zenon DEF NodesUpTo, EntriesUpTo
  <2> HIDE DEF nodes, entries
  <2>2. [i \in 1 .. 0 |-> nodes(i)] = << >> /\ [i \in 1 .. 0 |-> entries(i)] = << >>
    OBVIOUS
  <2> QED BY <2>1, <2>2
<1>2. FlattenSeq(<< >>) = << >>
  BY DEF FlattenSeq
<1> QED BY <1>1, <1>2

(* A reduction starts with the book that the arena holds.                  *)
LEMMA ProgressStart ==
  ASSUME Shape, Account(made, handed, arena), NEW p, RowsFit(p), NEW base, NEW kids, Kids(base, kids)
  PROVE  Progress(p, base, kids, 0)
<1>1. Cells(kids) /\ base \in Nat /\ Len(kids) \in Nat /\ Owned(kids)[0] = 0 /\ Len(made) \in Nat
  BY OwnedUpTo, LenProperties DEF Kids, Shape
<1>2. NodesUpTo(p, base, kids, 0) = << >> /\ EntriesUpTo(p, base, kids, 0) = << >>
  BY NothingUpTo
<1>3. Counted(p, kids, 0) = 0
  BY CountStep
<1>4. Len(<< >>) = 0 /\ << >> \in Seq(EntryIn(Len(made) + Counted(p, kids, 0)))
  OBVIOUS
<1>5. Book(<< >>, arena)
  BY BookOpens
<1>6. Book(<< >>, Live(base, kids, << >>, 0))
  <2> DEFINE none == << >>
             start == 0
             live == Live(base, kids, none, start)
             o == Owned(kids)[start]
             rest == Len(arena) - (base + o)
  <2>1. TypeOK /\ start \in 0 .. Len(kids) /\ Len(none) \in Nat /\ Len(none) = 0
    BY <1>1 DEF Shape
  <2>2. o = 0 /\ arena \in Seq(Entry)
    BY <1>1 DEF Shape, TypeOK
  <2> HIDE DEF none, start
  <2>3. /\ rest \in Nat /\ Len(live) = base + Len(none) + rest
        /\ \A i \in 1 .. base : live[i] = arena[i]
        /\ \A i \in 1 .. rest : live[base + Len(none) + i] = arena[base + o + i]
    <3>1. Laying(live, base, none, o, rest)
      BY <2>1, LiveIs
    <3> QED BY <3>1 DEF Laying
  <2> HIDE DEF live, o
  <2>4. Len(arena) \in Nat
    BY <2>2, LenProperties
  <2>5. Len(live) = Len(arena)
    BY <1>1, <2>1, <2>2, <2>3, <2>4
  <2>6. ASSUME NEW i \in 1 .. Len(arena) PROVE live[i] = arena[i]
    <3>1. CASE i <= base
      <4>1. i \in 1 .. base
        BY <1>1, <3>1
      <4> QED BY <2>3, <4>1
    <3>2. CASE ~(i <= base)
      <4>1. i - base \in 1 .. rest /\ base + Len(none) + (i - base) = i /\ base + o + (i - base) = i
        BY <1>1, <2>1, <2>2, <2>4, <3>2
      <4>2. live[base + Len(none) + (i - base)] = arena[base + o + (i - base)]
        BY <2>3, <4>1
      <4> QED BY <4>1, <4>2
    <3> QED BY <3>1, <3>2
  <2>7. Book(none, live)
    <3>1. Book(none, arena)
      BY <1>5 DEF none
    <3> QED BY <2>5, <2>6, <3>1, BookSame
  <2> QED BY <2>7 DEF live, none, start
<1> QED BY <1>1, <1>2, <1>3, <1>4, <1>6 DEF Progress

(* The next child's run makes way for what it leaves.                      *)
Extends(after, left, e) ==
  /\ Len(after) = Len(left) + Len(e) /\ Len(e) \in Nat
  /\ \A i \in 1 .. Len(left) : after[i] = left[i]
  /\ \A j \in 1 .. Len(e) : after[Len(left) + j] = e[j]

Replaces(live, next, a, e, w, from, rest) ==
  /\ a \in Nat /\ Len(live) = a + w + rest /\ Len(next) = a + Len(e) + rest
  /\ \A i \in 1 .. a : next[i] = live[i]
  /\ \A j \in 1 .. Len(e) : next[a + j] = e[j]
  /\ \A j \in 1 .. w : live[a + j] = arena[from + j]
  /\ \A i \in 1 .. rest : next[a + Len(e) + i] = live[a + w + i]

(* See Laying.                                                             *)
LEMMA LayingNext ==
  ASSUME NEW live, NEW base, NEW left, NEW o, NEW rest, Laying(live, base, left, o, rest),
         NEW next, NEW after, NEW w \in Nat, NEW rest1, Laying(next, base, after, o + w, rest1), rest = w + rest1,
         NEW e, Extends(after, left, e)
  PROVE  Replaces(live, next, base + Len(left), e, w, base + o, rest1)
<1> DEFINE l == Len(left)
           a == base + l
           m == Len(e)
<1>1. base \in Nat /\ l \in Nat /\ o \in Nat /\ rest \in Nat /\ rest1 \in Nat /\ m \in Nat /\ Len(after) = l + m
  BY DEF Laying, Extends
<1>2. Len(live) = a + rest /\ Len(next) = base + (l + m) + rest1
  BY <1>1 DEF Laying
<1>3. /\ \A i \in 1 .. base : live[i] = arena[i] /\ next[i] = arena[i]
      /\ \A i \in 1 .. l : live[base + i] = left[i]
      /\ \A i \in 1 .. l + m : next[base + i] = after[i]
      /\ \A i \in 1 .. rest : live[a + i] = arena[base + o + i]
      /\ \A i \in 1 .. rest1 : next[base + (l + m) + i] = arena[base + (o + w) + i]
      /\ \A i \in 1 .. l : after[i] = left[i]
      /\ \A j \in 1 .. m : after[l + j] = e[j]
  <2>1. \A i \in 1 .. Len(after) : next[base + i] = after[i]
    BY DEF Laying
  <2>2. \A i \in 1 .. rest1 : next[base + Len(after) + i] = arena[base + (o + w) + i]
    BY DEF Laying
  <2>3. /\ \A i \in 1 .. base : live[i] = arena[i] /\ next[i] = arena[i]
        /\ \A i \in 1 .. l : live[base + i] = left[i]
        /\ \A i \in 1 .. rest : live[a + i] = arena[base + o + i]
    BY DEF Laying
  <2>4. /\ \A i \in 1 .. l : after[i] = left[i]
        /\ \A j \in 1 .. m : after[l + j] = e[j]
    BY DEF Extends
  <2> QED BY <1>1, <2>1, <2>2, <2>3, <2>4
<1> HIDE DEF l, m
<1>4. ASSUME NEW i \in 1 .. a PROVE next[i] = live[i]
  <2>1. CASE i <= base
    <3>1. i \in 1 .. base
      BY <1>1, <2>1
    <3> QED BY <1>3, <3>1
  <2>2. CASE ~(i <= base)
    <3>1. i - base \in 1 .. l /\ i - base \in 1 .. l + m /\ base + (i - base) = i
      BY <1>1, <2>2
    <3> QED BY <1>3, <3>1
  <2> QED BY <2>1, <2>2
<1>5. ASSUME NEW j \in 1 .. m PROVE next[a + j] = e[j]
  <2>1. l + j \in 1 .. l + m /\ base + (l + j) = a + j
    BY <1>1
  <2> QED BY <1>3, <2>1
<1>6. ASSUME NEW j \in 1 .. w PROVE live[a + j] = arena[base + o + j]
  <2>1. j \in 1 .. rest
    BY <1>1
  <2> QED BY <1>3, <2>1
<1>7. ASSUME NEW i \in 1 .. rest1 PROVE next[a + m + i] = live[a + w + i]
  <2>1. w + i \in 1 .. rest /\ a + (w + i) = a + w + i /\ base + o + (w + i) = base + (o + w) + i
        /\ base + (l + m) + i = a + m + i
    BY <1>1
  <2> QED BY <1>3, <2>1
<1>8. a \in Nat /\ Len(live) = a + w + rest1 /\ Len(next) = a + m + rest1
  BY <1>1, <1>2
<1> QED BY <1>4, <1>5, <1>6, <1>7, <1>8 DEF l, m, Replaces

(* Progress is made one child at a time.                                   *)
LEMMA ProgressStep ==
  ASSUME Shape, NEW p, RowsFit(p), NEW base, NEW kids, Kids(base, kids),
         NEW k \in 0 .. Len(kids), k # Len(kids), Progress(p, base, kids, k)
  PROVE  Progress(p, base, kids, k + 1)
<1> DEFINE n == Len(kids)
           i == k + 1
           nodes == NodesUpTo(p, base, kids, k)
           left == EntriesUpTo(p, base, kids, k)
           nodes1 == NodesUpTo(p, base, kids, i)
           left1 == EntriesUpTo(p, base, kids, i)
           e == Entries(p, base, kids, i)
           N == NodeOf(p, base, kids, i)
           o == Owned(kids)[k]
           w == kids[i].children
           rest == Len(arena) - (base + o)
           rest1 == Len(arena) - (base + (o + w))
           live == Live(base, kids, left, k)
           live1 == Live(base, kids, left1, i)
           t == Len(made) + Counted(p, kids, k)
           t1 == Len(made) + Counted(p, kids, i)
           a == base + Len(left)
<1>1. n \in Nat /\ k \in Nat /\ k < n /\ i \in 1 .. n /\ i \in 0 .. n /\ i - 1 = k /\ Len(made) \in Nat
  BY LenProperties DEF Kids, Cells, Rated, Shape
<1>2. o \in Nat /\ w \in Nat /\ Owned(kids)[i] = o + w /\ Cells(kids) /\ base \in Nat
  BY <1>1, OwnedUpTo DEF Kids
<1>3. /\ Len(nodes) = Counted(p, kids, k) /\ left \in Seq(EntryIn(t))
      /\ Hidden(p, kids, k) => Len(left) = o
      /\ Book(nodes, live)
  BY DEF Progress
<1>4. /\ nodes1 = nodes \o IF Reported(p, kids, i) THEN <<N>> ELSE <<>>
      /\ left1 = left \o e
  <2>1. k \in Nat /\ k < Len(kids)
    BY <1>1
  <2> HIDE DEF N, e
  <2> QED BY <2>1, UpToStep DEF N, e
<1>5. /\ e \in Seq(EntryIn(t1)) /\ t1 \in Nat
      /\ Reported(p, kids, i) => Len(e) = 1 /\ e[1].value = ValueFor(N, t1)
      /\ ~Reported(p, kids, i) => Len(e) = w /\ \A j \in 1 .. w : e[j].value = Run(base, kids, i)[j].value
  <2> HIDE DEF i
  <2> QED BY <1>1, EntriesAre
<1>6. /\ Len(Run(base, kids, i)) = w /\ Run(base, kids, i) \in Seq(Entry)
      /\ \A j \in 1 .. w : Run(base, kids, i)[j] = arena[base + o + j]
  <2> HIDE DEF i
  <2>1. /\ Len(Run(base, kids, i)) = kids[i].children /\ Run(base, kids, i) \in Seq(Entry)
        /\ \A j \in 1 .. kids[i].children : Run(base, kids, i)[j] = arena[base + Owned(kids)[i - 1] + j]
    BY <1>1, RunIs DEF Shape
  <2> QED BY <1>1, <2>1
<1>7. Counted(p, kids, k) \in Nat /\ Counted(p, kids, i) = Counted(p, kids, k) + IF Reported(p, kids, i) THEN 1 ELSE 0
  BY <1>1, CountStep
<1>8. t \in Nat /\ t <= t1
  BY <1>1, <1>7
<1> HIDE DEF n, nodes, left, nodes1, left1, e, N, w, t, t1
<1>9. /\ left1 \in Seq(EntryIn(t1)) /\ Len(left) \in Nat /\ Len(left1) \in Nat /\ Extends(left1, left, e)
  <2> DEFINE S == EntryIn(t1)
  <2>1. EntryIn(t) \subseteq S
    BY <1>5, <1>8 DEF EntryIn
  <2>2. e \in Seq(S) /\ left \in Seq(EntryIn(t))
    BY <1>3, <1>5
  <2> HIDE DEF S
  <2>3. left \in Seq(S)
    BY <2>1, <2>2, SeqMonotonic
  <2>4. /\ Len(left) \in Nat /\ Len(e) \in Nat /\ left \o e \in Seq(S) /\ Len(left \o e) = Len(left) + Len(e)
        /\ \A j \in 1 .. Len(left) + Len(e) : (left \o e)[j] = IF j <= Len(left) THEN left[j] ELSE e[j - Len(left)]
    BY <2>2, <2>3, ConcatProperties, LenProperties
  <2>5. \A j \in 1 .. Len(left) : (left \o e)[j] = left[j]
    BY <2>4
  <2>6. \A j \in 1 .. Len(e) : (left \o e)[Len(left) + j] = e[j]
    <3>1. \A j \in 1 .. Len(e) : Len(left) + j \in 1 .. Len(left) + Len(e) /\ ~(Len(left) + j <= Len(left)) /\ (Len(left) + j) - Len(left) = j
      BY <2>4
    <3> QED BY <2>4, <3>1
  <2> QED BY <1>4, <2>4, <2>5, <2>6 DEF Extends, S
<1> HIDE DEF i
<1>10. Laying(live, base, left, o, rest)
  BY <1>9, LiveIs DEF Shape
<1>11. Laying(live1, base, left1, o + w, rest1)
  <2> HIDE DEF o
  <2>1. Laying(live1, base, left1, Owned(kids)[i], Len(arena) - (base + Owned(kids)[i]))
    BY <1>1, <1>9, LiveIs DEF Shape
  <2> QED BY <1>2, <2>1
<1>12. rest = w + rest1
  <2>1. Len(arena) \in Nat
    BY LenProperties DEF Shape, TypeOK
  <2> HIDE DEF o
  <2> QED BY <1>2, <2>1
<1> HIDE DEF o, live, live1, rest, rest1
<1>13. /\ a \in Nat /\ Len(live) = a + w + rest1 /\ Len(live1) = a + Len(e) + rest1 /\ rest1 \in Nat
       /\ \A j \in 1 .. a : live1[j] = live[j]
       /\ \A j \in 1 .. Len(e) : live1[a + j] = e[j]
       /\ \A j \in 1 .. w : live[a + j] = arena[base + o + j]
       /\ \A j \in 1 .. rest1 : live1[a + Len(e) + j] = live[a + w + j]
  <2>1. rest1 \in Nat
    BY <1>11 DEF Laying
  <2>2. Replaces(live, live1, base + Len(left), e, w, base + o, rest1)
    BY <1>2, <1>9, <1>10, <1>11, <1>12, LayingNext
  <2> QED BY <2>1, <2>2 DEF Replaces
<1> HIDE DEF a
<1>14. Len(nodes) + 0 = Len(nodes) /\ nodes \in Seq(Range(nodes)) /\ Len(nodes) \in Nat
  BY <1>3, <1>7 DEF Book, Parents
<1>15. CASE Reported(p, kids, i)
  <2>1. nodes1 = nodes \o <<N>> /\ Len(e) = 1 /\ e[1].value = ValueFor(N, t1) /\ Counted(p, kids, i) = Counted(p, kids, k) + 1
    BY <1>4, <1>5, <1>7, <1>15
  <2>2. Takes(N, live, a, w)
    <3>1. N.children = Run(base, kids, i)
      BY DEF N, NodeOf
    <3>2. Len(N.children) = w /\ DOMAIN N.children = 1 .. w
      BY <1>6, <3>1, LenProperties
    <3>3. \A j \in 1 .. w : N.children[j] = live[a + j]
      BY <1>6, <1>13, <3>1
    <3> QED BY <3>2, <3>3 DEF Takes
  <2>3. t1 = Len(made) + Len(nodes) + 1
    BY <1>1, <1>3, <1>7, <2>1 DEF t1
  <2>4. Book(nodes \o <<N>>, live1)
    <3>1. Len(live1) = a + 1 + rest1 /\ \A j \in 1 .. a : live1[j].value = live[j].value
      BY <1>13, <2>1
    <3>2. live1[a + 1].value = ValueFor(N, Len(made) + Len(nodes) + 1)
      <4>1. 1 \in 1 .. Len(e)
        BY <2>1
      <4> QED BY <1>13, <2>1, <2>3, <4>1
    <3>3. \A j \in 1 .. rest1 : live1[a + 1 + j].value = live[a + w + j].value
      BY <1>13, <2>1
    <3>4. Book(nodes, live) /\ a \in Nat /\ w \in Nat /\ rest1 \in Nat /\ Len(live) = a + w + rest1
      BY <1>2, <1>3, <1>13
    <3>5. Adoption(nodes, N, live, live1, a, w, rest1)
      BY <2>2, <3>1, <3>2, <3>3, <3>4 DEF Adoption
    <3> QED BY <3>4, <3>5, BookAdopts
  <2>5. Len(nodes \o <<N>>) = Len(nodes) + 1
    BY <1>14
  <2>6. ~Hidden(p, kids, i)
    <3>1. Shown(p, kids, i) /\ i \in 1 .. i
      BY <1>1, <1>15 DEF Reported
    <3> QED BY <3>1 DEF Hidden
  <2>7. Len(nodes1) = Counted(p, kids, i) /\ Book(nodes1, live1)
    BY <1>3, <2>1, <2>4, <2>5
  <2> QED BY <1>9, <2>6, <2>7, Zenon DEF Progress, nodes1, left1, live1, t1, i
<1>16. CASE ~Reported(p, kids, i)
  <2>1. /\ nodes1 = nodes /\ Len(e) = w /\ Counted(p, kids, i) = Counted(p, kids, k)
        /\ \A j \in 1 .. w : e[j].value = Run(base, kids, i)[j].value
    <3>1. nodes \o << >> = nodes
      BY <1>14
    <3>2. Counted(p, kids, i) = Counted(p, kids, k)
      BY <1>7, <1>16
    <3> QED BY <1>4, <1>5, <1>16, <3>1, <3>2
  <2>2. Len(live1) = Len(live)
    BY <1>13, <2>1
  <2>3. ASSUME NEW j \in 1 .. Len(live) PROVE live1[j].value = live[j].value
    <3>1. CASE j \in 1 .. a
      BY <1>13, <3>1
    <3>2. CASE j \notin 1 .. a /\ j <= a + w
      <4>1. j - a \in 1 .. w /\ a + (j - a) = j
        BY <1>2, <1>13, <3>2
      <4>2. live1[a + (j - a)] = e[j - a] /\ live[a + (j - a)] = arena[base + o + (j - a)]
        BY <1>13, <2>1, <4>1
      <4> QED BY <1>6, <2>1, <4>1, <4>2
    <3>3. CASE ~(j <= a + w)
      <4>1. j - (a + w) \in 1 .. rest1 /\ a + w + (j - (a + w)) = j
        BY <1>2, <1>13, <3>3
      <4> QED BY <1>13, <2>1, <4>1
    <3> QED BY <3>1, <3>2, <3>3
  <2>4. Book(nodes, live1)
    BY <1>3, <2>2, <2>3, BookSame
  <2>5. Hidden(p, kids, i) => Len(left1) = o + w
    <3> SUFFICES ASSUME Hidden(p, kids, i) PROVE Len(left1) = o + w
      OBVIOUS
    <3>1. Hidden(p, kids, k)
      <4>1. \A j \in 1 .. k : j \in 1 .. i
        BY <1>1
      <4> QED BY <4>1 DEF Hidden
    <3> QED BY <1>3, <1>9, <2>1, <3>1 DEF Extends
  <2>6. Len(nodes1) = Counted(p, kids, i) /\ Book(nodes1, live1)
    BY <1>3, <2>1, <2>4
  <2>7. Hidden(p, kids, i) => Len(left1) = Owned(kids)[i]
    BY <1>2, <2>5
  <2> QED BY <1>9, <2>6, <2>7, Zenon DEF Progress, nodes1, left1, live1, t1, i
<1> QED BY <1>15, <1>16 DEF i

(* All children in turn.                                                   *)
LEMMA ProgressAt ==
  ASSUME Shape, Account(made, handed, arena), NEW p, RowsFit(p), NEW base, NEW kids, Kids(base, kids)
  PROVE  \A k \in 0 .. Len(kids) : Progress(p, base, kids, k)
<1> DEFINE n == Len(kids)
           G == {k \in 0 .. n : Progress(p, base, kids, k)}
<1>1. n \in Nat /\ 0 \in 0 .. n
  BY DEF Kids, Cells, Rated
<1>2. 0 \in G
  BY <1>1, ProgressStart
<1>3. ASSUME NEW k \in 0 .. n, k # n, k \in G PROVE k + 1 \in G
  <2>1. k + 1 \in 0 .. n
    BY <1>1, <1>3
  <2>2. Progress(p, base, kids, k + 1)
    BY <1>3, ProgressStep
  <2> QED BY <2>1, <2>2
<1>4. \A k \in 0 .. n : k \in G
  <2> HIDE DEF G, n
  <2> QED BY <1>1, <1>2, <1>3, Climb
<1> QED BY <1>4

(* There is a first child that is shown, or none is.                       *)
LEMMA FirstShownIs ==
  ASSUME NEW p, NEW kids, Len(kids) \in Nat
  PROVE  /\ FirstShown(p, kids) \in 1 .. Len(kids) + 1
         /\ Hidden(p, kids, FirstShown(p, kids) - 1)
<1> DEFINE n == Len(kids)
           Fits(k) == /\ k <= n => Shown(p, kids, k)
                      /\ \A i \in 1 .. k - 1 : ~Shown(p, kids, i)
           S == {k \in Nat : k \in 1 .. n + 1 /\ (k <= n => Shown(p, kids, k))}
<1>1. PICK k \in S : \A h \in S : <<h, k>> \notin OpToRel(<, Nat)
  <2>1. n + 1 \in S
    OBVIOUS
  <2>2. S \subseteq Nat /\ S # {}
    BY <2>1
  <2> HIDE DEF S
  <2> QED BY <2>2, WFMin, NatLessThanWellFounded, Zenon
<1>2. \A h \in S : ~(h < k)
  BY <1>1 DEF OpToRel
<1>3. Fits(k)
  <2>1. ASSUME NEW i \in 1 .. k - 1, Shown(p, kids, i) PROVE FALSE
    <3>1. i \in S /\ i < k
      BY <2>1
    <3> QED BY <1>2, <3>1
  <2> QED BY <2>1
<1>4. k \in 1 .. n + 1
  OBVIOUS
<1>5. FirstShown(p, kids) = CHOOSE h \in 1 .. n + 1 : Fits(h)
  BY Zenon DEF FirstShown
<1>6. FirstShown(p, kids) \in 1 .. n + 1 /\ Fits(FirstShown(p, kids))
  <2> HIDE DEF Fits
  <2> QED BY <1>3, <1>4, <1>5
<1> QED BY <1>6 DEF Hidden

(* The entries that stay where they are: those of the children before it.  *)
LEMMA SettledIs ==
  ASSUME Shape, Account(made, handed, arena), NEW p, RowsFit(p), NEW base, NEW kids, Kids(base, kids)
  PROVE  /\ Settled(p, base, kids) \in Seq(EntryIn(Len(made))) /\ Len(Settled(p, base, kids)) \in Nat
         /\ Len(Settled(p, base, kids)) = Owned(kids)[FirstShown(p, kids) - 1]
         /\ base + Len(Settled(p, base, kids)) <= Len(arena)
<1> DEFINE k == FirstShown(p, kids) - 1
<1>1. Len(kids) \in Nat /\ Cells(kids) /\ base \in Nat /\ Len(arena) = base + Owned(kids)[Len(kids)]
  BY DEF Kids, Cells, Rated
<1>2. k \in 0 .. Len(kids) /\ Hidden(p, kids, k)
  BY <1>1, FirstShownIs
<1>3. Counted(p, kids, k) = 0
  <2> HIDE DEF k
  <2>1. {j \in 1 .. k : Reported(p, kids, j)} = {}
    BY <1>2 DEF Hidden, Reported
  <2> QED BY <2>1, FS_EmptySet DEF Counted
<1>4. Settled(p, base, kids) = EntriesUpTo(p, base, kids, k)
  BY Zenon DEF Settled
<1> HIDE DEF k
<1>5. Progress(p, base, kids, k)
  BY <1>2, ProgressAt
<1>6. Len(made) + 0 = Len(made)
  BY LenProperties DEF Shape
<1>7. Settled(p, base, kids) \in Seq(EntryIn(Len(made))) /\ Len(Settled(p, base, kids)) = Owned(kids)[k]
  BY <1>2, <1>3, <1>4, <1>5, <1>6 DEF Progress
<1>8. Owned(kids)[k] \in Nat /\ Owned(kids)[k] <= Owned(kids)[Len(kids)] /\ Owned(kids)[Len(kids)] \in Nat
  <2>1. Len(kids) \in 0 .. Len(kids)
    BY <1>1
  <2> QED BY <1>1, <1>2, <2>1, OwnedUpTo
<1> QED BY <1>1, <1>7, <1>8 DEF k

(* What is reserved is enough.                                             *)
LEMMA ReserveIs ==
  ASSUME NEW cap \in Nat, NEW needed \in Int, NEW c \in tf_filter__reserve(cap, needed)
  PROVE  c \in Nat /\ needed <= c
<1>1. CASE needed <= cap
  BY <1>1 DEF tf_filter__reserve
<1>2. CASE ~(needed <= cap)
  <2> DEFINE from == IF cap = 0 THEN InitCapacity ELSE cap
             P(d) == \E k \in 0 .. needed : d = from * 2 ^ k /\ (k = 0 \/ d < 2 * needed)
  <2>1. tf_filter__reserve(cap, needed) =
          IF needed <= cap THEN {cap} ELSE {d \in needed .. 2 * needed + from : P(d)}
    BY Zenon DEF tf_filter__reserve
  <2> HIDE DEF P, from
  <2>2. c \in needed .. 2 * needed + from
    BY <1>2, <2>1
  <2>3. from \in Int
    BY FilterAssumption DEF from, FilterAssumption
  <2> QED BY <1>2, <2>2, <2>3
<1> QED BY <1>1, <1>2

-----------------------------------------------------------------------------
(* The stack.                                                              *)

(* What a stretch of cells owns.                                           *)
LEMMA OwnedPiece ==
  ASSUME NEW cells, Cells(cells), NEW piece, Cells(piece), NEW b \in Nat, b + Len(piece) <= Len(cells),
         \A i \in 1 .. Len(piece) : cells[b + i].children = piece[i].children
  PROVE  /\ Owned(cells)[b + Len(piece)] = Owned(cells)[b] + Owned(piece)[Len(piece)]
         /\ Offset(Owned(cells), Owned(piece), b, Len(piece))
<1> DEFINE n == Len(cells)
           m == Len(piece)
           at == Owned(cells)
           bt == Owned(piece)
           ls == Widths(cells)
           ws == Widths(piece)
<1>1. n \in Nat /\ m \in Nat /\ Rated(cells) /\ Rated(piece)
  BY DEF Cells, Rated
<1>2. Adds(at, ls, n) /\ Adds(bt, ws, m)
  BY <1>1, OwnedAdds
<1>3. \A i \in 1 .. m : i \in 1 .. m /\ b + i \in 1 .. n
  BY <1>1
<1>4. Matches(ls, ws, b, m)
  BY <1>3 DEF Widths, Matches
<1>5. b \in 0 .. n /\ b + m <= n /\ m \in 0 .. m
  BY <1>1
<1> HIDE DEF n, m, at, bt, ls, ws
<1>6. Offset(at, bt, b, m)
  BY <1>1, <1>2, <1>4, <1>5, AddsAgree, Zenon
<1> QED BY <1>5, <1>6 DEF m, at, bt, Offset

(* Cells that own nothing add nothing.                                     *)
LEMMA OwnedNothing ==
  ASSUME NEW cells, Cells(cells), NEW b \in 0 .. Len(cells),
         \A i \in b + 1 .. Len(cells) : cells[i].children = 0
  PROVE  Owned(cells)[Len(cells)] = Owned(cells)[b]
<1> DEFINE n == Len(cells)
           at == Owned(cells)
           G == {i \in 0 .. n : b <= i => at[i] = at[b]}
<1>1. n \in Nat /\ n \in 0 .. n /\ b <= n
  BY DEF Cells, Rated
<1>2. /\ at[0] = 0 /\ \A i \in 0 .. n : at[i] \in Nat
      /\ \A i \in 1 .. n : at[i] = at[i - 1] + cells[i].children
  BY OwnedUpTo
<1> HIDE DEF at
<1>3. 0 \in G
  BY <1>1
<1>4. ASSUME NEW i \in 0 .. n, i # n, i \in G PROVE i + 1 \in G
  <2>1. i + 1 \in 1 .. n /\ (i + 1) - 1 = i /\ i + 1 \in 0 .. n /\ at[i] \in Nat
    BY <1>1, <1>2, <1>4
  <2>2. at[i + 1] = at[i] + cells[i + 1].children
    BY <1>2, <2>1
  <2>3. CASE b <= i
    <3>1. i + 1 \in b + 1 .. n
      BY <2>1, <2>3
    <3>2. at[i] = at[b] /\ cells[i + 1].children = 0
      BY <1>4, <2>3, <3>1
    <3> QED BY <2>1, <2>2, <3>2
  <2>4. CASE ~(b <= i)
    <3>1. b <= i + 1 => b = i + 1
      BY <2>1, <2>4
    <3> QED BY <2>1, <3>1
  <2> QED BY <2>3, <2>4
<1>5. n \in G
  <2> HIDE DEF G, n
  <2> QED BY <1>1, <1>3, <1>4, Climb
<1> QED BY <1>1, <1>5 DEF at

(* A stretch of the stack consists of cells.                               *)
LEMMA CellsOf ==
  ASSUME NEW cells, Cells(cells), NEW m \in 1 .. Len(cells) + 1, NEW e \in 0 .. Len(cells), m <= e + 1
  PROVE  /\ Cells(SubSeq(cells, m, e)) /\ Len(SubSeq(cells, m, e)) = e + 1 - m
         /\ \A i \in 1 .. e + 1 - m : SubSeq(cells, m, e)[i] = cells[m - 1 + i]
<1> DEFINE S == Range(cells)
           piece == SubSeq(cells, m, e)
<1>1. cells \in Seq(S) /\ Len(cells) \in Nat
  BY DEF Cells, Rated
<1>2. \A i \in m .. e : cells[i] \in S
  BY <1>1, ElementOfSeq
<1>3. /\ piece \in Seq(S) /\ Len(piece) = IF m <= e THEN e - m + 1 ELSE 0
      /\ \A i \in 1 .. e - m + 1 : piece[i] = cells[m + i - 1]
  <2> HIDE DEF S
  <2>1. m \in Int /\ e \in Int
    BY <1>1
  <2> QED BY <1>1, <1>2, <2>1, SubSeqProperties
<1> HIDE DEF piece, S
<1>4. Len(piece) = e + 1 - m /\ e + 1 - m \in Nat
  BY <1>1, <1>3
<1>5. \A i \in 1 .. e + 1 - m : piece[i] = cells[m - 1 + i]
  <2>1. \A i \in 1 .. e + 1 - m : i \in 1 .. e - m + 1 /\ m + i - 1 = m - 1 + i
    BY <1>1
  <2> QED BY <1>3, <2>1
<1>6. \A i \in 1 .. e + 1 - m : m - 1 + i \in 1 .. Len(cells)
  BY <1>1
<1>7. piece \in Seq(Range(piece))
  BY <1>3, SeqOfRange
<1>8. \A i \in 1 .. Len(piece) : /\ piece[i].children \in Nat
                                 /\ piece[i].extra \in BOOLEAN /\ piece[i].symbol \in DOMAIN Public
                                 /\ piece[i].extra => piece[i].children = 0
  BY <1>4, <1>5, <1>6 DEF Cells, Rated
<1> QED BY <1>4, <1>5, <1>7, <1>8 DEF Cells, Rated, piece

-----------------------------------------------------------------------------
(* What a reduction does to the filter.                                    *)

(* The consumer is shown nodes.                                            *)
LEMMA ReportIs ==
  ASSUME Shape, NEW nodes, Parents(nodes), Report(nodes)
  PROVE  /\ made' = made \o nodes /\ made' \in Seq(Range(made'))
         /\ Len(made) \in Nat /\ Len(made') = Len(made) + Len(nodes) /\ Len(nodes) \in Nat
         /\ handed' = Given(nodes) /\ handed' \in [1 .. Len(made') -> Nat]
<1> DEFINE S == Range(made) \cup Range(nodes)
           m == made \o nodes
<1>1. made \in Seq(S) /\ nodes \in Seq(S) /\ Len(nodes) \in Nat /\ Len(made) \in Nat
  <2>1. made \in Seq(Range(made)) /\ nodes \in Seq(Range(nodes)) /\ Len(nodes) \in Nat
    BY DEF Shape, Parents
  <2>2. Len(made) \in Nat
    BY <2>1, LenProperties
  <2> QED BY <2>1, <2>2, SeqMonotonic
<1> HIDE DEF S
<1>2. m \in Seq(S) /\ Len(m) = Len(made) + Len(nodes)
  BY <1>1, ConcatProperties
<1>3. made' = m
  BY DEF Report
<1> HIDE DEF m
<1>4. m \in Seq(Range(m))
  BY <1>2, SeqOfRange
<1>5. handed' = Given(nodes)
  BY Zenon DEF Report, Given
<1>6. Given(nodes) \in [1 .. Len(made) + Len(nodes) -> Nat]
  <2> SUFFICES ASSUME NEW v \in 1 .. Len(made) + Len(nodes)
               PROVE  (IF v <= Len(made) THEN handed[v] ELSE 0) + Cardinality(Showings(nodes, v)) \in Nat
    BY DEF Given
  <2>1. Cardinality(Showings(nodes, v)) \in Nat
    BY ShowingsFinite
  <2>2. handed \in [1 .. Len(made) -> Nat]
    BY DEF Shape, TypeOK
  <2>3. v <= Len(made) => handed[v] \in Nat
    BY <1>1, <2>2
  <2> QED BY <2>1, <2>3
<1>7. handed' \in [1 .. Len(made') -> Nat]
  BY <1>2, <1>3, <1>5, <1>6
<1> QED BY <1>1, <1>2, <1>3, <1>4, <1>5, <1>7 DEF m

(* The types the next state has, but for the driver's part.                *)
Kept ==
  /\ made' \in Seq(Range(made')) /\ Len(made') \in Nat /\ Len(made) <= Len(made')
  /\ handed' \in [1 .. Len(made') -> Nat] /\ arena' \in Seq(EntryIn(Len(made')))
  /\ arena_capacity' \in Nat /\ scratch_capacity' \in Nat /\ Len(arena') <= arena_capacity'

(* after is what lies below base, and left on it.                          *)
Over(after, base, left, top) ==
  /\ after \in Seq(EntryIn(top)) /\ Len(after) = base + Len(left) /\ Len(left) \in Nat
  /\ \A i \in 1 .. base : after[i] = arena[i]
  /\ \A i \in 1 .. Len(left) : after[base + i] = left[i]

(* See Over.                                                               *)
LEMMA OverBase ==
  ASSUME Shape, NEW base \in Nat, base <= Len(arena), NEW top \in Nat, Len(made) <= top,
         NEW left, left \in Seq(EntryIn(top))
  PROVE  Over(SubSeq(arena, 1, base) \o left, base, left, top)
<1> DEFINE S == EntryIn(top)
           below == SubSeq(arena, 1, base)
           after == below \o left
<1>1. arena \in Seq(Entry) /\ Len(arena) \in Nat /\ Len(made) \in Nat /\ Len(left) \in Nat
  BY LenProperties DEF Shape, TypeOK
<1>2. Entry \subseteq S
  BY <1>1 DEF Entry, EntryIn
<1> HIDE DEF S
<1>3. arena \in Seq(S) /\ left \in Seq(S)
  BY <1>1, <1>2, SeqMonotonic DEF S
<1>4. /\ below \in Seq(S) /\ Len(below) = base /\ \A i \in 1 .. base : below[i] = arena[i]
  <2>1. \A i \in 1 .. base : i \in 1 .. Len(arena) /\ 1 + i - 1 = i
    BY <1>1
  <2>2. \A i \in 1 .. base : arena[i] \in S
    BY <1>3, <2>1, ElementOfSeq
  <2>3. /\ below \in Seq(S) /\ Len(below) = IF 1 <= base THEN base - 1 + 1 ELSE 0
        /\ \A i \in 1 .. base - 1 + 1 : below[i] = arena[1 + i - 1]
    <3>1. 1 \in Int /\ base \in Int
      OBVIOUS
    <3> QED BY <1>3, <2>2, <3>1, SubSeqProperties
  <2>4. base - 1 + 1 = base
    OBVIOUS
  <2> QED BY <2>1, <2>3, <2>4
<1> HIDE DEF below
<1>5. /\ after \in Seq(S) /\ Len(after) = base + Len(left)
      /\ \A i \in 1 .. base + Len(left) : after[i] = IF i <= base THEN below[i] ELSE left[i - base]
  BY <1>3, <1>4, ConcatProperties
<1> HIDE DEF after
<1>6. \A i \in 1 .. base : after[i] = arena[i]
  <2>1. \A i \in 1 .. base : i \in 1 .. base + Len(left) /\ i <= base
    BY <1>1
  <2> QED BY <1>4, <1>5, <2>1
<1>7. \A i \in 1 .. Len(left) : after[base + i] = left[i]
  <2>1. \A i \in 1 .. Len(left) : base + i \in 1 .. base + Len(left) /\ ~(base + i <= base) /\ (base + i) - base = i
    BY <1>1
  <2> QED BY <1>5, <2>1
<1> QED BY <1>1, <1>5, <1>6, <1>7 DEF after, below, S, Over

(* Out of memory: the filter stays in shape.                               *)
LEMMA FailsIs ==
  ASSUME Shape, Account(made, handed, arena), NEW p, RowsFit(p), NEW base, NEW kids, Kids(base, kids),
         OutOfMemory(p, base, kids)
  PROVE  Kept /\ failed' = TRUE
<1> DEFINE first == FirstShown(p, kids)
           settled == Settled(p, base, kids)
           s == Len(settled)
<1>1. PICK k \in first .. Len(kids) + 1 : FailsAt(p, base, kids, k)
  BY DEF OutOfMemory
<1>2. Len(kids) \in Nat /\ base \in Nat /\ first \in 1 .. Len(kids) + 1
  BY FirstShownIs DEF Kids, Cells, Rated
<1>3. k \in 1 .. Len(kids) + 1 /\ k - 1 \in 0 .. Len(kids)
  <2> HIDE DEF first
  <2> QED BY <1>2
<1> DEFINE nodes == NodesUpTo(p, base, kids, k - 1)
<1>4. Parents(nodes)
  <2>1. Progress(p, base, kids, k - 1)
    BY <1>3, ProgressAt
  <2> HIDE DEF nodes
  <2> QED BY <2>1 DEF Progress, Book, nodes
<1>5. /\ settled \in Seq(EntryIn(Len(made))) /\ s \in Nat /\ base + s <= Len(arena)
  BY SettledIs
<1>6. \A j \in 0 .. Len(kids) : Len(EntriesUpTo(p, base, kids, j)) \in Nat
  <2> SUFFICES ASSUME NEW j \in 0 .. Len(kids) PROVE Len(EntriesUpTo(p, base, kids, j)) \in Nat
    OBVIOUS
  <2>1. Progress(p, base, kids, j)
    BY ProgressAt
  <2> QED BY <2>1, LenProperties DEF Progress
<1>7. Produced(p, base, kids, k - 1) \in Int
  <2>1. Len(EntriesUpTo(p, base, kids, k - 1)) \in Nat
    BY <1>3, <1>6
  <2> HIDE DEF s, settled
  <2> QED BY <1>5, <2>1 DEF Produced, s, settled
<1>8. /\ scratch_capacity' \in tf_filter__reserve(scratch_capacity, Produced(p, base, kids, k - 1))
      /\ Report(nodes)
      /\ arena' = SubSeq(arena, 1, base) \o settled \o SubSeq(arena, base + s + 1, Len(arena))
      /\ failed' = TRUE /\ arena_capacity' = arena_capacity
  BY <1>1 DEF FailsAt
<1> HIDE DEF first, settled, s, nodes
<1>9. /\ made' \in Seq(Range(made')) /\ Len(made) \in Nat /\ Len(nodes) \in Nat
      /\ Len(made') = Len(made) + Len(nodes) /\ handed' \in [1 .. Len(made') -> Nat]
  BY <1>4, <1>8, ReportIs
<1>10. scratch_capacity' \in Nat
  BY <1>7, <1>8, ReserveIs DEF Shape, TypeOK
<1>11. arena' \in Seq(EntryIn(Len(made'))) /\ Len(arena') = Len(arena)
  <2> DEFINE above == SubSeq(arena, base + s + 1, Len(arena))
             below == SubSeq(arena, 1, base) \o settled
             top == Len(made')
             E == EntryIn(top)
  <2>1. arena \in Seq(Entry) /\ Len(arena) \in Nat /\ top \in Nat /\ Len(made) <= top
    BY <1>9, LenProperties DEF Shape, TypeOK
  <2>2. Entry \subseteq E /\ EntryIn(Len(made)) \subseteq E
    BY <1>9, <2>1 DEF Entry, EntryIn
  <2>3. settled \in Seq(E)
    <3> DEFINE F == EntryIn(Len(made))
    <3>1. settled \in Seq(F) /\ F \subseteq E
      BY <1>5, <2>2
    <3> HIDE DEF E, F
    <3> QED BY <3>1, SeqMonotonic
  <2>4. below \in Seq(E) /\ Len(below) = base + s
    <3>1. base <= Len(arena)
      BY <1>2, <1>5, <2>1
    <3> HIDE DEF top
    <3>2. Over(SubSeq(arena, 1, base) \o settled, base, settled, top)
      BY <1>2, <2>1, <2>3, <3>1, OverBase
    <3> QED BY <3>2 DEF s, Over
  <2>5. above \in Seq(E) /\ Len(above) = Len(arena) - (base + s)
    <3> DEFINE a == base + s + 1
               z == Len(arena)
    <3>1. a \in Int /\ z \in Int /\ a \in 1 .. z + 1
      BY <1>2, <1>5, <2>1
    <3>2. \A i \in a .. z : i \in 1 .. Len(arena)
      BY <1>2, <1>5, <2>1
    <3> HIDE DEF a, E
    <3>3. \A i \in a .. z : arena[i] \in E
      BY <2>1, <2>2, <3>2, ElementOfSeq
    <3> HIDE DEF z
    <3>4. SubSeq(arena, a, z) \in Seq(E) /\ Len(SubSeq(arena, a, z)) = IF a <= z THEN z - a + 1 ELSE 0
      BY <3>1, <3>3, SubSeqProperties
    <3>5. Len(SubSeq(arena, a, z)) = z - a + 1
      BY <3>1, <3>4
    <3>6. z - a + 1 = z - (base + s)
      BY <1>2, <1>5, <3>1 DEF a
    <3> QED BY <3>4, <3>5, <3>6 DEF a, z
  <2> HIDE DEF above, below, E, top
  <2>6. below \o above \in Seq(E) /\ Len(below \o above) = Len(below) + Len(above)
    BY <2>4, <2>5, ConcatProperties
  <2>7. arena' = below \o above
    BY <1>8 DEF below, above
  <2>8. Len(below) + Len(above) = Len(arena)
    BY <1>2, <1>5, <2>1, <2>4, <2>5
  <2> QED BY <2>6, <2>7, <2>8, Zenon DEF E, top
<1>12. arena_capacity \in Nat /\ Len(arena) <= arena_capacity
  BY DEF Shape, TypeOK
<1>13. Len(made) <= Len(made') /\ Len(made') \in Nat
  BY <1>9
<1> QED BY <1>8, <1>9, <1>10, <1>11, <1>12, <1>13 DEF Kept

(* When all children have left their entries, those are all there are      *)
(* above the base.                                                         *)
LEMMA AllLeft ==
  ASSUME Shape, Account(made, handed, arena), NEW p, RowsFit(p), NEW base, NEW kids, Kids(base, kids)
  PROVE  LET nodes == NodesUpTo(p, base, kids, Len(kids))
             run   == EntriesUpTo(p, base, kids, Len(kids))
             live  == Live(base, kids, run, Len(kids))
         IN  /\ Book(nodes, live) /\ run \in Seq(EntryIn(Len(made) + Len(nodes)))
             /\ Len(run) \in Nat /\ Len(nodes) \in Nat /\ Len(live) = base + Len(run)
             /\ \A i \in 1 .. base : live[i] = arena[i]
             /\ \A i \in 1 .. Len(run) : live[base + i] = run[i]
             /\ Produced(p, base, kids, Len(kids)) \in Int
             /\ Produced(p, base, kids, Len(kids)) = 0 => base + Len(run) <= Len(arena)
<1> DEFINE n == Len(kids)
           nodes == NodesUpTo(p, base, kids, n)
           run == EntriesUpTo(p, base, kids, n)
           live == Live(base, kids, run, n)
           o == Owned(kids)[n]
           rest == Len(arena) - (base + o)
           made1 == Produced(p, base, kids, n)
           s == Len(Settled(p, base, kids))
<1>1. n \in 0 .. n /\ n \in Nat /\ base \in Nat /\ Len(arena) = base + o /\ Cells(kids)
  BY DEF Kids, Cells, Rated
<1>2. Progress(p, base, kids, n)
  BY <1>1, ProgressAt
<1>3. made1 = Len(run) - s
  BY Zenon DEF Produced
<1>4. s \in Nat /\ base + s <= Len(arena)
  BY SettledIs
<1>5. TypeOK
  BY DEF Shape
<1> HIDE DEF n, nodes, run, live, o, made1, s
<1>6. Book(nodes, live) /\ Len(nodes) = Counted(p, kids, n) /\ run \in Seq(EntryIn(Len(made) + Counted(p, kids, n)))
  BY <1>2, Zenon DEF Progress, nodes, run, live
<1>7. Len(run) \in Nat /\ Len(nodes) \in Nat
  BY <1>6, LenProperties DEF Book, Parents
<1>8. Laying(live, base, run, o, rest)
  BY <1>1, <1>5, <1>7, LiveIs DEF live, o, n
<1>9. o \in Nat
  BY <1>8 DEF Laying
<1>10. rest = 0
  BY <1>1, <1>9
<1>11. Len(live) = base + Len(run)
  BY <1>1, <1>7, <1>8, <1>10 DEF Laying
<1>12. /\ \A i \in 1 .. base : live[i] = arena[i]
       /\ \A i \in 1 .. Len(run) : live[base + i] = run[i]
  BY <1>8 DEF Laying
<1>13. made1 \in Int /\ (made1 = 0 => base + Len(run) <= Len(arena))
  BY <1>1, <1>3, <1>4, <1>7
<1> QED BY <1>6, <1>7, <1>11, <1>12, <1>13 DEF n, nodes, run, live, made1

(* N takes the run, the last entries, and its value is in the run's place. *)
RunFolded(base, nodes, live, run, after, N) ==
  /\ Len(run) \in Nat /\ DOMAIN run = 1 .. Len(run)
  /\ Len(live) = base + Len(run) /\ \A i \in 1 .. Len(run) : live[base + i] = run[i]
  /\ Len(after) = base + 1 /\ \A i \in 1 .. base : after[i] = live[i]
  /\ N.children = run /\ after[base + 1].value = ValueFor(N, Len(made) + Len(nodes) + 1)

(* The book stays right.                                                   *)
LEMMA BookFolds ==
  ASSUME Shape, NEW base \in Nat, NEW nodes, NEW live, Book(nodes, live), NEW run, NEW after, NEW N,
         RunFolded(base, nodes, live, run, after, N)
  PROVE  Book(nodes \o <<N>>, after)
<1> USE DEF RunFolded
<1> DEFINE r == Len(run)
           c == 0
<1>1. Takes(N, live, base, r)
  BY DEF Takes
<1>2. Len(live) = base + r + c /\ Len(after) = base + 1 + c /\ \A i \in 1 .. c : FALSE
  OBVIOUS
<1>3. r \in Nat /\ c \in Nat /\ \A i \in 1 .. c : after[base + 1 + i].value = live[base + r + i].value
  BY <1>2
<1>4. \A i \in 1 .. base : after[i].value = live[i].value
  OBVIOUS
<1> HIDE DEF r, c
<1>5. Adoption(nodes, N, live, after, base, r, c)
  BY <1>1, <1>2, <1>3, <1>4 DEF Adoption
<1> QED BY <1>3, <1>5, BookAdopts

(* A reduction that goes well.                                             *)
LEMMA SettlesIs ==
  ASSUME Shape, Account(made, handed, arena), NEW tree, RowsFit(tree.production), tree.symbol \in DOMAIN Public,
         \A f \in BOOLEAN : [tree EXCEPT !.folded = f].symbol = tree.symbol,
         NEW base, NEW kids, Kids(base, kids), NEW isRoot \in BOOLEAN, isRoot => base = 0,
         NEW place, Settles(tree, base, kids, isRoot, place)
  PROVE  /\ Kept /\ failed' = failed
         /\ ~isRoot => root' = root /\ Account(made', handed', arena')
         /\ isRoot => root' \in 0 .. Len(made') /\ Closed(made', handed', root')
         /\ \E f \in BOOLEAN, m \in Nat : /\ Len(arena') = base + m
                                          /\ Push(place, [tree EXCEPT !.folded = f], m, tree.production)
<1> DEFINE p == tree.production
           nodes == NodesUpTo(p, base, kids, Len(kids))
           run == EntriesUpTo(p, base, kids, Len(kids))
           live == Live(base, kids, run, Len(kids))
           produced == Produced(p, base, kids, Len(kids))
           value == ValueOf(tree.symbol, Len(nodes) + 1)
           T(f) == [tree EXCEPT !.folded = f]
           one == <<[symbol |-> Public[tree.symbol], field |-> None, extra |-> FALSE, value |-> value]>>
           L(f) == IF f THEN one ELSE run
           F(f) == IF f THEN <<tf_filter__parent(T(f), run)>> ELSE <<>>
           R(f) == IF isRoot THEN <<tf_filter__parent(T(f), L(f))>> ELSE <<>>
<1>1. PICK fold \in BOOLEAN :
        /\ Offer(tree.symbol, run, fold) /\ (fold => value # NULL)
        /\ scratch_capacity' \in tf_filter__reserve(scratch_capacity, produced)
        /\ IF produced = 0 THEN UNCHANGED arena_capacity
           ELSE arena_capacity' \in tf_filter__reserve(arena_capacity, base + Len(run))
        /\ arena' = SubSeq(arena, 1, base) \o L(fold)
        /\ Report(nodes \o F(fold) \o R(fold))
        /\ Push(place, T(fold), Len(L(fold)), p)
        /\ root' = IF isRoot THEN ValueOf(tree.symbol, (Len(nodes) + 1) + (IF fold THEN 1 ELSE 0)) ELSE root
        /\ UNCHANGED failed
  BY DEF Settles
<1> DEFINE left == L(fold)
           N == tf_filter__parent(T(fold), run)
           root1 == tf_filter__parent(T(fold), left)
           nodesF == nodes \o F(fold)
           after == SubSeq(arena, 1, base) \o left
           M == Len(made) + Len(nodes)
           MF == Len(made) + Len(nodesF)
<1>2. /\ Book(nodes, live) /\ run \in Seq(EntryIn(Len(made) + Len(nodes)))
      /\ Len(run) \in Nat /\ Len(nodes) \in Nat /\ Len(live) = base + Len(run)
      /\ \A i \in 1 .. base : live[i] = arena[i]
      /\ \A i \in 1 .. Len(run) : live[base + i] = run[i]
      /\ produced \in Int /\ (produced = 0 => base + Len(run) <= Len(arena))
  <2> HIDE DEF p
  <2> QED BY AllLeft DEF p
<1>3. /\ N.symbol = Public[tree.symbol] /\ N.children = run
      /\ root1.symbol = Public[tree.symbol] /\ root1.children = left
  <2> HIDE DEF run, left
  <2> QED BY DEF tf_filter__parent
<1>4. fold => Len(run) > 1
  <2> HIDE DEF run
  <2> QED BY <1>1 DEF Offer
<1>5. /\ L(TRUE) = one /\ L(FALSE) = run
      /\ F(TRUE) = <<tf_filter__parent(T(TRUE), run)>> /\ F(FALSE) = <<>>
  OBVIOUS
<1>6. base \in Nat /\ Len(arena) \in Nat /\ base <= Len(arena) /\ Len(made) \in Nat /\ arena \in Seq(Entry)
      /\ arena_capacity \in Nat /\ scratch_capacity \in Nat /\ Len(arena) <= arena_capacity
  <2>1. Len(kids) \in 0 .. Len(kids) /\ Cells(kids) /\ base \in Nat /\ base + Owned(kids)[Len(kids)] = Len(arena)
    BY DEF Kids, Cells, Rated
  <2>2. Owned(kids)[Len(kids)] \in Nat
    BY <2>1, OwnedUpTo
  <2>3. arena \in Seq(Entry) /\ made \in Seq(Range(made))
        /\ arena_capacity \in Nat /\ scratch_capacity \in Nat /\ Len(arena) <= arena_capacity
    BY DEF Shape, TypeOK
  <2>4. Len(arena) \in Nat /\ Len(made) \in Nat
    BY <2>3, LenProperties
  <2> QED BY <2>1, <2>2, <2>3, <2>4
<1>7. value = ValueFor(N, M + 1)
  <2> HIDE DEF N, nodes
  <2> QED BY <1>2, <1>3, <1>6 DEF ValueOf, ValueFor
<1>8. nodes \in Seq(Range(nodes))
  <2> HIDE DEF nodes, live
  <2> QED BY <1>2 DEF Book, Parents
<1>9. M \in Nat /\ M + 1 \in Nat
  <2> HIDE DEF nodes
  <2> QED BY <1>2, <1>6
<1>10. ASSUME fold
      PROVE  /\ left \in Seq(EntryIn(MF)) /\ Len(left) \in Nat /\ Len(left) <= Len(run)
             /\ Len(nodesF) = Len(nodes) + (IF fold THEN 1 ELSE 0) /\ Book(nodesF, after)
  <2>1. left = one /\ nodesF = nodes \o <<N>>
    <3> HIDE DEF one, run, nodes
    <3> QED BY <1>10
  <2> DEFINE x == [symbol |-> Public[tree.symbol], field |-> None, extra |-> FALSE, value |-> value]
  <2>2. x \in EntryIn(M + 1) /\ x.value = value
    <3>1. value \in 0 .. M + 1
      <4> HIDE DEF value, M, N
      <4> QED BY <1>7, <1>9 DEF ValueFor, NULL
    <3> HIDE DEF value, M
    <3> QED BY <3>1 DEF EntryIn
  <2>3. one = <<x>>
    OBVIOUS
  <2> HIDE DEF x, one, nodes, nodesF, left, run, live, N, M, value
  <2>4. one \in Seq(EntryIn(M + 1)) /\ Len(one) = 1 /\ one[1] = x
    BY <2>2, <2>3
  <2>5. Len(nodesF) = Len(nodes) + 1
    BY <1>8, <2>1
  <2>6. MF = M + 1
    BY <1>2, <1>6, <2>5 DEF M
  <2>7. after = SubSeq(arena, 1, base) \o one
    BY <2>1
  <2>8. Len(made) <= M + 1
    BY <1>2, <1>6 DEF M
  <2>9. /\ Len(SubSeq(arena, 1, base) \o one) = base + Len(one)
        /\ \A i \in 1 .. base : (SubSeq(arena, 1, base) \o one)[i] = arena[i]
        /\ \A i \in 1 .. Len(one) : (SubSeq(arena, 1, base) \o one)[base + i] = one[i]
    <3>1. Over(SubSeq(arena, 1, base) \o one, base, one, M + 1)
      BY <1>6, <1>9, <2>4, <2>8, OverBase
    <3> QED BY <3>1 DEF Over
  <2> HIDE DEF after
  <2>10. Len(after) = base + 1 /\ \A i \in 1 .. base : after[i] = live[i]
    BY <1>2, <2>4, <2>7, <2>9
  <2>11. after[base + 1].value = ValueFor(N, Len(made) + Len(nodes) + 1)
    <3>1. 1 \in 1 .. Len(one)
      BY <2>4
    <3>2. after[base + 1] = x
      BY <2>4, <2>7, <2>9, <3>1
    <3> QED BY <1>7, <2>2, <3>2 DEF M
  <2>12. Book(nodes \o <<N>>, after)
    <3>1. DOMAIN run = 1 .. Len(run)
      BY <1>2, LenProperties
    <3>2. RunFolded(base, nodes, live, run, after, N)
      BY <1>2, <1>3, <2>10, <2>11, <3>1 DEF RunFolded
    <3> QED BY <1>2, <1>6, <3>2, BookFolds
  <2> QED BY <1>4, <1>10, <2>1, <2>4, <2>5, <2>6, <2>12
<1>11. ASSUME ~fold
      PROVE  /\ left \in Seq(EntryIn(MF)) /\ Len(left) \in Nat /\ Len(left) <= Len(run)
             /\ Len(nodesF) = Len(nodes) + (IF fold THEN 1 ELSE 0) /\ Book(nodesF, after)
  <2>1. left = run /\ nodesF = nodes
    <3>1. nodes \o << >> = nodes
      <4> HIDE DEF nodes
      <4> QED BY <1>8
    <3> HIDE DEF one, run, nodes
    <3> QED BY <1>11, <3>1
  <2> HIDE DEF one, nodes, nodesF, left, run, live, N, value
  <2>2. MF = M
    BY <2>1
  <2>3. after = SubSeq(arena, 1, base) \o run
    BY <2>1
  <2>4. Len(made) <= M /\ run \in Seq(EntryIn(M))
    BY <1>2, <1>6
  <2> HIDE DEF M, MF
  <2>5. /\ Len(SubSeq(arena, 1, base) \o run) = base + Len(run)
        /\ \A i \in 1 .. base : (SubSeq(arena, 1, base) \o run)[i] = arena[i]
        /\ \A i \in 1 .. Len(run) : (SubSeq(arena, 1, base) \o run)[base + i] = run[i]
    <3>1. Over(SubSeq(arena, 1, base) \o run, base, run, M)
      BY <1>6, <1>9, <2>4, OverBase
    <3> QED BY <3>1 DEF Over
  <2> HIDE DEF after
  <2>6. Len(after) = Len(live)
    BY <1>2, <2>3, <2>5
  <2>7. ASSUME NEW i \in 1 .. Len(live) PROVE after[i].value = live[i].value
    <3>1. CASE i <= base
      <4>1. i \in 1 .. base
        BY <3>1
      <4> QED BY <1>2, <2>3, <2>5, <4>1
    <3>2. CASE ~(i <= base)
      <4>1. i - base \in 1 .. Len(run) /\ base + (i - base) = i
        BY <1>2, <1>6, <3>2
      <4> QED BY <1>2, <2>3, <2>5, <4>1
    <3> QED BY <3>1, <3>2
  <2>8. Book(nodes, after)
    BY <1>2, <2>6, <2>7, BookSame
  <2> QED BY <1>2, <1>11, <2>1, <2>2, <2>4, <2>8
<1>12. /\ left \in Seq(EntryIn(MF)) /\ Len(left) \in Nat /\ Len(left) <= Len(run)
       /\ Len(nodesF) = Len(nodes) + (IF fold THEN 1 ELSE 0) /\ Book(nodesF, after)
  BY <1>10, <1>11
<1> DEFINE all == nodes \o F(fold) \o R(fold)
<1>13. Report(all) /\ arena' = after /\ failed' = failed /\ Push(place, T(fold), Len(left), p)
       /\ root' = IF isRoot THEN ValueOf(tree.symbol, (Len(nodes) + 1) + (IF fold THEN 1 ELSE 0)) ELSE root
  BY <1>1
<1>14. nodesF \in Seq(Range(nodesF)) /\ Parents(nodesF) /\ Len(nodesF) \in Nat /\ MF \in Nat
  <2>1. nodesF \in Seq(Range(nodesF)) /\ Parents(nodesF) /\ Len(nodesF) \in Nat
    <3> HIDE DEF nodesF, after
    <3> QED BY <1>12 DEF Book, Parents
  <2> HIDE DEF nodesF
  <2> QED BY <1>6, <2>1
<1>15. arena_capacity' \in Nat /\ scratch_capacity' \in Nat /\ base + Len(left) <= arena_capacity'
  <2> HIDE DEF left, run, produced, nodesF, after
  <2>1. scratch_capacity' \in Nat
    BY <1>1, <1>2, <1>6, ReserveIs
  <2>2. arena_capacity' \in Nat /\ base + Len(run) <= arena_capacity'
    <3>1. CASE produced = 0
      BY <1>1, <1>2, <1>6, <3>1
    <3>2. CASE produced # 0
      <4>1. arena_capacity' \in tf_filter__reserve(arena_capacity, base + Len(run))
        BY <1>1, <3>2
      <4>2. base + Len(run) \in Int
        BY <1>2, <1>6
      <4> QED BY <1>6, <4>1, <4>2, ReserveIs
    <3> QED BY <3>1, <3>2
  <2>3. Len(left) \in Nat /\ Len(run) \in Nat /\ Len(left) <= Len(run) /\ base \in Nat
    BY <1>2, <1>6, <1>12
  <2>4. base + Len(left) <= arena_capacity'
    BY <2>2, <2>3
  <2> QED BY <2>1, <2>2, <2>4
<1>16. ASSUME NEW top \in Nat, MF <= top
       PROVE  Over(after, base, left, top)
  <2>1. EntryIn(MF) \subseteq EntryIn(top)
    <3> HIDE DEF MF
    <3> QED BY <1>14, <1>16 DEF EntryIn
  <2>2. left \in Seq(EntryIn(top))
    <3> DEFINE E == EntryIn(MF)
               G == EntryIn(top)
    <3> HIDE DEF E, G, left
    <3>1. left \in Seq(E) /\ E \subseteq G
      BY <1>12, <2>1 DEF E, G
    <3> QED BY <3>1, SeqMonotonic DEF G
  <2>3. Len(made) <= top
    <3> HIDE DEF nodesF
    <3> QED BY <1>6, <1>14, <1>16
  <2> HIDE DEF left
  <2> QED BY <1>6, <2>2, <2>3, OverBase
<1>17. ASSUME ~isRoot
       PROVE  Kept /\ root' = root /\ Account(made', handed', arena')
  <2>1. all = nodesF
    <3> HIDE DEF nodes
    <3>1. R(fold) = << >>
      BY <1>17
    <3> HIDE DEF R, F, nodesF
    <3>2. nodesF \o << >> = nodesF
      BY <1>14
    <3> QED BY <3>1, <3>2 DEF nodesF
  <2> HIDE DEF all, nodesF, after, left
  <2>2. /\ made' = made \o nodesF /\ made' \in Seq(Range(made'))
        /\ Len(made') = Len(made) + Len(nodesF)
        /\ handed' = Given(nodesF) /\ handed' \in [1 .. Len(made') -> Nat]
    BY <1>13, <1>14, <2>1, ReportIs
  <2>3. Len(made') = MF /\ Len(made) <= Len(made') /\ MF <= MF
    BY <1>6, <1>14, <2>2
  <2>4. Over(after, base, left, MF)
    BY <1>14, <1>16, <2>3
  <2>5. arena' \in Seq(EntryIn(Len(made'))) /\ Len(arena') <= arena_capacity'
    BY <1>13, <1>15, <2>3, <2>4 DEF Over
  <2>6. Account(made', handed', arena')
    BY <1>12, <1>13, <2>2 DEF Book
  <2> QED BY <1>13, <1>14, <1>15, <1>17, <2>2, <2>3, <2>5, <2>6 DEF Kept
<1>18. ASSUME isRoot
       PROVE  Kept /\ root' \in 0 .. Len(made') /\ Closed(made', handed', root')
  <2>1. all = nodesF \o <<root1>>
    <3>1. R(fold) = <<root1>>
      BY <1>18
    <3> HIDE DEF R, F, nodes
    <3> QED BY <3>1
  <2>2. base = 0 /\ root1.symbol = Public[tree.symbol] /\ root1.children = left
    BY <1>3, <1>18
  <2>a. ValueOf(tree.symbol, (Len(nodes) + 1) + (IF fold THEN 1 ELSE 0)) = ValueFor(root1, MF + 1)
    <3>1. MF + 1 = Len(made) + ((Len(nodes) + 1) + (IF fold THEN 1 ELSE 0))
      <4>1. /\ Len(nodesF) = Len(nodes) + (IF fold THEN 1 ELSE 0)
            /\ Len(nodes) \in Nat /\ Len(made) \in Nat /\ fold \in BOOLEAN
        BY <1>1, <1>2, <1>6, <1>12
      <4> HIDE DEF nodes, nodesF
      <4> QED BY <4>1
    <3> HIDE DEF MF, root1, nodes
    <3> QED BY <2>2, <3>1 DEF ValueOf, ValueFor
  <2>b. left \in Seq(EntryIn(MF)) /\ Len(left) \in Nat /\ Book(nodesF, after)
    BY <1>12
  <2> HIDE DEF all, nodesF, after, left, root1
  <2>3. Over(after, base, left, MF)
    <3>1. MF <= MF
      BY <1>14
    <3> QED BY <1>14, <1>16, <3>1
  <2>4. Len(after) = Len(left) /\ \A j \in 1 .. Len(left) : 0 + j = j /\ after[j] = left[j]
    BY <2>2, <2>3 DEF Over
  <2>5. Takes(root1, after, 0, Len(after))
    <3>1. DOMAIN left = 1 .. Len(left)
      BY <2>b, LenProperties
    <3> QED BY <2>2, <2>4, <3>1 DEF Takes
  <2>6. /\ Closed(made \o (nodesF \o <<root1>>), Given(nodesF \o <<root1>>), ValueFor(root1, Len(made) + Len(nodesF) + 1))
        /\ Parents(nodesF \o <<root1>>) /\ Len(nodesF \o <<root1>>) = Len(nodesF) + 1
    <3>1. Len(after) \in Nat
      BY <2>b, <2>4
    <3> QED BY <2>b, <2>5, <3>1, BookCloses
  <2>7. /\ made' = made \o all /\ made' \in Seq(Range(made'))
        /\ Len(made') = Len(made) + Len(all)
        /\ handed' = Given(all) /\ handed' \in [1 .. Len(made') -> Nat]
    BY <1>13, <2>1, <2>6, ReportIs
  <2>8. Len(made') = MF + 1 /\ Len(made) <= Len(made') /\ MF <= MF + 1 /\ MF + 1 \in Nat
    BY <1>6, <1>14, <2>1, <2>6, <2>7
  <2>9. Over(after, base, left, MF + 1)
    <3> DEFINE top == MF + 1
    <3>1. top \in Nat /\ MF <= top
      BY <2>8
    <3> HIDE DEF top, MF
    <3>2. Over(after, base, left, top)
      BY <1>16, <3>1
    <3> QED BY <3>2 DEF top
  <2>10. arena' \in Seq(EntryIn(Len(made'))) /\ Len(arena') <= arena_capacity'
    BY <1>13, <1>15, <2>8, <2>9 DEF Over
  <2>11. root' = ValueFor(root1, MF + 1)
    BY <1>13, <1>18, <2>a
  <2>12. root' \in 0 .. Len(made')
    <3> HIDE DEF MF
    <3> QED BY <2>8, <2>11 DEF ValueFor, NULL
  <2>13. Closed(made', handed', root')
    BY <2>1, <2>6, <2>7, <2>11
  <2> QED BY <1>15, <2>7, <2>8, <2>10, <2>12, <2>13 DEF Kept
<1>19. \E f \in BOOLEAN, m \in Nat : /\ Len(arena') = base + m
                                     /\ Push(place, [tree EXCEPT !.folded = f], m, tree.production)
  <2>1. Len(arena') = base + Len(left) /\ Len(left) \in Nat
    <3>1. MF \in Nat /\ MF <= MF
      BY <1>14
    <3> HIDE DEF after, left, MF
    <3>2. Over(after, base, left, MF)
      BY <1>16, <3>1
    <3> QED BY <1>13, <3>2 DEF Over
  <2> HIDE DEF left
  <2> QED BY <1>13, <2>1
<1> HIDE DEF p, nodes, run, live, produced, value, T, one, L, F, R, left, N, root1, nodesF, after, M, MF, all
<1> QED BY <1>13, <1>17, <1>18, <1>19

-----------------------------------------------------------------------------
(* The actions.                                                            *)

(* One more cell that owns nothing.                                        *)
LEMMA AppendIs ==
  ASSUME NEW cells, Cells(cells), NEW c, c.extra \in BOOLEAN, c.symbol \in DOMAIN Public, c.children = 0
  PROVE  /\ Cells(Append(cells, c)) /\ Len(Append(cells, c)) = Len(cells) + 1
         /\ Owned(Append(cells, c))[Len(Append(cells, c))] = Owned(cells)[Len(cells)]
<1> DEFINE more == Append(cells, c)
           n == Len(cells)
           S == Range(cells) \cup {c}
           b == 0
<1>1. cells \in Seq(S) /\ n \in Nat /\ c \in S
  BY SeqMonotonic DEF Cells, Rated
<1> HIDE DEF S
<1>2. /\ more \in Seq(S) /\ Len(more) = n + 1 /\ \A i \in 1 .. n : more[i] = cells[i]
      /\ more[n + 1] = c
  BY <1>1, AppendProperties
<1> HIDE DEF more
<1>3. \A i \in 1 .. Len(more) : i \in 1 .. n \/ i = n + 1
  BY <1>1, <1>2
<1>4. \A i \in 1 .. Len(more) : /\ more[i].children \in Nat
                                /\ more[i].extra \in BOOLEAN /\ more[i].symbol \in DOMAIN Public
                                /\ more[i].extra => more[i].children = 0
  BY <1>2, <1>3 DEF Cells, Rated
<1>5. Cells(more)
  <2>1. more \in Seq(Range(more)) /\ Len(more) \in Nat
    BY <1>1, <1>2, SeqOfRange
  <2> QED BY <1>4, <2>1 DEF Cells, Rated
<1>6. b \in Nat /\ b + n = n /\ b + n <= Len(more) /\ \A i \in 1 .. n : b + i = i
  BY <1>1, <1>2
<1>7. Owned(more)[n] = Owned(cells)[n]
  <2>1. Owned(more)[b + n] = Owned(more)[b] + Owned(cells)[n]
    <3>1. \A i \in 1 .. Len(cells) : more[b + i].children = cells[i].children
      BY <1>2, <1>6
    <3> HIDE DEF b
    <3> QED BY <1>5, <1>6, <3>1, OwnedPiece
  <2>2. Owned(more)[0] = 0 /\ Owned(cells)[n] \in Nat
    <3>1. n \in 0 .. n
      BY <1>1
    <3> QED BY <1>5, <3>1, OwnedUpTo
  <2> QED BY <1>6, <2>1, <2>2
<1>8. Owned(more)[Len(more)] = Owned(more)[n]
  <2>1. n \in 0 .. Len(more) /\ \A i \in n + 1 .. Len(more) : i = n + 1
    BY <1>1, <1>2
  <2> HIDE DEF n
  <2>2. \A i \in n + 1 .. Len(more) : more[i].children = 0
    BY <1>2, <2>1
  <2> QED BY <1>5, <2>1, <2>2, OwnedNothing
<1> QED BY <1>2, <1>5, <1>7, <1>8 DEF more

Place(b, e) == [below |-> SubSeq(stack, 1, b), above |-> SubSeq(stack, e + 1, Len(stack))]

(* The parent's cell takes the place of the children's.                    *)
Pushed(b, e, c) ==
  /\ Len(stack') = b + 1 + (Len(stack) - e)
  /\ \A i \in 1 .. b : stack'[i] = stack[i]
  /\ stack'[b + 1] = c
  /\ \A i \in 1 .. Len(stack) - e : stack'[b + 1 + i] = stack[e + i]

(* See Pushed.                                                             *)
LEMMA PushIs ==
  ASSUME Cells(stack), NEW b \in 0 .. Len(stack), NEW e \in b .. Len(stack),
         \A i \in e + 1 .. Len(stack) : stack[i].extra,
         NEW tree, tree.symbol \in DOMAIN Public, NEW m \in Nat, NEW production,
         Push(Place(b, e), tree, m, production)
  PROVE  /\ Cells(stack') /\ Owned(stack')[Len(stack')] = Owned(stack)[b] + m
         /\ Pushed(b, e, tf_filter__store_cell(tree.symbol, FALSE, m, production, tree))
<1> DEFINE n == Len(stack)
           below == SubSeq(stack, 1, b)
           above == SubSeq(stack, e + 1, n)
           c == tf_filter__store_cell(tree.symbol, FALSE, m, production, tree)
           one == <<c>>
           S == Range(below) \cup Range(above) \cup {c}
           next == below \o one \o above
           z == 0
<1>1. n \in Nat /\ b \in Nat /\ e \in Nat /\ b <= e /\ e <= n
  BY DEF Cells, Rated
<1>2. /\ Cells(below) /\ Len(below) = b /\ \A i \in 1 .. b : below[i] = stack[i]
  <2> DEFINE o == 1
  <2>1. o \in 1 .. Len(stack) + 1 /\ b \in 0 .. Len(stack) /\ o <= b + 1 /\ b + 1 - o = b
        /\ \A i \in 1 .. b : o - 1 + i = i
    BY <1>1
  <2> HIDE DEF o
  <2>2. /\ Cells(SubSeq(stack, o, b)) /\ Len(SubSeq(stack, o, b)) = b + 1 - o
        /\ \A i \in 1 .. b + 1 - o : SubSeq(stack, o, b)[i] = stack[o - 1 + i]
    BY <2>1, CellsOf
  <2> QED BY <2>1, <2>2 DEF o
<1>3. /\ Cells(above) /\ Len(above) = n - e
      /\ \A i \in 1 .. n - e : above[i].extra /\ above[i] = stack[e + i]
  <2> DEFINE o == e + 1
  <2>1. o \in 1 .. n + 1 /\ n \in 0 .. n /\ o <= n + 1 /\ n + 1 - o = n - e
        /\ \A i \in 1 .. n - e : o - 1 + i \in e + 1 .. n /\ o - 1 + i = e + i
    BY <1>1
  <2> HIDE DEF o
  <2>2. /\ Cells(SubSeq(stack, o, n)) /\ Len(SubSeq(stack, o, n)) = n + 1 - o
        /\ \A i \in 1 .. n + 1 - o : SubSeq(stack, o, n)[i] = stack[o - 1 + i]
    BY <2>1, CellsOf
  <2> QED BY <2>1, <2>2 DEF o
<1>4. c.extra = FALSE /\ c.symbol = tree.symbol /\ c.children = m
  BY DEF tf_filter__store_cell
<1>5. stack' = next
  BY DEF Push, Place
<1> HIDE DEF below, above, c, n, next, S
<1>6. below \in Seq(S) /\ above \in Seq(S) /\ c \in S
  <2>1. below \in Seq(Range(below)) /\ above \in Seq(Range(above))
    BY <1>2, <1>3 DEF Cells
  <2> QED BY <2>1, SeqMonotonic DEF S
<1>7. /\ next \in Seq(S) /\ Len(next) = b + 1 + (n - e)
      /\ \A i \in 1 .. b : next[i] = below[i]
      /\ next[b + 1] = c
      /\ \A i \in 1 .. n - e : next[b + 1 + i] = above[i]
  <2> DEFINE head == below \o one
  <2>1. one \in Seq(S) /\ Len(one) = 1 /\ one[1] = c
    BY <1>6
  <2> HIDE DEF one
  <2>2. /\ head \in Seq(S) /\ Len(head) = b + 1
        /\ \A i \in 1 .. b + 1 : head[i] = IF i <= b THEN below[i] ELSE one[i - b]
    <3>1. /\ below \o one \in Seq(S) /\ Len(below \o one) = Len(below) + Len(one)
          /\ \A i \in 1 .. Len(below) + Len(one) :
               (below \o one)[i] = IF i <= Len(below) THEN below[i] ELSE one[i - Len(below)]
      <4>1. below \in Seq(S) /\ one \in Seq(S)
        BY <1>6, <2>1
      <4> QED BY <4>1, ConcatProperties, Zenon
    <3>2. Len(below) = b
      BY <1>2
    <3> QED BY <2>1, <3>1, <3>2, Zenon
  <2> HIDE DEF head
  <2>3. /\ head \o above \in Seq(S) /\ Len(head \o above) = (b + 1) + (n - e)
        /\ \A i \in 1 .. (b + 1) + (n - e) : (head \o above)[i] = IF i <= b + 1 THEN head[i] ELSE above[i - (b + 1)]
    <3>1. /\ head \o above \in Seq(S) /\ Len(head \o above) = Len(head) + Len(above)
          /\ \A i \in 1 .. Len(head) + Len(above) :
               (head \o above)[i] = IF i <= Len(head) THEN head[i] ELSE above[i - Len(head)]
      BY <1>6, <2>2, ConcatProperties, Zenon
    <3>2. Len(above) = n - e
      BY <1>3
    <3> QED BY <2>2, <3>1, <3>2, Zenon
  <2>4. next = head \o above
    BY DEF next, head
  <2>5. \A i \in 1 .. b : i \in 1 .. b + 1 /\ i <= b /\ i <= b + 1 /\ i \in 1 .. (b + 1) + (n - e)
    BY <1>1
  <2>6. b + 1 \in 1 .. b + 1 /\ ~(b + 1 <= b) /\ (b + 1) - b = 1 /\ b + 1 \in 1 .. (b + 1) + (n - e)
    BY <1>1
  <2>7. \A i \in 1 .. n - e : /\ b + 1 + i \in 1 .. (b + 1) + (n - e) /\ ~(b + 1 + i <= b + 1)
                              /\ (b + 1 + i) - (b + 1) = i
    BY <1>1
  <2>8. \A i \in 1 .. b : next[i] = below[i]
    BY <2>2, <2>3, <2>4, <2>5
  <2>9. next[b + 1] = c
    BY <2>1, <2>2, <2>3, <2>4, <2>6
  <2>10. \A i \in 1 .. n - e : next[b + 1 + i] = above[i]
    BY <2>3, <2>4, <2>7
  <2> QED BY <2>3, <2>4, <2>8, <2>9, <2>10
<1>8. \A i \in 1 .. Len(next) : \/ i \in 1 .. b
                                \/ i = b + 1
                                \/ i - (b + 1) \in 1 .. n - e /\ b + 1 + (i - (b + 1)) = i
  BY <1>1, <1>7
<1>9. ASSUME NEW i \in 1 .. Len(next)
      PROVE  /\ next[i].children \in Nat /\ next[i].extra \in BOOLEAN /\ next[i].symbol \in DOMAIN Public
             /\ next[i].extra => next[i].children = 0
             /\ b + 2 <= i => next[i].children = 0
  <2>1. CASE i \in 1 .. b
    <3>1. next[i] = below[i] /\ i \in 1 .. Len(below) /\ ~(b + 2 <= i)
      BY <1>1, <1>2, <1>7, <2>1
    <3> QED BY <1>2, <3>1 DEF Cells, Rated
  <2>2. CASE i = b + 1
    <3>1. next[i] = c /\ ~(b + 2 <= i)
      BY <1>1, <1>7, <2>2
    <3> QED BY <1>4, <3>1
  <2>3. CASE i - (b + 1) \in 1 .. n - e /\ b + 1 + (i - (b + 1)) = i
    <3>1. next[i] = above[i - (b + 1)] /\ i - (b + 1) \in 1 .. Len(above) /\ above[i - (b + 1)].extra
      BY <1>3, <1>7, <2>3
    <3> QED BY <1>3, <3>1 DEF Cells, Rated
  <2> QED BY <1>8, <2>1, <2>2, <2>3
<1>10. Cells(next)
  <2>1. next \in Seq(Range(next)) /\ Len(next) \in Nat
    BY <1>1, <1>7, SeqOfRange
  <2> QED BY <1>9, <2>1 DEF Cells, Rated
<1>11. z \in Nat /\ z + b = b /\ b <= n /\ b <= Len(next) /\ \A i \in 1 .. b : z + i = i
  BY <1>1, <1>7
<1>12. Owned(stack)[b] = Owned(below)[b] /\ Owned(next)[b] = Owned(below)[b]
  <2>1. \A i \in 1 .. Len(below) : stack[z + i].children = below[i].children /\ next[z + i].children = below[i].children
    BY <1>2, <1>7, <1>11
  <2>2. z + Len(below) <= Len(stack) /\ z + Len(below) <= Len(next)
    BY <1>2, <1>11 DEF n
  <2> HIDE DEF z
  <2>3. /\ Owned(stack)[z + Len(below)] = Owned(stack)[z] + Owned(below)[Len(below)]
        /\ Owned(next)[z + Len(below)] = Owned(next)[z] + Owned(below)[Len(below)]
    BY <1>2, <1>10, <1>11, <2>1, <2>2, OwnedPiece
  <2>4. Owned(stack)[0] = 0 /\ Owned(next)[0] = 0 /\ Owned(below)[b] \in Nat
    <3>1. b \in 0 .. b
      BY <1>1
    <3> QED BY <1>2, <1>10, <3>1, OwnedUpTo
  <2> QED BY <1>2, <1>11, <2>3, <2>4 DEF z
<1>13. Owned(next)[b + 1] = Owned(next)[b] + m
  <2>1. b + 1 \in 1 .. Len(next) /\ (b + 1) - 1 = b
    BY <1>1, <1>7
  <2>2. Owned(next)[b + 1] = Owned(next)[(b + 1) - 1] + next[b + 1].children
    BY <1>10, <2>1, OwnedUpTo
  <2> QED BY <1>4, <1>7, <2>1, <2>2
<1>14. Owned(next)[Len(next)] = Owned(next)[b + 1]
  <2> DEFINE d == b + 1
  <2>1. d \in 0 .. Len(next) /\ \A i \in d + 1 .. Len(next) : i \in 1 .. Len(next) /\ b + 2 <= i
    BY <1>1, <1>7
  <2> HIDE DEF d
  <2>2. \A i \in d + 1 .. Len(next) : next[i].children = 0
    BY <1>9, <2>1
  <2>3. Owned(next)[Len(next)] = Owned(next)[d]
    BY <1>10, <2>1, <2>2, OwnedNothing
  <2> QED BY <2>3 DEF d
<1>15. Pushed(b, e, c)
  <2>1. Len(next) = b + 1 + (Len(stack) - e)
    BY <1>7 DEF n
  <2>2. \A i \in 1 .. b : next[i] = stack[i]
    BY <1>2, <1>7
  <2>3. \A i \in 1 .. Len(stack) - e : next[b + 1 + i] = stack[e + i]
    BY <1>3, <1>7 DEF n
  <2> QED BY <1>5, <1>7, <2>1, <2>2, <2>3, Zenon DEF Pushed
<1> QED BY <1>5, <1>10, <1>12, <1>13, <1>14, <1>15 DEF c

(* The children of an ordinary reduction are cells of the stack, and what  *)
(* lies below them is what the cells below own.                            *)
LEMMA KidsAre ==
  ASSUME Shape, Owned(stack)[Len(stack)] = Len(arena), NEW b \in 0 .. Len(stack), NEW e \in b .. Len(stack),
         \A i \in e + 1 .. Len(stack) : stack[i].extra
  PROVE  LET kids == SubSeq(stack, b + 1, e)
             base == Len(arena) - Owned(kids)[Len(kids)]
         IN  Kids(base, kids) /\ base = Owned(stack)[b]
<1> DEFINE kids == SubSeq(stack, b + 1, e)
           base == Len(arena) - Owned(kids)[Len(kids)]
           n == Len(stack)
           m == b + 1
<1>1. Cells(stack) /\ n \in Nat /\ b \in Nat /\ e \in Nat /\ b <= e /\ e <= n
  BY DEF Shape, Cells, Rated
<1>2. /\ Cells(kids) /\ Len(kids) = e - b
      /\ \A i \in 1 .. e - b : kids[i] = stack[b + i]
  <2>1. m \in 1 .. n + 1 /\ e \in 0 .. n /\ m <= e + 1 /\ e + 1 - m = e - b
        /\ \A i \in 1 .. e - b : m - 1 + i = b + i
    BY <1>1
  <2> HIDE DEF m
  <2>2. /\ Cells(SubSeq(stack, m, e)) /\ Len(SubSeq(stack, m, e)) = e + 1 - m
        /\ \A i \in 1 .. e + 1 - m : SubSeq(stack, m, e)[i] = stack[m - 1 + i]
    BY <1>1, <2>1, CellsOf
  <2> QED BY <2>1, <2>2 DEF m
<1> HIDE DEF kids
<1>3. Owned(stack)[e] = Owned(stack)[b] + Owned(kids)[Len(kids)]
  <2>1. b + Len(kids) = e /\ b + Len(kids) <= n /\ \A i \in 1 .. Len(kids) : stack[b + i].children = kids[i].children
    BY <1>1, <1>2
  <2>2. Owned(stack)[b + Len(kids)] = Owned(stack)[b] + Owned(kids)[Len(kids)]
    <3>1. /\ Cells(stack) /\ Cells(kids) /\ b \in Nat /\ b + Len(kids) <= Len(stack)
          /\ \A i \in 1 .. Len(kids) : stack[b + i].children = kids[i].children
      BY <1>1, <1>2, <2>1
    <3> HIDE DEF n
    <3> QED BY <3>1, OwnedPiece, Zenon
  <2> QED BY <2>1, <2>2
<1>4. Owned(stack)[n] = Owned(stack)[e]
  <2>1. e \in 0 .. n /\ \A i \in e + 1 .. n : i \in 1 .. n
    BY <1>1
  <2>2. \A i \in e + 1 .. n : stack[i].children = 0
    BY <1>1, <2>1 DEF Cells
  <2> QED BY <1>1, <2>1, <2>2, OwnedNothing
<1>5. Owned(stack)[b] \in Nat /\ Owned(kids)[Len(kids)] \in Nat
  <2>1. b \in 0 .. n /\ Len(kids) \in 0 .. Len(kids)
    BY <1>1, <1>2
  <2> QED BY <1>1, <1>2, <2>1, OwnedUpTo
<1>6. base = Owned(stack)[b] /\ base + Owned(kids)[Len(kids)] = Len(arena)
  BY <1>3, <1>4, <1>5
<1> QED BY <1>2, <1>5, <1>6 DEF Kids, kids

(* The children of the root are all cells, and the end.                    *)
LEMMA RootKidsAre ==
  ASSUME Shape, Owned(stack)[Len(stack)] = Len(arena)
  PROVE  LET kids == Append(stack, tf_filter__store_cell(End, TRUE, 0, 0, Leaf(End, TRUE)))
             base == Len(arena) - Owned(kids)[Len(kids)]
         IN  Kids(base, kids) /\ base = 0
<1> DEFINE c == tf_filter__store_cell(End, TRUE, 0, 0, Leaf(End, TRUE))
           kids == Append(stack, c)
           base == Len(arena) - Owned(kids)[Len(kids)]
<1>1. c.extra \in BOOLEAN /\ c.symbol = End /\ c.children = 0
  BY DEF tf_filter__store_cell
<1>2. End \in DOMAIN Public /\ Cells(stack)
  BY FilterAssumption DEF FilterAssumption, Shape
<1> HIDE DEF c
<1>3. Cells(kids) /\ Owned(kids)[Len(kids)] = Owned(stack)[Len(stack)]
  BY <1>1, <1>2, AppendIs
<1> HIDE DEF kids
<1>4. Len(arena) \in Nat
  BY LenProperties DEF Shape, TypeOK
<1>5. base = 0 /\ base \in Nat /\ base + Owned(kids)[Len(kids)] = Len(arena)
  BY <1>3, <1>4
<1>6. Kids(base, kids)
  BY <1>3, <1>5 DEF Kids
<1> HIDE DEF base
<1> QED BY <1>5, <1>6, Zenon DEF base, kids, c

(* The next state is in shape.                                             *)
LEMMA KeptShape ==
  ASSUME Shape, Kept, Cells(stack'), root' \in 0 .. Len(made'), named_only' = named_only,
         pc' \in {"parse", "end", "done"}, ok' \in BOOLEAN, failed' \in BOOLEAN
  PROVE  Shape'
<1>1. Entry' = EntryIn(Len(made'))
  BY DEF Entry, EntryIn
<1>2. TypeOK'
  BY <1>1 DEF Kept, TypeOK
<1>3. Cells(stack)'
  BY DEF Cells, Rated
<1> QED BY <1>2, <1>3 DEF Kept, Shape

(* What a rule's tree is.                                                  *)
LEMMA TreeIs ==
  ASSUME NEW rule \in Rule, NEW kids
  PROVE  LET tree == TreeOf(rule, kids) IN
         /\ RowsFit(tree.production) /\ tree.symbol \in DOMAIN Public
         /\ \A f \in BOOLEAN : [tree EXCEPT !.folded = f].symbol = tree.symbol
<1> DEFINE tree == TreeOf(rule, kids)
           trees == [i \in 1 .. Len(kids) |-> kids[i].tree]
           walk == Walk(rule.production, trees)
<1> HIDE DEF trees, walk
<1>1. tree = [symbol |-> rule.symbol, extra |-> FALSE, production |-> rule.production,
              kids |-> trees, walk |-> walk, folded |-> FALSE]
  BY Zenon DEF TreeOf, Tree, trees, walk
<1> HIDE DEF tree
<1>2. tree.symbol = rule.symbol /\ tree.production = rule.production
  BY <1>1
<1>3. \A f \in BOOLEAN : [tree EXCEPT !.folded = f].symbol = tree.symbol
  <2> SUFFICES ASSUME NEW f \in BOOLEAN PROVE [tree EXCEPT !.folded = f].symbol = tree.symbol
    OBVIOUS
  <2>1. "symbol" \in DOMAIN tree /\ "symbol" # "folded"
    BY <1>1
  <2> QED BY <2>1
<1>4. RowsFit(rule.production) /\ rule.symbol \in DOMAIN Public
  <2>1. RuleFits(rule)
    BY FilterAssumption DEF FilterAssumption
  <2>2. rule.production # 0 => RowsOf(rule.production)
    BY <2>1, Zenon DEF RuleFits
  <2>3. RowsFit(rule.production)
    BY <2>2, Zenon DEF RowsFit
  <2>4. rule.symbol \in DOMAIN Public
    BY <2>1 DEF RuleFits
  <2> QED BY <2>3, <2>4
<1> QED BY <1>2, <1>3, <1>4, Zenon DEF tree

(* Nothing has been read: the arena and the stack are empty.               *)
LEMMA InitIInv == Init => IInv
<1> SUFFICES ASSUME Init PROVE IInv
  OBVIOUS
<1>1. /\ stack = << >> /\ arena = << >> /\ made = << >> /\ handed = << >> /\ pc = "parse" /\ ~ok
      /\ failed = FALSE /\ root = NULL /\ ok \in BOOLEAN /\ root = 0
      /\ arena_capacity = 0 /\ scratch_capacity = 0
  BY DEF Init, NULL
<1>2. named_only \in BOOLEAN
  BY FilterAssumption DEF FilterAssumption, Init
<1>3. \A S : << >> \in Seq(S)
  OBVIOUS
<1>4. Cells(<< >>)
  BY <1>3 DEF Cells, Rated
<1>5. TypeOK
  <2>1. handed \in [1 .. Len(made) -> Nat]
    BY <1>1
  <2>2. arena \in Seq(Entry)
    BY <1>1, <1>3, Zenon
  <2>3. root \in 0 .. Len(made) /\ arena_capacity \in Nat /\ scratch_capacity \in Nat
    BY <1>1
  <2>4. pc \in {"parse", "end", "done"} /\ ok \in BOOLEAN /\ failed \in BOOLEAN
    BY <1>1
  <2> QED BY <2>1, <2>2, <2>3, <2>4, Zenon DEF TypeOK
<1>6. Shape
  <2>1. Len(arena) <= arena_capacity
    BY <1>1
  <2> QED BY <1>1, <1>2, <1>3, <1>4, <1>5, <2>1 DEF Shape
<1>7. Divided
  <2>1. Owned(<< >>)[0] = 0
    BY <1>4, OwnedUpTo
  <2> QED BY <1>1, <2>1 DEF Divided
<1>8. Accounted
  BY <1>1 DEF Accounted, Account
<1> QED BY <1>6, <1>7, <1>8 DEF IInv

(* While the parse goes on, what the invariant says of the arena.          *)
LEMMA Underway ==
  ASSUME IInv, pc = "parse"
  PROVE  /\ Shape /\ root \in 0 .. Len(made) /\ ok \in BOOLEAN /\ failed \in BOOLEAN
         /\ ~failed => /\ Owned(stack)[Len(stack)] = Len(arena) /\ Account(made, handed, arena)
                       /\ ~ok /\ root = NULL
BY DEF IInv, Shape, TypeOK, Divided, Accounted

(* A cell for a token owns nothing: the arena stays divided.               *)
LEMMA ShiftKeepsIInv == IInv /\ Shift => IInv'
<1> SUFFICES ASSUME IInv, Shift PROVE IInv'
  OBVIOUS
<1>1. pc = "parse" /\ UNCHANGED <<named_only, pc, ok, root, filtervars>>
  BY DEF Shift
<1>2. PICK symbol \in Token, extra \in BOOLEAN :
        stack' = Append(stack, tf_filter__store_cell(symbol, extra, 0, 0, Leaf(symbol, extra)))
  BY DEF Shift
<1> DEFINE c == tf_filter__store_cell(symbol, extra, 0, 0, Leaf(symbol, extra))
<1>3. c.extra \in BOOLEAN /\ c.symbol \in DOMAIN Public /\ c.children = 0
  <2>1. symbol \in DOMAIN Public
    BY FilterAssumption DEF FilterAssumption
  <2> QED BY <2>1 DEF tf_filter__store_cell
<1>4. stack' = Append(stack, c)
  BY <1>2
<1> HIDE DEF c
<1>5. Cells(stack)
  BY DEF IInv, Shape
<1>6. Cells(stack') /\ Owned(stack')[Len(stack')] = Owned(stack)[Len(stack)]
  BY <1>3, <1>4, <1>5, AppendIs
<1>7. /\ pc' = pc /\ ok' = ok /\ root' = root /\ arena' = arena /\ made' = made /\ handed' = handed
      /\ failed' = failed /\ named_only' = named_only /\ arena_capacity' = arena_capacity
      /\ scratch_capacity' = scratch_capacity
  BY <1>1 DEF filtervars
<1>8. Cells(stack)'
  BY <1>6 DEF Cells, Rated
<1>9. Shape'
  BY <1>7, <1>8 DEF IInv, Shape, TypeOK, Entry
<1>10. Divided'
  BY <1>6, <1>7 DEF IInv, Divided
<1>11. Accounted'
  BY <1>7 DEF IInv, Accounted
<1> QED BY <1>9, <1>10, <1>11 DEF IInv

(* The next state while the parse goes on, with what it must say of the    *)
(* arena.                                                                  *)
LEMMA StillUnderway ==
  ASSUME Shape', pc' = "parse", ok' = FALSE, root' = NULL,
         ~failed' => Owned(stack')[Len(stack')] = Len(arena') /\ Account(made', handed', arena')
  PROVE  IInv'
<1>1. Divided'
  <2>1. ~failed' => Owned(stack')[Len(stack')] = Len(arena')
    OBVIOUS
  <2> QED BY <2>1 DEF Divided, Owned, Owns
<1>2. Accounted'
  <2>1. ~failed' => Account(made', handed', arena')
    OBVIOUS
  <2> QED BY <2>1 DEF Accounted, NULL, Account, Holds, Closed
<1> QED BY <1>1, <1>2 DEF IInv

(* The reduced cells give way to their parent's, which owns what they      *)
(* became, or to one that owns nothing where the memory ran out.           *)
LEMMA ReduceKeepsIInv == IInv /\ Reduce => IInv'
<1> SUFFICES ASSUME IInv, Reduce PROVE IInv'
  OBVIOUS
<1>1. pc = "parse" /\ pc' = pc /\ ok' = ok /\ named_only' = named_only
  BY DEF Reduce
<1>2. PICK rule \in Rule, b \in 0 .. Len(stack), e \in 0 .. Len(stack) :
        /\ Reducible(rule, b, e)
        /\ tf_filter__on_reduce(TreeOf(rule, SubSeq(stack, b + 1, e)), SubSeq(stack, b + 1, e),
                                FALSE, Place(b, e))
  BY DEF Reduce, Place
<1> DEFINE kids == SubSeq(stack, b + 1, e)
           tree == TreeOf(rule, kids)
           base == Len(arena) - Owned(kids)[Len(kids)]
<1>3. /\ Shape /\ root \in 0 .. Len(made) /\ ok \in BOOLEAN /\ failed \in BOOLEAN
      /\ ~failed => /\ Owned(stack)[Len(stack)] = Len(arena) /\ Account(made, handed, arena)
                    /\ ~ok /\ root = NULL
  BY <1>1, Underway
<1>4. Cells(stack) /\ b \in 0 .. Len(stack) /\ e \in b .. Len(stack)
      /\ \A i \in e + 1 .. Len(stack) : stack[i].extra
  BY <1>2, <1>3 DEF Shape, Reducible
<1>5. /\ RowsFit(tree.production) /\ tree.symbol \in DOMAIN Public
      /\ \A f \in BOOLEAN : [tree EXCEPT !.folded = f].symbol = tree.symbol
  BY TreeIs, Zenon
<1>6. ~failed => Kids(base, kids) /\ base = Owned(stack)[b]
  BY <1>3, <1>4, KidsAre, Zenon
<1>7. tf_filter__on_reduce(tree, kids, FALSE, Place(b, e))
  BY <1>2, Zenon
<1>8. CASE failed /\ Push(Place(b, e), tree, 0, 0) /\ UNCHANGED <<root, filtervars>>
  <2>1. Cells(stack')
    BY <1>4, <1>5, <1>8, PushIs
  <2>2. /\ root' = root /\ arena' = arena /\ made' = made /\ handed' = handed /\ failed' = failed
        /\ arena_capacity' = arena_capacity /\ scratch_capacity' = scratch_capacity
    BY <1>8 DEF filtervars
  <2>3. Cells(stack)'
    BY <2>1 DEF Cells, Rated
  <2>4. Shape'
    BY <1>1, <1>3, <2>2, <2>3 DEF Shape, TypeOK, Entry
  <2>5. Divided' /\ Accounted'
    BY <1>8, <2>2 DEF Divided, Accounted
  <2> QED BY <2>4, <2>5 DEF IInv
<1>9. CASE /\ ~failed /\ OutOfMemory(tree.production, base, kids) /\ Push(Place(b, e), tree, 0, 0)
           /\ root' = root
  <2> HIDE DEF tree, base, kids
  <2>1. Kept /\ failed' = TRUE
    BY <1>3, <1>5, <1>6, <1>9, FailsIs
  <2>2. Cells(stack')
    BY <1>4, <1>5, <1>9, PushIs
  <2>3. root' \in 0 .. Len(made') /\ failed' \in BOOLEAN /\ pc' \in {"parse", "end", "done"} /\ ok' \in BOOLEAN
    <3>1. Len(made) \in Nat /\ Len(made') \in Nat /\ Len(made) <= Len(made')
      BY <1>3, <2>1 DEF Kept, Shape
    <3> QED BY <1>1, <1>3, <1>9, <2>1, <3>1
  <2>4. Shape'
    BY <1>1, <1>3, <2>1, <2>2, <2>3, KeptShape
  <2>5. ok' = FALSE /\ root' = NULL /\ pc' = "parse"
    BY <1>1, <1>3, <1>9
  <2> QED BY <2>1, <2>4, <2>5, StillUnderway
<1>10. CASE ~failed /\ Settles(tree, base, kids, FALSE, Place(b, e))
  <2> HIDE DEF tree, base, kids
  <2>1. /\ Kept /\ failed' = failed
        /\ root' = root /\ Account(made', handed', arena')
        /\ \E f \in BOOLEAN, m \in Nat : /\ Len(arena') = base + m
                                         /\ Push(Place(b, e), [tree EXCEPT !.folded = f], m, tree.production)
    <3> DEFINE place == Place(b, e)
    <3>1. Settles(tree, base, kids, FALSE, place) /\ FALSE \in BOOLEAN
      BY <1>10
    <3> HIDE DEF place
    <3>2. /\ Kept /\ failed' = failed
          /\ ~FALSE => root' = root /\ Account(made', handed', arena')
          /\ \E f \in BOOLEAN, m \in Nat : /\ Len(arena') = base + m
                                           /\ Push(place, [tree EXCEPT !.folded = f], m, tree.production)
      BY <1>3, <1>5, <1>6, <1>10, <3>1, SettlesIs, Zenon
    <3> QED BY <3>2, Zenon DEF place
  <2>2. PICK f \in BOOLEAN, m \in Nat : /\ Len(arena') = base + m
                                        /\ Push(Place(b, e), [tree EXCEPT !.folded = f], m, tree.production)
    BY <2>1, Zenon
  <2>3. [tree EXCEPT !.folded = f].symbol \in DOMAIN Public
    BY <1>5, Zenon
  <2>4. Cells(stack') /\ Owned(stack')[Len(stack')] = Owned(stack)[b] + m
    <3> DEFINE folded == [tree EXCEPT !.folded = f]
    <3>1. folded.symbol \in DOMAIN Public /\ Push(Place(b, e), folded, m, tree.production)
      BY <2>2, <2>3, Zenon
    <3> HIDE DEF folded
    <3> QED BY <1>4, <3>1, PushIs, Zenon
  <2>5. root' \in 0 .. Len(made') /\ failed' \in BOOLEAN /\ pc' \in {"parse", "end", "done"} /\ ok' \in BOOLEAN
    <3>1. Len(made) \in Nat /\ Len(made') \in Nat /\ Len(made) <= Len(made')
      BY <1>3, <2>1 DEF Kept, Shape
    <3> QED BY <1>1, <1>3, <2>1, <3>1
  <2>6. Shape'
    BY <1>1, <1>3, <2>1, <2>4, <2>5, KeptShape
  <2>7. Owned(stack')[Len(stack')] = Len(arena')
    BY <1>6, <1>10, <2>2, <2>4
  <2>8. ok' = FALSE /\ root' = NULL /\ pc' = "parse"
    BY <1>1, <1>3, <1>10, <2>1
  <2> QED BY <2>1, <2>6, <2>7, <2>8, StillUnderway
<1> QED
  <2> HIDE DEF tree, base, kids
  <2>1. base = Len(arena) - Owned(kids)[Len(kids)]
    BY DEF base
  <2> QED BY <1>7, <1>8, <1>9, <1>10, <2>1, Zenon DEF tf_filter__on_reduce

(* The next state where the driver has stopped.                            *)
LEMMA Stopped ==
  ASSUME Shape', pc' = "end", ok' \in BOOLEAN,
         ~failed' => IF ok' THEN Closed(made', handed', root') ELSE Account(made', handed', arena')
  PROVE  IInv'
<1>1. Divided'
  BY DEF Divided
<1>2. Accounted'
  BY DEF Accounted, NULL, Account, Holds, Closed
<1> QED BY <1>1, <1>2 DEF IInv

(* The root takes every value that is left.                                *)
LEMMA ReduceRootKeepsIInv == IInv /\ ReduceRoot => IInv'
<1> SUFFICES ASSUME IInv, ReduceRoot PROVE IInv'
  OBVIOUS
<1> DEFINE kids == Append(stack, tf_filter__store_cell(End, TRUE, 0, 0, Leaf(End, TRUE)))
           base == Len(arena) - Owned(kids)[Len(kids)]
<1>1. pc = "parse" /\ pc' = "end" /\ ok' = TRUE /\ named_only' = named_only
  BY DEF ReduceRoot
<1>2. PICK rule \in Rule, b \in 0 .. Len(stack), e \in 0 .. Len(stack) :
        /\ Reducible(rule, b, e)
        /\ tf_filter__on_reduce(TreeOf(rule, kids), kids, TRUE, Place(b, e))
  BY DEF ReduceRoot, Place
<1> DEFINE tree == TreeOf(rule, kids)
<1>3. /\ Shape /\ root \in 0 .. Len(made) /\ failed \in BOOLEAN
      /\ ~failed => Owned(stack)[Len(stack)] = Len(arena) /\ Account(made, handed, arena)
  BY <1>1, Underway
<1>4. Cells(stack) /\ b \in 0 .. Len(stack) /\ e \in b .. Len(stack)
      /\ \A i \in e + 1 .. Len(stack) : stack[i].extra
  BY <1>2, <1>3 DEF Shape, Reducible
<1>5. /\ RowsFit(tree.production) /\ tree.symbol \in DOMAIN Public
      /\ \A f \in BOOLEAN : [tree EXCEPT !.folded = f].symbol = tree.symbol
  BY TreeIs, Zenon
<1>6. ~failed => Kids(base, kids) /\ base = 0
  BY <1>3, RootKidsAre, Zenon
<1>7. tf_filter__on_reduce(tree, kids, TRUE, Place(b, e))
  BY <1>2, Zenon
<1>8. CASE failed /\ Push(Place(b, e), tree, 0, 0) /\ UNCHANGED <<root, filtervars>>
  <2> HIDE DEF tree, base, kids
  <2>1. Cells(stack')
    BY <1>4, <1>5, <1>8, PushIs
  <2>2. /\ root' = root /\ arena' = arena /\ made' = made /\ handed' = handed /\ failed' = failed
        /\ arena_capacity' = arena_capacity /\ scratch_capacity' = scratch_capacity
    BY <1>8 DEF filtervars
  <2>3. Cells(stack)'
    BY <2>1 DEF Cells, Rated
  <2>4. Shape'
    BY <1>1, <1>3, <2>2, <2>3 DEF Shape, TypeOK, Entry
  <2>5. failed' = TRUE
    BY <1>3, <1>8, <2>2
  <2> QED BY <1>1, <2>4, <2>5, Stopped
<1>9. CASE /\ ~failed /\ OutOfMemory(tree.production, base, kids) /\ Push(Place(b, e), tree, 0, 0)
           /\ root' = root
  <2> HIDE DEF tree, base, kids
  <2>1. Kept /\ failed' = TRUE
    BY <1>3, <1>5, <1>6, <1>9, FailsIs
  <2>2. Cells(stack')
    BY <1>4, <1>5, <1>9, PushIs
  <2>3. root' \in 0 .. Len(made') /\ failed' \in BOOLEAN /\ pc' \in {"parse", "end", "done"} /\ ok' \in BOOLEAN
    <3>1. Len(made) \in Nat /\ Len(made') \in Nat /\ Len(made) <= Len(made')
      BY <1>3, <2>1 DEF Kept, Shape
    <3> QED BY <1>1, <1>3, <1>9, <2>1, <3>1
  <2>4. Shape'
    BY <1>1, <1>3, <2>1, <2>2, <2>3, KeptShape
  <2> QED BY <1>1, <2>1, <2>4, Stopped
<1>10. CASE ~failed /\ Settles(tree, base, kids, TRUE, Place(b, e))
  <2> HIDE DEF tree, base, kids
  <2> DEFINE place == Place(b, e)
  <2>1. Settles(tree, base, kids, TRUE, place) /\ TRUE \in BOOLEAN
    BY <1>10
  <2> HIDE DEF place
  <2>2. /\ Kept /\ failed' = failed
        /\ TRUE => root' \in 0 .. Len(made') /\ Closed(made', handed', root')
        /\ \E f \in BOOLEAN, m \in Nat : /\ Len(arena') = base + m
                                         /\ Push(place, [tree EXCEPT !.folded = f], m, tree.production)
    BY <1>3, <1>5, <1>6, <1>10, <2>1, SettlesIs, Zenon
  <2>3. PICK f \in BOOLEAN, m \in Nat : Push(place, [tree EXCEPT !.folded = f], m, tree.production)
    BY <2>2, Zenon
  <2>4. Cells(stack')
    <3> DEFINE folded == [tree EXCEPT !.folded = f]
    <3>1. folded.symbol \in DOMAIN Public /\ Push(Place(b, e), folded, m, tree.production)
      BY <1>5, <2>3, Zenon DEF place
    <3> HIDE DEF folded
    <3> QED BY <1>4, <3>1, PushIs, Zenon
  <2>5. root' \in 0 .. Len(made') /\ failed' \in BOOLEAN /\ pc' \in {"parse", "end", "done"} /\ ok' \in BOOLEAN
    BY <1>1, <1>3, <2>2
  <2>6. Shape'
    BY <1>1, <1>3, <2>2, <2>4, <2>5, KeptShape
  <2> QED BY <1>1, <2>2, <2>6, Stopped
<1> QED
  <2> HIDE DEF tree, kids
  <2> QED BY <1>7, <1>8, <1>9, <1>10, Zenon DEF tf_filter__on_reduce, base

(* A parse that fails leaves the account as it was.                        *)
LEMMA FailKeepsIInv == IInv /\ Fail => IInv'
<1> SUFFICES ASSUME IInv, Fail PROVE IInv'
  OBVIOUS
<1>1. pc = "parse" /\ pc' = "end" /\ UNCHANGED <<named_only, ok, root, stack, filtervars>>
  BY DEF Fail
<1>2. /\ ok' = ok /\ root' = root /\ arena' = arena /\ made' = made /\ handed' = handed
      /\ failed' = failed /\ named_only' = named_only /\ arena_capacity' = arena_capacity
      /\ scratch_capacity' = scratch_capacity /\ stack' = stack
  BY <1>1 DEF filtervars
<1>3. /\ Shape /\ ok \in BOOLEAN
      /\ ~failed => Account(made, handed, arena) /\ ~ok
  BY <1>1, Underway
<1>4. Shape'
  BY <1>1, <1>2, <1>3 DEF Shape, TypeOK, Entry, Cells, Rated
<1> QED BY <1>1, <1>2, <1>3, <1>4, Stopped

(* A value sits in the arena at one place, or at none.                     *)
LEMMA Held ==
  ASSUME Shape, NEW v
  PROVE  LET held == {i \in DOMAIN arena : arena[i].value = v} IN
         /\ Cardinality(held) \in Nat
         /\ Account(made, handed, arena) /\ v # NULL => Cardinality(held) = IF Holds(arena, v) THEN 1 ELSE 0
<1> DEFINE n == Len(arena)
           held == {i \in DOMAIN arena : arena[i].value = v}
<1>1. n \in Nat /\ DOMAIN arena = 1 .. n
  BY LenProperties DEF Shape, TypeOK
<1>2. IsFiniteSet(held) /\ Cardinality(held) \in Nat
  <2>1. IsFiniteSet(1 .. n) /\ held \subseteq 1 .. n
    BY <1>1, FS_Interval
  <2> QED BY <2>1, FS_Subset, FS_CardinalityType
<1>3. ASSUME Account(made, handed, arena), v # NULL PROVE Cardinality(held) = IF Holds(arena, v) THEN 1 ELSE 0
  <2>1. CASE Holds(arena, v)
    <3>1. PICK i \in 1 .. n : arena[i].value = v
      BY <2>1 DEF Holds
    <3>2. held = {i}
      BY <1>1, <1>3, <3>1 DEF Account
    <3> QED BY <2>1, <3>2, FS_Singleton
  <2>2. CASE ~Holds(arena, v)
    <3>1. held = {}
      BY <1>1, <2>2 DEF Holds
    <3> QED BY <2>2, <3>1, FS_EmptySet
  <2> QED BY <2>1, <2>2
<1> QED BY <1>2, <1>3

(* After a failure every value left in the arena is handed back.           *)
LEMMA FinishKeepsIInv == IInv /\ Finish => IInv'
<1> SUFFICES ASSUME IInv, Finish PROVE IInv'
  OBVIOUS
<1> DEFINE left(v) == Cardinality({i \in DOMAIN arena : arena[i].value = v})
<1>1. /\ pc = "end" /\ pc' = "done" /\ ok' = (ok /\ ~failed) /\ root' = (IF ok' THEN root ELSE NULL)
      /\ arena' = arena /\ made' = made
      /\ failed' = failed /\ named_only' = named_only /\ arena_capacity' = arena_capacity
      /\ scratch_capacity' = scratch_capacity /\ stack' = stack
  BY DEF Finish
<1>2. handed' = [v \in DOMAIN handed |-> handed[v] + IF ok' THEN 0 ELSE left(v)]
  BY DEF Finish
<1>3. Shape /\ TypeOK
  BY DEF IInv, Shape
<1>4. \A v : left(v) \in Nat /\ (Account(made, handed, arena) /\ v # NULL
                                   => left(v) = IF Holds(arena, v) THEN 1 ELSE 0)
  BY <1>3, Held, Zenon
<1> HIDE DEF left
<1>5. handed \in [1 .. Len(made) -> Nat] /\ Len(made) \in Nat /\ ok \in BOOLEAN /\ failed \in BOOLEAN
      /\ root \in 0 .. Len(made)
  BY <1>3, LenProperties DEF TypeOK, Shape
<1>6. handed' \in [1 .. Len(made') -> Nat]
      /\ \A v \in 1 .. Len(made) : handed'[v] = handed[v] + IF ok' THEN 0 ELSE left(v)
  BY <1>1, <1>2, <1>4, <1>5
<1>7. Shape'
  <2>1. root' \in 0 .. Len(made') /\ ok' \in BOOLEAN
    BY <1>1, <1>5 DEF NULL
  <2>2. TypeOK'
    BY <1>1, <1>3, <1>6, <2>1 DEF TypeOK, Entry
  <2> QED BY <1>1, <1>3, <2>2 DEF Shape, Cells, Rated
<1>8. Divided'
  BY <1>1 DEF Divided
<1>9. Accounted'
  <2> SUFFICES ASSUME ~failed PROVE Closed(made', handed', root')
    BY <1>1 DEF Accounted, Closed, NULL
  <2>1. CASE ok
    <3>1. ok' = TRUE /\ root' = root
      BY <1>1, <1>5, <2>1
    <3>2. \A v \in 1 .. Len(made) : handed'[v] = handed[v]
      BY <1>5, <1>6, <3>1
    <3>3. Closed(made, handed, root)
      BY <1>1, <2>1 DEF IInv, Accounted
    <3> QED BY <1>1, <3>1, <3>2, <3>3 DEF Closed
  <2>2. CASE ~ok
    <3>1. ok' = FALSE /\ root' = 0
      BY <1>1, <2>2 DEF NULL
    <3>2. Account(made, handed, arena)
      BY <1>1, <2>2 DEF IInv, Accounted
    <3>3. \A v \in 1 .. Len(made) : handed'[v] = handed[v] + IF Holds(arena, v) THEN 1 ELSE 0
      <4>1. \A v \in 1 .. Len(made) : v # NULL
        BY <1>5 DEF NULL
      <4> QED BY <1>4, <1>6, <3>1, <3>2, <4>1
    <3>4. /\ \A v \in 1 .. Len(made) : handed[v] \in {0, 1}
          /\ \A v \in 1 .. Len(made) : made[v].symbol \notin Silent => (handed[v] = 0 <=> Holds(arena, v))
      BY <3>2 DEF Account
    <3>5. ASSUME NEW v \in 1 .. Len(made)
          PROVE  handed'[v] \in {0, 1} /\ (made[v].symbol \notin Silent => (handed'[v] = 1 <=> v # root'))
      <4>1. v # root' /\ handed[v] \in {0, 1} /\ (made[v].symbol \notin Silent => (handed[v] = 0 <=> Holds(arena, v)))
        BY <1>5, <3>1, <3>4
      <4>2. CASE Holds(arena, v)
        <5>1. handed'[v] = handed[v] + 1
          BY <3>3, <4>2
        <5>2. made[v].symbol \notin Silent
          BY <1>5, <3>2, <4>2 DEF Account, Holds, NULL
        <5> QED BY <4>1, <4>2, <5>1, <5>2
      <4>3. CASE ~Holds(arena, v)
        <5>1. handed'[v] = handed[v]
          BY <1>5, <3>3, <4>3
        <5> QED BY <4>1, <4>3, <5>1
      <4> QED BY <4>2, <4>3
    <3> QED BY <1>1, <3>5 DEF Closed
  <2> QED BY <2>1, <2>2
<1> QED BY <1>7, <1>8, <1>9 DEF IInv

(* A step that changes nothing.                                            *)
LEMMA StutterKeepsIInv == IInv /\ UNCHANGED vars => IInv'
<1> SUFFICES ASSUME IInv, UNCHANGED vars PROVE IInv'
  OBVIOUS
<1>1. /\ named_only' = named_only /\ pc' = pc /\ ok' = ok /\ root' = root /\ stack' = stack
      /\ arena' = arena /\ arena_capacity' = arena_capacity /\ scratch_capacity' = scratch_capacity
      /\ failed' = failed /\ made' = made /\ handed' = handed
  BY DEF vars, filtervars
<1>2. Shape'
  BY <1>1 DEF IInv, Shape, TypeOK, Entry, Cells, Rated
<1>3. Divided' /\ Accounted'
  BY <1>1 DEF IInv, Divided, Accounted
<1> QED BY <1>2, <1>3 DEF IInv

(* What the invariant says at any moment: where it holds, so do the        *)
(* properties.                                                             *)
LEMMA IInvImplies == IInv => ArenaIsPartition /\ HandedOnceInMemory /\ ValuesSettled
<1> SUFFICES ASSUME IInv PROVE ArenaIsPartition /\ HandedOnceInMemory /\ ValuesSettled
  OBVIOUS
<1>1. ArenaIsPartition
  BY DEF IInv, Shape, Divided, ArenaIsPartition
<1>2. DOMAIN handed = 1 .. Len(made) /\ DOMAIN made = 1 .. Len(made)
  BY LenProperties DEF IInv, Shape, TypeOK
<1>3. HandedOnceInMemory
  <2> SUFFICES ASSUME ~failed, NEW v \in 1 .. Len(made) PROVE handed[v] <= 1
    BY <1>2 DEF HandedOnceInMemory, HandedOnce
  <2>1. \A w \in 1 .. Len(made) : handed[w] \in {0, 1}
    <3>1. Account(made, handed, arena) \/ Closed(made, handed, root)
      BY DEF IInv, Accounted
    <3>2. Account(made, handed, arena) => \A w \in 1 .. Len(made) : handed[w] \in {0, 1}
      BY DEF Account
    <3>3. Closed(made, handed, root) => \A w \in 1 .. Len(made) : handed[w] \in {0, 1}
      BY DEF Closed
    <3> QED BY <3>1, <3>2, <3>3
  <2> QED BY <2>1
<1>4. ValuesSettled
  <2> SUFFICES ASSUME pc = "done", ~failed
               PROVE  \A v \in 1 .. Len(made) : IsValue(v) => (handed[v] = 1 <=> v # root)
    BY <1>2 DEF ValuesSettled
  <2>1. Closed(made, handed, root)
    BY DEF IInv, Accounted
  <2> QED BY <2>1 DEF Closed, IsValue
<1> QED BY <1>1, <1>3, <1>4

-----------------------------------------------------------------------------
(* The filter's invariant, for every grammar, alias and field table, and   *)
(* every answer of the consumer: the arena of tf_visible.c is divided      *)
(* among the cells of the stack, and while no allocation has failed the    *)
(* values not yet handed over are exactly those its entries hold.          *)
THEOREM FilterInvariance == Spec => []IInv
<1>1. Init => IInv
  BY InitIInv
<1>2. IInv /\ [Next]_vars => IInv'
  <2> SUFFICES ASSUME IInv, [Next]_vars PROVE IInv'
    OBVIOUS
  <2>1. CASE Shift
    BY <2>1, ShiftKeepsIInv
  <2>2. CASE Reduce
    BY <2>2, ReduceKeepsIInv
  <2>3. CASE ReduceRoot
    BY <2>3, ReduceRootKeepsIInv
  <2>4. CASE Fail
    BY <2>4, FailKeepsIInv
  <2>5. CASE Finish
    BY <2>5, FinishKeepsIInv
  <2>6. CASE UNCHANGED vars
    BY <2>6, StutterKeepsIInv
  <2> QED BY <2>1, <2>2, <2>3, <2>4, <2>5, <2>6 DEF Next
<1> QED BY <1>1, <1>2, PTL DEF Spec

(* tf_filter__on_reduce finds the entries of its children by counting back *)
(* from the top of the arena: every entry is one cell's, in the order of   *)
(* the stack, and none lies beyond the allocation.                         *)
THEOREM FilterDividesTheArena == Spec => []ArenaIsPartition
<1>1. IInv => ArenaIsPartition
  BY IInvImplies
<1> QED BY <1>1, FilterInvariance, PTL

(* However on_reduce moves entries about in the arena and the scratch      *)
(* array, no value goes to two parents, or to a parent and to on_discard,  *)
(* as long as tf_filter__reserve has not failed.                           *)
THEOREM FilterHandsOverOnce == Spec => []HandedOnceInMemory
<1>1. IInv => HandedOnceInMemory
  BY IInvImplies
<1> QED BY <1>1, FilterInvariance, PTL

(* When tf_parse_visible returns and memory has lasted, a successful parse *)
(* leaves the consumer with the root alone and a failed one with nothing:  *)
(* every other value went to one parent or to on_discard.                  *)
THEOREM FilterSettlesValues == Spec => []ValuesSettled
<1>1. IInv => ValuesSettled
  BY IInvImplies
<1> QED BY <1>1, FilterInvariance, PTL

-----------------------------------------------------------------------------
(* What a walk shows, with what is omitted left out.                       *)

WantedRow(only, s) ==
  [i \in 1 .. Len(s) |-> IF Omitted(only, s[i]) THEN <<>> ELSE <<s[i]>>]

(* Of the first k.                                                         *)
WantedTo(only, s, k) == Laid(WantedRow(only, s), k)

(* It grows by one or by none.                                             *)
WantedGrows(only, s, S) ==
  /\ Wanted(only, s) = WantedTo(only, s, Len(s)) /\ Len(s) \in Nat
  /\ WantedTo(only, s, 0) = << >>
  /\ \A k \in 0 .. Len(s) : WantedTo(only, s, k) \in Seq(S)
  /\ \A k \in 1 .. Len(s) :
       WantedTo(only, s, k) = WantedTo(only, s, k - 1)
                                \o (IF Omitted(only, s[k]) THEN << >> ELSE <<s[k]>>)

(* See WantedGrows.                                                        *)
LEMMA WantedSteps ==
  ASSUME NEW only, NEW S, NEW s, s \in Seq(S)
  PROVE  WantedGrows(only, s, S)
<1> DEFINE n == Len(s)
           R == WantedRow(only, s)
<1>1. n \in Nat
  OBVIOUS
<1>2. \A i \in 1 .. n : R[i] = IF Omitted(only, s[i]) THEN << >> ELSE <<s[i]>>
  BY DEF WantedRow
<1>3. \A i \in 1 .. n : s[i] \in S
  BY ElementOfSeq
<1>4. \A i \in 1 .. n : R[i] \in Seq(S)
  <2> SUFFICES ASSUME NEW i \in 1 .. n PROVE R[i] \in Seq(S)
    OBVIOUS
  <2> DEFINE x == s[i]
  <2>1. x \in S
    BY <1>3
  <2>2. R[i] = << >> \/ R[i] = <<x>>
    BY <1>2
  <2> HIDE DEF x, R
  <2>3. << >> \in Seq(S) /\ <<x>> \in Seq(S)
    BY <2>1
  <2> QED BY <2>2, <2>3
<1>5. Wanted(only, s) = WantedTo(only, s, n)
  <2>1. [i \in 1 .. n |-> R[i]] = R
    BY DEF WantedRow
  <2>2. Wanted(only, s) = FlattenSeq(R)
    BY Zenon DEF Wanted, WantedRow
  <2> HIDE DEF R
  <2> QED BY <2>1, <2>2, Zenon DEF WantedTo, Laid, R
<1> HIDE DEF n, R
<1>6. \A k \in 0 .. n : k < n => /\ Laid(R, 0) = << >> /\ Laid(R, k) \in Seq(S)
                                 /\ Laid(R, k + 1) = Laid(R, k) \o R[k + 1] /\ Laid(R, k + 1) \in Seq(S)
  <2> SUFFICES ASSUME NEW k \in 0 .. n, k < n
               PROVE  /\ Laid(R, 0) = << >> /\ Laid(R, k) \in Seq(S)
                      /\ Laid(R, k + 1) = Laid(R, k) \o R[k + 1] /\ Laid(R, k + 1) \in Seq(S)
    OBVIOUS
  <2>1. k \in Nat /\ \A i \in 1 .. k + 1 : i \in 1 .. n
    BY <1>1
  <2> QED BY <1>4, <2>1, LaidStep
<1>7. Laid(R, 0) = << >>
  <2>1. [i \in 1 .. 0 |-> R[i]] = << >>
    OBVIOUS
  <2>2. FlattenSeq(<< >>) = << >>
    BY DEF FlattenSeq
  <2> QED BY <2>1, <2>2 DEF Laid
<1>8. ASSUME NEW k \in 1 .. n
      PROVE Laid(R, k) = Laid(R, k - 1) \o R[k] /\ Laid(R, k) \in Seq(S)
  <2>1. k - 1 \in 0 .. n /\ k - 1 < n /\ (k - 1) + 1 = k
    BY <1>1, <1>8
  <2> QED BY <1>6, <2>1
<1>9. \A k \in 0 .. n : Laid(R, k) \in Seq(S)
  <2>1. << >> \in Seq(S)
    OBVIOUS
  <2>2. \A k \in 0 .. n : k = 0 \/ k \in 1 .. n
    BY <1>1
  <2> QED BY <1>7, <1>8, <2>1, <2>2
<1>10. \A k \in 1 .. n : Laid(R, k) = Laid(R, k - 1) \o R[k]
  BY <1>8
<1> QED BY <1>1, <1>2, <1>5, <1>7, <1>9, <1>10 DEF WantedTo, R, n, WantedGrows

(* Nothing of nothing, and of one what it is.                              *)
LEMMA WantedOne ==
  ASSUME NEW only, NEW x
  PROVE  /\ Wanted(only, << >>) = << >>
         /\ Omitted(only, x) => Wanted(only, <<x>>) = << >>
         /\ ~Omitted(only, x) => Wanted(only, <<x>>) = <<x>>
<1> DEFINE s == <<x>>
           S == {x}
           none == << >>
<1>1. s \in Seq(S) /\ none \in Seq(S) /\ Len(s) = 1 /\ s[1] = x /\ Len(none) = 0
  OBVIOUS
<1> HIDE DEF s, none, S
<1>a. WantedGrows(only, s, S) /\ WantedGrows(only, none, S)
  BY <1>1, WantedSteps
<1> USE DEF WantedGrows
<1>2. Wanted(only, none) = << >>
  BY <1>1, <1>a
<1>3. 1 \in 1 .. 1 /\ 1 - 1 = 0
  OBVIOUS
<1>4. Wanted(only, s) = WantedTo(only, s, 1) /\ WantedTo(only, s, 0) = << >>
      /\ WantedTo(only, s, 1) = WantedTo(only, s, 0) \o (IF Omitted(only, s[1]) THEN << >> ELSE <<s[1]>>)
  BY <1>1, <1>3, <1>a
<1>5. << >> \o << >> = << >> /\ << >> \o <<x>> = <<x>>
  <2>1. x \in {x} /\ <<x>> \in Seq({x})
    OBVIOUS
  <2> QED BY <2>1, ConcatEmptySeq
<1>6. Omitted(only, x) => Wanted(only, s) = << >>
  BY <1>1, <1>4, <1>5
<1>7. ~Omitted(only, x) => Wanted(only, s) = <<x>>
  BY <1>1, <1>4, <1>5
<1> QED BY <1>2, <1>6, <1>7 DEF s, none

(* Laying end to end is associative.                                       *)
Associates(a, b, c) == (a \o b) \o c = a \o (b \o c)

(* See Associates.                                                         *)
LEMMA Assoc ==
  ASSUME NEW S, NEW a, a \in Seq(S), NEW b, b \in Seq(S), NEW c, c \in Seq(S)
  PROVE  Associates(a, b, c)
BY ConcatAssociative DEF Associates

(* What is wanted of two walks is what is wanted of each.                  *)
LEMMA WantedConcat ==
  ASSUME NEW only, NEW S, NEW s, s \in Seq(S), NEW t, t \in Seq(S)
  PROVE  Wanted(only, s \o t) = Wanted(only, s) \o Wanted(only, t)
<1> DEFINE m == Len(s)
           n == Len(t)
           u == s \o t
           W(k) == WantedTo(only, t, k)
           V(k) == WantedTo(only, u, m + k)
           ws == Wanted(only, s)
<1>1. /\ m \in Nat /\ n \in Nat /\ u \in Seq(S) /\ Len(u) = m + n
      /\ \A i \in 1 .. m : i \in 1 .. m + n /\ u[i] = s[i]
      /\ \A i \in 1 .. n : m + i \in 1 .. m + n /\ u[m + i] = t[i]
  <2>1. m \in Nat /\ n \in Nat /\ u \in Seq(S) /\ Len(u) = m + n
    BY ConcatProperties
  <2>2. \A i \in 1 .. m + n : u[i] = IF i <= m THEN s[i] ELSE t[i - m]
    BY ConcatProperties
  <2>3. \A i \in 1 .. m : i \in 1 .. m + n /\ i <= m
    BY <2>1
  <2>4. \A i \in 1 .. n : m + i \in 1 .. m + n /\ ~(m + i <= m) /\ (m + i) - m = i
    BY <2>1
  <2> HIDE DEF u, m, n
  <2> QED BY <2>1, <2>2, <2>3, <2>4
<1> HIDE DEF u
<1>2. WantedGrows(only, s, S) /\ WantedGrows(only, t, S) /\ WantedGrows(only, u, S)
  BY <1>1, WantedSteps
<1> USE DEF WantedGrows
<1>3. WantedTo(only, u, m) = ws
  <2>1. [i \in 1 .. m |-> WantedRow(only, u)[i]] = [i \in 1 .. m |-> WantedRow(only, s)[i]]
    BY <1>1 DEF WantedRow
  <2>2. WantedTo(only, u, m) = WantedTo(only, s, m)
    BY <2>1, Zenon DEF WantedTo, Laid
  <2> QED BY <1>2, <2>2
<1> DEFINE G == {k \in 0 .. n : V(k) = ws \o W(k)}
<1>4. ws \in Seq(S)
  <2>1. m \in 0 .. m
    BY <1>1
  <2> QED BY <1>2, <2>1
<1>5. 0 \in G
  <2>1. W(0) = << >> /\ V(0) = ws
    <3>1. m + 0 = m
      BY <1>1
    <3>2. WantedTo(only, u, m + 0) = ws
      BY <1>3, <3>1
    <3> QED BY <1>2, <3>2
  <2> HIDE DEF W, V
  <2>2. ws \o W(0) = ws
    BY <1>4, <2>1, ConcatEmptySeq
  <2> QED BY <1>1, <2>1, <2>2
<1>6. ASSUME NEW k \in 0 .. n, k # n, k \in G PROVE k + 1 \in G
  <2> DEFINE x == IF Omitted(only, t[k + 1]) THEN << >> ELSE <<t[k + 1]>>
  <2>1. k + 1 \in 1 .. n /\ (k + 1) - 1 = k /\ k \in 0 .. n /\ m + (k + 1) \in 1 .. m + n
        /\ (m + (k + 1)) - 1 = m + k /\ k + 1 \in 0 .. n /\ m + k \in 0 .. m + n
    BY <1>1, <1>6
  <2>2. u[m + (k + 1)] = t[k + 1]
    BY <1>1, <2>1
  <2>3. W(k + 1) = W(k) \o x
    BY <1>2, <2>1
  <2>4. V(k + 1) = V(k) \o x
    BY <1>1, <1>2, <2>1, <2>2
  <2>5. W(k) \in Seq(S)
    BY <1>2, <2>1
  <2>6. x \in Seq(S)
    <3> DEFINE y == t[k + 1]
    <3>1. y \in S
      BY <2>1, ElementOfSeq
    <3>2. x = << >> \/ x = <<y>>
      OBVIOUS
    <3> HIDE DEF x, y
    <3>3. << >> \in Seq(S) /\ <<y>> \in Seq(S)
      BY <3>1
    <3> QED BY <3>2, <3>3
  <2>7. V(k) = ws \o W(k)
    BY <1>6
  <2>8. (ws \o W(k)) \o x = ws \o (W(k) \o x)
    <3> DEFINE wk == W(k)
    <3>1. ws \in Seq(S) /\ wk \in Seq(S) /\ x \in Seq(S)
      BY <1>4, <2>5, <2>6
    <3> HIDE DEF ws, wk, x
    <3>2. Associates(ws, wk, x)
      BY <3>1, Assoc, Zenon
    <3> QED BY <3>2 DEF wk, Associates
  <2> HIDE DEF x, W, V, ws
  <2> QED BY <2>1, <2>3, <2>4, <2>7, <2>8
<1>7. n \in G
  <2>1. n \in 0 .. n
    BY <1>1
  <2> HIDE DEF G
  <2> QED BY <1>1, <1>5, <1>6, <2>1, Climb
<1>8. WantedTo(only, u, m + n) = ws \o WantedTo(only, t, n)
  BY <1>7
<1>9. Wanted(only, u) = WantedTo(only, u, m + n) /\ Wanted(only, t) = WantedTo(only, t, n)
  BY <1>1, <1>2
<1> QED BY <1>8, <1>9 DEF u

-----------------------------------------------------------------------------
(* Filling a field.                                                        *)

IsSight(s) == DOMAIN s = {"symbol", "field", "extra", "tree", "named"}

(* What it leaves alone.                                                   *)
LEMMA FillIs ==
  ASSUME NEW s, IsSight(s), NEW field
  PROVE  LET f == Fill(s, field) IN
         /\ IsSight(f) /\ f.symbol = s.symbol /\ f.extra = s.extra /\ f.tree = s.tree
         /\ f.named = s.named
         /\ f.field = IF s.extra \/ s.field # None THEN s.field ELSE field
<1> DEFINE e == [s EXCEPT !.field = field]
<1>1. /\ "symbol" \in DOMAIN s /\ "field" \in DOMAIN s /\ "extra" \in DOMAIN s /\ "tree" \in DOMAIN s
      /\ "named" \in DOMAIN s
  BY DEF IsSight
<1>2. /\ e.symbol = s.symbol /\ e.extra = s.extra /\ e.tree = s.tree /\ e.named = s.named
      /\ e.field = field /\ DOMAIN e = DOMAIN s
  <2>1. "symbol" # "field" /\ "extra" # "field" /\ "tree" # "field" /\ "named" # "field"
    OBVIOUS
  <2>2. e.symbol = s.symbol
    BY <1>1, <2>1, Zenon
  <2>3. e.extra = s.extra
    BY <1>1, <2>1, Zenon
  <2>4. e.tree = s.tree
    BY <1>1, <2>1, Zenon
  <2>5. e.named = s.named
    BY <1>1, <2>1, Zenon
  <2>6. e.field = field /\ DOMAIN e = DOMAIN s
    BY <1>1, Zenon
  <2> QED BY <2>2, <2>3, <2>4, <2>5, <2>6, Zenon
<1>3. Fill(s, field) = IF s.extra \/ s.field # None THEN s ELSE e
  BY Zenon DEF Fill
<1> HIDE DEF e
<1>4. CASE s.extra \/ s.field # None
  BY <1>3, <1>4
<1>5. CASE ~(s.extra \/ s.field # None)
  BY <1>2, <1>3, <1>5 DEF IsSight
<1> QED BY <1>4, <1>5

IsWalk(walk) == walk \in Seq(Range(walk)) /\ \A j \in 1 .. Len(walk) : IsSight(walk[j])

(* A walk filled is a walk.                                                *)
LEMMA FilledIs ==
  ASSUME NEW w, IsWalk(w), NEW field
  PROVE  /\ IsWalk(Filled(w, field)) /\ Len(Filled(w, field)) = Len(w) /\ Len(w) \in Nat
         /\ \A j \in 1 .. Len(w) : Filled(w, field)[j] = Fill(w[j], field)
<1> DEFINE n == Len(w)
           v == Filled(w, field)
           S == {Fill(w[j], field) : j \in 1 .. n}
           fill(j) == Fill(w[j], field)
<1>1. n \in Nat
  BY LenProperties DEF IsWalk
<1>2. v = [j \in 1 .. n |-> fill(j)]
  BY Zenon DEF Filled
<1>3. \A j \in 1 .. n : fill(j) \in S
  OBVIOUS
<1>4. \A j \in 1 .. n : IsSight(fill(j))
  BY FillIs DEF IsWalk
<1> HIDE DEF v, S, fill, n
<1>5. v \in Seq(S) /\ Len(v) = n /\ \A j \in 1 .. n : v[j] = fill(j)
  BY <1>1, <1>2, <1>3
<1>6. v \in Seq(Range(v))
  BY <1>5, SeqOfRange
<1>7. IsWalk(v)
  BY <1>4, <1>5, <1>6 DEF IsWalk
<1> QED BY <1>1, <1>5, <1>7 DEF v, n, fill

(* What is laid end to end is filled piece by piece.                       *)
LEMMA FilledConcat ==
  ASSUME NEW S, NEW a, a \in Seq(S), NEW b, b \in Seq(S), NEW field
  PROVE  /\ Filled(a \o b, field) = Filled(a, field) \o Filled(b, field)
         /\ Filled(<< >>, field) = << >>
         /\ \A x : Filled(<<x>>, field) = <<Fill(x, field)>>
<1> DEFINE m == Len(a)
           n == Len(b)
           u == a \o b
           T == {Fill(s, field) : s \in S}
           fa == Filled(a, field)
           fb == Filled(b, field)
<1>1. /\ m \in Nat /\ n \in Nat /\ Len(u) = m + n
      /\ \A i \in 1 .. m + n : u[i] = IF i <= m THEN a[i] ELSE b[i - m]
  BY ConcatProperties
<1>2. /\ fa \in Seq(T) /\ Len(fa) = m /\ \A i \in 1 .. m : fa[i] = Fill(a[i], field)
  <2>1. \A i \in 1 .. m : Fill(a[i], field) \in T
    BY ElementOfSeq
  <2> HIDE DEF T
  <2> QED BY <1>1, <2>1 DEF Filled
<1>3. /\ fb \in Seq(T) /\ Len(fb) = n /\ \A i \in 1 .. n : fb[i] = Fill(b[i], field)
  <2>1. \A i \in 1 .. n : Fill(b[i], field) \in T
    BY ElementOfSeq
  <2> HIDE DEF T
  <2> QED BY <1>1, <2>1 DEF Filled
<1>4. Filled(<< >>, field) = << >>
  <2>1. Len(<< >>) = 0 /\ \A f : [j \in 1 .. 0 |-> f[j]] = << >>
    OBVIOUS
  <2> QED BY <2>1 DEF Filled
<1>5. \A x : Filled(<<x>>, field) = <<Fill(x, field)>>
  <2> SUFFICES ASSUME NEW x PROVE Filled(<<x>>, field) = <<Fill(x, field)>>
    OBVIOUS
  <2>1. Len(<<x>>) = 1 /\ <<x>>[1] = x
    OBVIOUS
  <2>2. [j \in 1 .. 1 |-> Fill(<<x>>[j], field)] = <<Fill(x, field)>>
    BY <2>1
  <2> QED BY <2>1, <2>2 DEF Filled
<1> HIDE DEF m, n, u, T, fa, fb
<1>6. /\ fa \o fb \in Seq(T) /\ Len(fa \o fb) = m + n
      /\ \A i \in 1 .. m + n : (fa \o fb)[i] = IF i <= m THEN fa[i] ELSE fb[i - m]
  <2>1. /\ fa \o fb \in Seq(T) /\ Len(fa \o fb) = Len(fa) + Len(fb)
        /\ \A i \in 1 .. Len(fa) + Len(fb) : (fa \o fb)[i] = IF i <= Len(fa) THEN fa[i] ELSE fb[i - Len(fa)]
    BY <1>2, <1>3, ConcatProperties
  <2> QED BY <1>2, <1>3, <2>1
<1>7. \A i \in 1 .. m + n : (i <= m => i \in 1 .. m) /\ (~(i <= m) => i - m \in 1 .. n)
  BY <1>1
<1>8. \A i \in 1 .. m + n : (fa \o fb)[i] = Fill(u[i], field)
  BY <1>1, <1>2, <1>3, <1>6, <1>7
<1>9. Filled(u, field) = fa \o fb
  <2>1. Filled(u, field) = [i \in 1 .. m + n |-> Fill(u[i], field)]
    BY <1>1 DEF Filled
  <2> DEFINE v == fa \o fb
  <2>2. v \in Seq(T) /\ Len(v) = m + n /\ \A i \in 1 .. m + n : v[i] = Fill(u[i], field)
    BY <1>6, <1>8
  <2> HIDE DEF v
  <2>3. v = [i \in 1 .. m + n |-> v[i]]
    BY <2>2
  <2> QED BY <2>1, <2>2, <2>3 DEF v
<1> QED BY <1>4, <1>5, <1>9 DEF u, fa, fb

(* A walk that is filled without changing what is omitted.                 *)
Steady(only, w, field) ==
  \A j \in 1 .. Len(w) : Omitted(only, Fill(w[j], field)) <=> Omitted(only, w[j])

(* Then it does not matter which comes first.                              *)
LEMMA WantedFilled ==
  ASSUME NEW only, NEW w, IsWalk(w), NEW field, Steady(only, w, field)
  PROVE  Wanted(only, Filled(w, field)) = Filled(Wanted(only, w), field)
<1> DEFINE n == Len(w)
           v == Filled(w, field)
           S == Range(w)
           T == Range(v)
           W(k) == WantedTo(only, w, k)
           V(k) == WantedTo(only, v, k)
           G == {k \in 0 .. n : V(k) = Filled(W(k), field)}
<1>1. /\ w \in Seq(S) /\ v \in Seq(T) /\ Len(v) = n /\ n \in Nat
      /\ \A j \in 1 .. n : v[j] = Fill(w[j], field)
  BY FilledIs DEF IsWalk
<1> HIDE DEF v, S, T
<1>2. WantedGrows(only, w, S) /\ WantedGrows(only, v, T)
  BY <1>1, WantedSteps
<1> USE DEF WantedGrows
<1>3. 0 \in G
  <2>1. W(0) = << >> /\ V(0) = << >>
    BY <1>2
  <2>2. << >> \in Seq(S)
    OBVIOUS
  <2>3. Filled(<< >>, field) = << >>
    BY <2>2, FilledConcat
  <2> HIDE DEF W, V
  <2> QED BY <1>1, <2>1, <2>3
<1>4. ASSUME NEW k \in 0 .. n, k # n, k \in G PROVE k + 1 \in G
  <2>1. k + 1 \in 1 .. n /\ (k + 1) - 1 = k /\ k + 1 \in 0 .. n
    BY <1>1, <1>4
  <2> DEFINE s == w[k + 1]
             a == W(k)
             x == IF Omitted(only, s) THEN << >> ELSE <<s>>
             y == IF Omitted(only, v[k + 1]) THEN << >> ELSE <<v[k + 1]>>
  <2>2. W(k + 1) = a \o x
    BY <1>2, <2>1
  <2>3. V(k + 1) = V(k) \o y
    BY <1>1, <1>2, <2>1
  <2>4. v[k + 1] = Fill(s, field) /\ (Omitted(only, Fill(s, field)) <=> Omitted(only, s))
    BY <1>1, <2>1 DEF Steady
  <2>5. a \in Seq(S)
    BY <1>2
  <2>6. s \in S
    BY <1>1, <2>1, ElementOfSeq
  <2>7. V(k) = Filled(a, field)
    BY <1>4
  <2> HIDE DEF a, s, W, V
  <2>8. CASE Omitted(only, s)
    <3> DEFINE none == << >>
    <3>1. x = none /\ y = none
      BY <2>4, <2>8
    <3>2. none \in Seq(S)
      OBVIOUS
    <3>a. Filled(none, field) = none
      BY <3>2, FilledConcat
    <3>3. Filled(a \o x, field) = Filled(a, field) \o y
      <4> HIDE DEF none
      <4>1. Filled(a \o none, field) = Filled(a, field) \o Filled(none, field)
        BY <2>5, <3>2, FilledConcat
      <4> QED BY <3>1, <3>a, <4>1
    <3> QED BY <2>1, <2>2, <2>3, <2>7, <3>3
  <2>9. CASE ~Omitted(only, s)
    <3> DEFINE one == <<s>>
    <3>1. x = one /\ y = <<Fill(s, field)>>
      BY <2>4, <2>9
    <3>2. one \in Seq(S)
      BY <2>6
    <3>a. Filled(one, field) = <<Fill(s, field)>>
      BY <2>5, FilledConcat
    <3>3. Filled(a \o x, field) = Filled(a, field) \o y
      <4> HIDE DEF one
      <4>1. Filled(a \o one, field) = Filled(a, field) \o Filled(one, field)
        BY <2>5, <3>2, FilledConcat
      <4> QED BY <3>1, <3>a, <4>1
    <3> QED BY <2>1, <2>2, <2>3, <2>7, <3>3
  <2> QED BY <2>8, <2>9
<1>5. n \in G
  <2>1. n \in 0 .. n
    BY <1>1
  <2> HIDE DEF G
  <2> QED BY <1>1, <1>3, <1>4, <2>1, Climb
<1>6. WantedTo(only, v, n) = Filled(WantedTo(only, w, n), field)
  BY <1>5
<1>7. Wanted(only, v) = WantedTo(only, v, n) /\ Wanted(only, w) = WantedTo(only, w, n)
  BY <1>1, <1>2
<1> QED BY <1>6, <1>7 DEF v

-----------------------------------------------------------------------------
(* Entries and what a walk shows, place by place.                          *)

Match(nodes, entries, seen) ==
  /\ Len(entries) = Len(seen)
  /\ \A c \in 1 .. Len(seen) : Shows(nodes, entries[c], seen[c])

(* The nodes are kept, and more may follow.                                *)
Longer(nodes, after) ==
  /\ Len(nodes) \in Nat /\ Len(after) \in Nat /\ Len(nodes) <= Len(after)
  /\ \A i \in 1 .. Len(nodes) : after[i] = nodes[i]

(* What is appended makes a list longer.                                   *)
LEMMA LongerBy ==
  ASSUME NEW S, NEW a, a \in Seq(S), NEW T, NEW b, b \in Seq(T)
  PROVE  Longer(a, a \o b)
<1> DEFINE U == S \cup T
<1>1. S \subseteq U /\ T \subseteq U
  OBVIOUS
<1> HIDE DEF U
<1>2. a \in Seq(U) /\ b \in Seq(U)
  BY <1>1
<1>3. Len(a) \in Nat /\ Len(b) \in Nat /\ Len(a \o b) = Len(a) + Len(b)
      /\ \A i \in 1 .. Len(a) + Len(b) : (a \o b)[i] = IF i <= Len(a) THEN a[i] ELSE b[i - Len(a)]
  BY <1>2, ConcatProperties
<1>4. \A i \in 1 .. Len(a) : i \in 1 .. Len(a) + Len(b) /\ i <= Len(a)
  BY <1>3
<1>5. \A i \in 1 .. Len(a) : (a \o b)[i] = a[i]
  BY <1>3, <1>4
<1>6. Len(a \o b) \in Nat /\ Len(a) <= Len(a \o b)
  BY <1>3
<1> QED BY <1>3, <1>5, <1>6 DEF Longer

(* A value that was returned stays the value of its node.                  *)
LEMMA ShowsLonger ==
  ASSUME NEW nodes, NEW after, Longer(nodes, after), NEW entry, NEW s, Shows(nodes, entry, s)
  PROVE  Shows(after, entry, s)
<1>1. entry.value # NULL => entry.value \in 1 .. Len(nodes) /\ entry.value \in 1 .. Len(after)
                            /\ after[entry.value] = nodes[entry.value]
  <2> SUFFICES ASSUME entry.value # NULL
               PROVE  entry.value \in 1 .. Len(nodes) /\ entry.value \in 1 .. Len(after)
                      /\ after[entry.value] = nodes[entry.value]
    OBVIOUS
  <2> DEFINE v == entry.value
  <2>1. v \in 1 .. Len(nodes)
    BY DEF Shows
  <2> HIDE DEF v
  <2>2. v \in 1 .. Len(after) /\ after[v] = nodes[v]
    BY <2>1 DEF Longer
  <2> QED BY <2>1, <2>2 DEF v
<1> QED BY <1>1 DEF Shows

(* See ShowsLonger.                                                        *)
LEMMA MatchLonger ==
  ASSUME NEW nodes, NEW after, Longer(nodes, after), NEW entries, NEW seen, Match(nodes, entries, seen)
  PROVE  Match(after, entries, seen)
BY ShowsLonger DEF Match

(* What matches piece by piece matches end to end.                         *)
LEMMA MatchLaid ==
  ASSUME NEW nodes, NEW S, NEW a, a \in Seq(S), NEW b, b \in Seq(S),
         NEW T, NEW x, x \in Seq(T), NEW y, y \in Seq(T), Match(nodes, a, x), Match(nodes, b, y)
  PROVE  Match(nodes, a \o b, x \o y)
<1> DEFINE m == Len(a)
           n == Len(b)
<1>1. m \in Nat /\ n \in Nat /\ Len(x) = m /\ Len(y) = n
  BY DEF Match
<1>2. Len(a \o b) = m + n /\ \A i \in 1 .. m + n : (a \o b)[i] = IF i <= m THEN a[i] ELSE b[i - m]
  BY ConcatProperties
<1>3. Len(x \o y) = m + n /\ \A i \in 1 .. m + n : (x \o y)[i] = IF i <= m THEN x[i] ELSE y[i - m]
  <2>1. Len(x \o y) = Len(x) + Len(y)
        /\ \A i \in 1 .. Len(x) + Len(y) : (x \o y)[i] = IF i <= Len(x) THEN x[i] ELSE y[i - Len(x)]
    BY ConcatProperties
  <2> QED BY <1>1, <2>1
<1>4. /\ \A i \in 1 .. m : Shows(nodes, a[i], x[i])
      /\ \A i \in 1 .. n : Shows(nodes, b[i], y[i])
  BY <1>1 DEF Match
<1> HIDE DEF m, n
<1>5. \A i \in 1 .. m + n : (i <= m => i \in 1 .. m) /\ (~(i <= m) => i - m \in 1 .. n)
  BY <1>1
<1>6. \A i \in 1 .. m + n : Shows(nodes, (a \o b)[i], (x \o y)[i])
  <2> SUFFICES ASSUME NEW i \in 1 .. m + n PROVE Shows(nodes, (a \o b)[i], (x \o y)[i])
    OBVIOUS
  <2>1. CASE i <= m
    BY <1>2, <1>3, <1>4, <1>5, <2>1
  <2>2. CASE ~(i <= m)
    BY <1>2, <1>3, <1>4, <1>5, <2>2
  <2> QED BY <2>1, <2>2
<1> QED BY <1>2, <1>3, <1>6 DEF Match

(* The entries of a hidden child get its field as what it shows does.      *)
LEMMA MatchInherit ==
  ASSUME NEW nodes, NEW top, NEW run, run \in Seq(EntryIn(top)), NEW w, IsWalk(w), NEW field,
         Match(nodes, run, w)
  PROVE  Match(nodes, Inherit(run, field), Filled(w, field)) /\ Len(Inherit(run, field)) = Len(run)
<1> DEFINE n == Len(w)
           e == Inherit(run, field)
           got(j) == IF field # None /\ ~run[j].extra /\ run[j].field = None
                     THEN [run[j] EXCEPT !.field = field] ELSE run[j]
<1>1. /\ Len(Filled(w, field)) = n /\ n \in Nat
      /\ \A j \in 1 .. n : Filled(w, field)[j] = Fill(w[j], field)
  BY FilledIs
<1>2. Len(run) = n /\ DOMAIN run = 1 .. n
  BY DEF Match
<1>3. e = [j \in 1 .. n |-> got(j)]
  BY <1>2, Zenon DEF Inherit
<1> HIDE DEF e, got, n
<1>4. Len(e) = n /\ \A j \in 1 .. n : e[j] = got(j)
  BY <1>1, <1>3
<1>5. \A j \in 1 .. n : Shows(nodes, got(j), Fill(w[j], field))
  <2> SUFFICES ASSUME NEW j \in 1 .. n PROVE Shows(nodes, got(j), Fill(w[j], field))
    OBVIOUS
  <2> DEFINE r == run[j]
             s == w[j]
             g == got(j)
             f == Fill(s, field)
             x == [r EXCEPT !.field = field]
  <2>1. r \in EntryIn(top)
    BY <1>2, ElementOfSeq
  <2>2. Shows(nodes, r, s)
    BY DEF Match, n
  <2>3. IsSight(s)
    BY DEF IsWalk, n
  <2>4. g = IF field # None /\ ~r.extra /\ r.field = None THEN x ELSE r
    BY DEF got
  <2> HIDE DEF r, s, g, f
  <2>5. x.symbol = r.symbol /\ x.extra = r.extra /\ x.value = r.value /\ x.field = field
    BY <2>1 DEF EntryIn
  <2> HIDE DEF x
  <2>6. g.symbol = r.symbol /\ g.extra = r.extra /\ g.value = r.value
        /\ g.field = IF field # None /\ ~r.extra /\ r.field = None THEN field ELSE r.field
    BY <2>4, <2>5
  <2>7. /\ f.symbol = s.symbol /\ f.extra = s.extra /\ f.tree = s.tree
        /\ f.field = IF s.extra \/ s.field # None THEN s.field ELSE field
    BY <2>3, FillIs DEF f
  <2>8. r.extra \in BOOLEAN
    BY <2>1 DEF EntryIn
  <2>9. g.field = f.field
    BY <2>2, <2>6, <2>7, <2>8 DEF Shows
  <2>10. Shows(nodes, g, f)
    BY <2>2, <2>6, <2>7, <2>9 DEF Shows
  <2> QED BY <2>10 DEF f, s, g
<1> QED BY <1>1, <1>2, <1>4, <1>5 DEF Match, e, n

-----------------------------------------------------------------------------
(* Counting the children that are no extras.                               *)

(* Index counts them one by one.                                           *)
LEMMA IndexStep ==
  ASSUME NEW kids, NEW k \in Nat
  PROVE  /\ Index(kids, 0) = 0 /\ Index(kids, k) \in Nat
         /\ Index(kids, k + 1) = Index(kids, k) + IF kids[k + 1].extra THEN 0 ELSE 1
<1> DEFINE S == {j \in 1 .. k : ~kids[j].extra}
           T == {j \in 1 .. k + 1 : ~kids[j].extra}
<1>1. IsFiniteSet(S)
  <2>1. IsFiniteSet(1 .. k)
    BY FS_Interval
  <2>2. S \subseteq 1 .. k
    OBVIOUS
  <2> HIDE DEF S
  <2> QED BY <2>1, <2>2, FS_Subset
<1>2. Cardinality(S) \in Nat
  <2> HIDE DEF S
  <2> QED BY <1>1, FS_CardinalityType
<1>3. Index(kids, 0) = 0
  <2>1. {j \in 1 .. 0 : ~kids[j].extra} = {}
    OBVIOUS
  <2> QED BY <2>1, FS_EmptySet DEF Index
<1>4. Index(kids, k) = Cardinality(S) /\ Index(kids, k + 1) = Cardinality(T)
  BY Zenon DEF Index
<1>5. CASE ~kids[k + 1].extra
  <2>1. T = S \cup {k + 1} /\ k + 1 \notin S
    BY <1>5
  <2>2. Cardinality(T) = Cardinality(S) + 1
    <3> HIDE DEF S, T
    <3> QED BY <1>1, <2>1, FS_AddElement
  <2> HIDE DEF S, T
  <2> QED BY <1>2, <1>3, <1>4, <1>5, <2>2
<1>6. CASE kids[k + 1].extra
  <2>1. T = S
    BY <1>6
  <2> HIDE DEF S, T
  <2> QED BY <1>2, <1>3, <1>4, <1>6, <2>1
<1> QED BY <1>5, <1>6

(* A child that is no extra comes after all those before it.               *)
LEMMA IndexGrows ==
  ASSUME NEW kids, NEW j \in Nat, NEW i \in Nat, i < j, j # 0, ~kids[j].extra
  PROVE  Index(kids, i) < Index(kids, j)
<1> DEFINE k == j - 1
           S == {x \in 1 .. i : ~kids[x].extra}
           T == {x \in 1 .. k : ~kids[x].extra}
<1>1. k \in Nat /\ k + 1 = j /\ i <= k
  OBVIOUS
<1> HIDE DEF k
<1>2. Index(kids, j) = Index(kids, k) + 1 /\ Index(kids, k) \in Nat
  <2>1. Index(kids, k + 1) = Index(kids, k) + (IF kids[k + 1].extra THEN 0 ELSE 1) /\ Index(kids, k) \in Nat
    BY <1>1, IndexStep
  <2> QED BY <1>1, <2>1
<1>3. Index(kids, i) \in Nat
  BY IndexStep
<1>4. Index(kids, i) <= Index(kids, k)
  <2>1. IsFiniteSet(T)
    <3>1. IsFiniteSet(1 .. k)
      BY <1>1, FS_Interval
    <3>2. T \subseteq 1 .. k
      OBVIOUS
    <3> HIDE DEF T
    <3> QED BY <3>1, <3>2, FS_Subset
  <2>2. S \subseteq T
    BY <1>1
  <2>3. Cardinality(S) <= Cardinality(T)
    <3> HIDE DEF S, T
    <3> QED BY <2>1, <2>2, FS_Subset
  <2> QED BY <2>3 DEF Index
<1> QED BY <1>2, <1>3, <1>4

(* The place of a cell among those spelled.                                *)
LEMMA SpelledIs ==
  ASSUME NEW cells, Len(cells) \in Nat, NEW i \in 1 .. Len(cells), ~cells[i].extra
  PROVE  Index(cells, i) \in DOMAIN Spelled(cells) /\ Spelled(cells)[Index(cells, i)] = cells[i].symbol
<1> DEFINE n == Len(cells)
           real == {j \in 1 .. n : ~cells[j].extra}
           k == Index(cells, i)
           spelled(x) == cells[CHOOSE j \in real : Index(cells, j) = x].symbol
<1>1. Spelled(cells) = [x \in 1 .. Cardinality(real) |-> spelled(x)]
  BY Zenon DEF Spelled
<1>2. i \in real /\ real \subseteq 1 .. n /\ i \in Nat /\ n \in Nat /\ i # 0 /\ i <= n
  OBVIOUS
<1>3. Cardinality(real) = Index(cells, n)
  BY Zenon DEF Index
<1>4. \A j \in real : j \in Nat /\ j # 0 /\ ~cells[j].extra
  OBVIOUS
<1> HIDE DEF real, spelled, n
<1>5. k \in Nat /\ Index(cells, n) \in Nat /\ Index(cells, 0) = 0 /\ Index(cells, 0) < k
  <2>1. k \in Nat /\ Index(cells, n) \in Nat /\ Index(cells, 0) = 0
    BY <1>2, IndexStep
  <2>2. 0 \in Nat /\ 0 < i
    BY <1>2
  <2> HIDE DEF k
  <2>3. Index(cells, 0) < Index(cells, i)
    BY <1>2, <2>2, IndexGrows
  <2> QED BY <2>1, <2>3 DEF k
<1>6. k <= Index(cells, n)
  <2> DEFINE S == {j \in 1 .. i : ~cells[j].extra}
             T == {j \in 1 .. n : ~cells[j].extra}
  <2>1. IsFiniteSet(T)
    <3>1. IsFiniteSet(1 .. n)
      BY <1>2, FS_Interval
    <3>2. T \subseteq 1 .. n
      OBVIOUS
    <3> HIDE DEF T
    <3> QED BY <3>1, <3>2, FS_Subset
  <2>2. S \subseteq T
    BY <1>2
  <2>3. Cardinality(S) <= Cardinality(T)
    <3> HIDE DEF S, T
    <3> QED BY <2>1, <2>2, FS_Subset
  <2> QED BY <2>3 DEF Index
<1>7. k \in 1 .. Cardinality(real)
  BY <1>3, <1>5, <1>6
<1>8. \A j \in real : Index(cells, j) = k => j = i
  <2> SUFFICES ASSUME NEW j \in real, Index(cells, j) = k PROVE j = i
    OBVIOUS
  <2>1. ~(j < i)
    <3> SUFFICES ASSUME j < i PROVE FALSE
      OBVIOUS
    <3>1. Index(cells, j) < Index(cells, i)
      BY <1>2, <1>4, IndexGrows
    <3> QED BY <1>5, <3>1
  <2>2. ~(i < j)
    <3> SUFFICES ASSUME i < j PROVE FALSE
      OBVIOUS
    <3>1. Index(cells, i) < Index(cells, j)
      BY <1>2, <1>4, IndexGrows
    <3> QED BY <1>5, <3>1
  <2> QED BY <1>2, <1>4, <2>1, <2>2
<1>9. (CHOOSE j \in real : Index(cells, j) = k) = i
  BY <1>2, <1>8
<1>10. spelled(k) = cells[i].symbol
  BY <1>9 DEF spelled
<1> HIDE DEF k
<1> QED BY <1>1, <1>7, <1>10 DEF k

(* The same children among others, if those before them are extras.        *)
Among(cells, b, piece) ==
  /\ b \in Nat /\ Len(piece) \in Nat
  /\ \A i \in 1 .. b : cells[i].extra
  /\ \A j \in 1 .. Len(piece) : cells[b + j].extra <=> piece[j].extra

(* Their place is the same.                                                *)
LEMMA AmongIndex ==
  ASSUME NEW cells, NEW b, NEW piece, Among(cells, b, piece)
  PROVE  \A j \in 0 .. Len(piece) : Index(cells, b + j) = Index(piece, j)
<1> DEFINE n == Len(piece)
           G == {j \in 0 .. n : Index(cells, b + j) = Index(piece, j)}
<1>1. n \in Nat /\ b \in Nat
  BY DEF Among
<1>2. 0 \in G
  <2>1. {j \in 1 .. b : ~cells[j].extra} = {}
    BY DEF Among
  <2>2. Index(cells, b) = 0
    BY <2>1, FS_EmptySet DEF Index
  <2>3. Index(piece, 0) = 0 /\ b + 0 = b
    BY <1>1, IndexStep
  <2> QED BY <1>1, <2>2, <2>3
<1>3. ASSUME NEW j \in 0 .. n, j # n, j \in G PROVE j + 1 \in G
  <2>1. j \in Nat /\ b + j \in Nat /\ b + (j + 1) = (b + j) + 1 /\ j + 1 \in 0 .. n /\ j + 1 \in 1 .. n
    BY <1>1, <1>3
  <2>2. cells[b + (j + 1)].extra <=> piece[j + 1].extra
    BY <2>1 DEF Among
  <2>3. Index(piece, j + 1) = Index(piece, j) + IF piece[j + 1].extra THEN 0 ELSE 1
    BY <2>1, IndexStep
  <2>4. Index(cells, (b + j) + 1) = Index(cells, b + j) + IF cells[(b + j) + 1].extra THEN 0 ELSE 1
    BY <2>1, IndexStep
  <2>5. Index(cells, b + j) = Index(piece, j)
    BY <1>3
  <2> QED BY <2>1, <2>2, <2>3, <2>4, <2>5
<1> HIDE DEF G
<1>4. \A j \in 0 .. n : j \in G
  BY <1>1, <1>2, <1>3, Climb
<1> QED BY <1>4 DEF G

-----------------------------------------------------------------------------
(* What the rows say of a child is what they say of its tree.              *)

Trees(kids) == [i \in 1 .. Len(kids) |-> kids[i].tree]

(* The rows are read at the same place.                                    *)
LEMMA RowIsAt ==
  ASSUME NEW kids, Len(kids) \in Nat, \A j \in 1 .. Len(kids) : kids[j].extra = kids[j].tree.extra,
         NEW i \in 1 .. Len(kids), NEW rows, NEW p
  PROVE  /\ Row(rows, p, kids, i) = At(rows, p, Trees(kids), i)
         /\ ~kids[i].extra => Row(rows, p, kids, i) = InRow(rows, p, Index(kids, i))
         /\ kids[i].extra => Row(rows, p, kids, i) = None
<1>1. Trees(kids)[i].extra = kids[i].extra
  BY DEF Trees
<1>2. kids[i].extra => Row(rows, p, kids, i) = None /\ At(rows, p, Trees(kids), i) = None
  BY <1>1 DEF Row, At
<1>3. ASSUME ~kids[i].extra PROVE Structural(kids, i) = Index(kids, i) /\ Index(Trees(kids), i) = Index(kids, i)
  <2> DEFINE k == i - 1
  <2>1. k \in Nat /\ k + 1 = i
    OBVIOUS
  <2>2. Structural(kids, i) = 1 + Index(kids, k)
    BY Zenon DEF Structural, Index
  <2> HIDE DEF k
  <2>3. Index(kids, k + 1) = Index(kids, k) + (IF kids[k + 1].extra THEN 0 ELSE 1) /\ Index(kids, k) \in Nat
    BY <2>1, IndexStep
  <2>4. Structural(kids, i) = Index(kids, i)
    BY <1>3, <2>1, <2>2, <2>3
  <2>5. {j \in 1 .. i : ~Trees(kids)[j].extra} = {j \in 1 .. i : ~kids[j].extra}
    BY DEF Trees
  <2>6. Index(Trees(kids), i) = Index(kids, i)
    BY <2>5, Zenon DEF Index
  <2> QED BY <2>4, <2>6
<1>4. ASSUME ~kids[i].extra PROVE Row(rows, p, kids, i) = InRow(rows, p, Index(kids, i))
  <2>1. Row(rows, p, kids, i) = IF p = 0 \/ Structural(kids, i) \notin DOMAIN rows[p] THEN None
                                ELSE rows[p][Structural(kids, i)]
    BY <1>4 DEF Row
  <2> QED BY <1>3, <1>4, <2>1 DEF InRow
<1>5. ~kids[i].extra => At(rows, p, Trees(kids), i) = InRow(rows, p, Index(kids, i))
  BY <1>1, <1>3 DEF At
<1> QED BY <1>2, <1>4, <1>5

-----------------------------------------------------------------------------
(* Where the names fit.  Whether punctuation is left out depends on its    *)
(* field, and one the parent gives to a hidden child comes too late for    *)
(* what that child had left out.  So with named_only no hidden rule that   *)
(* may hold bare punctuation may be given a field: `bare` has the rules    *)
(* that may, and only tokens are shown under an anonymous name: the filter *)
(* takes a rule that is for a leaf once nothing below it is left.          *)

Terminal == Token \cup {End}

PunctuationPlain(bare, r, x) ==
  LET alias == InRow(AliasRow, r.production, x)
      field == InRow(FieldRow, r.production, x)
      kid   == r.kids[x]
      shown == IF alias # None THEN alias ELSE kid
  IN  IF alias # None \/ kid \in Visible
      THEN shown \notin Named => kid \in Token /\ (field = None => r.symbol \in bare)
      ELSE kid \in bare => field = None /\ r.symbol \in bare

Sparing(bare) == \A r \in Rule : \A x \in DOMAIN r.kids : PunctuationPlain(bare, r, x)

NamesFit == named_only => \E bare \in SUBSET DOMAIN Public : Sparing(bare)

Bare == CHOOSE bare \in SUBSET DOMAIN Public : Sparing(bare)

(* A walk in which nothing but extras could be left out.                   *)
Plain(walk) == \A j \in 1 .. Len(walk) : walk[j].extra \/ ~Omitted(TRUE, walk[j])

(* A tree as the driver grows it.                                          *)
Grown(t) ==
  /\ IsWalk(t.walk) /\ t.folded \in BOOLEAN /\ t.extra \in BOOLEAN
  /\ t.folded => tf_foldable(t.symbol) /\ t.symbol \notin Terminal /\ t.kids # << >>
  /\ t.symbol \in Terminal => t.kids = << >> /\ t.walk = << >>
  /\ named_only /\ t.symbol \notin Bare => Plain(t.walk)

(* A cell and its subtree.                                                 *)
Carried(c) ==
  /\ c.symbol = c.tree.symbol /\ c.extra = c.tree.extra /\ c.production = c.tree.production
  /\ Grown(c.tree)
  /\ c.extra => c.symbol \in Terminal
  /\ c.symbol \in Terminal => c.children = 0

(* The children are a rule's.                                              *)
Fitting(rule, kids) ==
  \A i \in 1 .. Len(kids) :
    /\ Carried(kids[i])
    /\ ~kids[i].extra => /\ Index(kids, i) \in DOMAIN rule.kids
                         /\ rule.kids[Index(kids, i)] = kids[i].symbol

(* What is known of the i-th child of a rule.                              *)
ChildFits(rule, kids, i) ==
  LET p     == rule.production
      alias == Alias(p, kids, i)
      field == Field(p, kids, i)
      t     == kids[i].tree
      x     == Index(kids, i)
  IN  /\ SeenAt(p, Trees(kids), i) = IF Shown(p, kids, i) THEN <<Sight(t, ShownSymbol(p, kids, i), field)>>
                                     ELSE Filled(Inner(t), field)
      /\ Shown(p, kids, i) => ~t.folded
      /\ kids[i].extra => alias = None /\ field = None
      /\ ~kids[i].extra => /\ x \in DOMAIN rule.kids /\ rule.kids[x] = kids[i].symbol
                           /\ alias = InRow(AliasRow, p, x) /\ field = InRow(FieldRow, p, x)

(* See ChildFits.                                                          *)
LEMMA ChildIs ==
  ASSUME NEW rule, rule \in Rule, NEW kids, Cells(kids), Fitting(rule, kids), NEW i \in 1 .. Len(kids)
  PROVE  ChildFits(rule, kids, i)
<1> DEFINE p == rule.production
           alias == Alias(p, kids, i)
           field == Field(p, kids, i)
           t == kids[i].tree
           x == Index(kids, i)
           trees == Trees(kids)
<1>1. Len(kids) \in Nat /\ \A j \in 1 .. Len(kids) : kids[j].extra = kids[j].tree.extra
  BY DEF Fitting, Carried, Cells, Rated
<1>2. Carried(kids[i])
  BY DEF Fitting
<1>3. /\ alias = At(AliasRow, p, trees, i) /\ field = At(FieldRow, p, trees, i)
      /\ kids[i].extra => alias = None /\ field = None
      /\ ~kids[i].extra => alias = InRow(AliasRow, p, x) /\ field = InRow(FieldRow, p, x)
  <2> DEFINE q == rule.production
  <2> HIDE DEF q
  <2>1. \A rows : /\ Row(rows, q, kids, i) = At(rows, q, trees, i)
                  /\ ~kids[i].extra => Row(rows, q, kids, i) = InRow(rows, q, x)
                  /\ kids[i].extra => Row(rows, q, kids, i) = None
    BY <1>1, RowIsAt
  <2> QED BY <2>1 DEF Alias, Field, q
<1>4. ~kids[i].extra => x \in DOMAIN rule.kids /\ rule.kids[x] = kids[i].symbol
  BY DEF Fitting
<1>5. trees[i] = t /\ t.symbol = kids[i].symbol
  BY <1>2 DEF Trees, Carried
<1> HIDE DEF alias, field, t, x, trees
<1>6. SeenAt(p, trees, i) = IF Shown(p, kids, i) THEN <<Sight(t, ShownSymbol(p, kids, i), field)>>
                            ELSE Filled(Inner(t), field)
  <2>1. SeenAt(p, trees, i) = IF alias # None THEN <<Sight(t, alias, field)>>
                              ELSE IF kids[i].symbol \in Visible THEN <<Sight(t, kids[i].symbol, field)>>
                              ELSE Filled(Inner(t), field)
    BY <1>3, <1>5, Zenon DEF SeenAt
  <2>2. Shown(p, kids, i) <=> alias # None \/ kids[i].symbol \in Visible
    BY DEF Shown, alias
  <2>3. ShownSymbol(p, kids, i) = IF alias # None THEN alias ELSE kids[i].symbol
    BY DEF ShownSymbol, alias
  <2>4. CASE alias # None
    BY <2>1, <2>2, <2>3, <2>4, Zenon
  <2>5. CASE alias = None /\ kids[i].symbol \in Visible
    BY <2>1, <2>2, <2>3, <2>5, Zenon
  <2>6. CASE alias = None /\ kids[i].symbol \notin Visible
    BY <2>1, <2>2, <2>3, <2>6, Zenon
  <2> QED BY <2>4, <2>5, <2>6, Zenon
<1>7. Shown(p, kids, i) => ~t.folded
  <2> SUFFICES ASSUME Shown(p, kids, i), t.folded PROVE FALSE
    OBVIOUS
  <2>1. t.symbol \notin Aliasable /\ t.symbol \notin Visible /\ t.symbol \notin Terminal
    BY <1>2 DEF Carried, Grown, tf_foldable, t
  <2>2. alias # None
    BY <1>5, <2>1 DEF Shown, alias
  <2>3. ~kids[i].extra /\ InRow(AliasRow, p, x) # None
    BY <1>3, <2>2
  <2>4. AliasesOf(p, rule.kids)
    BY FilterAssumption DEF FilterAssumption, RuleFits
  <2>5. rule.kids[x] \in Token \cup Aliasable
    BY <1>4, <2>3, <2>4 DEF AliasesOf
  <2> QED BY <1>4, <1>5, <2>1, <2>3, <2>5 DEF Terminal
<1> QED BY <1>3, <1>4, <1>6, <1>7, Zenon DEF ChildFits, alias, field, t, x, trees

(* What the names say of it.                                               *)
LEMMA ChildNamed ==
  ASSUME NamesFit, named_only, NEW rule, rule \in Rule, NEW kids, Cells(kids), Fitting(rule, kids),
         NEW i \in 1 .. Len(kids)
  PROVE  LET p     == rule.production
             field == Field(p, kids, i)
         IN  /\ Shown(p, kids, i) /\ ShownSymbol(p, kids, i) \notin Named =>
                  /\ kids[i].symbol \in Terminal
                  /\ field = None => kids[i].extra \/ rule.symbol \in Bare
             /\ ~Shown(p, kids, i) /\ kids[i].symbol \in Bare =>
                  field = None /\ (kids[i].extra \/ rule.symbol \in Bare)
<1> DEFINE p == rule.production
           alias == Alias(p, kids, i)
           field == Field(p, kids, i)
           x == Index(kids, i)
<1>1. Sparing(Bare)
  <2>1. \E bare \in SUBSET DOMAIN Public : Sparing(bare)
    BY DEF NamesFit
  <2> QED BY <2>1 DEF Bare
<1>2. ChildFits(rule, kids, i)
  BY ChildIs
<1>3. /\ kids[i].extra => alias = None /\ field = None
      /\ ~kids[i].extra => /\ x \in DOMAIN rule.kids /\ rule.kids[x] = kids[i].symbol
                           /\ alias = InRow(AliasRow, p, x) /\ field = InRow(FieldRow, p, x)
  BY <1>2 DEF ChildFits
<1>4. /\ Shown(p, kids, i) <=> alias # None \/ kids[i].symbol \in Visible
      /\ ShownSymbol(p, kids, i) = IF alias # None THEN alias ELSE kids[i].symbol
  BY DEF Shown, ShownSymbol
<1>5. kids[i].extra => kids[i].symbol \in Terminal
  BY DEF Fitting, Carried
<1>6. ~kids[i].extra => PunctuationPlain(Bare, rule, x)
  BY <1>1, <1>3 DEF Sparing
<1>7. CASE kids[i].extra
  BY <1>3, <1>4, <1>5, <1>7
<1>8. CASE ~kids[i].extra
  <2>1. /\ Shown(p, kids, i) /\ ShownSymbol(p, kids, i) \notin Named =>
             kids[i].symbol \in Token /\ (field = None => rule.symbol \in Bare)
        /\ ~Shown(p, kids, i) /\ kids[i].symbol \in Bare => field = None /\ rule.symbol \in Bare
    <3> HIDE DEF alias, field, x
    <3> QED BY <1>3, <1>4, <1>6, <1>8 DEF PunctuationPlain
  <2> QED BY <2>1 DEF Terminal
<1> QED BY <1>7, <1>8

(* Walks of one and of none.                                               *)
LEMMA OneWalk ==
  /\ IsWalk(<< >>)
  /\ \A s : IsSight(s) => IsWalk(<<s>>)
  /\ \A t, symbol, field : IsSight(Sight(t, symbol, field))
<1>1. IsWalk(<< >>)
  <2> DEFINE none == << >>
  <2>1. Len(none) = 0 /\ none \in Seq(Range(none))
    OBVIOUS
  <2> QED BY <2>1 DEF IsWalk
<1>2. ASSUME NEW s, IsSight(s) PROVE IsWalk(<<s>>)
  <2> DEFINE one == <<s>>
  <2>1. Len(one) = 1 /\ one[1] = s /\ one \in Seq({s})
    OBVIOUS
  <2> HIDE DEF one
  <2>2. one \in Seq(Range(one))
    BY <2>1, SeqOfRange
  <2>3. \A j \in 1 .. Len(one) : IsSight(one[j])
    BY <1>2, <2>1
  <2>4. IsWalk(one)
    BY <2>2, <2>3 DEF IsWalk
  <2> QED BY <2>4 DEF one
<1>3. \A t, symbol, field : IsSight(Sight(t, symbol, field))
  BY DEF IsSight, Sight
<1> QED BY <1>1, <1>2, <1>3

(* What a hidden child shows.                                              *)
LEMMA InnerIs ==
  ASSUME NEW t, Grown(t)
  PROVE  /\ IsWalk(Inner(t))
         /\ ~t.folded => Inner(t) = t.walk
         /\ t.symbol \in Terminal => Inner(t) = << >>
         /\ named_only /\ t.symbol \notin Bare => Plain(Inner(t))
         /\ t.folded => Plain(Inner(t))
<1>1. CASE t.folded
  <2> DEFINE s == Sight(t, t.symbol, None)
             one == <<s>>
  <2>1. Inner(t) = one
    BY <1>1, Zenon DEF Inner
  <2>2. IsWalk(one)
    BY OneWalk
  <2>3. t.kids # << >> /\ t.symbol \notin Terminal
    BY <1>1 DEF Grown
  <2>4. s.tree = t
    BY DEF Sight
  <2>5. Len(one) = 1 /\ one[1] = s
    OBVIOUS
  <2> HIDE DEF s, one
  <2>6. ~Omitted(TRUE, s)
    BY <2>3, <2>4 DEF Omitted
  <2>7. Plain(one)
    <3>1. \A j \in 1 .. Len(one) : one[j] = s
      BY <2>5
    <3>2. \A j \in 1 .. Len(one) : ~Omitted(TRUE, one[j])
      BY <2>6, <3>1, Zenon
    <3> QED BY <3>2, Zenon DEF Plain
  <2> QED BY <1>1, <2>1, <2>2, <2>3, <2>7
<1>2. CASE ~t.folded
  <2>1. Inner(t) = t.walk
    BY <1>2, Zenon DEF Inner
  <2>2. /\ IsWalk(t.walk) /\ (t.symbol \in Terminal => t.walk = << >>)
        /\ named_only /\ t.symbol \notin Bare => Plain(t.walk)
    BY DEF Grown
  <2> QED BY <1>2, <2>1, <2>2, Zenon
<1>3. t.folded \in BOOLEAN
  BY DEF Grown
<1> QED BY <1>1, <1>2, <1>3

(* A field leaves plain what is plain.                                     *)
LEMMA PlainSteady ==
  ASSUME NEW w, IsWalk(w), NEW field
  PROVE  /\ Plain(w) => Plain(Filled(w, field)) /\ Steady(TRUE, w, field)
         /\ field = None => Steady(TRUE, w, field)
         /\ Steady(FALSE, w, field)
<1>1. /\ Len(Filled(w, field)) = Len(w) /\ Len(w) \in Nat
      /\ \A j \in 1 .. Len(w) : Filled(w, field)[j] = Fill(w[j], field)
  BY FilledIs
<1>2. ASSUME NEW j \in 1 .. Len(w)
      PROVE  LET f == Fill(w[j], field) IN
             /\ w[j].extra \/ ~Omitted(TRUE, w[j]) =>
                  /\ f.extra \/ ~Omitted(TRUE, f)
                  /\ Omitted(TRUE, f) <=> Omitted(TRUE, w[j])
             /\ field = None => (Omitted(TRUE, f) <=> Omitted(TRUE, w[j]))
  <2> DEFINE s == w[j]
             f == Fill(s, field)
  <2>1. IsSight(s)
    BY DEF IsWalk
  <2> HIDE DEF s, f
  <2>2. /\ f.extra = s.extra /\ f.tree = s.tree /\ f.named = s.named
        /\ f.field = IF s.extra \/ s.field # None THEN s.field ELSE field
    BY <2>1, FillIs DEF f
  <2>3. Omitted(TRUE, s) <=> ~s.named /\ s.field = None /\ s.tree.kids = << >>
    BY DEF Omitted
  <2>4. Omitted(TRUE, f) <=> ~f.named /\ f.field = None /\ f.tree.kids = << >>
    BY DEF Omitted
  <2>5. /\ s.extra \/ ~Omitted(TRUE, s) =>
             /\ f.extra \/ ~Omitted(TRUE, f)
             /\ Omitted(TRUE, f) <=> Omitted(TRUE, s)
        /\ field = None => (Omitted(TRUE, f) <=> Omitted(TRUE, s))
    BY <2>2, <2>3, <2>4
  <2> QED BY <2>5 DEF s, f
<1>3. Plain(w) => Plain(Filled(w, field)) /\ Steady(TRUE, w, field)
  <2> SUFFICES ASSUME Plain(w) PROVE Plain(Filled(w, field)) /\ Steady(TRUE, w, field)
    OBVIOUS
  <2>1. \A j \in 1 .. Len(w) : w[j].extra \/ ~Omitted(TRUE, w[j])
    BY DEF Plain
  <2> QED BY <1>1, <1>2, <2>1 DEF Plain, Steady
<1>4. field = None => Steady(TRUE, w, field)
  BY <1>2 DEF Steady
<1>5. Steady(FALSE, w, field)
  BY DEF Steady, Omitted
<1> QED BY <1>3, <1>4, <1>5

(* What a hidden child shows, with its field, is filtered as before.       *)
LEMMA ChildSteady ==
  ASSUME NamesFit, named_only \in BOOLEAN, NEW rule, rule \in Rule, NEW kids, Cells(kids), Fitting(rule, kids),
         NEW i \in 1 .. Len(kids), ~Shown(rule.production, kids, i)
  PROVE  LET w     == Inner(kids[i].tree)
             field == Field(rule.production, kids, i)
         IN  /\ IsWalk(w) /\ Steady(named_only, w, field)
             /\ named_only /\ rule.symbol \notin Bare => Plain(Filled(w, field))
<1> DEFINE t == kids[i].tree
           w == Inner(t)
           field == Field(rule.production, kids, i)
<1>1. Grown(t) /\ t.symbol = kids[i].symbol
  BY DEF Fitting, Carried
<1>2. kids[i].extra => kids[i].symbol \in Terminal
  BY DEF Fitting, Carried
<1>3. /\ IsWalk(w)
      /\ t.symbol \in Terminal => w = << >>
      /\ named_only /\ t.symbol \notin Bare => Plain(w)
  BY <1>1, InnerIs
<1>4. named_only /\ kids[i].symbol \in Bare => field = None /\ (kids[i].extra \/ rule.symbol \in Bare)
  BY ChildNamed
<1> HIDE DEF w, field, t
<1>5. /\ Plain(w) => Plain(Filled(w, field)) /\ Steady(TRUE, w, field)
      /\ field = None => Steady(TRUE, w, field)
      /\ Steady(FALSE, w, field)
  BY <1>3, PlainSteady
<1>6. Plain(<< >>)
  BY DEF Plain
<1>7. CASE ~named_only
  BY <1>3, <1>5, <1>7 DEF w, field, t
<1>8. CASE named_only
  <2>1. Steady(TRUE, w, field)
    BY <1>1, <1>3, <1>4, <1>5, <1>8
  <2>2. rule.symbol \notin Bare => Plain(w)
    BY <1>1, <1>2, <1>3, <1>4, <1>6, <1>8
  <2>3. named_only = TRUE
    BY <1>8
  <2> QED BY <1>3, <1>5, <2>1, <2>2, <2>3 DEF w, field, t
<1> QED BY <1>7, <1>8

(* What is wanted of a walk is a walk.                                     *)
LEMMA WantedWalk ==
  ASSUME NEW only, NEW w, IsWalk(w)
  PROVE  IsWalk(Wanted(only, w))
<1> DEFINE S == {x \in Range(w) : IsSight(x)}
           v == Wanted(only, w)
<1>1. w \in Seq(S)
  <2> DEFINE R == Range(w)
  <2>1. w \in Seq(R) /\ \A j \in 1 .. Len(w) : IsSight(w[j])
    BY DEF IsWalk
  <2> HIDE DEF R
  <2>2. \A j \in 1 .. Len(w) : w[j] \in R
    BY <2>1, ElementOfSeq
  <2>3. S = {x \in R : IsSight(x)}
    BY DEF R
  <2> HIDE DEF S
  <2>4. \A j \in 1 .. Len(w) : w[j] \in S
    BY <2>1, <2>2, <2>3
  <2> QED BY <2>1, <2>4
<1>2. \A x \in S : IsSight(x)
  OBVIOUS
<1> HIDE DEF S, v
<1>3. v \in Seq(S)
  <2>1. WantedGrows(only, w, S)
    BY <1>1, WantedSteps
  <2>2. Len(w) \in 0 .. Len(w)
    BY <1>1, LenProperties
  <2> QED BY <2>1, <2>2 DEF WantedGrows, v
<1>4. v \in Seq(Range(v))
  BY <1>3, SeqOfRange
<1>5. \A j \in 1 .. Len(v) : IsSight(v[j])
  BY <1>2, <1>3, ElementOfSeq
<1> QED BY <1>4, <1>5 DEF IsWalk, v

(* The i-th child's entries are there.                                     *)
ChildStands(base, kids, i) ==
  Match(made, Run(base, kids, i), Wanted(named_only, Inner(kids[i].tree)))

(* Its node is among these.                                                *)
ChildNumbered(nodes, p, base, kids, i) ==
  Reported(p, kids, i) =>
    /\ Len(made) + Counted(p, kids, i) \in 1 .. Len(nodes)
    /\ nodes[Len(made) + Counted(p, kids, i)] = NodeOf(p, base, kids, i)

(* One child: what takes its place in the arena is what a walk shows there.*)
LEMMA ChildSeen ==
  ASSUME Shape, NamesFit, NEW rule, rule \in Rule, NEW base, NEW kids, Kids(base, kids), Fitting(rule, kids),
         NEW i \in 1 .. Len(kids), ChildStands(base, kids, i),
         NEW nodes, Longer(made, nodes), ChildNumbered(nodes, rule.production, base, kids, i)
  PROVE  Match(nodes, Entries(rule.production, base, kids, i),
                      Wanted(named_only, SeenAt(rule.production, Trees(kids), i)))
<1> DEFINE p == rule.production
           only == named_only
           field == Field(p, kids, i)
           t == kids[i].tree
           w == Inner(t)
           run == Run(base, kids, i)
<1>1. Cells(kids) /\ TypeOK /\ named_only \in BOOLEAN
  BY DEF Kids, Shape
<1>2. ChildFits(rule, kids, i)
  BY <1>1, ChildIs
<1>3. CASE ~Shown(p, kids, i)
  <2>1. SeenAt(p, Trees(kids), i) = Filled(w, field)
    BY <1>2, <1>3 DEF ChildFits
  <2>2. Entries(p, base, kids, i) = Inherit(run, field)
    BY <1>3 DEF Entries
  <2>3. IsWalk(w) /\ Steady(only, w, field)
    BY <1>1, <1>3, ChildSteady
  <2>4. run \in Seq(EntryIn(Len(made)))
    <3>1. run \in Seq(Entry)
      BY <1>1, RunIs
    <3> QED BY <3>1 DEF Entry, EntryIn
  <2>5. Match(made, run, Wanted(only, w))
    BY DEF ChildStands
  <2> HIDE DEF p, only, field, t, w, run
  <2>6. Wanted(only, Filled(w, field)) = Filled(Wanted(only, w), field)
    BY <2>3, WantedFilled
  <2>7. IsWalk(Wanted(only, w))
    BY <2>3, WantedWalk
  <2>8. Match(made, Inherit(run, field), Filled(Wanted(only, w), field))
    BY <2>4, <2>5, <2>7, MatchInherit
  <2>9. Match(nodes, Inherit(run, field), Filled(Wanted(only, w), field))
    BY <2>8, MatchLonger
  <2> QED BY <2>1, <2>2, <2>6, <2>9 DEF p, only
<1>4. CASE Shown(p, kids, i)
  <2> DEFINE symbol == ShownSymbol(p, kids, i)
             s == Sight(t, symbol, field)
             value == NewValue(p, kids, i)
             entry == [symbol |-> Public[symbol], field |-> field, extra |-> kids[i].extra, value |-> value]
             top == Len(made) + Counted(p, kids, i)
  <2>1. SeenAt(p, Trees(kids), i) = <<s>>
    BY <1>2, <1>4 DEF ChildFits
  <2>2. Entries(p, base, kids, i) = IF Dropped(p, kids, i) THEN << >> ELSE <<entry>>
    BY <1>4 DEF Entries
  <2>3. s.tree = t /\ s.symbol = Public[symbol] /\ s.field = field /\ s.extra = t.extra
        /\ s.named = (symbol \in Named)
    BY DEF Sight
  <2>4. Carried(kids[i])
    BY DEF Fitting
  <2>5. Omitted(only, s) <=> Dropped(p, kids, i)
    <3>1. CASE ~named_only
      BY <3>1 DEF Omitted, Dropped
    <3>2. CASE named_only /\ symbol \notin Named
      <4>1. kids[i].symbol \in Terminal
        BY <1>1, <1>4, <3>2, ChildNamed
      <4>2. t.kids = << >> /\ kids[i].children = 0
        BY <2>4, <4>1 DEF Carried, Grown
      <4> QED BY <2>3, <3>2, <4>2 DEF Omitted, Dropped, Owns
    <3>3. CASE symbol \in Named
      BY <2>3, <3>3 DEF Omitted, Dropped
    <3> QED BY <3>1, <3>2, <3>3
  <2>6. CASE Dropped(p, kids, i)
    <3>1. Wanted(only, <<s>>) = << >>
      BY <2>5, <2>6, WantedOne
    <3>2. Match(nodes, << >>, << >>)
      BY DEF Match
    <3> QED BY <2>1, <2>2, <2>6, <3>1, <3>2
  <2>7. CASE ~Dropped(p, kids, i)
    <3>1. Wanted(only, <<s>>) = <<s>>
      BY <2>5, <2>7, WantedOne
    <3>2. value = IF Public[symbol] \in Silent THEN NULL ELSE top
      BY Zenon DEF NewValue, Counted
    <3>3. top \in 1 .. Len(nodes) /\ nodes[top] = NodeOf(p, base, kids, i)
      BY <1>4, <2>7 DEF ChildNumbered, Reported
    <3>4. LET N == NodeOf(p, base, kids, i) IN
          N.tree = t /\ N.symbol = Public[symbol] /\ N.production = kids[i].production
      BY DEF NodeOf
    <3>5. kids[i].production = t.production /\ kids[i].extra = t.extra
      BY <2>4 DEF Carried
    <3>6. entry.symbol = Public[symbol] /\ entry.field = field /\ entry.extra = kids[i].extra /\ entry.value = value
      OBVIOUS
    <3> DEFINE a == <<entry>>
               b == <<s>>
    <3> HIDE DEF entry, s, top, value, symbol, field, t
    <3>7. Shows(nodes, entry, s)
      BY <2>3, <3>2, <3>3, <3>4, <3>5, <3>6 DEF Shows
    <3>8. Len(a) = 1 /\ Len(b) = 1 /\ a[1] = entry /\ b[1] = s
      OBVIOUS
    <3> HIDE DEF a, b
    <3>9. \A c \in 1 .. Len(b) : a[c] = entry /\ b[c] = s
      BY <3>8
    <3>10. Match(nodes, a, b)
      BY <3>7, <3>8, <3>9 DEF Match
    <3> QED BY <2>1, <2>2, <2>7, <3>1, <3>10 DEF a, b
  <2> QED BY <2>6, <2>7
<1> QED BY <1>3, <1>4

(* The node reported for a child has its entries for children.             *)
LEMMA ChildTrue ==
  ASSUME NEW rule, rule \in Rule, NEW base, NEW kids, Kids(base, kids), Fitting(rule, kids),
         NEW i \in 1 .. Len(kids), ChildStands(base, kids, i), Reported(rule.production, kids, i)
  PROVE  LET N == NodeOf(rule.production, base, kids, i) IN
         Match(made, N.children, Wanted(named_only, N.tree.walk))
<1>1. Cells(kids)
  BY DEF Kids
<1>2. ChildFits(rule, kids, i)
  BY <1>1, ChildIs
<1>3. ~kids[i].tree.folded
  BY <1>2 DEF ChildFits, Reported
<1>4. Inner(kids[i].tree) = kids[i].tree.walk
  BY <1>3, Zenon DEF Inner
<1>5. NodeOf(rule.production, base, kids, i).children = Run(base, kids, i)
      /\ NodeOf(rule.production, base, kids, i).tree = kids[i].tree
  BY DEF NodeOf
<1> QED BY <1>4, <1>5, Zenon DEF ChildStands

(* What is seen of a child is a walk, plain where the rule's is to be.     *)
LEMMA ChildGrown ==
  ASSUME NamesFit, named_only \in BOOLEAN, NEW rule, rule \in Rule, NEW kids, Cells(kids), Fitting(rule, kids),
         NEW i \in 1 .. Len(kids)
  PROVE  LET seen == SeenAt(rule.production, Trees(kids), i) IN
         /\ IsWalk(seen)
         /\ named_only /\ rule.symbol \notin Bare => Plain(seen)
<1> DEFINE p == rule.production
           field == Field(p, kids, i)
           t == kids[i].tree
           w == Inner(t)
           seen == SeenAt(p, Trees(kids), i)
<1>1. ChildFits(rule, kids, i)
  BY ChildIs
<1>2. CASE ~Shown(p, kids, i)
  <2>1. seen = Filled(w, field)
    BY <1>1, <1>2 DEF ChildFits
  <2>2. IsWalk(w) /\ (named_only /\ rule.symbol \notin Bare => Plain(Filled(w, field)))
    BY <1>2, ChildSteady
  <2> HIDE DEF seen, w, field
  <2>3. IsWalk(Filled(w, field))
    BY <2>2, FilledIs
  <2> QED BY <2>1, <2>2, <2>3 DEF seen, p
<1>3. CASE Shown(p, kids, i)
  <2> DEFINE symbol == ShownSymbol(p, kids, i)
             s == Sight(t, symbol, field)
             one == <<s>>
  <2>1. seen = one
    BY <1>1, <1>3 DEF ChildFits
  <2>2. IsWalk(one)
    BY OneWalk
  <2>3. s.extra = t.extra /\ s.field = field /\ s.named = (symbol \in Named)
    BY DEF Sight
  <2>4. t.extra = kids[i].extra
    BY DEF Fitting, Carried
  <2>5. ASSUME named_only, rule.symbol \notin Bare PROVE Plain(one)
    <3>1. symbol \notin Named /\ field = None => kids[i].extra
      BY <1>3, <2>5, ChildNamed
    <3>2. s.extra = TRUE \/ ~Omitted(TRUE, s)
      <4>1. kids[i].extra \in BOOLEAN
        BY DEF Cells
      <4> QED BY <2>3, <2>4, <3>1, <4>1 DEF Omitted
    <3>3. \A j \in 1 .. Len(one) : one[j] = s
      OBVIOUS
    <3> HIDE DEF one, s
    <3> QED BY <3>2, <3>3, Zenon DEF Plain
  <2> QED BY <2>1, <2>2, <2>5
<1> QED BY <1>2, <1>3

-----------------------------------------------------------------------------
(* The children of a reduction, one after the other.                       *)

SeenRow(p, kids) == [i \in 1 .. Len(kids) |-> SeenAt(p, Trees(kids), i)]

(* What is seen of the children is in T, and T has sights only.            *)
SeenIn(T, rule, kids) ==
  /\ \A i \in 1 .. Len(kids) : SeenRow(rule.production, kids)[i] \in Seq(T)
  /\ \A x \in T : /\ IsSight(x)
                  /\ named_only /\ rule.symbol \notin Bare => x.extra \/ ~Omitted(TRUE, x)

(* There is such a T.                                                      *)
LEMMA SeenSomewhere ==
  ASSUME NamesFit, named_only \in BOOLEAN, NEW rule, rule \in Rule, NEW kids, Cells(kids), Fitting(rule, kids)
  PROVE  \E T : SeenIn(T, rule, kids)
<1> DEFINE n == Len(kids)
           p == rule.production
           R == SeenRow(p, kids)
           U == UNION {Range(R[i]) : i \in 1 .. n}
           bare == named_only /\ rule.symbol \notin Bare
           Good(x) == IsSight(x) /\ (bare => x.extra \/ ~Omitted(TRUE, x))
           T == {x \in U : Good(x)}
<1>1. \A i \in 1 .. n : R[i] = SeenAt(p, Trees(kids), i)
  BY DEF SeenRow
<1>2. \A i \in 1 .. n : IsWalk(R[i]) /\ (bare => Plain(R[i]))
  BY <1>1, ChildGrown
<1> HIDE DEF R, bare, n
<1>3. ASSUME NEW i \in 1 .. n PROVE R[i] \in Seq(T)
  <2> DEFINE w == R[i]
             V == Range(w)
  <2>1. w \in Seq(V) /\ \A j \in 1 .. Len(w) : IsSight(w[j])
    BY <1>2 DEF IsWalk
  <2>2. V \subseteq U
    OBVIOUS
  <2>3. ASSUME NEW j \in 1 .. Len(w) PROVE w[j] \in T
    <3> DEFINE x == w[j]
    <3>1. x \in U
      <4>1. x \in V
        <5> HIDE DEF w, V
        <5> QED BY <2>1, ElementOfSeq
      <4> QED BY <2>2, <4>1
    <3>2. IsSight(x)
      BY <2>1
    <3>3. bare => x.extra \/ ~Omitted(TRUE, x)
      BY <1>2, Zenon DEF Plain
    <3> HIDE DEF x, U
    <3> QED BY <3>1, <3>2, <3>3, Zenon DEF x
  <2> HIDE DEF w, V, T
  <2>4. w \in Seq(T)
    BY <2>1, <2>3
  <2> QED BY <2>4 DEF w
<1>4. \A x \in T : Good(x)
  OBVIOUS
<1> HIDE DEF T, Good
<1>5. SeenIn(T, rule, kids)
  BY <1>3, <1>4, Zenon DEF SeenIn, Good, bare, R, n
<1> QED BY <1>5

(* The walk of the parent is theirs.                                       *)
LEMMA WalkIs ==
  ASSUME NamesFit, named_only \in BOOLEAN, NEW rule, rule \in Rule, NEW kids, Cells(kids), Fitting(rule, kids)
  PROVE  LET walk == Walk(rule.production, Trees(kids)) IN
         /\ walk = Laid(SeenRow(rule.production, kids), Len(kids))
         /\ IsWalk(walk) /\ (named_only /\ rule.symbol \notin Bare => Plain(walk))
<1> DEFINE n == Len(kids)
           p == rule.production
           R == SeenRow(p, kids)
           walk == Walk(p, Trees(kids))
<1>1. n \in Nat /\ Len(Trees(kids)) = n
  BY DEF Cells, Rated, Trees
<1>2. walk = Laid(R, n)
  <2>1. walk = FlattenSeq(R)
    BY <1>1, Zenon DEF Walk, SeenRow
  <2>2. [i \in 1 .. n |-> R[i]] = R
    BY DEF SeenRow
  <2> HIDE DEF R
  <2> QED BY <2>1, <2>2, Zenon DEF Laid
<1>3. PICK T : SeenIn(T, rule, kids)
  BY SeenSomewhere
<1> HIDE DEF n, R, walk
<1>4. \A i \in 1 .. n : R[i] \in Seq(T)
  BY <1>3 DEF SeenIn, R, n
<1>5. Laid(R, n) \in Seq(T)
  <2>1. CASE n = 0
    <3>1. [i \in 1 .. 0 |-> R[i]] = << >>
      OBVIOUS
    <3>2. FlattenSeq(<< >>) = << >>
      BY DEF FlattenSeq
    <3>3. Laid(R, 0) = << >>
      BY <3>1, <3>2 DEF Laid
    <3>4. << >> \in Seq(T)
      OBVIOUS
    <3> QED BY <2>1, <3>3, <3>4
  <2>2. CASE n # 0
    <3> DEFINE k == n - 1
    <3>1. k \in Nat /\ k + 1 = n
      BY <1>1, <2>2
    <3> HIDE DEF k
    <3>2. Laid(R, k + 1) \in Seq(T)
      BY <1>4, <3>1, LaidStep
    <3> QED BY <3>1, <3>2
  <2> QED BY <2>1, <2>2
<1>6. walk \in Seq(T) /\ walk \in Seq(Range(walk))
  BY <1>2, <1>5, SeqOfRange
<1>7. \A j \in 1 .. Len(walk) : walk[j] \in T
  BY <1>6, ElementOfSeq
<1>8. IsWalk(walk)
  BY <1>3, <1>6, <1>7 DEF IsWalk, SeenIn
<1>9. named_only /\ rule.symbol \notin Bare => Plain(walk)
  BY <1>3, <1>7, Zenon DEF Plain, SeenIn
<1> QED BY <1>2, <1>8, <1>9 DEF walk, R, n

(* A rule's rows are in order.                                             *)
LEMMA RuleRows ==
  ASSUME NEW rule, rule \in Rule
  PROVE  RowsFit(rule.production) /\ rule.symbol \in DOMAIN Public /\ rule.symbol \notin Terminal
<1>1. RuleFits(rule)
  BY FilterAssumption DEF FilterAssumption
<1>2. rule.production # 0 => RowsOf(rule.production)
  BY <1>1, Zenon DEF RuleFits
<1>3. RowsFit(rule.production)
  BY <1>2, Zenon DEF RowsFit
<1>4. rule.symbol \in DOMAIN Public /\ rule.symbol \notin Terminal
  BY <1>1 DEF RuleFits, Terminal
<1> QED BY <1>3, <1>4

AllStand(base, kids) == \A i \in 1 .. Len(kids) : ChildStands(base, kids, i)

(* The first m children's nodes are among these.                           *)
AllNumbered(nodes, p, base, kids, m) == \A i \in 1 .. m : ChildNumbered(nodes, p, base, kids, i)

(* What the first k leave matches what is seen of them.                    *)
LEMMA UpToSeen ==
  ASSUME Shape, NamesFit, NEW rule, rule \in Rule, NEW base, NEW kids, Kids(base, kids), Fitting(rule, kids),
         AllStand(base, kids), NEW nodes, Longer(made, nodes), NEW m \in 0 .. Len(kids),
         AllNumbered(nodes, rule.production, base, kids, m)
  PROVE  LET run == EntriesUpTo(rule.production, base, kids, m) IN
         /\ Match(nodes, run, Wanted(named_only, Laid(SeenRow(rule.production, kids), m)))
         /\ run \in Seq(Range(run))
<1> DEFINE n == Len(kids)
           p == rule.production
           only == named_only
           R == SeenRow(p, kids)
           S == [symbol : {Public[s] : s \in DOMAIN Public}, field : {None} \cup STRING, extra : BOOLEAN,
                 value : Nat]
           E(k) == EntriesUpTo(p, base, kids, k)
           e(i) == Entries(p, base, kids, i)
           L(k) == Laid(R, k)
           W(k) == Wanted(only, L(k))
<1>1. n \in Nat /\ m \in Nat /\ m <= n /\ Cells(kids) /\ RowsFit(p) /\ only \in BOOLEAN
  BY RuleRows DEF Kids, Cells, Rated, Shape
<1>2. PICK T : SeenIn(T, rule, kids)
  BY <1>1, SeenSomewhere
<1>3. \A i \in 1 .. n : R[i] \in Seq(T) /\ R[i] = SeenAt(p, Trees(kids), i)
  BY <1>2 DEF SeenIn, SeenRow
<1>4. \A i \in 1 .. n : e(i) \in Seq(S)
  <2> SUFFICES ASSUME NEW i \in 1 .. n PROVE e(i) \in Seq(S)
    OBVIOUS
  <2> DEFINE top == Len(made) + Counted(p, kids, i)
  <2>1. e(i) \in Seq(EntryIn(top)) /\ top \in Nat
    BY <1>1, EntriesAre
  <2> HIDE DEF top
  <2>2. EntryIn(top) \subseteq S
    BY <2>1 DEF EntryIn
  <2> HIDE DEF S, e
  <2> QED BY <2>1, <2>2
<1>5. \A i \in 1 .. m : Match(nodes, e(i), Wanted(only, R[i]))
  <2> SUFFICES ASSUME NEW i \in 1 .. m PROVE Match(nodes, e(i), Wanted(only, R[i]))
    OBVIOUS
  <2>1. i \in 1 .. n
    BY <1>1
  <2>2. ChildStands(base, kids, i) /\ ChildNumbered(nodes, p, base, kids, i)
    BY <2>1 DEF AllStand, AllNumbered
  <2>3. Match(nodes, e(i), Wanted(only, SeenAt(p, Trees(kids), i)))
    BY <2>1, <2>2, ChildSeen
  <2> QED BY <1>3, <2>1, <2>3
<1>6. EntriesUpTo(p, base, kids, 0) = << >>
      /\ \A k \in 0 .. m : k # m => E(k + 1) = E(k) \o e(k + 1)
  <2>1. E(0) = << >>
    <3>1. [i \in 1 .. 0 |-> Entries(p, base, kids, i)] = << >>
      OBVIOUS
    <3>2. FlattenSeq(<< >>) = << >>
      BY DEF FlattenSeq
    <3> QED BY <3>1, <3>2 DEF EntriesUpTo
  <2>2. ASSUME NEW k \in 0 .. m, k # m PROVE E(k + 1) = E(k) \o e(k + 1)
    <3>1. k \in Nat /\ k < n
      BY <1>1, <2>2
    <3> QED BY <1>1, <3>1, UpToStep
  <2> QED BY <2>1, <2>2
<1>7. ASSUME NEW k \in 0 .. m, k # m
      PROVE L(k) \in Seq(T) /\ L(k + 1) = L(k) \o R[k + 1] /\ L(k + 1) \in Seq(T)
  <2>1. k \in Nat /\ \A i \in 1 .. k + 1 : i \in 1 .. n
    BY <1>1, <1>7
  <2> QED BY <1>3, <2>1, LaidStep
<1>8. L(0) = << >>
  <2>1. [i \in 1 .. 0 |-> R[i]] = << >>
    OBVIOUS
  <2>2. FlattenSeq(<< >>) = << >>
    BY DEF FlattenSeq
  <2> QED BY <2>1, <2>2 DEF Laid
<1> DEFINE H == {k \in 0 .. m : E(k) \in Seq(S) /\ Match(nodes, E(k), W(k))}
<1> HIDE DEF n, S, R, e, only
<1>9. 0 \in H
  <2>1. Wanted(only, << >>) = << >>
    BY WantedOne
  <2>2. Match(nodes, << >>, << >>) /\ << >> \in Seq(S)
    BY DEF Match
  <2>3. W(0) = << >> /\ E(0) = << >>
    BY <1>6, <1>8, <2>1
  <2>4. 0 \in 0 .. m
    BY <1>1
  <2> HIDE DEF E, W
  <2> QED BY <2>2, <2>3, <2>4
<1>10. ASSUME NEW k \in 0 .. m, k # m, k \in H PROVE k + 1 \in H
  <2> DEFINE lk == L(k)
             rk == R[k + 1]
             ek == E(k)
             fk == e(k + 1)
             wk == Wanted(only, lk)
             vk == Wanted(only, rk)
  <2>1. k + 1 \in 0 .. m /\ k + 1 \in 1 .. n /\ k + 1 \in 1 .. m
    BY <1>1, <1>10
  <2>2. lk \in Seq(T) /\ rk \in Seq(T) /\ L(k + 1) = lk \o rk
    BY <1>3, <1>7, <1>10, <2>1
  <2>3. E(k + 1) = ek \o fk
    BY <1>6, <1>10
  <2>4. ek \in Seq(S) /\ fk \in Seq(S) /\ Match(nodes, ek, wk) /\ Match(nodes, fk, vk)
    BY <1>4, <1>5, <1>10, <2>1
  <2> HIDE DEF lk, rk, ek, fk
  <2>5. Wanted(only, lk \o rk) = wk \o vk
    BY <2>2, WantedConcat
  <2>6. wk \in Seq(T) /\ vk \in Seq(T)
    <3>1. WantedGrows(only, lk, T) /\ WantedGrows(only, rk, T)
      BY <2>2, WantedSteps
    <3>2. Len(lk) \in 0 .. Len(lk) /\ Len(rk) \in 0 .. Len(rk)
      BY <2>2, LenProperties
    <3> QED BY <3>1, <3>2 DEF WantedGrows
  <2> HIDE DEF wk, vk
  <2>7. Match(nodes, ek \o fk, wk \o vk)
    BY <2>4, <2>6, MatchLaid
  <2>8. ek \o fk \in Seq(S)
    BY <2>4, ConcatProperties
  <2>9. E(k + 1) \in Seq(S) /\ Match(nodes, E(k + 1), W(k + 1))
    BY <2>2, <2>3, <2>5, <2>7, <2>8
  <2> HIDE DEF E, W
  <2> QED BY <2>1, <2>9
<1>11. m \in H
  <2>1. m \in 0 .. m
    BY <1>1
  <2> HIDE DEF H
  <2> QED BY <1>1, <1>9, <1>10, <2>1, Climb
<1>12. E(m) \in Seq(Range(E(m)))
  BY <1>11, SeqOfRange
<1> QED BY <1>11, <1>12 DEF only, R

-----------------------------------------------------------------------------
(* The nodes a reduction reports.                                          *)

(* Those of the first k children, by their numbers.                        *)
NodeList(nodes, p, base, kids, k) ==
  /\ nodes \in Seq({NodeOf(p, base, kids, i) : i \in 1 .. Len(kids)})
  /\ Len(nodes) \in Nat /\ Len(nodes) = Counted(p, kids, k)
  /\ \A i \in 1 .. k : Reported(p, kids, i) =>
       /\ Counted(p, kids, i) \in 1 .. Len(nodes)
       /\ nodes[Counted(p, kids, i)] = NodeOf(p, base, kids, i)
  /\ \A v \in 1 .. Len(nodes) : \E i \in 1 .. k :
       Reported(p, kids, i) /\ nodes[v] = NodeOf(p, base, kids, i)

(* One more after a list.                                                  *)
LEMMA OneMore ==
  ASSUME NEW S, NEW a, a \in Seq(S), NEW x \in S
  PROVE  /\ a \o <<x>> \in Seq(S) /\ Len(a \o <<x>>) = Len(a) + 1 /\ Len(a) \in Nat
         /\ \A v \in 1 .. Len(a) : (a \o <<x>>)[v] = a[v]
         /\ (a \o <<x>>)[Len(a) + 1] = x
<1> DEFINE b == <<x>>
<1>1. b \in Seq(S) /\ Len(b) = 1 /\ b[1] = x
  OBVIOUS
<1> HIDE DEF b
<1>2. /\ a \o b \in Seq(S) /\ Len(a \o b) = Len(a) + 1 /\ Len(a) \in Nat
      /\ \A i \in 1 .. Len(a) + 1 : (a \o b)[i] = IF i <= Len(a) THEN a[i] ELSE b[i - Len(a)]
  <2>1. /\ a \o b \in Seq(S) /\ Len(a \o b) = Len(a) + Len(b)
        /\ \A i \in 1 .. Len(a) + Len(b) : (a \o b)[i] = IF i <= Len(a) THEN a[i] ELSE b[i - Len(a)]
    BY <1>1, ConcatProperties
  <2>2. Len(a) \in Nat
    BY LenProperties
  <2> QED BY <1>1, <2>1, <2>2
<1>3. \A v \in 1 .. Len(a) : v \in 1 .. Len(a) + 1 /\ v <= Len(a)
  BY <1>2
<1>4. \A v \in 1 .. Len(a) : (a \o b)[v] = a[v]
  BY <1>2, <1>3
<1>5. Len(a) + 1 \in 1 .. Len(a) + 1 /\ ~(Len(a) + 1 <= Len(a)) /\ (Len(a) + 1) - Len(a) = 1
  BY <1>2
<1>6. (a \o b)[Len(a) + 1] = x
  BY <1>1, <1>2, <1>5
<1> QED BY <1>2, <1>4, <1>6 DEF b

(* See NodeList.                                                           *)
LEMMA NodesAre ==
  ASSUME Shape, NEW p, RowsFit(p), NEW base, NEW kids, Kids(base, kids), NEW m \in 0 .. Len(kids)
  PROVE  NodeList(NodesUpTo(p, base, kids, m), p, base, kids, m)
<1> DEFINE n == Len(kids)
           S == {NodeOf(p, base, kids, i) : i \in 1 .. n}
           N(k) == NodesUpTo(p, base, kids, k)
           C(k) == Counted(p, kids, k)
           of(i) == NodeOf(p, base, kids, i)
           is(i) == Reported(p, kids, i)
           P(k) == /\ N(k) \in Seq(S) /\ Len(N(k)) = C(k) /\ C(k) \in Nat
                   /\ \A i \in 1 .. k : is(i) => C(i) \in 1 .. C(k) /\ N(k)[C(i)] = of(i)
                   /\ \A v \in 1 .. C(k) : \E i \in 1 .. k : is(i) /\ N(k)[v] = of(i)
           G == {k \in 0 .. n : P(k)}
<1>1. n \in Nat /\ \A i \in 1 .. n : of(i) \in S
  BY DEF Kids, Cells, Rated
<1>2. P(0)
  <2>1. N(0) = << >>
    <3>1. [i \in 1 .. 0 |-> IF is(i) THEN <<of(i)>> ELSE << >>] = << >>
      OBVIOUS
    <3>2. FlattenSeq(<< >>) = << >>
      BY DEF FlattenSeq
    <3> QED BY <3>1, <3>2 DEF NodesUpTo
  <2>2. C(0) = 0
    BY CountStep
  <2>3. << >> \in Seq(S) /\ Len(<< >>) = 0
    OBVIOUS
  <2> HIDE DEF S, N, C, of, is
  <2>4. N(0) \in Seq(S) /\ Len(N(0)) = 0 /\ C(0) = 0
    BY <2>1, <2>2, <2>3
  <2> QED BY <2>4
<1>3. ASSUME NEW k \in 0 .. n, k # n, P(k) PROVE P(k + 1)
  <2>1. k \in Nat /\ k < n /\ k + 1 \in 1 .. n /\ \A i \in 1 .. k + 1 : i = k + 1 \/ i \in 1 .. k
    BY <1>1, <1>3
  <2>2. N(k + 1) = N(k) \o IF is(k + 1) THEN <<of(k + 1)>> ELSE << >>
    BY <2>1, UpToStep
  <2>3. C(k + 1) = C(k) + (IF is(k + 1) THEN 1 ELSE 0) /\ C(k) \in Nat
    BY <2>1, CountStep
  <2>4. /\ N(k) \in Seq(S) /\ Len(N(k)) = C(k)
        /\ \A i \in 1 .. k : is(i) => C(i) \in 1 .. C(k) /\ N(k)[C(i)] = of(i)
        /\ \A v \in 1 .. C(k) : \E i \in 1 .. k : is(i) /\ N(k)[v] = of(i)
    BY <1>3
  <2> SUFFICES /\ N(k + 1) \in Seq(S) /\ Len(N(k + 1)) = C(k + 1)
               /\ \A i \in 1 .. k + 1 : is(i) => C(i) \in 1 .. C(k + 1) /\ N(k + 1)[C(i)] = of(i)
               /\ \A v \in 1 .. C(k + 1) : \E i \in 1 .. k + 1 : is(i) /\ N(k + 1)[v] = of(i)
    <3>1. C(k + 1) \in Nat
      BY <2>1, CountStep
    <3> HIDE DEF S, N, C, of, is
    <3> QED BY <3>1
  <2>5. \A i \in 1 .. k : i \in 1 .. k + 1
    BY <2>1
  <2> HIDE DEF S, N, C, of, is
  <2>6. CASE ~is(k + 1)
    <3>1. N(k) \o << >> = N(k)
      BY <2>4, ConcatEmptySeq
    <3>2. N(k + 1) = N(k) /\ C(k + 1) = C(k)
      <4>1. N(k + 1) = N(k)
        BY <2>2, <2>6, <3>1
      <4>2. C(k + 1) = C(k)
        BY <2>3, <2>6
      <4> QED BY <4>1, <4>2
    <3> QED BY <2>1, <2>4, <2>5, <2>6, <3>2
  <2>7. CASE is(k + 1)
    <3> DEFINE a == N(k)
               x == of(k + 1)
    <3>1. N(k + 1) = a \o <<x>> /\ C(k + 1) = C(k) + 1
      BY <2>2, <2>3, <2>7
    <3>2. x \in S /\ a \in Seq(S)
      BY <1>1, <2>1, <2>4
    <3> HIDE DEF a, x
    <3>3. /\ a \o <<x>> \in Seq(S) /\ Len(a \o <<x>>) = Len(a) + 1 /\ Len(a) \in Nat
          /\ \A v \in 1 .. Len(a) : (a \o <<x>>)[v] = a[v]
          /\ (a \o <<x>>)[Len(a) + 1] = x
      BY <3>2, OneMore
    <3>4. /\ N(k + 1) \in Seq(S) /\ Len(N(k + 1)) = C(k) + 1
          /\ \A v \in 1 .. C(k) : N(k + 1)[v] = N(k)[v]
          /\ N(k + 1)[C(k) + 1] = of(k + 1)
      BY <2>4, <3>1, <3>3 DEF a, x
    <3>5. \A v \in 1 .. C(k) : v \in 1 .. C(k) + 1
      BY <2>3
    <3>6. \A v \in 1 .. C(k) + 1 : v = C(k) + 1 \/ v \in 1 .. C(k)
      BY <2>3
    <3>7. \A i \in 1 .. k + 1 : is(i) => C(i) \in 1 .. C(k + 1) /\ N(k + 1)[C(i)] = of(i)
      <4> SUFFICES ASSUME NEW i \in 1 .. k + 1, is(i)
                   PROVE  C(i) \in 1 .. C(k + 1) /\ N(k + 1)[C(i)] = of(i)
        OBVIOUS
      <4>1. CASE i = k + 1
        <5>1. C(k) + 1 \in 1 .. C(k) + 1
          BY <2>3
        <5> QED BY <3>1, <3>4, <4>1, <5>1
      <4>2. CASE i \in 1 .. k
        BY <2>4, <3>1, <3>4, <3>5, <4>2
      <4> QED BY <2>1, <4>1, <4>2
    <3>8. \A v \in 1 .. C(k + 1) : \E i \in 1 .. k + 1 : is(i) /\ N(k + 1)[v] = of(i)
      <4> SUFFICES ASSUME NEW v \in 1 .. C(k) + 1 PROVE \E i \in 1 .. k + 1 : is(i) /\ N(k + 1)[v] = of(i)
        BY <3>1
      <4>1. CASE v = C(k) + 1
        <5>1. k + 1 \in 1 .. k + 1
          BY <2>1
        <5> QED BY <2>7, <3>4, <4>1, <5>1
      <4>2. CASE v \in 1 .. C(k)
        BY <2>4, <2>5, <3>4, <4>2
      <4> QED BY <3>6, <4>1, <4>2
    <3> QED BY <3>1, <3>4, <3>7, <3>8
  <2> QED BY <2>6, <2>7
<1>4. 0 \in G
  BY <1>1, <1>2
<1>5. ASSUME NEW k \in 0 .. n, k # n, k \in G PROVE k + 1 \in G
  <2>1. k + 1 \in 0 .. n
    BY <1>1, <1>5
  <2>2. P(k)
    BY <1>5
  <2> HIDE DEF P
  <2> QED BY <1>3, <2>1, <2>2
<1> HIDE DEF G
<1>6. m \in G
  BY <1>1, <1>4, <1>5, Climb
<1>7. P(m)
  BY <1>6 DEF G
<1> HIDE DEF S, N, C, of, is
<1>8. /\ N(m) \in Seq(S) /\ Len(N(m)) \in Nat /\ Len(N(m)) = C(m)
      /\ \A i \in 1 .. m : is(i) => C(i) \in 1 .. Len(N(m)) /\ N(m)[C(i)] = of(i)
      /\ \A v \in 1 .. Len(N(m)) : \E i \in 1 .. m : is(i) /\ N(m)[v] = of(i)
  BY <1>7
<1> QED BY <1>8, Zenon DEF NodeList, S, N, C, of, is, n

(* A list of nodes after those made: the children are numbered from there. *)
LEMMA NodesNumbered ==
  ASSUME Shape, NEW p, NEW base, NEW kids, NEW m, NEW list, NodeList(list, p, base, kids, m),
         NEW after, Longer(made \o list, after)
  PROVE  Longer(made, after) /\ AllNumbered(after, p, base, kids, m)
<1> DEFINE S == Range(made)
           T == {NodeOf(p, base, kids, i) : i \in 1 .. Len(kids)}
           U == S \cup T
           k == Len(made)
           n == Len(list)
           u == made \o list
<1>1. made \in Seq(S) /\ list \in Seq(T) /\ S \subseteq U /\ T \subseteq U
  BY DEF Shape, NodeList
<1> HIDE DEF S, T, U
<1>2. made \in Seq(U) /\ list \in Seq(U)
  BY <1>1
<1>3. /\ k \in Nat /\ n \in Nat /\ Len(u) = k + n
      /\ \A i \in 1 .. k + n : u[i] = IF i <= k THEN made[i] ELSE list[i - k]
  BY <1>2, ConcatProperties, LenProperties
<1>4. Len(u) <= Len(after) /\ Len(after) \in Nat /\ \A i \in 1 .. Len(u) : after[i] = u[i]
  BY DEF Longer
<1> HIDE DEF k, n, u
<1>5. /\ \A i \in 1 .. k : i \in 1 .. k + n /\ i <= k
      /\ \A i \in 1 .. n : k + i \in 1 .. k + n /\ ~(k + i <= k) /\ (k + i) - k = i
      /\ k <= k + n
  BY <1>3
<1>6. k <= Len(after)
  BY <1>3, <1>4
<1>7. \A i \in 1 .. k : after[i] = made[i]
  BY <1>3, <1>4, <1>5
<1>8. \A i \in 1 .. n : after[k + i] = list[i]
  BY <1>3, <1>4, <1>5
<1>9. \A i \in 1 .. n : k + i \in 1 .. Len(after)
  BY <1>3, <1>4
<1>10. Longer(made, after)
  BY <1>3, <1>4, <1>6, <1>7 DEF Longer, k
<1>11. \A i \in 1 .. m : Reported(p, kids, i) =>
         Counted(p, kids, i) \in 1 .. n /\ list[Counted(p, kids, i)] = NodeOf(p, base, kids, i)
  BY DEF NodeList, n
<1>12. AllNumbered(after, p, base, kids, m)
  <2> SUFFICES ASSUME NEW i \in 1 .. m, Reported(p, kids, i)
               PROVE  /\ k + Counted(p, kids, i) \in 1 .. Len(after)
                      /\ after[k + Counted(p, kids, i)] = NodeOf(p, base, kids, i)
    BY DEF AllNumbered, ChildNumbered, k
  <2> DEFINE c == Counted(p, kids, i)
  <2>1. c \in 1 .. n /\ list[c] = NodeOf(p, base, kids, i)
    BY <1>11
  <2> HIDE DEF c
  <2> QED BY <1>8, <1>9, <2>1 DEF c
<1> QED BY <1>10, <1>12

(* A node that shows what a walk of its tree shows.                        *)
TrueTo(nodes, N) == Match(nodes, N.children, Wanted(named_only, N.tree.walk))

AllTrue(nodes, list) == \A x \in 1 .. Len(list) : TrueTo(nodes, list[x])

(* More such nodes after such nodes.                                       *)
LEMMA TrueMore ==
  ASSUME NEW nodes, NEW S, NEW a, a \in Seq(S), NEW b, b \in Seq(S), AllTrue(nodes, a), AllTrue(nodes, b)
  PROVE  AllTrue(nodes, a \o b)
<1> DEFINE m == Len(a)
           n == Len(b)
           u == a \o b
<1>1. m \in Nat /\ n \in Nat
  BY LenProperties
<1>2. Len(u) = m + n /\ \A i \in 1 .. m + n : u[i] = IF i <= m THEN a[i] ELSE b[i - m]
  BY ConcatProperties
<1>3. /\ \A i \in 1 .. m : TrueTo(nodes, a[i])
      /\ \A i \in 1 .. n : TrueTo(nodes, b[i])
  BY DEF AllTrue
<1> HIDE DEF m, n, u
<1>4. \A i \in 1 .. m + n : (i <= m => i \in 1 .. m) /\ (~(i <= m) => i - m \in 1 .. n)
  BY <1>1
<1>5. ASSUME NEW i \in 1 .. m + n PROVE TrueTo(nodes, u[i])
  <2>1. CASE i <= m
    BY <1>2, <1>3, <1>4, <2>1
  <2>2. CASE ~(i <= m)
    BY <1>2, <1>3, <1>4, <2>2
  <2> QED BY <2>1, <2>2
<1>6. AllTrue(nodes, u)
  BY <1>2, <1>5 DEF AllTrue
<1> QED BY <1>6 DEF u

(* Nodes reported earlier stay true.                                       *)
LEMMA TrueLonger ==
  ASSUME NEW nodes, NEW after, Longer(nodes, after), NEW list, AllTrue(nodes, list)
  PROVE  AllTrue(after, list)
BY MatchLonger DEF AllTrue, TrueTo

(* Reported, they are true to their trees.                                 *)
LEMMA ReportTrue ==
  ASSUME Shape, ReportsMatchTree, NEW S, NEW list, list \in Seq(S), made' = made \o list,
         AllTrue(made \o list, list), named_only' = named_only
  PROVE  ReportsMatchTree' /\ Longer(made, made')
<1> DEFINE R == Range(made)
           U == R \cup S
           u == made \o list
<1>1. made \in Seq(R) /\ R \subseteq U /\ S \subseteq U
  BY DEF Shape
<1> HIDE DEF R, U
<1>2. made \in Seq(U) /\ list \in Seq(U) /\ Len(made) \in Nat /\ DOMAIN made = 1 .. Len(made)
  BY <1>1, LenProperties
<1>3. Longer(made, u)
  BY <1>2, LongerBy
<1>4. AllTrue(made, made)
  BY <1>2, Zenon DEF ReportsMatchTree, ShownAsSeen, AllTrue, TrueTo, Match
<1> HIDE DEF u
<1>5. AllTrue(u, made)
  BY <1>3, <1>4, TrueLonger
<1>6. AllTrue(u, u)
  <2>1. AllTrue(u, list)
    BY DEF u
  <2> QED BY <1>2, <1>5, <2>1, TrueMore DEF u
<1>7. u \in Seq(U) /\ DOMAIN u = 1 .. Len(u)
  BY <1>2, ConcatProperties, LenProperties DEF u
<1>8. \A v \in DOMAIN u : Match(u, u[v].children, Wanted(named_only, u[v].tree.walk))
  BY <1>6, <1>7, Zenon DEF AllTrue, TrueTo
<1>9. \A v \in DOMAIN made' : Match(made', made'[v].children, Wanted(named_only', made'[v].tree.walk))
  BY <1>8, Zenon DEF u
<1>10. ReportsMatchTree'
  BY <1>9, Zenon DEF ReportsMatchTree, ShownAsSeen, Match
<1> QED BY <1>3, <1>10 DEF u

(* Lists end to end, place by place.                                       *)
LEMMA Ends ==
  ASSUME NEW S, NEW a, a \in Seq(S), NEW T, NEW b, b \in Seq(T)
  PROVE  /\ Len(a) \in Nat /\ Len(b) \in Nat /\ Len(a \o b) = Len(a) + Len(b) /\ a \o b \in Seq(S \cup T)
         /\ \A i \in 1 .. Len(a) : (a \o b)[i] = a[i]
         /\ \A i \in 1 .. Len(b) : (a \o b)[Len(a) + i] = b[i]
<1> DEFINE U == S \cup T
           k == Len(a)
           n == Len(b)
           u == a \o b
<1>1. S \subseteq U /\ T \subseteq U
  OBVIOUS
<1> HIDE DEF U
<1>2. a \in Seq(U) /\ b \in Seq(U)
  BY <1>1
<1>3. /\ k \in Nat /\ n \in Nat /\ Len(u) = k + n /\ u \in Seq(U)
      /\ \A i \in 1 .. k + n : u[i] = IF i <= k THEN a[i] ELSE b[i - k]
  BY <1>2, ConcatProperties, LenProperties
<1> HIDE DEF k, n, u
<1>4. /\ \A i \in 1 .. k : i \in 1 .. k + n /\ i <= k
      /\ \A i \in 1 .. n : k + i \in 1 .. k + n /\ ~(k + i <= k) /\ (k + i) - k = i
  BY <1>3
<1>5. \A i \in 1 .. k : u[i] = a[i]
  BY <1>3, <1>4
<1>6. \A i \in 1 .. n : u[k + i] = b[i]
  BY <1>3, <1>4
<1> QED BY <1>3, <1>5, <1>6 DEF k, n, u, U

(* Lists that follow the same nodes.                                       *)
LEMMA LongerAfter ==
  ASSUME NEW S, NEW a, a \in Seq(S), NEW b, b \in Seq(S), NEW c, c \in Seq(S), Longer(b, c)
  PROVE  Longer(a \o b, a \o c)
<1> DEFINE k == Len(a)
           m == Len(b)
           n == Len(c)
           u == a \o b
           v == a \o c
<1>1. /\ k \in Nat /\ m \in Nat /\ Len(u) = k + m
      /\ \A i \in 1 .. k : u[i] = a[i]
      /\ \A i \in 1 .. m : u[k + i] = b[i]
  BY Ends
<1>2. /\ n \in Nat /\ Len(v) = k + n
      /\ \A i \in 1 .. k : v[i] = a[i]
      /\ \A i \in 1 .. n : v[k + i] = c[i]
  BY Ends
<1>3. m <= n /\ \A i \in 1 .. m : c[i] = b[i]
  BY DEF Longer
<1> HIDE DEF k, m, n, u, v
<1>4. \A i \in 1 .. k + m : i \in 1 .. k \/ (i - k \in 1 .. m /\ i - k \in 1 .. n /\ k + (i - k) = i)
  BY <1>1, <1>2, <1>3
<1>5. ASSUME NEW i \in 1 .. k + m PROVE v[i] = u[i]
  <2>1. CASE i \in 1 .. k
    BY <1>1, <1>2, <2>1
  <2>2. CASE i \notin 1 .. k
    <3> DEFINE j == i - k
    <3>1. j \in 1 .. m /\ j \in 1 .. n /\ k + j = i
      BY <1>4, <2>2
    <3> HIDE DEF j
    <3> QED BY <1>1, <1>2, <1>3, <3>1
  <2> QED BY <2>1, <2>2
<1>6. Len(u) \in Nat /\ Len(v) \in Nat /\ Len(u) <= Len(v)
  BY <1>1, <1>2, <1>3
<1> QED BY <1>1, <1>5, <1>6 DEF Longer, u, v

(* The nodes reported for children are true to their trees.                *)
LEMMA ListTrue ==
  ASSUME NEW rule, rule \in Rule, NEW base, NEW kids, Kids(base, kids), Fitting(rule, kids),
         AllStand(base, kids), NEW m \in 0 .. Len(kids), NEW list,
         NodeList(list, rule.production, base, kids, m)
  PROVE  AllTrue(made, list)
<1> DEFINE p == rule.production
<1>1. Len(kids) \in Nat
  BY DEF Kids, Cells, Rated
<1>2. ASSUME NEW x \in 1 .. Len(list) PROVE TrueTo(made, list[x])
  <2>1. PICK i \in 1 .. m : Reported(p, kids, i) /\ list[x] = NodeOf(p, base, kids, i)
    BY DEF NodeList
  <2>2. i \in 1 .. Len(kids)
    BY <1>1
  <2>3. ChildStands(base, kids, i)
    BY <2>2 DEF AllStand
  <2> DEFINE N == NodeOf(p, base, kids, i)
  <2>4. Match(made, N.children, Wanted(named_only, N.tree.walk))
    BY <2>1, <2>2, <2>3, ChildTrue
  <2> QED BY <2>1, <2>4, Zenon DEF TrueTo
<1> QED BY <1>2 DEF AllTrue

(* A reduction that runs out of memory has reported the truth so far.      *)
LEMMA FailsTrue ==
  ASSUME Shape, ReportsMatchTree, NEW rule, rule \in Rule, NEW base, NEW kids, Kids(base, kids),
         Fitting(rule, kids), AllStand(base, kids), OutOfMemory(rule.production, base, kids),
         named_only' = named_only
  PROVE  ReportsMatchTree'
<1> DEFINE p == rule.production
<1>1. PICK k \in FirstShown(p, kids) .. Len(kids) + 1 : FailsAt(p, base, kids, k)
  BY DEF OutOfMemory
<1>2. Len(kids) \in Nat /\ FirstShown(p, kids) \in 1 .. Len(kids) + 1
  BY FirstShownIs DEF Kids, Cells, Rated
<1> DEFINE m == k - 1
           list == NodesUpTo(p, base, kids, m)
           S == {NodeOf(p, base, kids, i) : i \in 1 .. Len(kids)}
<1>3. m \in 0 .. Len(kids)
  BY <1>2
<1>4. Report(list)
  BY <1>1 DEF FailsAt
<1>5. RowsFit(p)
  BY RuleRows
<1> HIDE DEF m
<1>6. NodeList(list, p, base, kids, m)
  BY <1>3, <1>5, NodesAre
<1> HIDE DEF list
<1>7. AllTrue(made, list)
  BY <1>3, <1>6, ListTrue
<1>8. list \in Seq(S)
  BY <1>6 DEF NodeList
<1>9. made \in Seq(Range(made))
  BY DEF Shape
<1> HIDE DEF S
<1>10. Longer(made, made \o list)
  BY <1>8, <1>9, LongerBy
<1>11. AllTrue(made \o list, list)
  BY <1>7, <1>10, TrueLonger
<1>12. made' = made \o list
  BY <1>4 DEF Report
<1> QED BY <1>8, <1>11, <1>12, ReportTrue

(* The tree of a reduction, folded or not.                                 *)
GrownTo(rule, kids, f) == [TreeOf(rule, kids) EXCEPT !.folded = f]

(* It is grown.                                                            *)
LEMMA TreeGrown ==
  ASSUME NamesFit, named_only \in BOOLEAN, NEW rule, rule \in Rule, NEW kids, Cells(kids), Fitting(rule, kids),
         NEW f \in BOOLEAN, f => tf_foldable(rule.symbol) /\ Len(kids) > 0
  PROVE  LET t == GrownTo(rule, kids, f) IN
         /\ Grown(t) /\ t.symbol = rule.symbol /\ t.production = rule.production /\ t.extra = FALSE
         /\ t.folded = f
         /\ t.walk = Laid(SeenRow(rule.production, kids), Len(kids))
<1> DEFINE p == rule.production
           trees == Trees(kids)
           walk == Walk(p, trees)
           tree == TreeOf(rule, kids)
           t == GrownTo(rule, kids, f)
<1>1. Len(trees) = Len(kids) /\ Len(kids) \in Nat
  BY DEF Trees, Cells, Rated
<1>2. Len(kids) > 0 => trees # << >>
  <2> HIDE DEF trees
  <2>1. Len(<< >>) = 0
    OBVIOUS
  <2> QED BY <1>1, <2>1
<1>3. /\ walk = Laid(SeenRow(p, kids), Len(kids))
      /\ IsWalk(walk) /\ (named_only /\ rule.symbol \notin Bare => Plain(walk))
  BY WalkIs
<1> HIDE DEF trees, walk
<1>4. tree = [symbol |-> rule.symbol, extra |-> FALSE, production |-> p, kids |-> trees,
              walk |-> walk, folded |-> FALSE]
  BY Zenon DEF TreeOf, Tree, trees, walk, Trees
<1> HIDE DEF tree
<1>5. /\ t.symbol = rule.symbol /\ t.extra = FALSE /\ t.production = p /\ t.kids = trees
      /\ t.walk = walk /\ t.folded = f
  <2>1. t = [symbol |-> rule.symbol, extra |-> FALSE, production |-> p, kids |-> trees,
             walk |-> walk, folded |-> f]
    <3>1. t = [tree EXCEPT !.folded = f]
      BY Zenon DEF GrownTo, tree
    <3> QED BY <1>4, <3>1
  <2> QED BY <2>1
<1>6. rule.symbol \notin Terminal
  BY RuleRows
<1> HIDE DEF t
<1>7. Grown(t)
  BY <1>2, <1>3, <1>5, <1>6 DEF Grown
<1> QED BY <1>2, <1>3, <1>5, <1>7 DEF t

(* What a reduction puts on the stack and in the arena.                    *)
Planted(rule, base, kids, place, f, left) ==
  LET t == GrownTo(rule, kids, f) IN
  /\ Push(place, t, Len(left), rule.production)
  /\ arena' = SubSeq(arena, 1, base) \o left /\ left \in Seq(Range(left))
  /\ Grown(t) /\ t.symbol = rule.symbol /\ t.production = rule.production /\ t.extra = FALSE
  /\ Match(made', left, Wanted(named_only, Inner(t)))

(* What it reports is true, and what it leaves is what a walk shows.       *)
LEMMA SettlesTrue ==
  ASSUME Shape, ReportsMatchTree, NamesFit, NEW rule, rule \in Rule, NEW base, NEW kids, Kids(base, kids),
         Fitting(rule, kids), AllStand(base, kids),
         NEW isRoot \in BOOLEAN, isRoot => rule.symbol = RootSymbol,
         NEW place, Settles(TreeOf(rule, kids), base, kids, isRoot, place), named_only' = named_only
  PROVE  /\ ReportsMatchTree' /\ Longer(made, made')
         /\ \E f \in BOOLEAN : \E left : Planted(rule, base, kids, place, f, left)
<1> DEFINE p == rule.production
           only == named_only
           n == Len(kids)
           nodes == NodesUpTo(p, base, kids, n)
           run == EntriesUpTo(p, base, kids, n)
           value == ValueOf(rule.symbol, Len(nodes) + 1)
           T(f) == GrownTo(rule, kids, f)
           entry == [symbol |-> Public[rule.symbol], field |-> None, extra |-> FALSE, value |-> value]
           one == <<entry>>
           L(f) == IF f THEN one ELSE run
           F(f) == IF f THEN <<tf_filter__parent(T(f), run)>> ELSE <<>>
           R(f) == IF isRoot THEN <<tf_filter__parent(T(f), L(f))>> ELSE <<>>
           walk == Laid(SeenRow(p, kids), n)
<1>1. PICK fold \in BOOLEAN :
        /\ Offer(rule.symbol, run, fold)
        /\ arena' = SubSeq(arena, 1, base) \o L(fold)
        /\ Report(nodes \o F(fold) \o R(fold))
        /\ Push(place, T(fold), Len(L(fold)), p)
  <2>1. TreeOf(rule, kids).symbol = rule.symbol /\ TreeOf(rule, kids).production = p
    BY DEF TreeOf, Tree
  <2> QED BY <2>1, Zenon DEF Settles, GrownTo
<1> DEFINE left == L(fold)
           t == T(fold)
           N == tf_filter__parent(t, run)
           root1 == tf_filter__parent(t, left)
           X == F(fold)
           Y == R(fold)
           list == (nodes \o X) \o Y
           after == made \o list
           S0 == {NodeOf(p, base, kids, i) : i \in 1 .. n}
           S == S0 \cup {N, root1}
<1>2. n \in Nat /\ n \in 0 .. n /\ Cells(kids) /\ only \in BOOLEAN /\ RowsFit(p)
  BY RuleRows DEF Kids, Cells, Rated, Shape
<1>3. fold => tf_foldable(rule.symbol) /\ Len(kids) > 0
  <2>1. n = 0 => run = << >>
    BY NothingUpTo
  <2> HIDE DEF run
  <2>2. fold => tf_foldable(rule.symbol) /\ Len(run) > 1
    BY <1>1 DEF Offer
  <2>3. Len(<< >>) = 0
    OBVIOUS
  <2> QED BY <1>2, <2>1, <2>2, <2>3
<1>4. isRoot => ~fold
  BY <1>3, FilterAssumption DEF FilterAssumption, tf_foldable
<1>5. /\ Grown(t) /\ t.symbol = rule.symbol /\ t.production = p /\ t.extra = FALSE
      /\ t.folded = fold /\ t.walk = walk
  BY <1>2, <1>3, TreeGrown
<1>6. NodeList(nodes, p, base, kids, n)
  BY <1>2, NodesAre
<1>7. AllTrue(made, nodes)
  <2> HIDE DEF nodes
  <2> QED BY <1>2, <1>6, ListTrue
<1>8. /\ N.symbol = Public[rule.symbol] /\ N.children = run /\ N.tree = t /\ N.production = p
      /\ root1.symbol = Public[rule.symbol] /\ root1.children = left /\ root1.tree = t
  <2> HIDE DEF run, left, t
  <2> QED BY <1>5 DEF tf_filter__parent
<1>9. /\ fold => X = <<N>> /\ left = one
      /\ ~fold => X = << >> /\ left = run
      /\ isRoot => Y = <<root1>>
      /\ ~isRoot => Y = << >>
  <2> HIDE DEF one, run, T
  <2> QED OBVIOUS
<1> HIDE DEF nodes, run, T, t, N, root1, X, Y, L, left, walk, one, only
<1>10. nodes \in Seq(S) /\ X \in Seq(S) /\ Y \in Seq(S) /\ Len(nodes) \in Nat /\ N \in S
  <2>1. nodes \in Seq(S0) /\ Len(nodes) \in Nat
    BY <1>6 DEF NodeList
  <2> HIDE DEF S0
  <2>2. S0 \subseteq S /\ N \in S /\ root1 \in S
    OBVIOUS
  <2> HIDE DEF S
  <2>3. nodes \in Seq(S) /\ << >> \in Seq(S) /\ <<N>> \in Seq(S) /\ <<root1>> \in Seq(S)
    BY <2>1, <2>2
  <2> QED BY <1>9, <2>1, <2>2, <2>3
<1>11. made \in Seq(Range(made)) /\ Len(made) \in Nat
  BY LenProperties DEF Shape
<1> HIDE DEF S0
<1> DEFINE nx == nodes \o X
<1>12. nx \in Seq(S) /\ list \in Seq(S) /\ Longer(nodes, nx) /\ Longer(nx, list)
  <2> HIDE DEF S
  <2>1. nx \in Seq(S) /\ Longer(nodes, nx)
    BY <1>10, LongerBy, ConcatProperties
  <2> HIDE DEF nx
  <2>2. nx \o Y \in Seq(S) /\ Longer(nx, nx \o Y)
    BY <1>10, <2>1, LongerBy, ConcatProperties
  <2> QED BY <2>1, <2>2 DEF nx
<1> HIDE DEF S
<1>13. Longer(nodes, list)
  <2> HIDE DEF list, nx
  <2>1. \A i \in 1 .. Len(nodes) : i \in 1 .. Len(nx) /\ list[i] = nx[i] /\ nx[i] = nodes[i]
    BY <1>12 DEF Longer
  <2> QED BY <1>12, <2>1 DEF Longer
<1> DEFINE A == Range(made) \cup S
<1>14. made \in Seq(A) /\ nodes \in Seq(A) /\ list \in Seq(A)
  <2>1. Range(made) \subseteq A /\ S \subseteq A
    OBVIOUS
  <2> HIDE DEF A, list
  <2> QED BY <1>10, <1>11, <1>12, <2>1
<1>15. Longer(made \o nodes, after)
  <2> HIDE DEF A, list
  <2> QED BY <1>13, <1>14, LongerAfter DEF after
<1>16. Longer(made, after) /\ AllNumbered(after, p, base, kids, n)
  <2> HIDE DEF after, p
  <2> QED BY <1>6, <1>15, NodesNumbered
<1>17. Match(after, run, Wanted(only, walk))
  <2> HIDE DEF after
  <2> QED BY <1>2, <1>16, UpToSeen DEF run, walk, only
<1>18. AllTrue(after, nodes)
  <2> HIDE DEF after
  <2> QED BY <1>7, <1>16, TrueLonger
<1>19. TrueTo(after, N) /\ (isRoot => TrueTo(after, root1))
  <2> HIDE DEF after
  <2>1. TrueTo(after, N)
    BY <1>5, <1>8, <1>17, Zenon DEF TrueTo, only
  <2>2. isRoot => root1.children = run
    BY <1>4, <1>8, <1>9
  <2>3. isRoot => TrueTo(after, root1)
    BY <1>5, <1>8, <1>17, <2>2, Zenon DEF TrueTo, only
  <2> QED BY <2>1, <2>3
<1>20. AllTrue(after, X) /\ AllTrue(after, Y)
  <2> HIDE DEF after
  <2>1. AllTrue(after, << >>)
    BY DEF AllTrue
  <2>2. ASSUME NEW M, TrueTo(after, M) PROVE AllTrue(after, <<M>>)
    <3>1. Len(<<M>>) = 1 /\ \A x \in 1 .. 1 : <<M>>[x] = M
      OBVIOUS
    <3> QED BY <2>2, <3>1, Zenon DEF AllTrue
  <2> QED BY <1>9, <1>19, <2>1, <2>2
<1>21. AllTrue(after, list)
  <2> HIDE DEF after
  <2>1. AllTrue(after, nx)
    BY <1>10, <1>18, <1>20, TrueMore
  <2> HIDE DEF nx
  <2>2. AllTrue(after, nx \o Y)
    BY <1>10, <1>12, <1>20, <2>1, TrueMore
  <2> QED BY <2>2 DEF nx
<1>22. made' = after
  BY <1>1 DEF Report, X, Y
<1>23. ReportsMatchTree' /\ Longer(made, made')
  <2> HIDE DEF list
  <2> QED BY <1>12, <1>21, <1>22, ReportTrue DEF after
<1>24. Match(after, left, Wanted(only, Inner(t)))
  <2>1. CASE ~fold
    <3>1. Inner(t) = walk
      BY <1>5, <2>1, Zenon DEF Inner
    <3> QED BY <1>9, <1>17, <2>1, <3>1
  <2>2. CASE fold
    <3> DEFINE s == Sight(t, t.symbol, None)
               b == <<s>>
    <3>1. Inner(t) = b
      BY <1>5, <2>2, Zenon DEF Inner
    <3>2. s.tree = t /\ s.symbol = Public[t.symbol] /\ s.field = None /\ s.extra = t.extra
      BY DEF Sight
    <3>3. ~Omitted(only, s)
      <4>1. t.kids # << >>
        BY <1>5, <2>2 DEF Grown
      <4> QED BY <3>2, <4>1 DEF Omitted
    <3>4. Wanted(only, b) = b
      BY <3>3, WantedOne
    <3>5. value # NULL => value = Len(made) + (Len(nodes) + 1)
      BY DEF ValueOf
    <3>6. Len(made) + (Len(nodes) + 1) \in 1 .. Len(after) /\ after[Len(made) + (Len(nodes) + 1)] = N
      <4> DEFINE k == Len(nodes) + 1
      <4>3. Len(nodes \o <<N>>) = k /\ (nodes \o <<N>>)[k] = N
        BY <1>10, OneMore
      <4>2. nx = nodes \o <<N>>
        BY <1>9, <2>2
      <4>4. Len(nx) = k /\ nx[k] = N /\ k \in 1 .. k
        BY <1>10, <4>2, <4>3
      <4> HIDE DEF nx, list, k
      <4>5. k \in 1 .. Len(list) /\ list[k] = N
        BY <1>12, <4>4 DEF Longer
      <4>6. /\ Len(after) = Len(made) + Len(list) /\ Len(list) \in Nat
            /\ \A i \in 1 .. Len(list) : after[Len(made) + i] = list[i]
        BY <1>11, <1>12, Ends
      <4> HIDE DEF after
      <4>7. after[Len(made) + k] = N /\ Len(made) + k \in 1 .. Len(after)
        BY <1>11, <4>5, <4>6
      <4> QED BY <4>7 DEF k
    <3>7. entry.symbol = Public[rule.symbol] /\ entry.field = None /\ entry.extra = FALSE /\ entry.value = value
      OBVIOUS
    <3>8. Len(one) = 1 /\ Len(b) = 1 /\ \A c \in 1 .. Len(b) : one[c] = entry /\ b[c] = s
      <4> HIDE DEF entry, s
      <4> QED BY DEF one
    <3> HIDE DEF entry, s, value, after, b
    <3>9. Shows(after, entry, s)
      BY <1>5, <1>8, <3>2, <3>5, <3>6, <3>7 DEF Shows
    <3>10. Match(after, one, b)
      BY <3>8, <3>9 DEF Match
    <3> QED BY <1>9, <2>2, <3>1, <3>4, <3>10
  <2> QED BY <2>1, <2>2
<1>25. left \in Seq(Range(left))
  <2>1. one \in Seq({entry})
    <3> HIDE DEF entry
    <3> QED BY DEF one
  <2>2. run \in Seq(Range(run))
    <3> HIDE DEF after
    <3> QED BY <1>2, <1>16, UpToSeen DEF run
  <2>3. one \in Seq(Range(one))
    BY <2>1, SeqOfRange
  <2> QED BY <1>9, <2>2, <2>3
<1>26. Planted(rule, base, kids, place, fold, left)
  <2>1. Push(place, t, Len(left), p) /\ arena' = SubSeq(arena, 1, base) \o left
    BY <1>1 DEF t, left
  <2>2. Match(made', left, Wanted(only, Inner(t)))
    BY <1>22, <1>24
  <2> HIDE DEF after
  <2> QED BY <1>5, <1>25, <2>1, <2>2, Zenon DEF Planted, t, T, only
<1> QED BY <1>23, <1>26

-----------------------------------------------------------------------------
(* The stack: the entries each cell owns are what a walk shows there.      *)

Seeing(nodes, entries, x, c) ==
  LET seen == Wanted(named_only, Inner(c.tree)) IN
  /\ Len(seen) = c.children
  /\ \A j \in 1 .. c.children : Shows(nodes, entries[x + j], seen[j])

Standing(nodes, entries, cells) ==
  \A i \in 1 .. Len(cells) :
    Carried(cells[i]) /\ Seeing(nodes, entries, Owned(cells)[i - 1], cells[i])

(* The cell at b + i of the stack is the i-th child.                       *)
Taken(base, kids, b, i) ==
  /\ b + i \in 1 .. Len(stack) /\ kids[i] = stack[b + i]
  /\ Owned(stack)[b + i - 1] = base + Owned(kids)[i - 1]

(* Then it stands as a child too.                                          *)
LEMMA KidStands ==
  ASSUME Shape, Standing(made, arena, stack), NEW base, NEW kids, Kids(base, kids),
         NEW i \in 1 .. Len(kids), NEW b \in Nat, Taken(base, kids, b, i)
  PROVE  Carried(kids[i]) /\ ChildStands(base, kids, i)
<1> DEFINE c == kids[i]
           seen == Wanted(named_only, Inner(c.tree))
           run == Run(base, kids, i)
           x == base + Owned(kids)[i - 1]
<1>1. Carried(c) /\ Seeing(made, arena, x, c)
  <2>1. b + i \in 1 .. Len(stack) /\ c = stack[b + i] /\ Owned(stack)[b + i - 1] = x
    BY DEF Taken
  <2> DEFINE k == b + i
  <2> HIDE DEF k, x, c
  <2>2. k \in 1 .. Len(stack) /\ c = stack[k] /\ Owned(stack)[k - 1] = x
    BY <2>1 DEF k
  <2> QED BY <2>2 DEF Standing
<1>2. Len(seen) = c.children /\ \A j \in 1 .. c.children : Shows(made, arena[x + j], seen[j])
  BY <1>1 DEF Seeing
<1>3. /\ Len(run) = c.children
      /\ \A j \in 1 .. c.children : run[j] = arena[x + j]
  <2>1. TypeOK
    BY DEF Shape
  <2> QED BY <2>1, RunIs
<1> HIDE DEF c, seen, run, x
<1>4. Match(made, run, seen)
  BY <1>2, <1>3 DEF Match
<1> QED BY <1>1, <1>4 DEF ChildStands, c, seen, run

(* The children of an ordinary reduction are a rule's, and stand.          *)
LEMMA KidsStand ==
  ASSUME Shape, Owned(stack)[Len(stack)] = Len(arena), Standing(made, arena, stack),
         NEW b \in 0 .. Len(stack), NEW e \in b .. Len(stack), \A i \in e + 1 .. Len(stack) : stack[i].extra,
         NEW rule, Spelled(SubSeq(stack, b + 1, e)) = rule.kids
  PROVE  LET kids == SubSeq(stack, b + 1, e)
             base == Len(arena) - Owned(kids)[Len(kids)]
         IN  Kids(base, kids) /\ base = Owned(stack)[b] /\ Fitting(rule, kids) /\ AllStand(base, kids)
             /\ Len(kids) = e - b
<1> DEFINE kids == SubSeq(stack, b + 1, e)
           base == Len(arena) - Owned(kids)[Len(kids)]
           n == Len(stack)
           m == b + 1
<1>1. Cells(stack) /\ n \in Nat /\ b \in Nat /\ e \in Nat /\ b <= e /\ e <= n
  BY DEF Shape, Cells, Rated
<1>2. Kids(base, kids) /\ base = Owned(stack)[b]
  BY KidsAre
<1>3. /\ Cells(kids) /\ Len(kids) = e - b
      /\ \A i \in 1 .. e - b : kids[i] = stack[b + i]
  <2>1. m \in 1 .. n + 1 /\ e \in 0 .. n /\ m <= e + 1 /\ e + 1 - m = e - b
        /\ \A i \in 1 .. e - b : m - 1 + i = b + i
    BY <1>1
  <2> HIDE DEF m
  <2>2. /\ Cells(SubSeq(stack, m, e)) /\ Len(SubSeq(stack, m, e)) = e + 1 - m
        /\ \A i \in 1 .. e + 1 - m : SubSeq(stack, m, e)[i] = stack[m - 1 + i]
    BY <1>1, <2>1, CellsOf
  <2> QED BY <2>1, <2>2 DEF m
<1> HIDE DEF kids, base
<1>4. Offset(Owned(stack), Owned(kids), b, Len(kids))
  <2>1. /\ Cells(stack) /\ Cells(kids) /\ b \in Nat /\ b + Len(kids) <= Len(stack)
        /\ \A i \in 1 .. Len(kids) : stack[b + i].children = kids[i].children
    BY <1>1, <1>3
  <2> HIDE DEF n
  <2> QED BY <2>1, OwnedPiece, Zenon
<1>5. ASSUME NEW i \in 1 .. Len(kids) PROVE Taken(base, kids, b, i)
  <2>1. b + i \in 1 .. Len(stack) /\ i \in 1 .. e - b /\ i - 1 \in 0 .. Len(kids) /\ b + (i - 1) = b + i - 1
    BY <1>1, <1>3
  <2>2. Owned(stack)[b + (i - 1)] = Owned(stack)[b] + Owned(kids)[i - 1]
    BY <1>4, <2>1 DEF Offset
  <2> QED BY <1>2, <1>3, <2>1, <2>2 DEF Taken
<1>6. \A i \in 1 .. Len(kids) : Carried(kids[i]) /\ ChildStands(base, kids, i)
  BY <1>1, <1>2, <1>5, KidStands
<1>7. Spelled(kids) = rule.kids
  BY DEF kids
<1>8. \A i \in 1 .. Len(kids) : ~kids[i].extra =>
        Index(kids, i) \in DOMAIN rule.kids /\ rule.kids[Index(kids, i)] = kids[i].symbol
  <2>1. Len(kids) \in Nat
    BY <1>3 DEF Cells, Rated
  <2> QED BY <1>7, <2>1, SpelledIs
<1> QED BY <1>2, <1>3, <1>6, <1>8 DEF Fitting, AllStand, kids, base

(* A leaf and its cell.                                                    *)
LEMMA LeafStands ==
  ASSUME NEW symbol \in Terminal, NEW extra \in BOOLEAN
  PROVE  LET c == tf_filter__store_cell(symbol, extra, 0, 0, Leaf(symbol, extra)) IN
         /\ Carried(c) /\ c.extra = extra /\ c.symbol = symbol /\ c.children = 0
         /\ Wanted(named_only, Inner(c.tree)) = << >>
<1> DEFINE t == Leaf(symbol, extra)
           c == tf_filter__store_cell(symbol, extra, 0, 0, t)
<1>1. /\ t.symbol = symbol /\ t.extra = extra /\ t.production = 0 /\ t.kids = << >> /\ t.walk = << >>
      /\ t.folded = FALSE
  BY DEF Leaf
<1> HIDE DEF t
<1>2. c.symbol = symbol /\ c.extra = extra /\ c.production = 0 /\ c.children = 0 /\ c.tree = t
  BY DEF tf_filter__store_cell
<1> HIDE DEF c
<1>3. Plain(<< >>) /\ IsWalk(<< >>)
  BY OneWalk DEF Plain
<1>4. Grown(t)
  BY <1>1, <1>3, Zenon DEF Grown
<1>5. Carried(c)
  BY <1>1, <1>2, <1>4 DEF Carried
<1>6. Inner(t) = << >>
  BY <1>1 DEF Inner
<1>7. Wanted(named_only, << >>) = << >>
  BY WantedOne
<1> QED BY <1>2, <1>5, <1>6, <1>7 DEF c, t

(* The children of the root too.                                           *)
LEMMA RootKidsStand ==
  ASSUME Shape, Owned(stack)[Len(stack)] = Len(arena), Standing(made, arena, stack),
         NEW b \in 0 .. Len(stack), NEW e \in b .. Len(stack), \A i \in e + 1 .. Len(stack) : stack[i].extra,
         \A i \in 1 .. b : stack[i].extra, NEW rule, Spelled(SubSeq(stack, b + 1, e)) = rule.kids
  PROVE  LET kids == Append(stack, tf_filter__store_cell(End, TRUE, 0, 0, Leaf(End, TRUE)))
             base == Len(arena) - Owned(kids)[Len(kids)]
         IN  Kids(base, kids) /\ base = 0 /\ Fitting(rule, kids) /\ AllStand(base, kids)
<1> DEFINE c == tf_filter__store_cell(End, TRUE, 0, 0, Leaf(End, TRUE))
           kids == Append(stack, c)
           base == Len(arena) - Owned(kids)[Len(kids)]
           n == Len(stack)
           m == b + 1
           piece == SubSeq(stack, m, e)
           z == 0
<1>1. /\ Cells(stack) /\ n \in Nat /\ b \in Nat /\ e \in Nat /\ b <= e /\ e <= n
      /\ stack \in Seq(Range(stack))
  BY DEF Shape, Cells, Rated
<1>2. Kids(base, kids) /\ base = 0
  BY RootKidsAre
<1>3. /\ Carried(c) /\ c.extra = TRUE /\ c.symbol = End /\ c.children = 0
      /\ Wanted(named_only, Inner(c.tree)) = << >>
  <2>1. End \in Terminal
    BY DEF Terminal
  <2> QED BY <2>1, LeafStands
<1> HIDE DEF c
<1>4. /\ Cells(kids) /\ Len(kids) = n + 1 /\ \A i \in 1 .. n : kids[i] = stack[i]
      /\ kids[n + 1] = c
  <2> DEFINE S == Range(stack) \cup {c}
  <2>1. stack \in Seq(S) /\ c \in S
    BY <1>1, SeqMonotonic
  <2> HIDE DEF S, kids
  <2>2. Len(kids) = n + 1 /\ (\A i \in 1 .. n : kids[i] = stack[i]) /\ kids[n + 1] = c
    BY <1>1, <2>1, AppendProperties DEF kids
  <2> QED BY <1>2, <2>2 DEF Kids
<1>5. /\ Cells(piece) /\ Len(piece) = e - b
      /\ \A i \in 1 .. e - b : piece[i] = stack[b + i]
  <2>1. m \in 1 .. n + 1 /\ e \in 0 .. n /\ m <= e + 1 /\ e + 1 - m = e - b
        /\ \A i \in 1 .. e - b : m - 1 + i = b + i
    BY <1>1
  <2> HIDE DEF m
  <2>2. /\ Cells(SubSeq(stack, m, e)) /\ Len(SubSeq(stack, m, e)) = e + 1 - m
        /\ \A i \in 1 .. e + 1 - m : SubSeq(stack, m, e)[i] = stack[m - 1 + i]
    BY <1>1, <2>1, CellsOf
  <2> QED BY <2>1, <2>2 DEF m
<1>6. Spelled(piece) = rule.kids
  OBVIOUS
<1> HIDE DEF kids, base, piece, m
<1>7. Offset(Owned(kids), Owned(stack), 0, n)
  <2>1. /\ z \in Nat /\ z + Len(stack) <= Len(kids)
        /\ \A i \in 1 .. Len(stack) : kids[z + i].children = stack[i].children
    BY <1>1, <1>4
  <2> HIDE DEF z, n
  <2>2. Offset(Owned(kids), Owned(stack), z, Len(stack))
    BY <1>1, <1>4, <2>1, OwnedPiece, Zenon
  <2> QED BY <2>2 DEF z, n
<1>8. Owned(kids)[0] = 0
  BY <1>4, OwnedUpTo
<1>9. ASSUME NEW i \in 1 .. n PROVE Taken(base, kids, z, i)
  <2>1. z + i \in 1 .. Len(stack) /\ z + i = i /\ i - 1 \in 0 .. n /\ 0 + (i - 1) = i - 1 /\ z + i - 1 = i - 1
    BY <1>1
  <2>2. Owned(kids)[0 + (i - 1)] = Owned(kids)[0] + Owned(stack)[i - 1] /\ Owned(stack)[i - 1] \in Nat
    BY <1>1, <1>7, <2>1, OwnedUpTo DEF Offset
  <2>3. Owned(stack)[z + i - 1] = base + Owned(kids)[i - 1]
    BY <1>2, <1>8, <2>1, <2>2
  <2>4. kids[i] = stack[z + i]
    BY <1>4, <2>1
  <2> HIDE DEF z
  <2> QED BY <2>1, <2>3, <2>4 DEF Taken
<1>10. \A i \in 1 .. Len(kids) : Carried(kids[i]) /\ ChildStands(base, kids, i)
  <2> SUFFICES ASSUME NEW i \in 1 .. Len(kids) PROVE Carried(kids[i]) /\ ChildStands(base, kids, i)
    OBVIOUS
  <2>1. CASE i \in 1 .. n
    <3>1. Taken(base, kids, z, i) /\ z \in Nat
      BY <1>9, <2>1
    <3> HIDE DEF z
    <3> QED BY <1>2, <3>1, KidStands
  <2>2. CASE i = n + 1
    <3>1. kids[i] = c
      BY <1>4, <2>2
    <3>2. Len(Run(base, kids, i)) = 0
      <4>1. TypeOK
        BY DEF Shape
      <4> QED BY <1>2, <1>3, <3>1, <4>1, RunIs
    <3>3. Len(<< >>) = 0 /\ 1 .. 0 = {}
      OBVIOUS
    <3>4. ChildStands(base, kids, i)
      BY <1>3, <3>1, <3>2, <3>3 DEF ChildStands, Match
    <3> QED BY <1>3, <3>1, <3>4
  <2> QED BY <1>1, <1>4, <2>1, <2>2
<1>11. ASSUME NEW i \in 1 .. Len(kids), ~kids[i].extra
       PROVE  Index(kids, i) \in DOMAIN rule.kids /\ rule.kids[Index(kids, i)] = kids[i].symbol
  <2>1. i \in 1 .. n /\ kids[i] = stack[i]
    <3>1. i # n + 1
      BY <1>3, <1>4, <1>11
    <3> QED BY <1>1, <1>4, <3>1
  <2>2. b < i /\ i <= e
    <3>1. ~(i \in 1 .. b) /\ ~(i \in e + 1 .. Len(stack))
      BY <1>11, <2>1
    <3> QED BY <1>1, <2>1, <3>1
  <2> DEFINE j == i - b
  <2>3. j \in 1 .. Len(piece) /\ b + j = i /\ j \in 0 .. Len(piece)
    BY <1>1, <1>5, <2>1, <2>2
  <2>4. piece[j] = kids[i]
    BY <1>5, <2>1, <2>3
  <2> HIDE DEF j
  <2>5. Among(kids, b, piece)
    <3>1. \A x \in 1 .. b : x \in 1 .. n /\ kids[x].extra
      BY <1>1, <1>4
    <3>2. \A x \in 1 .. Len(piece) : b + x \in 1 .. n /\ kids[b + x] = piece[x]
      BY <1>1, <1>4, <1>5
    <3>3. Len(piece) \in Nat
      BY <1>1, <1>5
    <3> QED BY <1>1, <3>1, <3>2, <3>3 DEF Among
  <2>6. Index(kids, i) = Index(piece, j)
    <3>1. Index(kids, b + j) = Index(piece, j)
      BY <2>3, <2>5, AmongIndex
    <3> QED BY <2>3, <3>1
  <2>7. Index(piece, j) \in DOMAIN Spelled(piece) /\ Spelled(piece)[Index(piece, j)] = piece[j].symbol
    <3>1. Len(piece) \in Nat /\ ~piece[j].extra
      BY <1>1, <1>5, <1>11, <2>4
    <3> QED BY <2>3, <3>1, SpelledIs
  <2> QED BY <1>6, <2>4, <2>6, <2>7
<1> QED BY <1>2, <1>10, <1>11 DEF Fitting, AllStand, kids, base, c

(* The entries below are where they were.                                  *)
LEMMA SeeingKept ==
  ASSUME NEW nodes, NEW after, Longer(nodes, after), NEW entries, NEW next, NEW x \in Nat, NEW c,
         c.children \in Nat, \A j \in 1 .. c.children : next[x + j] = entries[x + j],
         Seeing(nodes, entries, x, c)
  PROVE  Seeing(after, next, x, c)
<1> DEFINE seen == Wanted(named_only, Inner(c.tree))
<1>1. Len(seen) = c.children /\ \A j \in 1 .. c.children : Shows(nodes, entries[x + j], seen[j])
  BY DEF Seeing
<1> HIDE DEF seen
<1>2. \A j \in 1 .. c.children : Shows(after, next[x + j], seen[j])
  BY <1>1, ShowsLonger
<1> QED BY <1>1, <1>2 DEF Seeing, seen

(* After a reduction each cell stands.                                     *)
LEMMA ReduceStands ==
  ASSUME Shape, Owned(stack)[Len(stack)] = Len(arena), Standing(made, arena, stack),
         NEW b \in 0 .. Len(stack), NEW e \in b .. Len(stack), \A i \in e + 1 .. Len(stack) : stack[i].extra,
         NEW rule, rule \in Rule, NEW kids, NEW f \in BOOLEAN, NEW left,
         Planted(rule, Owned(stack)[b], kids, Place(b, e), f, left), Longer(made, made')
  PROVE  Standing(made', arena', stack')
<1> DEFINE n == Len(stack)
           base == Owned(stack)[b]
           t == GrownTo(rule, kids, f)
           p == rule.production
           m == Len(left)
           c == tf_filter__store_cell(t.symbol, FALSE, m, p, t)
           z == 0
           below == SubSeq(arena, 1, base)
           low == SubSeq(stack, 1, b)
<1>1. /\ Push(Place(b, e), t, m, p)
      /\ arena' = below \o left /\ left \in Seq(Range(left))
      /\ Grown(t) /\ t.symbol = rule.symbol /\ t.production = p /\ t.extra = FALSE
      /\ Match(made', left, Wanted(named_only, Inner(t)))
  BY Zenon DEF Planted
<1>2. Cells(stack) /\ n \in Nat /\ b \in Nat /\ e \in Nat /\ b <= e /\ e <= n /\ arena \in Seq(Entry)
  BY DEF Shape, Cells, Rated, TypeOK
<1>3. /\ base \in Nat /\ base <= Len(arena) /\ Len(arena) \in Nat /\ Owned(stack)[0] = 0
      /\ \A i \in 0 .. n : Owned(stack)[i] \in Nat
      /\ \A i \in 1 .. n : /\ stack[i].children \in Nat
                           /\ Owned(stack)[i] = Owned(stack)[i - 1] + stack[i].children
  BY <1>2, OwnedUpTo, LenProperties
<1>4. m \in Nat
  BY <1>1, LenProperties
<1>5. rule.symbol \in DOMAIN Public /\ rule.symbol \notin Terminal
  BY RuleRows
<1> HIDE DEF t, m, p, base
<1>6. Cells(stack') /\ Pushed(b, e, c)
  BY <1>1, <1>2, <1>4, <1>5, PushIs
<1>7. /\ Len(arena') = base + m
      /\ \A i \in 1 .. base : arena'[i] = arena[i]
      /\ \A i \in 1 .. m : arena'[base + i] = left[i]
  <2>1. below \in Seq(Entry) /\ Len(below) = base /\ \A i \in 1 .. base : below[i] = arena[i]
    BY <1>2, <1>3, SubSeqProperties
  <2> HIDE DEF below
  <2>2. /\ Len(below \o left) = Len(below) + Len(left)
        /\ \A i \in 1 .. Len(below) : (below \o left)[i] = below[i]
        /\ \A i \in 1 .. Len(left) : (below \o left)[Len(below) + i] = left[i]
    <3> DEFINE R == Range(left)
    <3>1. left \in Seq(R) /\ below \in Seq(Entry)
      BY <1>1, <2>1
    <3> HIDE DEF R
    <3> QED BY <3>1, Ends
  <2> QED BY <1>1, <2>1, <2>2 DEF m
<1>8. c.symbol = rule.symbol /\ c.extra = FALSE /\ c.children = m /\ c.production = p /\ c.tree = t
  BY <1>1 DEF tf_filter__store_cell
<1> HIDE DEF c, below
<1>9. \A i \in 0 .. b : Owned(stack')[i] = Owned(stack)[i]
  <2>1. /\ Cells(low) /\ Len(low) = b /\ \A i \in 1 .. b : low[i] = stack[i]
    <3> DEFINE o == 1
    <3>1. o \in 1 .. Len(stack) + 1 /\ b \in 0 .. Len(stack) /\ o <= b + 1 /\ b + 1 - o = b
          /\ \A i \in 1 .. b : o - 1 + i = i
      BY <1>2
    <3> HIDE DEF o
    <3>2. /\ Cells(SubSeq(stack, o, b)) /\ Len(SubSeq(stack, o, b)) = b + 1 - o
          /\ \A i \in 1 .. b + 1 - o : SubSeq(stack, o, b)[i] = stack[o - 1 + i]
      BY <1>2, <3>1, CellsOf
    <3> QED BY <3>1, <3>2 DEF o
  <2> HIDE DEF low
  <2>2. \A i \in 1 .. b : stack'[i] = stack[i] /\ i \in 1 .. n
    BY <1>2, <1>6 DEF Pushed
  <2>3. z \in Nat /\ z + Len(low) <= Len(stack) /\ z + Len(low) <= Len(stack')
        /\ (\A i \in 1 .. Len(low) : stack[z + i].children = low[i].children)
        /\ (\A i \in 1 .. Len(low) : stack'[z + i].children = low[i].children)
    BY <1>2, <1>6, <2>1, <2>2 DEF Pushed
  <2> HIDE DEF z
  <2>4. Offset(Owned(stack), Owned(low), z, Len(low))
    BY <1>2, <2>1, <2>3, OwnedPiece, Zenon
  <2>5. Offset(Owned(stack'), Owned(low), z, Len(low))
    BY <1>6, <2>1, <2>3, OwnedPiece, Zenon
  <2>6. Owned(stack')[0] = 0
    BY <1>6, OwnedUpTo
  <2>7. \A i \in 0 .. b : z + i = i
    BY <1>2 DEF z
  <2> QED BY <1>3, <2>1, <2>4, <2>5, <2>6, <2>7 DEF Offset, z
<1>10. Len(stack') = b + 1 + (n - e)
       /\ (\A i \in 1 .. b : stack'[i] = stack[i])
       /\ stack'[b + 1] = c
       /\ (\A i \in 1 .. n - e : stack'[b + 1 + i] = stack[e + i])
  BY <1>6 DEF Pushed
<1>11. ASSUME NEW i \in 1 .. Len(stack')
       PROVE  Carried(stack'[i]) /\ Seeing(made', arena', Owned(stack')[i - 1], stack'[i])
  <2>1. \/ i \in 1 .. b
        \/ i = b + 1
        \/ i - (b + 1) \in 1 .. n - e /\ b + 1 + (i - (b + 1)) = i
    <3>1. i \in 1 .. b + 1 + (n - e)
      BY <1>10
    <3> HIDE DEF n
    <3> QED BY <1>2, <3>1
  <2>2. CASE i \in 1 .. b
    <3> DEFINE x == Owned(stack)[i - 1]
               d == stack[i]
    <3>1. i \in 1 .. n /\ i - 1 \in 0 .. b /\ i - 1 \in 0 .. n /\ i \in 0 .. b /\ b \in 0 .. n
      BY <1>2, <2>2
    <3>2. stack'[i] = d /\ Owned(stack')[i - 1] = x
      BY <1>9, <1>10, <2>2, <3>1
    <3>3. Carried(d) /\ Seeing(made, arena, x, d)
      BY <3>1 DEF Standing
    <3>4. x \in Nat /\ d.children \in Nat /\ Owned(stack)[i] = x + d.children
      BY <1>3, <3>1
    <3>5. Owned(stack)[i] <= base
      <4>1. Rated(stack)
        BY <1>2 DEF Cells
      <4>2. Adds(Owned(stack), Widths(stack), n)
        BY <4>1, OwnedAdds
      <4> HIDE DEF n
      <4>3. Owned(stack)[i] <= Owned(stack)[b]
        BY <1>2, <3>1, <4>2, AddsGrow
      <4> QED BY <4>3 DEF base
    <3> HIDE DEF x, d
    <3>6. \A j \in 1 .. d.children : x + j \in 1 .. base
      BY <1>3, <3>4, <3>5
    <3>7. \A j \in 1 .. d.children : arena'[x + j] = arena[x + j]
      BY <1>7, <3>6
    <3>8. Seeing(made', arena', x, d)
      BY <3>3, <3>4, <3>7, SeeingKept
    <3> QED BY <3>2, <3>3, <3>8
  <2>3. CASE i = b + 1
    <3>1. i - 1 = b /\ b \in 0 .. b
      BY <1>2, <2>3
    <3>2. stack'[i] = c /\ Owned(stack')[i - 1] = base
      BY <1>9, <1>10, <2>3, <3>1 DEF base
    <3>3. Carried(c)
      BY <1>1, <1>5, <1>8 DEF Carried
    <3>4. Seeing(made', arena', base, c)
      <4> DEFINE seen == Wanted(named_only, Inner(t))
      <4>1. Len(left) = Len(seen) /\ \A j \in 1 .. Len(seen) : Shows(made', left[j], seen[j])
        BY <1>1 DEF Match
      <4> HIDE DEF seen
      <4>2. Len(seen) = m /\ \A j \in 1 .. m : Shows(made', arena'[base + j], seen[j])
        BY <1>7, <4>1 DEF m
      <4> QED BY <1>8, <4>2 DEF Seeing, seen
    <3> QED BY <3>2, <3>3, <3>4
  <2>4. CASE i - (b + 1) \in 1 .. n - e /\ b + 1 + (i - (b + 1)) = i
    <3> DEFINE k == e + (i - (b + 1))
               d == stack[k]
    <3>1. k \in 1 .. n /\ k \in e + 1 .. Len(stack)
      BY <1>2, <2>4
    <3>2. stack'[i] = d
      BY <1>10, <2>4
    <3> HIDE DEF k
    <3>3. Carried(d) /\ Seeing(made, arena, Owned(stack)[k - 1], d) /\ d.extra
      BY <3>1 DEF Standing
    <3>4. d.children = 0
      BY <3>3 DEF Carried
    <3> HIDE DEF d
    <3>5. Seeing(made', arena', Owned(stack')[i - 1], d)
      BY <3>3, <3>4 DEF Seeing
    <3> QED BY <3>2, <3>3, <3>5
  <2> QED BY <2>1, <2>2, <2>3, <2>4
<1> QED BY <1>11 DEF Standing

(* A token's cell stands on top, and those below it still do.              *)
LEMMA ShiftStands ==
  ASSUME Shape, Standing(made, arena, stack), NEW c, c.extra \in BOOLEAN, c.symbol \in DOMAIN Public,
         c.children = 0, Carried(c), Wanted(named_only, Inner(c.tree)) = << >>
  PROVE  Standing(made, arena, Append(stack, c))
<1> DEFINE more == Append(stack, c)
           n == Len(stack)
           z == 0
<1>1. Cells(stack) /\ n \in Nat /\ stack \in Seq(Range(stack))
  BY DEF Shape, Cells, Rated
<1>2. Cells(more)
  BY <1>1, AppendIs
<1>3. Len(more) = n + 1 /\ (\A i \in 1 .. n : more[i] = stack[i]) /\ more[n + 1] = c
  <2> DEFINE S == Range(stack) \cup {c}
  <2>1. stack \in Seq(S) /\ c \in S
    BY <1>1, SeqMonotonic
  <2> HIDE DEF S, more
  <2> QED BY <1>1, <2>1, AppendProperties DEF more
<1> HIDE DEF more
<1>4. Offset(Owned(more), Owned(stack), 0, n)
  <2>1. /\ z \in Nat /\ z + Len(stack) <= Len(more)
        /\ \A i \in 1 .. Len(stack) : more[z + i].children = stack[i].children
    BY <1>1, <1>3
  <2> HIDE DEF z, n
  <2>2. Offset(Owned(more), Owned(stack), z, Len(stack))
    BY <1>1, <1>2, <2>1, OwnedPiece, Zenon
  <2> QED BY <2>2 DEF z, n
<1>5. Owned(more)[0] = 0
  BY <1>2, OwnedUpTo
<1>6. ASSUME NEW i \in 1 .. Len(more)
      PROVE  Carried(more[i]) /\ Seeing(made, arena, Owned(more)[i - 1], more[i])
  <2>1. CASE i \in 1 .. n
    <3>1. i - 1 \in 0 .. n /\ 0 + (i - 1) = i - 1
      BY <1>1, <2>1
    <3>2. Owned(more)[i - 1] = Owned(stack)[i - 1]
      <4>1. Owned(more)[0 + (i - 1)] = Owned(more)[0] + Owned(stack)[i - 1]
            /\ Owned(stack)[i - 1] \in Nat
        BY <1>1, <1>4, <3>1, OwnedUpTo DEF Offset
      <4> QED BY <1>5, <3>1, <4>1
    <3>3. more[i] = stack[i]
      BY <1>3, <2>1
    <3>4. Carried(stack[i]) /\ Seeing(made, arena, Owned(stack)[i - 1], stack[i])
      BY <2>1 DEF Standing
    <3> QED BY <3>2, <3>3, <3>4
  <2>2. CASE i = n + 1
    <3>1. more[i] = c
      BY <1>3, <2>2
    <3>2. Len(<< >>) = 0 /\ 1 .. 0 = {}
      OBVIOUS
    <3>3. Seeing(made, arena, Owned(more)[i - 1], c)
      BY <3>2 DEF Seeing
    <3> QED BY <3>1, <3>3
  <2> QED BY <1>1, <1>3, <2>1, <2>2
<1> QED BY <1>6 DEF Standing, more

-----------------------------------------------------------------------------
(* The strengthening: besides, what the arena holds is true.               *)

Sees == ReportsMatchTree /\ (pc = "parse" /\ ~failed => Standing(made, arena, stack))

(* The trees and the walks do not depend on the state.                     *)
LEMMA SeesNext ==
  ASSUME named_only' = named_only, ReportsMatchTree',
         pc' = "parse" /\ ~failed' => Standing(made', arena', stack')
  PROVE  Sees'
<1>1. Bare' = Bare
  BY DEF Bare
<1>2. pc' = "parse" /\ ~failed' => Standing(made, arena, stack)'
  BY <1>1 DEF Standing, Seeing, Carried, Grown, Owned, Owns
<1> QED BY <1>2 DEF Sees

(* At first there is nothing to be wrong about.                            *)
LEMMA InitSees == Init => Sees
<1> SUFFICES ASSUME Init PROVE Sees
  OBVIOUS
<1>1. made = << >> /\ stack = << >>
  BY DEF Init
<1>2. Len(<< >>) = 0 /\ DOMAIN << >> = {} /\ 1 .. 0 = {}
  OBVIOUS
<1> QED BY <1>1, <1>2 DEF Sees, ReportsMatchTree, Standing

(* Whether the names fit does not depend on the state but for named_only.   *)
LEMMA NamesFitStay == named_only' = named_only => (NamesFit' <=> NamesFit)
BY DEF NamesFit

(* A token is put on the stack.                                            *)
LEMMA ShiftSees == IInv /\ Sees /\ Shift => Sees'
<1> SUFFICES ASSUME IInv, Sees, Shift PROVE Sees'
  OBVIOUS
<1>1. pc = "parse" /\ UNCHANGED <<named_only, pc, ok, root, filtervars>>
  BY DEF Shift
<1>2. PICK symbol \in Token, extra \in BOOLEAN :
        stack' = Append(stack, tf_filter__store_cell(symbol, extra, 0, 0, Leaf(symbol, extra)))
  BY DEF Shift
<1> DEFINE c == tf_filter__store_cell(symbol, extra, 0, 0, Leaf(symbol, extra))
<1>3. symbol \in Terminal /\ symbol \in DOMAIN Public
  BY FilterAssumption DEF FilterAssumption, Terminal
<1>4. /\ Carried(c) /\ c.extra = extra /\ c.symbol = symbol /\ c.children = 0
      /\ Wanted(named_only, Inner(c.tree)) = << >>
  BY <1>3, LeafStands
<1>5. stack' = Append(stack, c)
  BY <1>2
<1> HIDE DEF c
<1>6. pc' = pc /\ named_only' = named_only /\ made' = made /\ arena' = arena /\ failed' = failed
  BY <1>1 DEF filtervars
<1>7. ReportsMatchTree'
  BY <1>6 DEF Sees, ReportsMatchTree, ShownAsSeen
<1>8. ASSUME pc' = "parse", ~failed' PROVE Standing(made', arena', stack')
  <2>1. Shape /\ Standing(made, arena, stack)
    BY <1>6, <1>8 DEF IInv, Sees
  <2> QED BY <1>3, <1>4, <1>5, <1>6, <2>1, ShiftStands
<1> QED BY <1>6, <1>7, <1>8, SeesNext

(* A reduction reports its children, and leaves what its tree shows.       *)
LEMMA ReduceSees == IInv /\ NamesFit /\ Sees /\ Reduce => Sees'
<1> SUFFICES ASSUME IInv, NamesFit, Sees, Reduce PROVE Sees'
  OBVIOUS
<1>1. pc = "parse" /\ pc' = pc /\ ok' = ok /\ named_only' = named_only
  BY DEF Reduce
<1>2. PICK rule \in Rule, b \in 0 .. Len(stack), e \in 0 .. Len(stack) :
        /\ Reducible(rule, b, e)
        /\ tf_filter__on_reduce(TreeOf(rule, SubSeq(stack, b + 1, e)), SubSeq(stack, b + 1, e),
                                FALSE, Place(b, e))
  BY DEF Reduce, Place
<1> DEFINE kids == SubSeq(stack, b + 1, e)
           tree == TreeOf(rule, kids)
           base == Len(arena) - Owned(kids)[Len(kids)]
<1>3. /\ Shape /\ failed \in BOOLEAN /\ ReportsMatchTree
      /\ ~failed => Owned(stack)[Len(stack)] = Len(arena) /\ Standing(made, arena, stack)
  BY <1>1, Underway DEF Sees
<1>4. /\ b \in 0 .. Len(stack) /\ e \in b .. Len(stack) /\ b \in Nat /\ e \in Nat
      /\ \A i \in e + 1 .. Len(stack) : stack[i].extra
      /\ Spelled(SubSeq(stack, b + 1, e)) = rule.kids
  <2>1. Len(stack) \in Nat
    BY <1>3 DEF Shape, Cells, Rated
  <2> QED BY <1>2, <2>1 DEF Reducible
<1>5. ~failed => /\ Kids(base, kids) /\ base = Owned(stack)[b] /\ Fitting(rule, kids) /\ AllStand(base, kids)
  <2> SUFFICES ASSUME ~failed PROVE /\ Kids(base, kids) /\ base = Owned(stack)[b] /\ Fitting(rule, kids)
                                    /\ AllStand(base, kids)
    OBVIOUS
  <2>1. /\ Kids(base, kids) /\ base = Owned(stack)[b] /\ Fitting(rule, kids) /\ AllStand(base, kids)
    BY <1>3, <1>4, KidsStand, Zenon
  <2> QED BY <1>4, <2>1
<1>6. tree.production = rule.production
  BY DEF TreeOf, Tree
<1>7. tf_filter__on_reduce(tree, kids, FALSE, Place(b, e))
  BY <1>2, Zenon
<1>8. CASE failed /\ Push(Place(b, e), tree, 0, 0) /\ UNCHANGED <<root, filtervars>>
  <2>1. made' = made /\ failed' = failed
    BY <1>8 DEF filtervars
  <2>2. ReportsMatchTree'
    BY <1>1, <1>3, <2>1 DEF ReportsMatchTree, ShownAsSeen
  <2> QED BY <1>1, <1>8, <2>1, <2>2, SeesNext
<1>9. CASE /\ ~failed /\ OutOfMemory(tree.production, base, kids) /\ Push(Place(b, e), tree, 0, 0)
           /\ root' = root
  <2> HIDE DEF tree, base, kids
  <2>1. OutOfMemory(rule.production, base, kids)
    BY <1>6, <1>9
  <2>2. ReportsMatchTree'
    BY <1>1, <1>3, <1>5, <1>9, <2>1, FailsTrue
  <2>3. failed' = TRUE
    BY <2>1 DEF OutOfMemory, FailsAt
  <2> QED BY <1>1, <2>2, <2>3, SeesNext
<1>10. CASE ~failed /\ Settles(tree, base, kids, FALSE, Place(b, e))
  <2> DEFINE place == Place(b, e)
  <2>1. Settles(TreeOf(rule, kids), base, kids, FALSE, place) /\ FALSE \in BOOLEAN
    BY <1>10
  <2> HIDE DEF tree, base, kids, place
  <2>2. /\ ReportsMatchTree' /\ Longer(made, made')
        /\ \E f \in BOOLEAN : \E left : Planted(rule, base, kids, place, f, left)
    BY <1>1, <1>3, <1>5, <1>10, <2>1, SettlesTrue, Zenon
  <2>3. PICK f \in BOOLEAN : \E left : Planted(rule, base, kids, place, f, left)
    BY <2>2
  <2>4. PICK left : Planted(rule, base, kids, place, f, left)
    BY <2>3
  <2>5. Planted(rule, Owned(stack)[b], kids, Place(b, e), f, left)
    BY <1>5, <1>10, <2>4 DEF place
  <2>6. Standing(made', arena', stack')
    BY <1>3, <1>4, <1>10, <2>2, <2>5, ReduceStands, Zenon
  <2> QED BY <1>1, <2>2, <2>6, SeesNext
<1> QED
  <2> HIDE DEF tree, base, kids
  <2>1. base = Len(arena) - Owned(kids)[Len(kids)]
    BY DEF base
  <2> QED BY <1>7, <1>8, <1>9, <1>10, <2>1, Zenon DEF tf_filter__on_reduce

(* So does the last one, which may report the root and its fold too.       *)
LEMMA ReduceRootSees == IInv /\ NamesFit /\ Sees /\ ReduceRoot => Sees'
<1> SUFFICES ASSUME IInv, NamesFit, Sees, ReduceRoot PROVE Sees'
  OBVIOUS
<1> DEFINE kids == Append(stack, tf_filter__store_cell(End, TRUE, 0, 0, Leaf(End, TRUE)))
           base == Len(arena) - Owned(kids)[Len(kids)]
<1>1. pc = "parse" /\ pc' = "end" /\ pc' # "parse" /\ named_only' = named_only
  BY DEF ReduceRoot
<1>2. PICK rule \in Rule, b \in 0 .. Len(stack), e \in 0 .. Len(stack) :
        /\ rule.symbol = RootSymbol /\ Reducible(rule, b, e)
        /\ \A i \in 1 .. b : stack[i].extra
        /\ tf_filter__on_reduce(TreeOf(rule, kids), kids, TRUE, Place(b, e))
  BY DEF ReduceRoot, Place
<1> DEFINE tree == TreeOf(rule, kids)
<1>3. /\ Shape /\ failed \in BOOLEAN /\ ReportsMatchTree
      /\ ~failed => Owned(stack)[Len(stack)] = Len(arena) /\ Standing(made, arena, stack)
  BY <1>1, Underway DEF Sees
<1>4. /\ b \in 0 .. Len(stack) /\ e \in b .. Len(stack)
      /\ \A i \in e + 1 .. Len(stack) : stack[i].extra
      /\ Spelled(SubSeq(stack, b + 1, e)) = rule.kids
  <2>1. Len(stack) \in Nat
    BY <1>3 DEF Shape, Cells, Rated
  <2> QED BY <1>2, <2>1 DEF Reducible
<1>5. ~failed => /\ Kids(base, kids) /\ Fitting(rule, kids) /\ AllStand(base, kids)
  BY <1>2, <1>3, <1>4, RootKidsStand, Zenon
<1>6. tree.production = rule.production
  BY DEF TreeOf, Tree
<1>7. tf_filter__on_reduce(tree, kids, TRUE, Place(b, e))
  BY <1>2, Zenon
<1>8. CASE failed /\ Push(Place(b, e), tree, 0, 0) /\ UNCHANGED <<root, filtervars>>
  <2>1. made' = made
    BY <1>8 DEF filtervars
  <2>2. ReportsMatchTree'
    BY <1>1, <1>3, <2>1 DEF ReportsMatchTree, ShownAsSeen
  <2> QED BY <1>1, <2>2, SeesNext
<1>9. CASE /\ ~failed /\ OutOfMemory(tree.production, base, kids) /\ Push(Place(b, e), tree, 0, 0)
           /\ root' = root
  <2> HIDE DEF tree, base, kids
  <2>1. OutOfMemory(rule.production, base, kids)
    BY <1>6, <1>9
  <2>2. ReportsMatchTree'
    BY <1>1, <1>3, <1>5, <1>9, <2>1, FailsTrue
  <2> QED BY <1>1, <2>2, SeesNext
<1>10. CASE ~failed /\ Settles(tree, base, kids, TRUE, Place(b, e))
  <2> DEFINE place == Place(b, e)
  <2>1. Settles(TreeOf(rule, kids), base, kids, TRUE, place) /\ TRUE \in BOOLEAN
    BY <1>10
  <2> HIDE DEF tree, base, kids, place
  <2>2. ReportsMatchTree'
    BY <1>1, <1>2, <1>3, <1>5, <1>10, <2>1, SettlesTrue, Zenon
  <2> QED BY <1>1, <2>2, SeesNext
<1> QED
  <2> HIDE DEF tree, kids
  <2> QED BY <1>7, <1>8, <1>9, <1>10, Zenon DEF tf_filter__on_reduce, base

(* The other steps report nothing.                                         *)
LEMMA QuietSees == Sees /\ (Fail \/ Finish \/ UNCHANGED vars) => Sees'
<1> SUFFICES ASSUME Sees, Fail \/ Finish \/ UNCHANGED vars PROVE Sees'
  OBVIOUS
<1>1. CASE Fail
  <2>1. pc' # "parse" /\ named_only' = named_only /\ made' = made
    BY <1>1 DEF Fail, filtervars
  <2>2. ReportsMatchTree'
    BY <2>1 DEF Sees, ReportsMatchTree, ShownAsSeen
  <2> QED BY <2>1, <2>2, SeesNext
<1>2. CASE Finish
  <2>1. pc' # "parse" /\ named_only' = named_only /\ made' = made
    BY <1>2 DEF Finish
  <2>2. ReportsMatchTree'
    BY <2>1 DEF Sees, ReportsMatchTree, ShownAsSeen
  <2> QED BY <2>1, <2>2, SeesNext
<1>3. CASE UNCHANGED vars
  <2>1. named_only' = named_only /\ made' = made /\ pc' = pc /\ failed' = failed /\ arena' = arena /\ stack' = stack
    BY <1>3 DEF vars, filtervars
  <2>2. ReportsMatchTree'
    BY <2>1 DEF Sees, ReportsMatchTree, ShownAsSeen
  <2> QED BY <2>1, <2>2, SeesNext DEF Sees
<1> QED BY <1>1, <1>2, <1>3

(* Deciding each node when its parent is reduced, with aliases and fields  *)
(* known only then, tf_filter__on_reduce shows the consumer at every node  *)
(* what a walk of the finished tree shows there, whatever the grammar, the *)
(* places of the extras, the folds the consumer makes and the point where  *)
(* memory runs out.  With named_only, where the names fit (see NamesFit).  *)
THEOREM FilterReportsTheTree == Spec => [](NamesFit => ReportsMatchTree)
<1> DEFINE J == NamesFit => Sees
<1>1. Init => J
  BY InitSees
<1>2. IInv /\ J /\ [Next]_vars => J'
  <2> SUFFICES ASSUME IInv, J, [Next]_vars PROVE J'
    OBVIOUS
  <2>1. named_only' = named_only
    BY DEF Next, Shift, Reduce, ReduceRoot, Fail, Finish, vars
  <2> SUFFICES ASSUME NamesFit PROVE Sees'
    BY <2>1, NamesFitStay
  <2> QED BY ShiftSees, ReduceSees, ReduceRootSees, QuietSees DEF Next
<1>3. J => (NamesFit => ReportsMatchTree)
  BY DEF Sees
<1> HIDE DEF J
<1> QED BY <1>1, <1>2, <1>3, FilterInvariance, PTL DEF Spec
=============================================================================
