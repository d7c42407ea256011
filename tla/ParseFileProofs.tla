--------------------------- MODULE ParseFileProofs --------------------------
(***************************************************************************)
(* The slab of the Rust binding, proved right for any number of values and *)
(* any visitor that, when it declines a hidden run, leaves the children it *)
(* was shown in place.  (One that drains some first breaks it: the run     *)
(* rust_drain_decline.)  Then Language::parse_file, composed: the slab's   *)
(* theorems and the mapping's, for any number of calls and any size limit. *)
(***************************************************************************)
EXTENDS ParseFile, FiniteSetTheorems, SequenceTheorems, TLAPS

Entry == [handle : 0 .. MaxValues, value : 0 .. MaxValues]

(* A list holds every empty slot once and no other. *)
Exact(slots, list) ==
  /\ Range(list) = {s \in DOMAIN slots : slots[s] = NoValue}
  /\ \A i, j \in DOMAIN list : i # j => list[i] # list[j]

(* A row of entries leads to exactly the values in the slots, one entry to *)
(* a slot.                                                                 *)
Leads(slots, row) ==
  /\ \A i \in DOMAIN row : /\ row[i].handle \in DOMAIN slots
                           /\ slots[row[i].handle] = row[i].value
                           /\ row[i].value # NoValue
  /\ \A i, j \in DOMAIN row : i # j => row[i].handle # row[j].handle
  /\ \A s \in DOMAIN slots : slots[s] # NoValue => \E i \in DOMAIN row : row[i].handle = s

(* The inductive invariant.  Until a panic the row leads to the slots, and *)
(* there are at least as many values made as held; the slots are as many   *)
(* as were once needed at the same time.                                   *)
IInv ==
  /\ TypeOK
  /\ panic # "missing"
  /\ Exact(items, free)
  /\ Len(items) <= peak /\ Len(held) <= peak
  /\ outcome = "running" /\ panic = "none" => Leads(items, held) /\ Len(held) <= made

-----------------------------------------------------------------------------
(* A function on 1 .. n is a sequence of that length.                      *)
LEMMA FunctionSeq ==
  ASSUME NEW S, NEW n \in Nat, NEW f \in [1 .. n -> S]
  PROVE  f \in Seq(S) /\ Len(f) = n
<1>1. f \in Seq(S)
  BY SeqDef
<1>2. Len(f) \in Nat /\ 1 .. Len(f) = 1 .. n
  BY <1>1, LenProperties
<1> QED BY <1>1, <1>2

(* The entries of a row whose entries lo .. hi have become one.            *)
LEMMA ReplaceRow ==
  ASSUME held \in Seq(Entry), NEW lo \in 1 .. Len(held) + 1, NEW hi \in lo - 1 .. Len(held),
         NEW e \in Entry
  PROVE  /\ Replace(lo, hi, e) \in Seq(Entry)
         /\ Len(Replace(lo, hi, e)) = Len(held) - (hi - lo)
         /\ DOMAIN Replace(lo, hi, e) = 1 .. Len(held) - (hi - lo)
         /\ \A k \in 1 .. lo - 1 : Replace(lo, hi, e)[k] = held[k]
         /\ Replace(lo, hi, e)[lo] = e
         /\ \A k \in lo + 1 .. Len(held) - (hi - lo) : Replace(lo, hi, e)[k] = held[k + (hi - lo)]
<1> DEFINE a == SubSeq(held, 1, lo - 1)
           b == <<e>>
           c == SubSeq(held, hi + 1, Len(held))
<1>1. Len(held) \in Nat /\ lo \in Nat /\ hi \in Int /\ lo <= Len(held) + 1 /\ lo >= 1
      /\ hi >= lo - 1 /\ hi <= Len(held)
  OBVIOUS
<1>2. a \in Seq(Entry) /\ Len(a) = lo - 1 /\ \A k \in 1 .. lo - 1 : a[k] = held[k]
  BY <1>1
<1>3. c \in Seq(Entry) /\ Len(c) = Len(held) - hi
      /\ \A k \in 1 .. Len(held) - hi : c[k] = held[hi + k]
  BY <1>1
<1>4. b \in Seq(Entry) /\ Len(b) = 1 /\ b[1] = e
  OBVIOUS
<1> HIDE DEF a, b, c
<1> DEFINE ab == a \o b
           r == ab \o c
<1>5. Replace(lo, hi, e) = r
  BY DEF Replace, a, b, c
<1>6. /\ ab \in Seq(Entry) /\ Len(ab) = lo
      /\ \A k \in 1 .. lo : ab[k] = IF k <= lo - 1 THEN a[k] ELSE b[k - (lo - 1)]
  <2>1. /\ ab \in Seq(Entry) /\ Len(ab) = Len(a) + Len(b)
        /\ \A k \in 1 .. Len(a) + Len(b) : ab[k] = IF k <= Len(a) THEN a[k] ELSE b[k - Len(a)]
    BY <1>2, <1>4, ConcatProperties
  <2> HIDE DEF ab
  <2> QED BY <2>1, <1>1, <1>2, <1>4
<1> HIDE DEF ab
<1>7. ab[lo] = e /\ \A k \in 1 .. lo - 1 : ab[k] = held[k]
  <2>1. lo \in 1 .. lo /\ ~(lo <= lo - 1) /\ lo - (lo - 1) = 1
    BY <1>1
  <2>2. ab[lo] = b[lo - (lo - 1)]
    BY <2>1, <1>6
  <2>3. \A k \in 1 .. lo - 1 : k \in 1 .. lo /\ k <= lo - 1
    BY <1>1
  <2>4. \A k \in 1 .. lo - 1 : ab[k] = a[k]
    BY <2>3, <1>6
  <2> QED BY <2>1, <2>2, <2>4, <1>2, <1>4
<1>8. /\ r \in Seq(Entry) /\ Len(r) = Len(ab) + Len(c)
      /\ \A k \in 1 .. Len(ab) + Len(c) : r[k] = IF k <= Len(ab) THEN ab[k] ELSE c[k - Len(ab)]
  BY <1>3, <1>6, ConcatProperties
<1> HIDE DEF r
<1> DEFINE n == Len(held) - (hi - lo)
<1>9. Len(ab) + Len(c) = n /\ n \in Nat /\ lo <= n
  BY <1>1, <1>3, <1>6
<1>10. \A k \in 1 .. lo : r[k] = ab[k]
  BY <1>1, <1>6, <1>8, <1>9
<1>11. \A k \in lo + 1 .. n : r[k] = held[k + (hi - lo)]
  <2> TAKE k \in lo + 1 .. n
  <2>1. /\ k \in 1 .. Len(ab) + Len(c) /\ ~(k <= Len(ab)) /\ k - Len(ab) = k - lo
        /\ k - lo \in 1 .. Len(held) - hi /\ hi + (k - lo) = k + (hi - lo)
    BY <1>1, <1>6, <1>9
  <2>2. r[k] = c[k - lo]
    BY <2>1, <1>8
  <2> QED BY <2>1, <2>2, <1>3
<1>12. DOMAIN r = 1 .. n
  BY <1>8, <1>9
<1>13. \A k \in 1 .. lo - 1 : k \in 1 .. lo
  BY <1>1
<1> QED BY <1>1, <1>5, <1>7, <1>8, <1>9, <1>10, <1>11, <1>12, <1>13

(* The handles of entries lo .. hi.                                        *)
LEMMA RunHandles ==
  ASSUME held \in Seq(Entry), NEW lo \in 1 .. Len(held) + 1, NEW hi \in lo - 1 .. Len(held),
         NEW hs, hs = Handles(SubSeq(held, lo, hi))
  PROVE  /\ hs \in Seq(0 .. MaxValues) /\ Len(hs) = hi - lo + 1 /\ DOMAIN hs = 1 .. hi - lo + 1
         /\ \A k \in 1 .. hi - lo + 1 : hs[k] = held[lo + k - 1].handle
<1> DEFINE r == SubSeq(held, lo, hi)
<1>1. r \in Seq(Entry) /\ Len(r) = hi - lo + 1 /\ DOMAIN r = 1 .. hi - lo + 1
      /\ \A k \in 1 .. hi - lo + 1 : r[k] = held[lo + k - 1]
  OBVIOUS
<1> HIDE DEF r
<1>2. hs = [k \in 1 .. hi - lo + 1 |-> r[k].handle]
  BY <1>1 DEF Handles, r
<1>3. \A k \in 1 .. hi - lo + 1 : r[k] \in Entry
  BY <1>1, ElementOfSeq
<1>4. \A k \in 1 .. hi - lo + 1 : r[k].handle \in 0 .. MaxValues
  BY <1>3 DEF Entry
<1> DEFINE n == hi - lo + 1
<1>5. n \in Nat
  OBVIOUS
<1> HIDE DEF n
<1>6. hs \in [1 .. n -> 0 .. MaxValues]
  BY <1>2, <1>4 DEF n
<1>7. hs \in Seq(0 .. MaxValues) /\ Len(hs) = n
  BY <1>5, <1>6, FunctionSeq
<1> QED BY <1>1, <1>2, <1>7 DEF n

-----------------------------------------------------------------------------
(* The slab.  `hs` are the handles of distinct slots in use.               *)

(* Slab::take of each: their slots empty, and free.                        *)
LEMMA Take ==
  ASSUME items \in Seq(0 .. MaxValues), free \in Seq(1 .. MaxValues), Exact(items, free),
         NEW hs, hs \in Seq(0 .. MaxValues), AllPresent(hs), Len(items) <= MaxValues,
         MaxValues \in Nat
  PROVE  /\ Emptied(hs) \in Seq(0 .. MaxValues) /\ Len(Emptied(hs)) = Len(items)
         /\ DOMAIN Emptied(hs) = DOMAIN items
         /\ Freed(hs) \in Seq(1 .. MaxValues) /\ Len(Freed(hs)) = Len(free) + Len(hs)
         /\ Exact(Emptied(hs), Freed(hs))
<1> DEFINE n == Len(items)  e == Emptied(hs)  f == Freed(hs)
<1>1. n \in Nat /\ DOMAIN items = 1 .. n /\ \A s \in 1 .. n : items[s] \in 0 .. MaxValues
  OBVIOUS
<1>2. e \in [1 .. n -> 0 .. MaxValues]
  BY <1>1 DEF Emptied, NoValue
<1>3. e \in Seq(0 .. MaxValues) /\ Len(e) = n /\ DOMAIN e = 1 .. n
  BY <1>1, <1>2, FunctionSeq
<1>4. DOMAIN hs = 1 .. Len(hs) /\ Len(hs) \in Nat /\ DOMAIN free = 1 .. Len(free) /\ Len(free) \in Nat
  OBVIOUS
<1>5. \A i \in 1 .. Len(hs) : hs[i] \in 1 .. n /\ items[hs[i]] # NoValue
  BY <1>1, <1>4 DEF AllPresent, Present
<1>6. hs \in Seq(1 .. MaxValues)
  <2>1. \A i \in 1 .. Len(hs) : hs[i] \in 1 .. MaxValues
    BY <1>1, <1>5
  <2>2. hs \in [1 .. Len(hs) -> 1 .. MaxValues]
    BY <2>1, LenProperties
  <2> QED BY <1>4, <2>2, FunctionSeq
<1>7. /\ f \in Seq(1 .. MaxValues) /\ Len(f) = Len(free) + Len(hs)
      /\ \A i \in 1 .. Len(free) + Len(hs) : f[i] = IF i <= Len(free) THEN free[i] ELSE hs[i - Len(free)]
  BY <1>6, ConcatProperties DEF Freed
<1> HIDE DEF e, f
<1>8. DOMAIN f = 1 .. Len(free) + Len(hs)
  BY <1>7, <1>4
<1>9. Range(f) = Range(free) \cup Range(hs)
  <2>1. ASSUME NEW i \in DOMAIN f PROVE f[i] \in Range(free) \cup Range(hs)
    <3>1. CASE i <= Len(free)
      BY <3>1, <1>4, <1>7, <1>8 DEF Range
    <3>2. CASE ~(i <= Len(free))
      <4>1. i - Len(free) \in DOMAIN hs
        BY <3>2, <1>4, <1>8
      <4> QED BY <4>1, <3>2, <1>7, <1>8 DEF Range
    <3> QED BY <3>1, <3>2
  <2>2. ASSUME NEW i \in DOMAIN free PROVE free[i] \in Range(f)
    <3>1. i \in DOMAIN f /\ i <= Len(free)
      BY <1>4, <1>8
    <3> QED BY <3>1, <1>7, <1>8 DEF Range
  <2>3. ASSUME NEW i \in DOMAIN hs PROVE hs[i] \in Range(f)
    <3>1. i + Len(free) \in DOMAIN f /\ ~(i + Len(free) <= Len(free)) /\ (i + Len(free)) - Len(free) = i
      BY <1>4, <1>8
    <3> QED BY <3>1, <1>7, <1>8 DEF Range
  <2> QED BY <2>1, <2>2, <2>3 DEF Range
<1>10. Range(hs) \subseteq 1 .. n /\ \A s \in Range(hs) : items[s] # NoValue
  BY <1>4, <1>5 DEF Range
<1>11. Range(f) = {s \in DOMAIN e : e[s] = NoValue}
  BY <1>1, <1>3, <1>9, <1>10 DEF Exact, e, Emptied
<1>12. \A i, j \in 1 .. Len(hs) : i # j => hs[i] # hs[j]
  <2>1. ASSUME NEW i \in 1 .. Len(hs), NEW j \in 1 .. Len(hs), j < i PROVE hs[i] # hs[j]
    <3>1. j \in 1 .. i - 1
      BY <2>1
    <3> QED BY <3>1, <1>4 DEF AllPresent
  <2> QED BY <2>1, <1>4
<1>13. ASSUME NEW i \in DOMAIN f, NEW j \in DOMAIN f, i # j PROVE f[i] # f[j]
  <2>1. \A k \in 1 .. Len(free) : free[k] \in Range(free) /\ items[free[k]] = NoValue
    BY <1>4 DEF Range, Exact
  <2>2. CASE i <= Len(free) /\ j <= Len(free)
    BY <1>4, <1>7, <1>8, <1>13, <2>2 DEF Exact
  <2>3. CASE i <= Len(free) /\ ~(j <= Len(free))
    <3>1. i \in 1 .. Len(free) /\ j - Len(free) \in 1 .. Len(hs)
      BY <2>3, <1>4, <1>8
    <3> QED BY <3>1, <2>1, <2>3, <1>5, <1>7, <1>8
  <2>4. CASE ~(i <= Len(free)) /\ j <= Len(free)
    <3>1. j \in 1 .. Len(free) /\ i - Len(free) \in 1 .. Len(hs)
      BY <2>4, <1>4, <1>8
    <3> QED BY <3>1, <2>1, <2>4, <1>5, <1>7, <1>8
  <2>5. CASE ~(i <= Len(free)) /\ ~(j <= Len(free))
    <3>1. i - Len(free) \in 1 .. Len(hs) /\ j - Len(free) \in 1 .. Len(hs)
          /\ i - Len(free) # j - Len(free)
      BY <2>5, <1>4, <1>8, <1>13
    <3> QED BY <3>1, <2>5, <1>7, <1>8, <1>12
  <2> QED BY <2>2, <2>3, <2>4, <2>5
<1>14. Exact(e, f)
  BY <1>11, <1>13 DEF Exact
<1> QED BY <1>1, <1>3, <1>7, <1>14 DEF e, f

(* Slab::insert: the value gets a slot that was empty, or a new one, and   *)
(* the others keep theirs.                                                 *)
LEMMA Insert ==
  ASSUME NEW slots \in Seq(0 .. MaxValues), NEW list \in Seq(1 .. MaxValues), Exact(slots, list),
         NEW v \in 1 .. MaxValues, insert(slots, list, v), Len(slots) = Len(items),
         list = <<>> => Len(items) < MaxValues, Len(items) <= MaxValues, MaxValues \in Nat
  PROVE  LET h == SlotFor(list) IN
         /\ h \in 1 .. MaxValues /\ h \in DOMAIN items' /\ items'[h] = v
         /\ items' \in Seq(0 .. MaxValues) /\ free' \in Seq(1 .. MaxValues) /\ Exact(items', free')
         /\ Len(items') = IF list = <<>> THEN Len(items) + 1 ELSE Len(items)
         /\ DOMAIN items' = DOMAIN slots \cup {h}
         /\ h \in DOMAIN slots => slots[h] = NoValue
         /\ \A s \in DOMAIN slots : s # h => items'[s] = slots[s]
<1> DEFINE h == SlotFor(list)  n == Len(slots)
<1>1. n \in Nat /\ DOMAIN slots = 1 .. n /\ Len(list) \in Nat /\ DOMAIN list = 1 .. Len(list)
      /\ v \in 0 .. MaxValues /\ v # NoValue
  BY DEF NoValue
<1>2. CASE list = <<>>
  <2>1. h = n + 1 /\ items' = Append(slots, v) /\ free' = list
    BY <1>2 DEF SlotFor, insert
  <2>2. items' \in Seq(0 .. MaxValues) /\ Len(items') = n + 1 /\ items'[n + 1] = v
        /\ \A s \in 1 .. n : items'[s] = slots[s]
    BY <1>1, <2>1, AppendProperties
  <2>3. DOMAIN items' = 1 .. n + 1 /\ 1 .. n + 1 = (1 .. n) \cup {n + 1}
    BY <2>2, <1>1
  <2>4. {s \in DOMAIN slots : slots[s] = NoValue} = {} /\ Range(free') = {}
    BY <1>1, <1>2, <2>1 DEF Exact, Range
  <2>5. Exact(items', free')
    <3>1. \A s \in DOMAIN items' : items'[s] # NoValue
      BY <1>1, <2>2, <2>3, <2>4
    <3> QED BY <3>1, <2>1, <2>4 DEF Exact
  <2>6. h \in 1 .. MaxValues /\ h \notin DOMAIN slots
    BY <1>1, <1>2, <2>1
  <2> QED BY <1>1, <1>2, <2>1, <2>2, <2>3, <2>5, <2>6
<1>3. CASE list # <<>>
  <2> DEFINE m == Len(list)
  <2>1. h = list[m] /\ items' = [slots EXCEPT ![list[m]] = v] /\ free' = SubSeq(list, 1, m - 1)
    BY <1>3 DEF SlotFor, insert, Last, Front
  <2>2. m \in 1 .. m /\ m >= 1
    BY <1>1, <1>3, EmptySeq
  <2>3. h \in DOMAIN slots /\ slots[h] = NoValue /\ h \in 1 .. MaxValues
    <3>1. h \in Range(list)
      BY <1>1, <2>1, <2>2 DEF Range
    <3>2. h \in 1 .. MaxValues
      BY <2>1, <2>2, ElementOfSeq
    <3> QED BY <3>1, <3>2 DEF Exact
  <2>4. items' \in [1 .. n -> 0 .. MaxValues] /\ items'[h] = v
        /\ \A s \in 1 .. n : s # h => items'[s] = slots[s]
    BY <1>1, <2>1, <2>3
  <2>5. items' \in Seq(0 .. MaxValues) /\ Len(items') = n /\ DOMAIN items' = 1 .. n
    BY <1>1, <2>4, FunctionSeq
  <2>6. free' \in Seq(1 .. MaxValues) /\ Len(free') = m - 1 /\ DOMAIN free' = 1 .. m - 1
        /\ \A i \in 1 .. m - 1 : free'[i] = list[i]
    BY <1>1, <2>1, <2>2
  <2>7. Range(free') = Range(list) \ {h}
    <3>1. \A i \in 1 .. m - 1 : i \in DOMAIN list /\ i # m /\ m \in DOMAIN list
      <4> HIDE DEF m
      <4>1. \A i \in 1 .. m - 1 : i \in 1 .. m /\ i # m
        BY <2>2
      <4> QED BY <4>1, <1>1, <2>2 DEF m
    <3>2. \A i \in 1 .. m - 1 : free'[i] \in Range(list) /\ free'[i] # h
      BY <3>1, <2>6, <2>1 DEF Exact, Range
    <3>3. \A i \in DOMAIN list : list[i] # h => i \in 1 .. m - 1
      BY <1>1, <2>1, <2>2
    <3> QED BY <3>2, <3>3, <2>6 DEF Range
  <2>8. \A i, j \in DOMAIN free' : i # j => free'[i] # free'[j]
    <3>1. \A i \in 1 .. m - 1 : i \in DOMAIN list
      BY <1>1, <2>2
    <3> QED BY <3>1, <2>6 DEF Exact
  <2>9. Exact(items', free')
    <3>1. {s \in DOMAIN items' : items'[s] = NoValue} = {s \in DOMAIN slots : slots[s] = NoValue} \ {h}
      BY <1>1, <2>3, <2>4, <2>5
    <3> QED BY <3>1, <2>7, <2>8 DEF Exact
  <2> QED BY <1>1, <1>3, <2>3, <2>4, <2>5, <2>6, <2>9
<1> QED BY <1>2, <1>3

-----------------------------------------------------------------------------
(* The row.                                                                *)

(* Until a panic every child a callback is shown has a value, and no two   *)
(* have the same slot.                                                     *)
LEMMA ChildrenPresent ==
  ASSUME held \in Seq(Entry), Leads(items, held),
         NEW lo \in 1 .. Len(held) + 1, NEW hi \in lo - 1 .. Len(held),
         NEW hs, hs = Handles(SubSeq(held, lo, hi))
  PROVE  AllPresent(hs) /\ ~Missing(hs)
<1>1. /\ DOMAIN hs = 1 .. hi - lo + 1
      /\ \A k \in 1 .. hi - lo + 1 : hs[k] = held[lo + k - 1].handle
  BY RunHandles
<1>2. DOMAIN held = 1 .. Len(held)
  OBVIOUS
<1>3. \A k \in 1 .. hi - lo + 1 : lo + k - 1 \in DOMAIN held
  BY <1>2
<1>4. ASSUME NEW k \in DOMAIN hs PROVE Present(hs[k])
  <2>1. lo + k - 1 \in DOMAIN held /\ hs[k] = held[lo + k - 1].handle
    BY <1>1, <1>3
  <2>2. held[lo + k - 1].handle \in DOMAIN items /\ items[held[lo + k - 1].handle] # NoValue
    BY <2>1, SMT DEF Leads
  <2> QED BY <2>1, <2>2 DEF Present
<1>5. ASSUME NEW k \in DOMAIN hs, NEW j \in 1 .. k - 1 PROVE hs[k] # hs[j] /\ j \in DOMAIN hs
  <2>1. j \in 1 .. hi - lo + 1 /\ lo + k - 1 # lo + j - 1
    BY <1>1
  <2>2. lo + k - 1 \in DOMAIN held /\ lo + j - 1 \in DOMAIN held /\ j \in DOMAIN hs
    BY <2>1, <1>1, <1>3
  <2>3. held[lo + k - 1].handle # held[lo + j - 1].handle
    BY <2>1, <2>2, Zenon DEF Leads
  <2> QED BY <2>1, <2>2, <2>3, <1>1
<1> QED BY <1>4, <1>5 DEF AllPresent, Missing

(* Entries lo .. hi are taken and a new one takes their place: the row     *)
(* still leads to the slots.                                               *)
LEMMA RowLeads ==
  ASSUME held \in Seq(Entry), items \in Seq(0 .. MaxValues), Leads(items, held),
         NEW lo \in 1 .. Len(held) + 1, NEW hi \in lo - 1 .. Len(held),
         NEW hs, hs = Handles(SubSeq(held, lo, hi)), NEW e \in Entry, e.value # NoValue,
         DOMAIN items' = DOMAIN items \cup {e.handle}, items'[e.handle] = e.value,
         e.handle \in DOMAIN items => Emptied(hs)[e.handle] = NoValue,
         \A s \in DOMAIN items : s # e.handle => items'[s] = Emptied(hs)[s]
  PROVE  Leads(items', Replace(lo, hi, e))
<1> DEFINE row == Replace(lo, hi, e)
           n == Len(held) - (hi - lo)
           old == [k \in 1 .. n |-> IF k < lo THEN k ELSE k + (hi - lo)]
<1>1. /\ DOMAIN row = 1 .. n /\ row[lo] = e
      /\ \A k \in 1 .. lo - 1 : row[k] = held[k]
      /\ \A k \in lo + 1 .. n : row[k] = held[k + (hi - lo)]
  BY ReplaceRow
<1> HIDE DEF row
<1>2. Len(held) \in Nat /\ n \in Nat /\ lo \in 1 .. n /\ DOMAIN held = 1 .. Len(held) /\ hi \in Int
  OBVIOUS
<1>3. ASSUME NEW k \in 1 .. n, k # lo
      PROVE  old[k] \in 1 .. Len(held) /\ old[k] \notin lo .. hi /\ row[k] = held[old[k]]
  BY <1>1, <1>2, <1>3
<1>4. ASSUME NEW k \in 1 .. n, NEW j \in 1 .. n, k # lo, j # lo, k # j PROVE old[k] # old[j]
  BY <1>2, <1>4
<1>5. ASSUME NEW m \in 1 .. Len(held), m \notin lo .. hi
      PROVE  \E k \in 1 .. n : k # lo /\ old[k] = m
  <2>1. CASE m < lo
    <3>1. m \in 1 .. n /\ m # lo
      BY <1>2, <2>1
    <3>2. old[m] = m
      BY <2>1, <3>1
    <3> HIDE DEF old, n
    <3> QED BY <3>1, <3>2, Zenon
  <2>2. CASE m > hi
    <3>1. m - (hi - lo) \in 1 .. n /\ m - (hi - lo) > lo
      BY <1>2, <2>2, <1>5
    <3>2. old[m - (hi - lo)] = m
      BY <1>2, <3>1
    <3>3. m - (hi - lo) # lo
      BY <1>2, <3>1
    <3> HIDE DEF old, n
    <3> QED BY <3>1, <3>2, <3>3, Zenon
  <2> QED BY <2>1, <2>2, <1>2, <1>5
<1> HIDE DEF old
<1>6. Range(hs) = {held[m].handle : m \in lo .. hi}
  <2>1. DOMAIN hs = 1 .. hi - lo + 1 /\ \A k \in 1 .. hi - lo + 1 : hs[k] = held[lo + k - 1].handle
    BY RunHandles
  <2>2. \A k \in 1 .. hi - lo + 1 : lo + k - 1 \in lo .. hi
    BY <1>2
  <2>3. ASSUME NEW m \in lo .. hi PROVE held[m].handle \in Range(hs)
    <3>1. m - lo + 1 \in 1 .. hi - lo + 1 /\ lo + (m - lo + 1) - 1 = m
      BY <1>2
    <3>2. hs[m - lo + 1] = held[m].handle
      BY <3>1, <2>1
    <3> QED BY <3>1, <3>2, <2>1, Zenon DEF Range
  <2>4. ASSUME NEW k \in DOMAIN hs PROVE hs[k] \in {held[m].handle : m \in lo .. hi}
    <3>1. lo + k - 1 \in lo .. hi /\ hs[k] = held[lo + k - 1].handle
      BY <2>1, <2>2
    <3> QED BY <3>1, Zenon
  <2> QED BY <2>3, <2>4, Zenon DEF Range
<1>7. ASSUME NEW m \in 1 .. Len(held), m \notin lo .. hi
      PROVE  /\ held[m].handle \in DOMAIN items /\ held[m].handle \notin Range(hs)
             /\ held[m].handle # e.handle /\ items'[held[m].handle] = held[m].value
             /\ held[m].value # NoValue
  <2>1. held[m].handle \in DOMAIN items /\ items[held[m].handle] = held[m].value
        /\ held[m].value # NoValue
    BY <1>2, Zenon DEF Leads
  <2>2. held[m].handle \notin Range(hs)
    <3>1. \A j \in lo .. hi : j \in DOMAIN held /\ j # m
      BY <1>2, <1>7
    <3>2. \A j \in lo .. hi : held[j].handle # held[m].handle
      BY <3>1, <1>2, Zenon DEF Leads
    <3> QED BY <3>2, <1>6, Zenon
  <2>3. Emptied(hs)[held[m].handle] = held[m].value
    BY <2>1, <2>2 DEF Emptied
  <2> QED BY <2>1, <2>2, <2>3
<1>8. ASSUME NEW k \in 1 .. n
      PROVE  row[k].handle \in DOMAIN items' /\ items'[row[k].handle] = row[k].value
             /\ row[k].value # NoValue
  <2>1. CASE k = lo
    BY <1>1, <2>1
  <2>2. CASE k # lo
    BY <1>3, <1>7, <2>2
  <2> QED BY <2>1, <2>2
<1>9. ASSUME NEW k \in 1 .. n, NEW j \in 1 .. n, k # j PROVE row[k].handle # row[j].handle
  <2>0. ASSUME NEW i \in 1 .. n, i # lo PROVE row[i].handle # e.handle
    <3>1. old[i] \in 1 .. Len(held) /\ old[i] \notin lo .. hi /\ row[i] = held[old[i]]
      BY <1>3, <2>0
    <3>2. held[old[i]].handle # e.handle
      BY <3>1, <1>7
    <3> QED BY <3>1, <3>2
  <2>1. CASE k = lo
    BY <1>1, <1>9, <2>0, <2>1
  <2>2. CASE j = lo
    BY <1>1, <1>9, <2>0, <2>2
  <2>3. CASE k # lo /\ j # lo
    <3>1. old[k] # old[j] /\ old[k] \in DOMAIN held /\ old[j] \in DOMAIN held
      BY <1>2, <1>3, <1>4, <1>9, <2>3
    <3>2. held[old[k]].handle # held[old[j]].handle
      BY <3>1, Zenon DEF Leads
    <3> QED BY <3>2, <1>3, <2>3
  <2> QED BY <2>1, <2>2, <2>3
<1>10. ASSUME NEW s \in DOMAIN items', items'[s] # NoValue PROVE \E k \in 1 .. n : row[k].handle = s
  <2>1. CASE s = e.handle
    BY <1>1, <1>2, <2>1
  <2>2. CASE s # e.handle
    <3>1. s \in DOMAIN items /\ Emptied(hs)[s] # NoValue
      BY <1>10, <2>2
    <3>2. items[s] # NoValue /\ s \notin Range(hs)
      BY <3>1 DEF Emptied
    <3>3. PICK m \in 1 .. Len(held) : held[m].handle = s
      BY <3>1, <3>2, <1>2, Zenon DEF Leads
    <3>4. m \notin lo .. hi
      BY <3>2, <3>3, <1>6
    <3>5. PICK k \in 1 .. n : k # lo /\ old[k] = m
      BY <3>4, <1>5
    <3> QED BY <3>3, <3>5, <1>3
  <2> QED BY <2>1, <2>2
<1>11. Leads(items', row)
  BY <1>1, <1>8, <1>9, <1>10, Zenon DEF Leads
<1> QED BY <1>11 DEF row

(* There are n numbers from 1 to n.                                        *)
LEMMA CountTo ==
  ASSUME NEW n \in Nat
  PROVE  IsFiniteSet(1 .. n) /\ Cardinality(1 .. n) = n
<1>1. 1 \in Int /\ n \in Int
  OBVIOUS
<1>2. IsFiniteSet(1 .. n) /\ Cardinality(1 .. n) = IF 1 > n THEN 0 ELSE n - 1 + 1
  BY <1>1, FS_Interval
<1> QED BY <1>2

(* With no slot to use again and no child to take, every slot is the slot  *)
(* of a value held: the new slot is needed.                                *)
LEMMA SlotsHeld ==
  ASSUME held \in Seq(Entry), items \in Seq(0 .. MaxValues), Leads(items, held),
         \A s \in DOMAIN items : items[s] # NoValue
  PROVE  Len(items) <= Len(held)
<1> DEFINE S == 1 .. Len(items)  T == 1 .. Len(held)
           f == [s \in S |-> CHOOSE i \in T : held[i].handle = s]
<1>1. Len(items) \in Nat /\ Len(held) \in Nat /\ DOMAIN items = S /\ DOMAIN held = T
  OBVIOUS
<1> HIDE DEF S, T
<1>2. \A s \in S : f[s] \in T /\ held[f[s]].handle = s
  <2>1. \A s \in S : \E i \in T : held[i].handle = s
    BY <1>1, Zenon DEF Leads
  <2> QED BY <2>1
<1>3. f \in [S -> T] /\ \A a, b \in S : f[a] = f[b] => a = b
  BY <1>2
<1> HIDE DEF f
<1>4. IsFiniteSet(T) /\ Cardinality(T) = Len(held)
  BY <1>1, CountTo DEF T
<1>5. IsFiniteSet(S) /\ Cardinality(S) = Len(items)
  BY <1>1, CountTo DEF S
<1>6. ~(Cardinality(T) < Cardinality(S))
  BY <1>3, <1>4, <1>5, FS_PigeonHole
<1> QED BY <1>1, <1>4, <1>5, <1>6

-----------------------------------------------------------------------------
(* The steps.                                                              *)

(* An empty slab and an empty row satisfy it.                              *)
LEMMA InitIInv == Init => IInv
<1> SUFFICES ASSUME Init PROVE IInv
  OBVIOUS
<1>1. TypeOK
  BY BindingAssumption DEF Init, TypeOK, NoValue
<1>2. Exact(items, free) /\ Leads(items, held)
  BY DEF Init, Exact, Leads, Range
<1> QED BY <1>1, <1>2 DEF Init, IInv

(* A visitor that panics has had its children taken; the C side gets null  *)
(* and keeps what row it likes.                                            *)
LEMMA PanicsInv ==
  ASSUME IInv, outcome = "running", panic = "none", NEW hs, hs \in Seq(0 .. MaxValues),
         VisitorPanics(hs), held' \in Seq(Entry), Len(held') <= peak', peak' \in peak .. MaxValues,
         UNCHANGED <<made, outcome, result>>
  PROVE  IInv'
<1>1. MaxValues \in Nat /\ peak \in Nat /\ peak <= MaxValues /\ Len(items) \in Nat
  BY BindingAssumption DEF IInv, TypeOK
<1>2. Len(items) <= MaxValues
  BY <1>1 DEF IInv
<1>3. /\ items' \in Seq(0 .. MaxValues) /\ Len(items') = Len(items)
      /\ free' \in Seq(1 .. MaxValues) /\ Exact(items', free') /\ panic' = "visitor"
  BY <1>1, <1>2, Take DEF IInv, TypeOK, VisitorPanics
<1>4. TypeOK'
  BY <1>1, <1>3 DEF IInv, TypeOK, Entry
<1>5. Len(items') <= peak'
  BY <1>1, <1>3 DEF IInv
<1> QED BY <1>3, <1>4, <1>5 DEF IInv

(* A value returned takes the place of its children, in the slab and in    *)
(* the row.                                                                *)
LEMMA ReturnsInv ==
  ASSUME IInv, outcome = "running", panic = "none",
         NEW lo \in 1 .. Len(held) + 1, NEW hi \in lo - 1 .. Len(held),
         NEW hs, hs = Handles(SubSeq(held, lo, hi)),
         Returns(hs), Keep(Replace(lo, hi, NewEntry(hs))), UNCHANGED <<outcome, result>>
  PROVE  IInv'
<1>1. /\ MaxValues \in Nat /\ peak \in Nat /\ peak <= MaxValues /\ Len(items) \in Nat
      /\ Len(held) \in Nat /\ made \in Nat /\ made < MaxValues
      /\ items \in Seq(0 .. MaxValues) /\ free \in Seq(1 .. MaxValues) /\ held \in Seq(Entry)
  BY BindingAssumption DEF IInv, TypeOK, Entry, Returns
<1>2. Leads(items, held) /\ Exact(items, free) /\ Len(held) <= made
      /\ Len(items) <= peak /\ Len(held) <= peak
  BY DEF IInv
<1>3. hs \in Seq(0 .. MaxValues) /\ Len(hs) = hi - lo + 1
  BY <1>1, RunHandles
<1> DEFINE e == Emptied(hs)  f == Freed(hs)  h == SlotFor(f)  row == Replace(lo, hi, NewEntry(hs))
<1>4. /\ e \in Seq(0 .. MaxValues) /\ Len(e) = Len(items) /\ DOMAIN e = DOMAIN items
      /\ f \in Seq(1 .. MaxValues) /\ Len(f) = Len(free) + Len(hs) /\ Exact(e, f)
  <2>1. Len(items) <= MaxValues
    BY <1>1, <1>2
  <2>2. AllPresent(hs)
    BY DEF Returns
  <2> QED BY <1>1, <1>2, <1>3, <2>1, <2>2, Take
<1>5. f = <<>> => Len(items) <= Len(held) /\ hi - lo = -1
  <2> SUFFICES ASSUME f = <<>> PROVE Len(items) <= Len(held) /\ hi - lo = -1
    OBVIOUS
  <2>1. Len(free) = 0 /\ Len(hs) = 0
    BY <1>1, <1>3, <1>4
  <2>2. Range(f) = {}
    BY DEF Range
  <2>3. hs = <<>> /\ DOMAIN hs = {}
    BY <1>3, <2>1
  <2>4. \A s \in DOMAIN items : items[s] # NoValue
    BY <1>4, <2>2, <2>3 DEF Exact, Emptied, Range
  <2>5. Len(items) <= Len(held)
    BY <1>1, <1>2, <2>4, SlotsHeld
  <2> QED BY <1>3, <2>1, <2>5
<1> HIDE DEF e, f
<1>6. made + 1 \in 1 .. MaxValues /\ insert(e, f, made + 1)
  BY <1>1 DEF Returns, e, f
<1>7. /\ h \in 1 .. MaxValues /\ h \in DOMAIN items' /\ items'[h] = made + 1
      /\ items' \in Seq(0 .. MaxValues) /\ free' \in Seq(1 .. MaxValues) /\ Exact(items', free')
      /\ Len(items') = IF f = <<>> THEN Len(items) + 1 ELSE Len(items)
      /\ DOMAIN items' = DOMAIN e \cup {h}
      /\ h \in DOMAIN e => e[h] = NoValue
      /\ \A s \in DOMAIN e : s # h => items'[s] = e[s]
  <2>1. f = <<>> => Len(items) < MaxValues
    BY <1>1, <1>2, <1>5
  <2>2. Len(items) <= MaxValues
    BY <1>1, <1>2
  <2> QED BY <1>1, <1>4, <1>6, <2>1, <2>2, Insert
<1> HIDE DEF h
<1> DEFINE x == NewEntry(hs)
<1>8. x \in Entry /\ x.handle = h /\ x.value = made + 1 /\ x.value # NoValue
  BY <1>1, <1>6, <1>7 DEF NewEntry, Entry, NoValue, h, f
<1> HIDE DEF x
<1>9. Leads(items', Replace(lo, hi, x))
  <2>1. DOMAIN items' = DOMAIN items \cup {x.handle} /\ items'[x.handle] = x.value
    BY <1>4, <1>7, <1>8
  <2>2. x.handle \in DOMAIN items => Emptied(hs)[x.handle] = NoValue
    BY <1>4, <1>7, <1>8 DEF e
  <2>3. \A s \in DOMAIN items : s # x.handle => items'[s] = Emptied(hs)[s]
    BY <1>4, <1>7, <1>8 DEF e
  <2> QED BY <1>1, <1>2, <1>8, <2>1, <2>2, <2>3, RowLeads
<1>10. Replace(lo, hi, x) \in Seq(Entry) /\ Len(Replace(lo, hi, x)) = Len(held) - (hi - lo)
  BY <1>1, <1>8, ReplaceRow
<1>11. held' = Replace(lo, hi, x) /\ peak' = IF Len(held') > peak THEN Len(held') ELSE peak
  BY DEF Keep, x
<1>12. Len(held') = Len(held) - (hi - lo) /\ Len(held') \in Nat /\ Len(held') <= Len(held) + 1
  BY <1>1, <1>10, <1>11
<1>13. made' = made + 1 /\ panic' = panic
  BY DEF Returns
<1>14. peak' \in 0 .. MaxValues /\ Len(held') <= peak' /\ Len(items') <= peak' /\ Len(held') <= made'
  <2>1. peak' \in 0 .. MaxValues /\ Len(held') <= peak' /\ peak <= peak'
    BY <1>1, <1>2, <1>11, <1>12
  <2>2. Len(held') <= made'
    BY <1>1, <1>2, <1>12, <1>13
  <2>3. CASE f = <<>>
    <3>1. Len(items') = Len(items) + 1 /\ Len(items) <= Len(held) /\ Len(held') = Len(held) + 1
      <4>1. Len(items') = Len(items) + 1
        BY <1>7, <2>3
      <4>2. Len(items) <= Len(held) /\ hi - lo = -1
        BY <1>5, <2>3
      <4>3. Len(held') = Len(held) - (-1)
        BY <1>12, <4>2
      <4> QED BY <1>1, <4>1, <4>2, <4>3
    <3> QED BY <1>1, <2>1, <2>2, <3>1
  <2>4. CASE f # <<>>
    <3>1. Len(items') = Len(items)
      BY <1>7, <2>4
    <3> QED BY <1>1, <1>2, <2>1, <2>2, <3>1
  <2> QED BY <2>3, <2>4
<1>15. TypeOK'
  BY <1>1, <1>7, <1>10, <1>11, <1>13, <1>14 DEF IInv, TypeOK, Entry
<1> QED BY <1>7, <1>9, <1>11, <1>13, <1>14, <1>15 DEF IInv

(* A visitor that declines without draining puts every child back where it *)
(* was, and the free list is rolled back to what it was.                   *)
LEMMA DeclineRestores ==
  ASSUME IInv, ~VisitorMayDrain, NEW hs, hs \in Seq(0 .. MaxValues), AllPresent(hs),
         NEW rest \in LeftBy(hs)
  PROVE  restore(hs, rest) = items /\ rollback(Freed(hs), Len(free)) = free
<1>1. rest = [j \in DOMAIN hs |-> items[hs[j]]]
  BY Zenon DEF LeftBy
<1>2. items \in Seq(0 .. MaxValues) /\ free \in Seq(1 .. MaxValues)
  BY DEF IInv, TypeOK
<1>3. ASSUME NEW s \in DOMAIN items
      PROVE  restore(hs, rest)[s] = items[s]
  <2>1. CASE \E j \in DOMAIN rest : hs[j] = s
    <3> DEFINE j == CHOOSE j \in DOMAIN rest : hs[j] = s
    <3>1. j \in DOMAIN rest /\ hs[j] = s
      BY <2>1
    <3>2. restore(hs, rest)[s] = rest[j]
      BY <2>1 DEF restore
    <3> QED BY <3>1, <3>2, <1>1
  <2>2. CASE ~\E j \in DOMAIN rest : hs[j] = s
    <3>1. s \notin Range(hs)
      BY <2>2, <1>1 DEF Range
    <3> QED BY <3>1, <2>2 DEF restore, Emptied
  <2> QED BY <2>1, <2>2
<1>4. restore(hs, rest) = items
  <2>1. restore(hs, rest) = [s \in DOMAIN items |-> restore(hs, rest)[s]]
    BY DEF restore
  <2>2. items = [s \in DOMAIN items |-> items[s]]
    BY <1>2
  <2> QED BY <1>3, <2>1, <2>2
<1>5. rollback(Freed(hs), Len(free)) = free
  <2>1. \A i \in 1 .. Len(free) : (free \o hs)[i] = free[i]
    BY <1>2
  <2> DEFINE t == SubSeq(free \o hs, 1, Len(free))
  <2>2. /\ t \in Seq(1 .. MaxValues) /\ Len(t) = Len(free)
        /\ \A i \in 1 .. Len(free) : t[i] = (free \o hs)[i]
    <3>1. \A i \in 1 .. Len(free) : (free \o hs)[i] \in 1 .. MaxValues
      BY <1>2, <2>1, ElementOfSeq
    <3>2. /\ t \in Seq(1 .. MaxValues) /\ Len(t) = IF 1 <= Len(free) THEN Len(free) - 1 + 1 ELSE 0
          /\ \A i \in 1 .. Len(free) - 1 + 1 : t[i] = (free \o hs)[1 + i - 1]
      BY <1>2, <3>1, SubSeqProperties
    <3> HIDE DEF t
    <3> QED BY <1>2, <3>2
  <2> HIDE DEF t
  <2>3. t = free
    BY <1>2, <2>1, <2>2, SeqEqual
  <2> QED BY <2>3 DEF rollback, Freed, t
<1> QED BY <1>4, <1>5

(* on_node keeps the invariant.                                            *)
LEMMA OnNodeInv == IInv /\ OnNode => IInv'
<1> SUFFICES ASSUME IInv, OnNode PROVE IInv'
  OBVIOUS
<1>1. PICK lo \in 1 .. Len(held) + 1 : \E hi \in lo - 1 .. Len(held) :
       LET hs == Handles(SubSeq(held, lo, hi)) IN
       \/ /\ panic # "none"
          /\ Len(held) < MaxValues
          /\ Keep(Replace(lo, hi, NoEntry))
          /\ UNCHANGED <<slab, panic, made>>
       \/ /\ panic = "none"
          /\ Missing(hs) \/ VisitorPanics(hs)
          /\ Keep(Replace(lo, hi, NoEntry))
          /\ UNCHANGED made
       \/ /\ panic = "none"
          /\ Returns(hs)
          /\ Keep(Replace(lo, hi, NewEntry(hs)))
  BY Zenon DEF OnNode
<1>2. PICK hi \in lo - 1 .. Len(held) :
       LET hs == Handles(SubSeq(held, lo, hi)) IN
       \/ /\ panic # "none"
          /\ Len(held) < MaxValues
          /\ Keep(Replace(lo, hi, NoEntry))
          /\ UNCHANGED <<slab, panic, made>>
       \/ /\ panic = "none"
          /\ Missing(hs) \/ VisitorPanics(hs)
          /\ Keep(Replace(lo, hi, NoEntry))
          /\ UNCHANGED made
       \/ /\ panic = "none"
          /\ Returns(hs)
          /\ Keep(Replace(lo, hi, NewEntry(hs)))
  BY <1>1, Zenon
<1> DEFINE hs == Handles(SubSeq(held, lo, hi))
<1>3. outcome = "running" /\ UNCHANGED <<outcome, result>>
  BY DEF OnNode
<1>4. MaxValues \in Nat /\ held \in Seq(Entry) /\ Len(held) \in Nat /\ peak \in 0 .. MaxValues
      /\ Len(held) <= peak /\ NoEntry \in Entry
  BY BindingAssumption DEF IInv, TypeOK, Entry, NoEntry, Null, NoValue
<1>5. hs \in Seq(0 .. MaxValues)
  BY <1>4, RunHandles
<1>6. ASSUME Keep(Replace(lo, hi, NoEntry)), Len(held) < MaxValues
      PROVE  held' \in Seq(Entry) /\ Len(held') <= peak' /\ peak' \in peak .. MaxValues
  <2>1. held' \in Seq(Entry) /\ Len(held') = Len(held) - (hi - lo)
    BY <1>4, <1>6, ReplaceRow DEF Keep
  <2>2. peak' = IF Len(held') > peak THEN Len(held') ELSE peak
    BY <1>6 DEF Keep
  <2>3. hi - lo >= -1 /\ hi - lo \in Int
    OBVIOUS
  <2> QED BY <2>1, <2>2, <2>3, <1>4, <1>6
<1> HIDE DEF hs
<1>7. CASE panic # "none" /\ Len(held) < MaxValues /\ Keep(Replace(lo, hi, NoEntry))
           /\ UNCHANGED <<slab, panic, made>>
  <2>1. held' \in Seq(Entry) /\ Len(held') <= peak' /\ peak' \in peak .. MaxValues
    BY <1>6, <1>7
  <2>2. Len(items) \in Nat /\ Len(items) <= peak'
    BY <1>4, <2>1 DEF IInv, TypeOK
  <2>3. items' = items /\ free' = free /\ panic' = panic /\ made' = made
    BY <1>7 DEF slab
  <2>4. TypeOK'
    BY <1>3, <1>4, <2>1, <2>3 DEF IInv, TypeOK, Entry
  <2> QED BY <1>7, <2>1, <2>2, <2>3, <2>4 DEF IInv, Exact
<1>8. CASE panic = "none" /\ (Missing(hs) \/ VisitorPanics(hs)) /\ Keep(Replace(lo, hi, NoEntry))
           /\ UNCHANGED made
  <2>1. Leads(items, held) /\ Len(held) <= made /\ made \in Nat
    BY <1>3, <1>8 DEF IInv, TypeOK
  <2>2. ~Missing(hs)
    BY <1>4, <2>1, ChildrenPresent DEF hs
  <2>3. VisitorPanics(hs) /\ Len(held) < MaxValues
    BY <1>4, <1>8, <2>1, <2>2 DEF VisitorPanics
  <2>4. held' \in Seq(Entry) /\ Len(held') <= peak' /\ peak' \in peak .. MaxValues
    BY <1>6, <1>8, <2>3
  <2> QED BY <1>3, <1>5, <1>8, <2>3, <2>4, PanicsInv DEF hs
<1>9. CASE panic = "none" /\ Returns(hs) /\ Keep(Replace(lo, hi, NewEntry(hs)))
  BY <1>3, <1>9, ReturnsInv DEF hs
<1> QED BY <1>2, <1>7, <1>8, <1>9 DEF hs

(* on_hidden keeps the invariant, if the visitor does not drain what it    *)
(* declines.                                                               *)
LEMMA OnHiddenInv == ~VisitorMayDrain /\ IInv /\ OnHidden => IInv'
<1> SUFFICES ASSUME ~VisitorMayDrain, IInv, OnHidden PROVE IInv'
  OBVIOUS
<1>1. PICK lo \in 1 .. Len(held) - 1 :
       LET hs == Handles(SubSeq(held, lo, Len(held))) IN
       \/ /\ Missing(hs) \/ VisitorPanics(hs)
          /\ UNCHANGED <<held, peak, made>>
       \/ /\ Returns(hs)
          /\ Keep(Replace(lo, Len(held), NewEntry(hs)))
       \/ /\ AllPresent(hs)
          /\ \E rest \in LeftBy(hs) : items' = restore(hs, rest)
          /\ free' = rollback(Freed(hs), Len(free))
          /\ UNCHANGED <<panic, held, peak, made>>
  BY Zenon DEF OnHidden
<1> DEFINE hi == Len(held)  hs == Handles(SubSeq(held, lo, hi))
<1>2. outcome = "running" /\ panic = "none" /\ UNCHANGED <<outcome, result>>
  BY DEF OnHidden
<1>3. MaxValues \in Nat /\ held \in Seq(Entry) /\ Len(held) \in Nat /\ peak \in 0 .. MaxValues
      /\ Len(held) <= peak
  BY BindingAssumption DEF IInv, TypeOK, Entry
<1>4. lo \in 1 .. Len(held) + 1 /\ hi \in lo - 1 .. Len(held)
  BY <1>3
<1>5. hs \in Seq(0 .. MaxValues)
  BY <1>3, <1>4, RunHandles
<1>6. AllPresent(hs) /\ ~Missing(hs)
  BY <1>2, <1>3, <1>4, ChildrenPresent DEF IInv
<1> HIDE DEF hs, hi
<1>7. CASE (Missing(hs) \/ VisitorPanics(hs)) /\ UNCHANGED <<held, peak, made>>
  <2>1. held' \in Seq(Entry) /\ Len(held') <= peak' /\ peak' \in peak .. MaxValues
    BY <1>3, <1>7
  <2> QED BY <1>2, <1>5, <1>6, <1>7, <2>1, PanicsInv
<1>8. CASE Returns(hs) /\ Keep(Replace(lo, hi, NewEntry(hs)))
  BY <1>2, <1>4, <1>8, ReturnsInv DEF hs
<1>9. CASE /\ \E rest \in LeftBy(hs) : items' = restore(hs, rest)
           /\ free' = rollback(Freed(hs), Len(free))
           /\ UNCHANGED <<panic, held, peak, made>>
  <2>1. items' = items /\ free' = free
    BY <1>5, <1>6, <1>9, DeclineRestores
  <2> QED BY <1>2, <1>9, <2>1 DEF IInv, TypeOK, Exact, Leads
<1> QED BY <1>1, <1>7, <1>8, <1>9 DEF hs, hi

(* parse_with returns: the slot of the root's value is freed with it.      *)
LEMMA ParseWithInv == IInv /\ ParseWith => IInv'
<1> SUFFICES ASSUME IInv, ParseWith PROVE IInv'
  OBVIOUS
<1>1. PICK ok \in BOOLEAN :
       /\ ok => Len(held) = 1
       /\ outcome' = IF panic # "none" THEN "panic"
                     ELSE IF ~ok THEN "error"
                     ELSE IF Present(held[1].handle) THEN "value" ELSE "no_root"
       /\ IF outcome' = "value"
          THEN /\ result' = items[held[1].handle]
               /\ items' = Emptied(Handles(held)) /\ free' = Freed(Handles(held))
          ELSE UNCHANGED <<result, slab>>
  BY Zenon DEF ParseWith
<1>2. outcome' \in {"value", "no_root", "error", "panic"} /\ outcome' # "running"
      /\ UNCHANGED <<panic, held, made, peak>>
  BY <1>1 DEF ParseWith
<1>3. CASE outcome' # "value"
  <2>1. items' = items /\ free' = free /\ result' = result
    BY <1>1, <1>3 DEF slab
  <2> QED BY <1>2, <2>1 DEF IInv, TypeOK, Exact
<1>4. CASE outcome' = "value"
  <2>1. Len(held) = 1 /\ Present(held[1].handle)
    BY <1>1, <1>4
  <2>2. MaxValues \in Nat /\ held \in Seq(Entry) /\ items \in Seq(0 .. MaxValues)
        /\ free \in Seq(1 .. MaxValues) /\ Exact(items, free) /\ Len(items) <= peak
        /\ peak \in 0 .. MaxValues /\ Len(items) <= MaxValues
    BY BindingAssumption DEF IInv, TypeOK, Entry
  <2> DEFINE hs == Handles(held)
  <2>3. hs \in Seq(0 .. MaxValues) /\ DOMAIN hs = 1 .. 1 /\ hs[1] = held[1].handle
    <3>1. DOMAIN held = 1 .. 1 /\ held[1].handle \in 0 .. MaxValues
      <4>1. DOMAIN held = 1 .. 1
        BY <2>1, <2>2, LenProperties
      <4>2. 1 \in 1 .. Len(held)
        BY <2>1
      <4>3. held[1] \in Entry
        BY <2>2, <4>2, ElementOfSeq
      <4> QED BY <4>1, <4>3 DEF Entry
    <3>2. hs \in [1 .. 1 -> 0 .. MaxValues] /\ hs[1] = held[1].handle
      BY <3>1 DEF Handles
    <3> QED BY <3>2, FunctionSeq
  <2>4. AllPresent(hs)
    BY <2>1, <2>3 DEF AllPresent
  <2>5. items[held[1].handle] \in 0 .. MaxValues
    BY <2>1, <2>2 DEF Present
  <2> HIDE DEF hs
  <2>6. /\ items' \in Seq(0 .. MaxValues) /\ Len(items') = Len(items)
        /\ free' \in Seq(1 .. MaxValues) /\ Exact(items', free')
    <3>1. items' = Emptied(hs) /\ free' = Freed(hs)
      BY <1>1, <1>4 DEF hs
    <3> QED BY <2>2, <2>3, <2>4, <3>1, Take
  <2>7. TypeOK'
    BY <1>1, <1>2, <1>4, <2>5, <2>6 DEF IInv, TypeOK
  <2> QED BY <1>2, <2>6, <2>7 DEF IInv
<1> QED BY <1>3, <1>4

(* Every callback keeps the invariant.                                     *)
LEMMA NextIInv == ~VisitorMayDrain /\ IInv /\ [Next]_vars => IInv'
<1> SUFFICES ASSUME ~VisitorMayDrain, IInv, [Next]_vars PROVE IInv'
  OBVIOUS
<1>1. CASE UNCHANGED vars
  BY <1>1 DEF vars, slab, IInv, TypeOK, Exact, Leads
<1> QED BY <1>1, OnNodeInv, OnHiddenInv, ParseWithInv DEF Next

-----------------------------------------------------------------------------
(* The inductive invariant holds of every parse, for any number of values  *)
(* and whenever the visitor folds, declines or panics, as long as it does  *)
(* not take children out of a run it then declines.                        *)
THEOREM SlabInvariance == ~VisitorMayDrain /\ Spec => []IInv
<1>1. ASSUME ~VisitorMayDrain PROVE IInv /\ [Next]_vars => IInv'
  BY <1>1, NextIInv
<1>2. ASSUME ~VisitorMayDrain PROVE Spec => []IInv
  BY <1>1, <1>2, InitIInv, PTL DEF Spec
<1> QED BY <1>2

-----------------------------------------------------------------------------
(* Language::parse_file.                                                   *)

P == INSTANCE TFFileProofs WITH NULL <- NoData, pc <- opening

(* Where parse_file stands with its TFFile: between calls nothing is open, *)
(* during tf_file_open the TFFile has not opened, and the parse has one    *)
(* that did.                                                               *)
CallerInv ==
  /\ caller \in {"idle", "open", "opening", "parse"}
  /\ caller # "opening" => opening = "idle"
  /\ caller = "idle" => view = 0
  /\ caller = "open" => last = "closed"
  /\ caller = "parse" => last = "opened"
  /\ panics \in Nat /\ lost \in Nat /\ lost <= panics

(* The size limits of the composition are those TFFile assumes.            *)
LEMMA FileAssumed == P!FileAssumption
  BY CallsAssumption DEF P!FileAssumption

(* A step of tf_file_open, of tf_file_close or of another process, taken   *)
(* within parse_file, keeps what TFFileProofs proves inductive.            *)
LEMMA FileStep == P!IInv /\ [P!Next]_P!vars => P!IInv'
  BY P!NextIInv, FileAssumed

(* Nothing is open before the first call.                                  *)
LEMMA InitFileInv == FileInit => P!IInv /\ CallerInv
<1> SUFFICES ASSUME FileInit PROVE P!IInv /\ CallerInv
  OBVIOUS
<1>1. P!IInv
  <2>1. P!Init
    BY DEF FileInit, P!Init, F!Init
  <2> QED BY <2>1, P!InitIInv, FileAssumed
<1>2. CallerInv
  BY DEF FileInit, CallerInv, F!Init
<1> QED BY <1>1, <1>2

(* The slab is new at every parse and only the parse changes it.           *)
LEMMA SlabStep == ~VisitorMayDrain /\ IInv /\ [FileNext]_everything => IInv'
<1> SUFFICES ASSUME ~VisitorMayDrain, IInv, [FileNext]_everything PROVE IInv'
  OBVIOUS
<1>1. CASE ParseBegins
  <2>1. Init'
    BY <1>1 DEF ParseBegins, Init
  <2>2. Init' => IInv'
    BY InitIInv, PTL
  <2> QED BY <2>1, <2>2
<1>2. CASE Parsing
  BY <1>2, NextIInv DEF Parsing
<1>3. CASE UNCHANGED vars
  BY <1>3, NextIInv
<1>4. \/ ParseBegins \/ Parsing \/ UNCHANGED vars
  BY DEF FileNext, everything, Begin, OpenCalled, OpenGoesOn, OpenFailed, Close, Unwind, Written
<1> QED BY <1>1, <1>2, <1>3, <1>4

(* Every step of parse_file keeps the invariant.                           *)
LEMMA FileNextInv == P!IInv /\ CallerInv /\ [FileNext]_everything => P!IInv' /\ CallerInv'
<1> SUFFICES ASSUME P!IInv, CallerInv, [FileNext]_everything PROVE P!IInv' /\ CallerInv'
  OBVIOUS
<1> USE DEF CallerInv
<1>0. /\ view \in Nat /\ (view > 0 => last = "opened")
      /\ (opening # "idle" => last # "opened") /\ last \in {"closed", "failed", "opened"}
  BY CallsAssumption DEF P!IInv, P!TypeOK, P!NothingLeaks, P!UnderWay
<1>1. CASE Begin
  <2>1. CASE caller' = "open" /\ data' = NoData /\ size' = 0 /\ last' = "closed"
    <3>1. P!IInv'
      BY <1>1, <2>1, CallsAssumption
         DEF Begin, P!IInv, P!TypeOK, P!NothingLeaks, P!OpenedIsAsReported, P!ClosesOnlyViews,
             P!UnderWay, P!AtRest
    <3> QED BY <1>1, <2>1, <3>1 DEF Begin
  <2>2. CASE UNCHANGED <<caller, data, size, last>>
    <3>1. UNCHANGED P!vars
      BY <1>1, <2>2 DEF Begin, P!vars, P!tffile
    <3> QED BY <1>1, <2>2, <3>1, FileStep DEF Begin
  <2> QED BY <1>1, <2>1, <2>2 DEF Begin
<1>2. CASE OpenCalled
  <2>1. P!Open
    BY <1>2 DEF OpenCalled, F!Open, P!Open
  <2>2. P!IInv'
    BY <2>1, FileStep DEF P!Next
  <2> QED BY <1>2, <2>2 DEF OpenCalled
<1>3. CASE OpenGoesOn
  <2>1. P!Next
    BY <1>3 DEF OpenGoesOn, P!Next, F!SizeFails, F!TooLarge, F!Empty, F!Sized, F!MapFails, F!Map,
         F!CreateFileMapping, F!MapViewOfFile, F!ViewFails, F!tf_file__fail, F!Succeed, F!Fits,
         F!uint32, F!tffile, P!SizeFails, P!TooLarge, P!Empty, P!Sized, P!MapFails, P!Map,
         P!CreateFileMapping, P!MapViewOfFile, P!ViewFails, P!tf_file__fail, P!Succeed, P!Fits,
         P!uint32, P!tffile
  <2>2. P!IInv'
    BY <2>1, FileStep
  <2> QED BY <1>3, <2>2 DEF OpenGoesOn, callvars
<1>4. CASE OpenFailed
  <2>1. UNCHANGED P!vars
    BY <1>4 DEF OpenFailed, filevars, P!vars, P!tffile
  <2> QED BY <1>0, <1>4, <2>1, FileStep DEF OpenFailed, filevars
<1>5. CASE ParseBegins
  <2>1. UNCHANGED P!vars
    BY <1>5 DEF ParseBegins, filevars, P!vars, P!tffile
  <2> QED BY <1>5, <2>1, FileStep DEF ParseBegins, filevars
<1>6. CASE Parsing
  <2>1. UNCHANGED P!vars
    BY <1>6 DEF Parsing, filevars, P!vars, P!tffile
  <2> QED BY <1>6, <2>1, FileStep DEF Parsing, filevars, callvars
<1>7. CASE Close
  <2>1. P!tf_file_close /\ last' = "closed" /\ UNCHANGED opening
    BY <1>7 DEF Close, F!tf_file_close, P!tf_file_close, F!Mapped, P!Mapped
  <2>2. P!IInv'
    BY <2>1, FileStep DEF P!Next
  <2>3. view' = 0
    BY <2>1, <2>2, CallsAssumption DEF P!IInv, P!TypeOK, P!NothingLeaks
  <2> QED BY <1>7, <2>1, <2>2, <2>3 DEF Close
<1>8. CASE Unwind
  <2>1. P!IInv'
    BY <1>8, CallsAssumption
       DEF Unwind, P!IInv, P!TypeOK, P!NothingLeaks, P!OpenedIsAsReported, P!ClosesOnlyViews,
           P!UnderWay, P!AtRest
  <2> QED BY <1>8, <2>1 DEF Unwind
<1>9. CASE Written
  <2>1. P!Resize
    BY <1>9 DEF Written, F!Resize, P!Resize, F!tffile, P!tffile
  <2>2. P!IInv'
    BY <2>1, FileStep DEF P!Next
  <2> QED BY <1>9, <2>1, <2>2 DEF Written, callvars, P!Resize
<1>10. CASE UNCHANGED everything
  <2>1. UNCHANGED P!vars
    BY <1>10 DEF everything, filevars, P!vars, P!tffile
  <2> QED BY <1>10, <2>1, FileStep DEF everything, filevars, callvars
<1> QED BY <1>1, <1>2, <1>3, <1>4, <1>5, <1>6, <1>7, <1>8, <1>9, <1>10 DEF FileNext

-----------------------------------------------------------------------------
(* Whatever the calls, the sizes and the failures, the mapping invariant   *)
(* of parse_file is inductive.                                             *)
THEOREM CallsInvariance == FileSpec => [](P!IInv /\ CallerInv)
  BY InitFileInv, FileNextInv, PTL DEF FileSpec

(* The view is there for the whole parse, and a parse_file that returns *)
(* leaves nothing behind; only a visitor's panic does.                     *)
THEOREM AlwaysMapped == FileSpec => []MappedForTheParse
<1>1. P!IInv /\ CallerInv => MappedForTheParse
  <2> SUFFICES ASSUME P!IInv, CallerInv PROVE MappedForTheParse
    OBVIOUS
  <2>1. caller = "parse" => data # NoData /\ size = reported /\ view = size
    BY DEF CallerInv, P!IInv, P!OpenedIsAsReported
  <2>2. caller = "idle" => file = "closed" /\ section = 0 /\ view = 0
    BY DEF CallerInv, P!IInv, P!NothingLeaks
  <2> QED BY <2>1, <2>2 DEF MappedForTheParse, CallerInv
<1> QED BY <1>1, CallsInvariance, PTL

(* The slab's invariant holds through every call of parse_file, where no   *)
(* visitor takes children out of a run it declines (the drain that         *)
(* on_hidden cannot undo).                                                 *)
THEOREM CallsKeepTheSlab == ~VisitorMayDrain /\ FileSpec => []IInv
<1>1. FileInit => IInv
  BY InitIInv DEF FileInit
<1>2. ASSUME ~VisitorMayDrain PROVE IInv /\ [FileNext]_everything => IInv'
  BY <1>2, SlabStep
<1>3. ASSUME ~VisitorMayDrain PROVE FileSpec => []IInv
  BY <1>1, <1>2, <1>3, PTL DEF FileSpec
<1> QED BY <1>3

(* In every call of parse_file, a handle the filter holds leads to the     *)
(* value it was returned for, where no visitor drains a run it declines.   *)
THEOREM CallsResolve == ~VisitorMayDrain /\ FileSpec => []HandlesResolve
<1>1. IInv => HandlesResolve
  BY DEF IInv, HandlesResolve, Leads
<1> QED BY <1>1, CallsKeepTheSlab, PTL

(* In every call of parse_file, the free list holds every empty slot once  *)
(* and the slab is no larger than it had to be, where no visitor drains a  *)
(* run it declines.                                                        *)
THEOREM CallsReuseSlots == ~VisitorMayDrain /\ FileSpec => []FreeListExact
<1>1. IInv => FreeListExact
  BY DEF IInv, FreeListExact, Exact
<1> QED BY <1>1, CallsKeepTheSlab, PTL

(* No call of parse_file meets the panic for a child without a value,      *)
(* unless a visitor drains a run it declines.                              *)
THEOREM CallsFindTheirChildren == ~VisitorMayDrain /\ FileSpec => []ChildrenHaveValues
<1>1. IInv => ChildrenHaveValues
  BY DEF IInv, ChildrenHaveValues
<1> QED BY <1>1, CallsKeepTheSlab, PTL
=============================================================================
