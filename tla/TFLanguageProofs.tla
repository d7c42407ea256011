-------------------------- MODULE TFLanguageProofs --------------------------
(***************************************************************************)
(* Proofs about tf_language_load: the inductive invariant of the loader,   *)
(* that nothing it allocated is lost, that it loads the grammars the       *)
(* library supports and no other, and that the tables it expands say what  *)
(* the packed ones do.  Every grammar Languages may hold is a WellFormed   *)
(* one; the number of states, symbols, productions and actions is any.     *)
(***************************************************************************)
EXTENDS TFLanguage, FiniteSetTheorems, WellFoundedInduction, TLAPS

-----------------------------------------------------------------------------
(* Finite sets of natural numbers have a least and a greatest element.     *)

(* A least element of any set of natural numbers: Min of FiniteSetsExt.    *)
LEMMA MinIsLeast ==
  ASSUME NEW S \in SUBSET Nat, S # {}
  PROVE  Min(S) \in S /\ \A x \in S : Min(S) <= x
<1>1. PICK m \in S : \A x \in S : <<x, m>> \notin OpToRel(<, Nat)
  BY WFMin, NatLessThanWellFounded, Zenon
<1>2. \A x \in S : ~(x < m)
  BY <1>1 DEF OpToRel
<1>3. \A x \in S : m <= x
  BY <1>2
<1> QED BY <1>3 DEF Min

(* A finite set of natural numbers that is not empty has a greatest        *)
(* element: by the size of a smallest set that would have none.            *)
LEMMA FiniteHasGreatest ==
  ASSUME NEW S \in SUBSET Nat, S # {}, IsFiniteSet(S)
  PROVE  \E m \in S : \A x \in S : x <= m
<1> DEFINE Tops(X) == \E m \in X : \A x \in X : x <= m
           Bad(X) == X # {} /\ IsFiniteSet(X) /\ ~Tops(X)
           Sizes == {n \in Nat : \E X \in SUBSET Nat : Bad(X) /\ Cardinality(X) = n}
<1>1. SUFFICES ASSUME Bad(S) PROVE FALSE
  OBVIOUS
<1>2. Cardinality(S) \in Sizes
  BY <1>1, FS_CardinalityType
<1>3. PICK n \in Sizes : \A k \in Sizes : <<k, n>> \notin OpToRel(<, Nat)
  <2>1. Sizes \subseteq Nat /\ Sizes # {}
    BY <1>2
  <2> HIDE DEF Sizes
  <2> QED BY <2>1, WFMin, NatLessThanWellFounded, Zenon
<1>4. \A k \in Sizes : ~(k < n)
  BY <1>3 DEF OpToRel
<1>5. PICK X \in SUBSET Nat : Bad(X) /\ Cardinality(X) = n
  OBVIOUS
<1>6. PICK e \in X : TRUE
  BY <1>5
<1> DEFINE Y == X \ {e}
<1>7. IsFiniteSet(Y) /\ Cardinality(Y) = n - 1 /\ Cardinality(Y) \in Nat
  BY <1>5, <1>6, FS_RemoveElement, FS_CardinalityType
<1>8. Cardinality(Y) < n
  BY <1>7
<1>9. ~Bad(Y)
  <2>1. Cardinality(Y) \notin Sizes
    BY <1>4, <1>8
  <2> QED BY <2>1, <1>7
<1>10. CASE Y = {}
  <2>1. X = {e}
    BY <1>6, <1>10
  <2> QED BY <2>1, <1>5
<1>11. CASE Tops(Y)
  <2>1. PICK m \in Y : \A x \in Y : x <= m
    BY <1>11
  <2>2. e \in Nat /\ m \in Nat /\ Y \subseteq Nat
    OBVIOUS
  <2>3. CASE e <= m
    BY <2>1, <2>3, <1>5
  <2>4. CASE m <= e
    <3>1. \A x \in X : x <= e
      BY <2>1, <2>2, <2>4
    <3> QED BY <3>1, <1>5, <1>6
  <2> QED BY <2>2, <2>3, <2>4
<1> QED BY <1>7, <1>9, <1>10, <1>11

(* Max of FiniteSetsExt.                                                   *)
LEMMA MaxIsGreatest ==
  ASSUME NEW S \in SUBSET Nat, S # {}, IsFiniteSet(S)
  PROVE  Max(S) \in S /\ \A x \in S : x <= Max(S)
<1>1. PICK m \in S : \A x \in S : x <= m
  BY FiniteHasGreatest
<1>2. m \in S /\ \A x \in S : m >= x
  BY <1>1
<1>3. Max(S) \in S /\ \A x \in S : Max(S) >= x
  BY <1>2, Zenon DEF Max
<1> QED BY <1>3
-----------------------------------------------------------------------------
(* The inductive invariant: what the loader has done by each of its steps. *)

(* The steps from the one on that follows an allocation or a check.        *)
AfterAcceptsEnd == {"loaded"}
AfterCounts == {"filter", "accepts_end"} \cup AfterAcceptsEnd
AfterAliasable == {"counts"} \cup AfterCounts
AfterFields == {"aliasable"} \cup AfterAliasable
AfterDense == {"fields"} \cup AfterFields
AfterModes == {"dense"} \cup AfterDense
AfterSelf == {"modes"} \cup AfterModes
AfterCheck == {"self"} \cup AfterSelf

(* Where the loader is, with which grammar.                                *)
Stage ==
  /\ ts \in Languages \cup {NULL}
  /\ pc \in {"check", "failed", "freed"} \cup AfterCheck

(* What is allocated at each step, and nothing else is.                    *)
Ledger ==
  /\ blocks \subseteq Freed
  /\ "self" \in blocks <=> pc \in AfterSelf
  /\ "dense" \in blocks <=> pc \in AfterDense
  /\ "field_at" \in blocks <=> pc \in AfterFields /\ field_at_width # 0
  /\ "aliasable" \in blocks <=> pc \in AfterAliasable
  /\ "action_counts" \in blocks <=> pc \in AfterCounts
  /\ "accepts_end" \in blocks <=> pc \in AfterAcceptsEnd

(* The checks a grammar passed.                                            *)
Vetted ==
  /\ pc \in AfterCheck => Rejection = NULL
  /\ pc \in AfterModes => Refusal = NULL

(* The tables expanded so far.                                             *)
Flattened(p) == [c \in 0 .. Width - 1 |-> Slot(p, c)]
Expanded ==
  /\ pc \in AfterDense => dense = [s \in States |-> Row(s)]
  /\ pc \in AfterFields =>
       /\ field_at_width = Width
       /\ Width > 0 => field_at = [p \in Productions |-> Flattened(p)]

(* The renamed symbols are those the walk of alias_map comes to.           *)
Marked == pc \in AfterAliasable => aliasable = Renamed

(* The counts and what they count: past the filter, every entry some pair  *)
(* refers to has only repeat shifts behind the actions it keeps.           *)
Tallied ==
  /\ pc \in AfterCounts => DOMAIN action_counts = 0 .. tf_language__action_table_extent - 1
  /\ pc \in AfterCounts \ {"filter"} =>
       \A index \in Indices : /\ Truncates(ts.actions[index])
                              /\ action_counts[index] = Kept(ts.actions[index])
  /\ pc = "loaded" => accepts_end = {s \in States : Accepts(s)}

(* What the caller is told.                                                *)
Reported ==
  /\ pc # "failed" => error = NULL
  /\ pc = "failed" => error \in Messages \ {"no such action"} /\ (error # "oom" => ~Supported)

IInv == Stage /\ Ledger /\ Vetted /\ Expanded /\ Marked /\ Tallied /\ Reported

-----------------------------------------------------------------------------
(* What the tables of a grammar are that passed the first checks.          *)

(* Such a grammar is there, is what the generator makes, and is not empty. *)
LEMMA Grammar ==
  ASSUME Stage, Rejection = NULL
  PROVE  /\ ts # NULL /\ ts \in Languages /\ WellFormed(ts)
         /\ ts.abi_version = 15 /\ ts.external_token_count = 0
         /\ {ts.symbol_count, ts.token_count, ts.state_count, ts.production_id_count} \subseteq Nat \ {0}
         /\ ts.token_count <= ts.symbol_count
<1>1. NULL \notin {"null", "abi", "empty", "external scanner"}
  BY LanguageAssumption DEF Messages
<1>2. ts # NULL /\ ts.abi_version = 15 /\ ts.external_token_count = 0
  BY <1>1 DEF Rejection, TF_ABI_VERSION
<1>3. 0 \notin {ts.symbol_count, ts.state_count, ts.token_count, ts.production_id_count}
  BY <1>1, <1>2 DEF Rejection, TF_ABI_VERSION
<1>4. ts \in Languages /\ WellFormed(ts)
  BY <1>2, LanguageAssumption DEF Stage
<1>5. {ts.symbol_count, ts.token_count, ts.state_count, ts.production_id_count} \subseteq Nat
  BY <1>4 DEF WellFormed
<1>6. ts.token_count <= ts.symbol_count
  BY <1>3, <1>4 DEF WellFormed
<1> QED BY <1>2, <1>3, <1>4, <1>5, <1>6

(* The groups of a row that list a symbol.                                 *)
Hits(s, y) == {i \in DOMAIN ts.rows[s] : y \in Range(ts.rows[s][i].symbols)}

(* The last of them gives a packed row its value there.                    *)
LEMMA LastHit ==
  ASSUME Stage, Rejection = NULL, NEW s \in States, ~(s < ts.large_state_count),
         NEW y \in Symbols, Hits(s, y) # {}
  PROVE  /\ Max(Hits(s, y)) \in Hits(s, y)
         /\ Row(s)[y] = ts.rows[s][Max(Hits(s, y))].value
<1>1. ts.rows[s] \in Seq(PackedGroup)
  BY Grammar DEF WellFormed, States
<1>2. Len(ts.rows[s]) \in Nat /\ DOMAIN ts.rows[s] = 1 .. Len(ts.rows[s])
  BY <1>1
<1>3. Hits(s, y) \in SUBSET (1 .. Len(ts.rows[s]))
  BY <1>2 DEF Hits
<1>4. IsFiniteSet(1 .. Len(ts.rows[s]))
  BY <1>2, FS_Interval
<1>5. IsFiniteSet(Hits(s, y))
  BY <1>3, <1>4, FS_Subset
<1>6. Hits(s, y) \in SUBSET Nat
  BY <1>2, <1>3
<1>7. Max(Hits(s, y)) \in Hits(s, y)
  BY <1>5, <1>6, MaxIsGreatest
<1>8. Row(s)[y] = ts.rows[s][Max(Hits(s, y))].value
  <2>1. Row(s) = Unpack(ts.rows[s])
    BY DEF Row
  <2>2. Unpack(ts.rows[s])[y] = IF Hits(s, y) = {} THEN 0 ELSE ts.rows[s][Max(Hits(s, y))].value
    BY Zenon DEF Unpack, Hits
  <2> QED BY <2>1, <2>2
<1> QED BY <1>7, <1>8

(* A packed row is zero where no group lists the symbol.                   *)
LEMMA NoHit ==
  ASSUME NEW s \in States, ~(s < ts.large_state_count), NEW y \in Symbols, Hits(s, y) = {}
  PROVE  Row(s)[y] = 0
<1>1. Row(s) = Unpack(ts.rows[s])
  BY DEF Row
<1>2. Unpack(ts.rows[s])[y] = IF Hits(s, y) = {} THEN 0 ELSE ts.rows[s][Max(Hits(s, y))].value
  BY Zenon DEF Unpack, Hits
<1> QED BY <1>1, <1>2

(* A terminal's cell is 0 or the index of an entry of parse_actions.       *)
LEMMA Cells ==
  ASSUME Stage, Rejection = NULL, NEW s \in States, NEW t \in Tokens
  PROVE  Row(s)[t] \in {0} \cup DOMAIN ts.actions
<1>1. WellFormed(ts) /\ t \in Symbols
  BY Grammar DEF Tokens, Symbols
<1>2. CASE s < ts.large_state_count
  BY <1>1, <1>2 DEF WellFormed, Row, States, Tokens
<1>3. CASE ~(s < ts.large_state_count)
  <2>1. CASE Hits(s, t) = {}
    BY <2>1, <1>1, <1>3, NoHit
  <2>2. CASE Hits(s, t) # {}
    <3>1. Max(Hits(s, t)) \in Hits(s, t) /\ Row(s)[t] = ts.rows[s][Max(Hits(s, t))].value
      BY <2>2, <1>1, <1>3, LastHit
    <3>2. \A i \in DOMAIN ts.rows[s] : t \in Range(ts.rows[s][i].symbols) =>
            ts.rows[s][i].value \in {0} \cup DOMAIN ts.actions
      BY <1>1, <1>3 DEF WellFormed, States, Tokens
    <3> QED BY <3>1, <3>2 DEF Hits
  <2> QED BY <2>1, <2>2
<1> QED BY <1>2, <1>3

-----------------------------------------------------------------------------
(* The entries of parse_actions the table refers to, and their counts.     *)

(* They are the cells of terminals other than 0, finitely many, and each   *)
(* is there.                                                               *)
LEMMA Entries ==
  ASSUME Stage, Rejection = NULL, dense = [s \in States |-> Row(s)]
  PROVE  /\ Indices = Referenced
         /\ Indices \subseteq DOMAIN ts.actions /\ IsFiniteSet(Indices)
<1> DEFINE Pairs == States \X Tokens
           Cell == [q \in Pairs |-> Row(q[1])[q[2]]]
           Image == {Row(s)[t] : s \in States, t \in Tokens}
<1>1. \A s \in States, t \in Tokens : tf_lookup(s, t) = Row(s)[t]
  BY DEF tf_lookup
<1>2. Indices = Image \ {0}
  BY <1>1 DEF Indices
<1>3. Image \subseteq {0} \cup DOMAIN ts.actions
  BY Cells
<1>4. IsFiniteSet(States) /\ IsFiniteSet(Tokens)
  <2>1. ts.state_count - 1 \in Int /\ ts.token_count - 1 \in Int
    BY Grammar
  <2> QED BY <2>1, FS_Interval DEF States, Tokens
<1>5. IsFiniteSet(Pairs)
  BY <1>4, FS_Product
<1>6. Cell \in Surjection(Pairs, Image)
  <2>1. Cell \in [Pairs -> Image]
    OBVIOUS
  <2>2. ASSUME NEW v \in Image
        PROVE  \E q \in Pairs : Cell[q] = v
    <3>1. PICK s \in States, t \in Tokens : v = Row(s)[t]
      OBVIOUS
    <3>2. <<s, t>> \in Pairs /\ Cell[<<s, t>>] = Row(s)[t]
      OBVIOUS
    <3> HIDE DEF Cell
    <3> QED BY <3>1, <3>2
  <2> HIDE DEF Cell, Image, Pairs
  <2> QED BY <2>1, <2>2 DEF Surjection
<1>7. IsFiniteSet(Image)
  <2> HIDE DEF Cell, Image, Pairs
  <2> QED BY <1>5, <1>6, FS_Surjection
<1>8. IsFiniteSet(Image \ {0})
  BY <1>7, FS_RemoveElement
<1> QED BY <1>2, <1>3, <1>8 DEF Referenced

(* The extent lies past every entry some pair refers to: the filter never  *)
(* meets an index it has no count for.                                     *)
LEMMA Extent ==
  ASSUME Stage, Rejection = NULL, dense = [s \in States |-> Row(s)]
  PROVE  /\ tf_language__action_table_extent \in Nat
         /\ \A index \in Indices : index \in 0 .. tf_language__action_table_extent - 1
<1> DEFINE Ends == {index + 1 + Len(ts.actions[index]) : index \in Indices}
           End == [index \in Indices |-> index + 1 + Len(ts.actions[index])]
           All == {1} \cup Ends
<1>1. Indices \subseteq DOMAIN ts.actions /\ IsFiniteSet(Indices)
  BY Entries
<1>2. \A index \in Indices : index \in Nat /\ Len(ts.actions[index]) \in Nat
  BY <1>1, Grammar DEF WellFormed
<1>3. IsFiniteSet(Ends)
  <2>1. End \in Surjection(Indices, Ends)
    BY DEF Surjection
  <2> HIDE DEF End, Ends
  <2> QED BY <1>1, <2>1, FS_Surjection
<1>4. IsFiniteSet(All)
  <2> HIDE DEF Ends
  <2>1. IsFiniteSet(Ends \cup {1})
    BY <1>3, FS_AddElement
  <2>2. All = Ends \cup {1}
    OBVIOUS
  <2> QED BY <2>1, <2>2
<1>5. All \in SUBSET Nat /\ All # {}
  BY <1>2
<1>6. Max(All) \in All /\ \A x \in All : x <= Max(All)
  <2> HIDE DEF All
  <2> QED BY <1>4, <1>5, MaxIsGreatest
<1>7. tf_language__action_table_extent = Max(All)
  BY DEF tf_language__action_table_extent
<1>8. ASSUME NEW index \in Indices
      PROVE  index \in 0 .. Max(All) - 1
  <2>1. index + 1 + Len(ts.actions[index]) \in All
    OBVIOUS
  <2>2. index + 1 + Len(ts.actions[index]) <= Max(All) /\ Max(All) \in Nat
    <3> HIDE DEF All
    <3> QED BY <2>1, <1>5, <1>6
  <2> HIDE DEF All
  <2> QED BY <2>2, <1>2
<1>9. Max(All) \in Nat
  BY <1>5, <1>6
<1> HIDE DEF All
<1> QED BY <1>7, <1>8, <1>9

(* The kept actions are those before the first repeat shift.               *)
LEMMA KeptIsPrefix ==
  ASSUME NEW acts \in Seq(Action)
  PROVE  /\ Kept(acts) \in 0 .. Len(acts)
         /\ \A i \in 1 .. Kept(acts) : ~tf_language__is_repeat_shift(acts[i])
         /\ Kept(acts) < Len(acts) => tf_language__is_repeat_shift(acts[Kept(acts) + 1])
<1> DEFINE Repeats == {j \in DOMAIN acts : tf_language__is_repeat_shift(acts[j])}
           Stops == {Len(acts)} \cup {i - 1 : i \in Repeats}
<1>1. Len(acts) \in Nat /\ DOMAIN acts = 1 .. Len(acts)
  OBVIOUS
<1>2. Stops \in SUBSET Nat /\ Stops # {}
  BY <1>1
<1>3. Min(Stops) \in Stops /\ \A x \in Stops : Min(Stops) <= x
  <2> HIDE DEF Stops
  <2> QED BY <1>2, MinIsLeast
<1>4. Kept(acts) = Min(Stops)
  BY DEF Kept
<1> DEFINE k == Min(Stops)
<1>5. k \in Nat /\ k <= Len(acts)
  <2>1. Len(acts) \in Stops
    OBVIOUS
  <2> HIDE DEF Stops
  <2> QED BY <2>1, <1>2, <1>3
<1>6. ASSUME NEW i \in Repeats
      PROVE  k < i
  <2>1. i - 1 \in Stops /\ i \in Nat
    BY <1>1
  <2> HIDE DEF Stops, Repeats
  <2> QED BY <2>1, <1>3, <1>5
<1>7. k < Len(acts) => k + 1 \in Repeats
  <2> SUFFICES ASSUME k < Len(acts) PROVE k + 1 \in Repeats
    OBVIOUS
  <2>1. PICK i \in Repeats : k = i - 1
    <3>1. k \in {i - 1 : i \in Repeats}
      <4>1. k # Len(acts)
        BY <1>1, <1>5
      <4> QED BY <4>1, <1>3
    <3> HIDE DEF k
    <3> QED BY <3>1
  <2>2. i = k + 1
    <3> HIDE DEF k
    <3> QED BY <2>1, <1>1
  <2> QED BY <2>2
<1> HIDE DEF k
<1>8. \A i \in 1 .. k : ~tf_language__is_repeat_shift(acts[i])
  BY <1>1, <1>5, <1>6
<1> QED BY <1>1, <1>4, <1>5, <1>7, <1>8 DEF k

(* What the second loop over an entry tests: no action but a repeat shift  *)
(* stands behind a repeat shift.                                           *)
LEMMA TruncatesExactly ==
  ASSUME NEW acts \in Seq(Action)
  PROVE  Truncates(acts) <=> RepeatsTrail(acts)
<1>1. Len(acts) \in Nat /\ DOMAIN acts = 1 .. Len(acts)
  OBVIOUS
<1> DEFINE k == Kept(acts)
<1>2. /\ k \in 0 .. Len(acts)
      /\ \A i \in 1 .. k : ~tf_language__is_repeat_shift(acts[i])
      /\ k < Len(acts) => tf_language__is_repeat_shift(acts[k + 1])
  BY KeptIsPrefix
<1>3. Truncates(acts) <=> \A i \in k + 1 .. Len(acts) : tf_language__is_repeat_shift(acts[i])
  BY DEF Truncates
<1> HIDE DEF k
<1>4. ASSUME Truncates(acts), NEW i \in DOMAIN acts, NEW j \in DOMAIN acts,
             i < j, tf_language__is_repeat_shift(acts[i])
      PROVE  tf_language__is_repeat_shift(acts[j])
  <2>1. k < i
    BY <1>1, <1>2, <1>4
  <2> QED BY <2>1, <1>1, <1>2, <1>3, <1>4
<1>5. ASSUME RepeatsTrail(acts), NEW i \in k + 1 .. Len(acts)
      PROVE  tf_language__is_repeat_shift(acts[i])
  <2>1. k < Len(acts) /\ k + 1 \in DOMAIN acts /\ i \in DOMAIN acts
    BY <1>1, <1>2
  <2>2. CASE i = k + 1
    BY <2>1, <2>2, <1>2
  <2>3. CASE k + 1 < i
    BY <2>1, <2>3, <1>2, <1>5 DEF RepeatsTrail
  <2>4. i = k + 1 \/ k + 1 < i
    BY <1>1, <1>2
  <2> QED BY <2>2, <2>3, <2>4
<1> QED BY <1>3, <1>4, <1>5 DEF RepeatsTrail

-----------------------------------------------------------------------------
(* The invariant holds at the call and is kept by every step of it.        *)

LEMMA InitIInv == Init => IInv
  BY DEF Init, IInv, Stage, Ledger, Vetted, Expanded, Marked, Tallied, Reported, AfterCheck, AfterSelf,
         AfterModes, AfterDense, AfterFields, AfterAliasable, AfterCounts, AfterAcceptsEnd

(* Each allocation enters its block in the ledger and moves on; each end   *)
(* returns all of them.                                                    *)
LEMMA LedgerKept ==
  ASSUME Stage, Ledger, [Next]_vars
  PROVE  Stage' /\ Ledger'
<1> USE DEF Stage, Ledger, AfterCheck, AfterSelf, AfterModes, AfterDense, AfterFields,
            AfterAliasable, AfterCounts, AfterAcceptsEnd, Freed, Calloc, Fail, tables
<1>1. CASE Check
  BY <1>1 DEF Check
<1>2. CASE Self
  BY <1>2 DEF Self
<1>3. CASE Modes
  BY <1>3 DEF Modes
<1>4. CASE Dense
  BY <1>4 DEF Dense
<1>5. CASE Fields
  <2> DEFINE w == Width
  <2>1. \/ w > 0 /\ blocks' = blocks \cup {"field_at"}
        \/ w = 0 /\ blocks' = blocks
    BY <1>5 DEF Fields
  <2>2. pc = "fields" /\ pc' = "aliasable" /\ ts' = ts /\ field_at_width' = w
    BY <1>5 DEF Fields
  <2> HIDE DEF w
  <2>3. CASE w > 0
    <3>1. w # 0
      BY <2>3
    <3>2. blocks' = blocks \cup {"field_at"}
      BY <2>1, <3>1
    <3> QED BY <2>2, <3>1, <3>2
  <2>4. CASE w = 0 /\ blocks' = blocks
    BY <2>2, <2>4
  <2> QED BY <2>1, <2>3, <2>4
<1>6. CASE Aliasable
  BY <1>6 DEF Aliasable
<1>7. CASE Counts
  BY <1>7 DEF Counts
<1>8. CASE Filter
  BY <1>8 DEF Filter
<1>9. CASE AcceptsEnd
  BY <1>9 DEF AcceptsEnd
<1>10. CASE OutOfMemory
  BY <1>10 DEF OutOfMemory
<1>11. CASE tf_language_free
  BY <1>11 DEF tf_language_free
<1>12. CASE UNCHANGED vars
  BY <1>12 DEF vars
<1> QED BY <1>1, <1>2, <1>3, <1>4, <1>5, <1>6, <1>7, <1>8, <1>9, <1>10, <1>11, <1>12 DEF Next

(* What a check compares is the grammar's, which no step changes.          *)
LEMMA VettedKept ==
  ASSUME Stage, Vetted, [Next]_vars
  PROVE  Vetted'
<1> USE DEF Vetted, AfterCheck, AfterSelf, AfterModes, AfterDense, AfterFields,
            AfterAliasable, AfterCounts, AfterAcceptsEnd, Calloc, Fail, tables
<1>1. ts' = ts
  BY DEF Next, vars, Check, Self, Modes, Dense, Fields, Aliasable, Counts, Filter, AcceptsEnd,
         OutOfMemory, tf_language_free
<1>2. Rejection' = Rejection /\ Refusal' = Refusal
  BY <1>1 DEF Rejection, Refusal, States
<1>3. pc' \in AfterCheck => pc \in AfterCheck \/ Rejection = NULL
  BY DEF Next, vars, Check, Self, Modes, Dense, Fields, Aliasable, Counts, Filter, AcceptsEnd,
         OutOfMemory, tf_language_free
<1>4. pc' \in AfterModes => pc \in AfterModes \/ Refusal = NULL
  BY DEF Next, vars, Check, Self, Modes, Dense, Fields, Aliasable, Counts, Filter, AcceptsEnd,
         OutOfMemory, tf_language_free
<1> QED BY <1>2, <1>3, <1>4

(* A table is what the step that expanded it made of the grammar.          *)
LEMMA ExpandedKept ==
  ASSUME Stage, Expanded, [Next]_vars
  PROVE  Expanded'
<1> USE DEF AfterDense, AfterFields, AfterAliasable, AfterCounts, AfterAcceptsEnd, Calloc, Fail, tables
<1> DEFINE Rows == [s \in States |-> Row(s)]
           Map == [p \in Productions |-> Flattened(p)]
<1>1. ts' = ts
  BY DEF Next, vars, Check, Self, Modes, Dense, Fields, Aliasable, Counts, Filter, AcceptsEnd,
         OutOfMemory, tf_language_free
<1>2. Rows' = Rows
  BY <1>1 DEF States, Symbols, Row, Unpack
<1>3. Width' = Width
  BY <1>1 DEF Width, Productions, DirectEntries, tf_field_map
<1>4. Map' = Map
  BY <1>1, <1>3 DEF Flattened, Productions, Slot, Direct, DirectEntries, tf_field_map
<1> HIDE DEF Rows, Map
<1>5. pc' \in AfterDense => dense' = Rows \/ (pc \in AfterDense /\ dense' = dense)
  BY DEF Next, vars, Check, Self, Modes, Dense, Fields, Aliasable, Counts, Filter, AcceptsEnd,
         OutOfMemory, tf_language_free, Rows
<1>6. ASSUME pc' \in AfterFields
      PROVE  \/ /\ pc \in AfterFields
                /\ field_at' = field_at /\ field_at_width' = field_at_width
             \/ field_at_width' = Width /\ (Width > 0 => field_at' = Map)
  <2>1. CASE Fields
    <3>1. field_at_width' = Width /\ (field_at' = Map \/ Width = 0)
      BY <2>1 DEF Fields, Map, Flattened
    <3> QED BY <3>1
  <2>2. CASE ~Fields
    BY <1>6, <2>2 DEF Next, vars, Check, Self, Modes, Dense, Aliasable, Counts, Filter, AcceptsEnd,
         OutOfMemory, tf_language_free
  <2> QED BY <2>1, <2>2
<1>7. Expanded = (/\ pc \in AfterDense => dense = Rows
                  /\ pc \in AfterFields => field_at_width = Width /\ (Width > 0 => field_at = Map))
  BY DEF Expanded, Rows, Map
<1>8. Expanded' = (/\ pc' \in AfterDense => dense' = Rows'
                   /\ pc' \in AfterFields =>
                        field_at_width' = Width' /\ (Width' > 0 => field_at' = Map'))
  BY DEF Expanded, Rows, Map
<1> HIDE DEF AfterDense, AfterFields
<1>9. pc' \in AfterDense => dense' = Rows
  BY <1>5, <1>7
<1>10. pc' \in AfterFields => field_at_width' = Width /\ (Width > 0 => field_at' = Map)
  BY <1>6, <1>7
<1> QED BY <1>2, <1>3, <1>4, <1>8, <1>9, <1>10

(* The walk reads the grammar alone.                                       *)
LEMMA MarkedKept ==
  ASSUME Stage, Marked, [Next]_vars
  PROVE  Marked'
<1> USE DEF AfterAliasable, AfterCounts, AfterAcceptsEnd, Calloc, Fail, tables
<1>1. ts' = ts
  BY DEF Next, vars, Check, Self, Modes, Dense, Fields, Aliasable, Counts, Filter, AcceptsEnd,
         OutOfMemory, tf_language_free
<1>2. Renamed' = Renamed
  BY <1>1 DEF Renamed, Symbols, idx, RunEnd
<1>3. pc' \in AfterAliasable => aliasable' = Renamed \/ (pc \in AfterAliasable /\ aliasable' = aliasable)
  BY DEF Next, vars, Check, Self, Modes, Dense, Fields, Aliasable, Counts, Filter, AcceptsEnd,
         OutOfMemory, tf_language_free
<1> QED BY <1>2, <1>3 DEF Marked

(* The counts are allocated for the whole extent, and filled only when     *)
(* every entry truncates.                                                  *)
LEMMA TalliedKept ==
  ASSUME Stage, Vetted, Expanded, Tallied, [Next]_vars
  PROVE  Tallied'
<1> USE DEF AfterDense, AfterFields, AfterAliasable, AfterCounts, AfterAcceptsEnd, Calloc, Fail, tables
<1>1. ts' = ts
  BY DEF Next, vars, Check, Self, Modes, Dense, Fields, Aliasable, Counts, Filter, AcceptsEnd,
         OutOfMemory, tf_language_free
<1> SUFFICES ASSUME pc' \in AfterCounts PROVE Tallied'
  BY DEF Tallied
<1>2. dense' = dense
  BY DEF Next, vars, Check, Self, Modes, Dense, Fields, Aliasable, Counts, Filter, AcceptsEnd,
         OutOfMemory, tf_language_free
<1>3. Indices' = Indices /\ tf_language__action_table_extent' = tf_language__action_table_extent
  BY <1>1, <1>2 DEF Indices, tf_lookup, States, Tokens, tf_language__action_table_extent
<1>4. CASE Counts
  BY <1>4, <1>3 DEF Counts, Tallied
<1>5. CASE Filter
  <2>1. /\ pc = "filter" /\ pc' = "accepts_end"
        /\ \A index \in Indices : index \in DOMAIN action_counts /\ Truncates(ts.actions[index])
        /\ action_counts' = [index \in DOMAIN action_counts |->
                               IF index \in Indices THEN Kept(ts.actions[index]) ELSE 0]
    BY <1>5 DEF Filter, Unusable, Missing
  <2>2. DOMAIN action_counts' = DOMAIN action_counts
    BY <2>1
  <2>3. \A index \in Indices : action_counts'[index] = Kept(ts.actions[index])
    BY <2>1
  <2>4. DOMAIN action_counts = 0 .. tf_language__action_table_extent - 1
    BY <2>1 DEF Tallied
  <2> QED BY <2>1, <2>2, <2>3, <2>4, <1>1, <1>3 DEF Tallied
<1>6. CASE AcceptsEnd
  <2>1. pc = "accepts_end" /\ action_counts' = action_counts /\ accepts_end' = {s \in States : Accepts(s)}
    BY <1>6 DEF AcceptsEnd
  <2>2. {s \in States : Accepts(s)}' = {s \in States : Accepts(s)}
    BY <2>1, <1>1, <1>2 DEF States, Accepts, tf_actions, tf_lookup
  <2>3. accepts_end' = {s \in States : Accepts(s)}'
    BY <2>1, <2>2, Zenon
  <2>4. /\ DOMAIN action_counts = 0 .. tf_language__action_table_extent - 1
        /\ \A index \in Indices : /\ Truncates(ts.actions[index])
                                  /\ action_counts[index] = Kept(ts.actions[index])
    BY <2>1 DEF Tallied
  <2> QED BY <2>1, <2>3, <2>4, <1>1, <1>3 DEF Tallied
<1>7. CASE UNCHANGED vars
  <2>1. {s \in States : Accepts(s)}' = {s \in States : Accepts(s)}
    BY <1>7 DEF vars, States, Accepts, tf_actions, tf_lookup
  <2>2. pc' = pc /\ action_counts' = action_counts /\ accepts_end' = accepts_end
    BY <1>7 DEF vars
  <2> QED BY <2>1, <2>2, <1>1, <1>3 DEF Tallied
<1> QED BY <1>4, <1>5, <1>6, <1>7
     DEF Next, Check, Self, Modes, Dense, Fields, Aliasable, OutOfMemory, tf_language_free

(* A grammar whose header is rejected is not a supported one.              *)
LEMMA Rejected ==
  ASSUME Rejection # NULL
  PROVE  ~Supported /\ Rejection \in Messages \ {"no such action"}
BY DEF Rejection, Supported, Messages, TF_ABI_VERSION

(* Nor is one that is refused for its lex states or the size of its table. *)
LEMMA Refused ==
  ASSUME Stage, Rejection = NULL, Refusal # NULL
  PROVE  ~Supported /\ Refusal \in Messages \ {"no such action"}
<1>1. CASE \E s \in States : ts.lex_state[s] = NoLexState
  <2>1. Refusal = "non-terminal extras" /\ ~Supported
    BY <1>1, Zenon DEF Refusal, Supported
  <2> QED BY <2>1 DEF Messages
<1>2. CASE ts.state_count * ts.symbol_count > MaxCells
  <2> DEFINE cells == ts.state_count * ts.symbol_count
  <2>1. ts.state_count \in Nat /\ ts.symbol_count \in Nat /\ MaxCells \in Nat
    BY Grammar, LanguageAssumption
  <2>2. cells \in Nat
    BY <2>1
  <2> HIDE DEF cells
  <2>3. ~(cells <= MaxCells)
    BY <2>1, <2>2, <1>2 DEF cells
  <2>4. ~Supported
    BY <2>3 DEF Supported, cells
  <2> QED BY <2>4, <1>2 DEF Refusal, Messages
<1> QED BY <1>1, <1>2 DEF Refusal

(* With the rows expanded, what the filter asks of every entry is what is  *)
(* asked of a supported grammar's.                                         *)
LEMMA FilterDecides ==
  ASSUME Stage, Rejection = NULL, dense = [s \in States |-> Row(s)]
  PROVE  /\ \A index \in Indices : ts.actions[index] \in Seq(Action)
         /\ Supported => \A index \in Indices : Truncates(ts.actions[index])
         /\ Refusal = NULL /\ (\A index \in Indices : Truncates(ts.actions[index])) => Supported
<1>1. Indices = Referenced /\ Indices \subseteq DOMAIN ts.actions
  BY Entries
<1>2. \A index \in Indices : ts.actions[index] \in Seq(Action)
  BY <1>1, Grammar DEF WellFormed
<1>3. \A index \in Indices : Truncates(ts.actions[index]) <=> RepeatsTrail(ts.actions[index])
  BY <1>2, TruncatesExactly, Zenon
<1>4. Supported => \A index \in Indices : RepeatsTrail(ts.actions[index])
  BY <1>1, Zenon DEF Supported
<1>5. Supported => \A index \in Indices : Truncates(ts.actions[index])
  BY <1>3, <1>4
<1>6. Refusal = NULL => /\ \A s \in States : ts.lex_state[s] # NoLexState
                        /\ ts.state_count * ts.symbol_count <= MaxCells
  <2> DEFINE cells == ts.state_count * ts.symbol_count
  <2>1. ts.state_count \in Nat /\ ts.symbol_count \in Nat /\ MaxCells \in Nat
    BY Grammar, LanguageAssumption
  <2>2. cells \in Nat
    BY <2>1
  <2>3. NULL \notin {"non-terminal extras", "too large"}
    BY LanguageAssumption DEF Messages
  <2>4. Refusal = NULL => (\A s \in States : ts.lex_state[s] # NoLexState) /\ ~(cells > MaxCells)
    BY <2>3 DEF Refusal
  <2> HIDE DEF cells
  <2>5. cells <= MaxCells \/ cells > MaxCells
    BY <2>1, <2>2
  <2> QED BY <2>4, <2>5 DEF cells
<1>7. Refusal = NULL /\ (\A index \in Indices : Truncates(ts.actions[index])) => Supported
  <2>1. /\ ts # NULL /\ ts.abi_version = 15 /\ ts.external_token_count = 0
        /\ 0 \notin {ts.symbol_count, ts.state_count, ts.token_count, ts.production_id_count}
    BY Grammar
  <2> QED BY <2>1, <1>1, <1>3, <1>6, Zenon DEF Supported
<1> QED BY <1>2, <1>5, <1>7

(* The caller is told why when and only when there is no language.         *)
LEMMA ReportedKept ==
  ASSUME IInv, [Next]_vars
  PROVE  Reported'
<1> USE DEF AfterCheck, AfterSelf, AfterModes, AfterDense, AfterFields, AfterAliasable,
            AfterCounts, AfterAcceptsEnd, tables
<1> Stage /\ Vetted /\ Expanded /\ Tallied /\ Reported
  BY DEF IInv
<1>1. ts' = ts
  BY DEF Next, vars, Check, Self, Modes, Dense, Fields, Aliasable, Counts, Filter, AcceptsEnd,
         OutOfMemory, tf_language_free, Calloc, Fail
<1>2. Supported' = Supported
  BY <1>1 DEF Supported, Referenced, RepeatsTrail, States, Tokens, Row, Unpack, Symbols
<1> DEFINE Told(why) == why \in Messages \ {"no such action"} /\ (why # "oom" => ~Supported)
<1>3. ASSUME NEW why, Told(why), Fail(why)
      PROVE  Reported'
  BY <1>2, <1>3 DEF Fail, Reported
<1>4. CASE Check
  <2>1. CASE Rejection = NULL
    BY <1>4, <2>1 DEF Check, Reported
  <2>2. CASE Rejection # NULL
    <3>1. error' = Rejection /\ pc' = "failed"
      BY <1>4, <2>2 DEF Check
    <3>2. ~Supported /\ Rejection \in Messages \ {"no such action"}
      BY <2>2, Rejected
    <3> QED BY <3>1, <3>2, <1>2 DEF Reported
  <2> QED BY <2>1, <2>2
<1>5. CASE Modes
  <2>1. CASE Refusal # NULL /\ Fail(Refusal)
    <3>1. Rejection = NULL
      BY <1>5 DEF Modes, Vetted
    <3>2. Told(Refusal)
      BY <2>1, <3>1, Refused
    <3> QED BY <2>1, <3>2, <1>3
  <2>2. CASE pc' = "dense" /\ error' = error
    BY <1>5, <2>2 DEF Modes, Reported
  <2> QED BY <1>5, <2>1, <2>2 DEF Modes
<1>6. CASE Filter
  <2>1. pc = "filter"
    BY <1>6 DEF Filter
  <2>2. Rejection = NULL /\ dense = [s \in States |-> Row(s)]
    BY <2>1 DEF Vetted, Expanded
  <2>3. CASE pc' = "accepts_end" /\ error' = error
    BY <2>1, <2>3 DEF Reported
  <2>4. ASSUME NEW index \in Indices, Unusable(index),
               Fail(IF Missing(index) THEN "no such action" ELSE "repeat shift in front")
        PROVE  Reported'
    <3>1. ~Missing(index)
      BY <2>1, <2>2, Extent DEF Missing, Tallied
    <3>2. ~Supported
      BY <2>2, <2>4, <3>1, FilterDecides DEF Unusable
    <3>3. Told("repeat shift in front")
      BY <3>2 DEF Messages
    <3>4. Fail("repeat shift in front")
      BY <2>4, <3>1
    <3> QED BY <3>3, <3>4, <1>3
  <2> QED BY <1>6, <2>3, <2>4 DEF Filter
<1>7. CASE OutOfMemory
  <2>1. Told("oom")
    BY DEF Messages
  <2> QED BY <1>7, <2>1, <1>3 DEF OutOfMemory
<1>8. CASE pc' # "failed" /\ error' = error /\ pc # "failed"
  BY <1>8 DEF Reported
<1>9. CASE UNCHANGED vars
  BY <1>2, <1>9 DEF vars, Reported
<1>10. CASE Self \/ Dense \/ Fields \/ Aliasable \/ Counts \/ AcceptsEnd \/ tf_language_free
  <2>1. pc' # "failed" /\ error' = error /\ pc # "failed"
    BY <1>10 DEF Self, Dense, Fields, Aliasable, Counts, AcceptsEnd, tf_language_free, Calloc
  <2> QED BY <2>1, <1>8
<1> QED BY <1>4, <1>5, <1>6, <1>7, <1>9, <1>10 DEF Next

LEMMA StepIInv ==
  ASSUME IInv, [Next]_vars
  PROVE  IInv'
<1> USE DEF IInv
<1>1. Stage' /\ Ledger'
  BY LedgerKept
<1>2. Vetted'
  BY VettedKept
<1>3. Expanded'
  BY ExpandedKept
<1>4. Marked'
  BY MarkedKept
<1>5. Tallied'
  BY TalliedKept
<1>6. Reported'
  BY ReportedKept
<1> QED BY <1>1, <1>2, <1>3, <1>4, <1>5, <1>6

(* Every state of a load, of any well-formed grammar and with any of its   *)
(* allocations failing, satisfies the invariant.                           *)
THEOREM LoaderInvariance == Spec => []IInv
BY InitIInv, StepIInv, PTL DEF Spec

-----------------------------------------------------------------------------
(* What follows from it.                                                   *)

(* Nothing tf_language_load allocated outlives a load that failed, nor a   *)
(* language that was freed, and what a loaded language holds is all that   *)
(* tf_language_free returns.                                               *)
THEOREM LoaderLeaksNothing == Spec => []NoLeak
<1>1. IInv => NoLeak
  <2> SUFFICES ASSUME Ledger PROVE NoLeak
    BY DEF IInv
  <2> USE DEF Ledger, AfterCheck, AfterSelf, AfterModes, AfterDense, AfterFields,
              AfterAliasable, AfterCounts, AfterAcceptsEnd, Freed
  <2>1. pc \in {"failed", "freed"} => blocks = {}
    OBVIOUS
  <2>2. Loaded => Freed \ blocks = IF field_at_width = 0 THEN {"field_at"} ELSE {}
    BY DEF Loaded
  <2> QED BY <2>1, <2>2 DEF NoLeak
<1> QED BY <1>1, LoaderInvariance, PTL

(* A grammar loads only if it is supported, and a supported one is refused *)
(* only for want of memory; the filter never meets an index past the       *)
(* extent of the action table, whatever the table holds.                   *)
THEOREM LoaderTakesTheSupported == Spec => []LoadsTheSupported
<1>1. IInv => LoadsTheSupported
  <2> SUFFICES ASSUME Stage, Vetted, Expanded, Tallied, Reported PROVE LoadsTheSupported
    BY DEF IInv
  <2> USE DEF AfterCheck, AfterSelf, AfterModes, AfterDense, AfterFields, AfterAliasable,
              AfterCounts, AfterAcceptsEnd
  <2>1. Loaded => Supported
    <3> SUFFICES ASSUME pc = "loaded" PROVE Supported
      BY DEF Loaded
    <3>1. Rejection = NULL /\ Refusal = NULL
      BY DEF Vetted
    <3>2. dense = [s \in States |-> Row(s)]
      BY DEF Expanded
    <3>3. \A index \in Indices : Truncates(ts.actions[index])
      BY DEF Tallied
    <3> QED BY <3>1, <3>2, <3>3, FilterDecides
  <2>2. pc = "failed" /\ error # "oom" => ~Supported
    BY DEF Reported
  <2>3. NULL \notin Messages
    BY LanguageAssumption
  <2>4. pc \in {"loaded", "failed"} => (pc = "failed" <=> error # NULL)
    BY <2>3 DEF Reported
  <2>5. error # "no such action"
    BY <2>3 DEF Reported, Messages
  <2> QED BY <2>1, <2>2, <2>4, <2>5 DEF LoadsTheSupported
<1> QED BY <1>1, LoaderInvariance, PTL

(* A lookup in the expanded table of a loaded language gives what the scan *)
(* of the packed one gives, which returns the value of the first group     *)
(* that lists the symbol: the part of ExpandedAsGenerated about the table. *)
THEOREM LoaderExpandsTheTable == Spec => []LookupAsPacked
<1>1. IInv => LookupAsPacked
  <2> SUFFICES ASSUME Stage, Vetted, Expanded, pc = "loaded",
                      NEW s \in States, NEW y \in Symbols
               PROVE  tf_lookup(s, y) = IF s < ts.large_state_count THEN ts.rows[s][y]
                                        ELSE IF Hits(s, y) = {} THEN 0
                                             ELSE ts.rows[s][Min(Hits(s, y))].value
    BY Zenon DEF IInv, LookupAsPacked, Loaded, Hits
  <2>1. Rejection = NULL /\ dense = [x \in States |-> Row(x)]
    BY DEF Vetted, Expanded, AfterCheck, AfterSelf, AfterModes, AfterDense, AfterFields,
           AfterAliasable, AfterCounts, AfterAcceptsEnd
  <2>2. tf_lookup(s, y) = Row(s)[y]
    BY <2>1 DEF tf_lookup
  <2>3. CASE s < ts.large_state_count
    BY <2>2, <2>3 DEF Row
  <2>4. CASE ~(s < ts.large_state_count) /\ Hits(s, y) = {}
    BY <2>2, <2>4, NoHit
  <2>5. CASE ~(s < ts.large_state_count) /\ Hits(s, y) # {}
    <3>1. Max(Hits(s, y)) \in Hits(s, y) /\ Row(s)[y] = ts.rows[s][Max(Hits(s, y))].value
      BY <2>1, <2>5, LastHit
    <3>2. \A i, j \in DOMAIN ts.rows[s] :
            i # j => Range(ts.rows[s][i].symbols) \cap Range(ts.rows[s][j].symbols) = {}
      BY <2>1, <2>5, Grammar DEF WellFormed, States
    <3>3. Hits(s, y) \in SUBSET Nat
      <4>1. ts.rows[s] \in Seq(PackedGroup)
        BY <2>1, <2>5, Grammar DEF WellFormed, States
      <4>2. DOMAIN ts.rows[s] = 1 .. Len(ts.rows[s]) /\ Len(ts.rows[s]) \in Nat
        BY <4>1
      <4> QED BY <4>2 DEF Hits
    <3>4. Min(Hits(s, y)) \in Hits(s, y)
      BY <2>5, <3>3, MinIsLeast
    <3>5. Min(Hits(s, y)) = Max(Hits(s, y))
      BY <3>1, <3>2, <3>4 DEF Hits
    <3> QED BY <2>2, <2>5, <3>1, <3>5
  <2> QED BY <2>3, <2>4, <2>5
<1> QED BY <1>1, LoaderInvariance, PTL

(* The field map of a production, and how far right its entries reach.     *)
LEMMA FieldMaps ==
  ASSUME Stage, Rejection = NULL, NEW p \in Productions
  PROVE  /\ tf_field_map(p) \in Seq(FieldMapEntry)
         /\ DOMAIN tf_field_map(p) = 1 .. Len(tf_field_map(p)) /\ Len(tf_field_map(p)) \in Nat
         /\ IsFiniteSet(DirectEntries(p)) /\ DirectEntries(p) \subseteq FieldMapEntry
<1> DEFINE m == tf_field_map(p)
<1>1. m \in Seq(FieldMapEntry)
  BY Grammar DEF WellFormed, Productions, tf_field_map
<1> HIDE DEF m
<1>2. DOMAIN m = 1 .. Len(m) /\ Len(m) \in Nat
  BY <1>1
<1>3. m \in Surjection(DOMAIN m, Range(m))
  BY <1>1 DEF Surjection, Range
<1>4. IsFiniteSet(Range(m))
  <2>1. IsFiniteSet(DOMAIN m)
    BY <1>2, FS_Interval
  <2> QED BY <2>1, <1>3, FS_Surjection
<1>5. DirectEntries(p) \in SUBSET Range(m) /\ Range(m) \subseteq FieldMapEntry
  BY <1>1 DEF DirectEntries, Range, m
<1>6. IsFiniteSet(DirectEntries(p))
  BY <1>4, <1>5, FS_Subset
<1> QED BY <1>1, <1>2, <1>5, <1>6 DEF m

(* The rectangle is wide enough for every child that has a field.          *)
LEMMA WideEnough ==
  ASSUME Stage, Rejection = NULL
  PROVE  /\ Width \in Nat
         /\ \A p \in Productions : \A e \in DirectEntries(p) : e.child_index + 1 <= Width
<1> DEFINE Ends(p) == {e.child_index + 1 : e \in DirectEntries(p)}
           End(p) == [e \in DirectEntries(p) |-> e.child_index + 1]
           Sets == {Ends(p) : p \in Productions}
           Set == [p \in Productions |-> Ends(p)]
           All == {ts.max_alias_sequence_length} \cup UNION Sets
<1>1. ts.max_alias_sequence_length \in Nat
  BY Grammar DEF WellFormed
<1>2. ASSUME NEW p \in Productions
      PROVE  Ends(p) \subseteq Nat /\ IsFiniteSet(Ends(p))
  <2>1. IsFiniteSet(DirectEntries(p)) /\ DirectEntries(p) \subseteq FieldMapEntry
    BY FieldMaps
  <2>2. Ends(p) \subseteq Nat
    BY <2>1 DEF FieldMapEntry
  <2>3. End(p) \in Surjection(DirectEntries(p), Ends(p))
    BY DEF Surjection
  <2> HIDE DEF End, Ends
  <2> QED BY <2>1, <2>2, <2>3, FS_Surjection
<1>3. Set \in Surjection(Productions, Sets)
  <2> HIDE DEF Ends
  <2> QED BY DEF Surjection
<1>4. IsFiniteSet(Productions)
  <2>1. ts.production_id_count - 1 \in Int
    BY Grammar
  <2> QED BY <2>1, FS_Interval DEF Productions
<1> HIDE DEF Set, Ends
<1>5. IsFiniteSet(Sets)
  <2> HIDE DEF Sets
  <2> QED BY <1>3, <1>4, FS_Surjection
<1>6. \A T \in Sets : IsFiniteSet(T) /\ T \subseteq Nat
  BY <1>2
<1> HIDE DEF Sets
<1>7. IsFiniteSet(UNION Sets)
  BY <1>5, <1>6, FS_UNION
<1>8. All \in SUBSET Nat /\ All # {}
  BY <1>1, <1>6
<1>9. IsFiniteSet(All)
  <2> DEFINE U == UNION Sets
  <2> HIDE DEF U
  <2>1. IsFiniteSet(U \cup {ts.max_alias_sequence_length})
    BY <1>7, FS_AddElement DEF U
  <2>2. All = U \cup {ts.max_alias_sequence_length}
    BY DEF U
  <2> QED BY <2>1, <2>2
<1>10. Width = Max(All)
  BY Zenon DEF Width, Sets, Ends
<1> HIDE DEF All
<1>11. Max(All) \in All /\ \A x \in All : x <= Max(All)
  BY <1>8, <1>9, MaxIsGreatest
<1>12. ASSUME NEW p \in Productions, NEW e \in DirectEntries(p)
       PROVE  e.child_index + 1 <= Width
  <2>1. e.child_index + 1 \in Ends(p) /\ Ends(p) \in Sets
    BY DEF Ends, Sets
  <2>2. e.child_index + 1 \in All
    BY <2>1 DEF All
  <2> QED BY <2>2, <1>10, <1>11
<1> QED BY <1>8, <1>10, <1>11, <1>12

(* A child's field in the flattened map of a loaded language is the one a  *)
(* scan of its production's map returns, and no child that has one is too  *)
(* far right to be found: the part of ExpandedAsGenerated about the fields.*)
THEOREM LoaderFlattensTheFields == Spec => []FieldsAsScanned
<1>1. IInv => FieldsAsScanned
  <2> DEFINE e(p, i) == tf_field_map(p)[i]
             Earlier(p, i) == {j \in 1 .. i - 1 : tf_field_map(p)[j].child_index = e(p, i).child_index
                                                  /\ ~tf_field_map(p)[j].inherited}
  <2> SUFFICES ASSUME Stage, Vetted, Expanded, pc = "loaded", NEW p \in Productions,
                      NEW i \in DOMAIN tf_field_map(p), ~e(p, i).inherited, Earlier(p, i) = {}
               PROVE  /\ e(p, i).child_index < field_at_width
                      /\ field_at[p][e(p, i).child_index] = e(p, i).field_id
    BY Zenon DEF IInv, FieldsAsScanned, Loaded
  <2>1. /\ Rejection = NULL /\ field_at_width = Width
        /\ Width > 0 => field_at = [q \in Productions |-> Flattened(q)]
    BY DEF Vetted, Expanded, AfterCheck, AfterSelf, AfterModes, AfterDense, AfterFields,
           AfterAliasable, AfterCounts, AfterAcceptsEnd
  <2>2. /\ tf_field_map(p) \in Seq(FieldMapEntry)
        /\ DOMAIN tf_field_map(p) = 1 .. Len(tf_field_map(p)) /\ Len(tf_field_map(p)) \in Nat
    BY <2>1, FieldMaps
  <2> DEFINE c == e(p, i).child_index
  <2>3. e(p, i) \in DirectEntries(p) /\ c \in Nat
    <3>1. e(p, i) \in FieldMapEntry
      BY <2>2
    <3>2. e(p, i) \in Range(tf_field_map(p))
      BY DEF Range
    <3> HIDE DEF e
    <3> QED BY <3>1, <3>2 DEF DirectEntries, FieldMapEntry
  <2>4. Width \in Nat /\ c + 1 <= Width
    BY <2>1, <2>3, WideEnough
  <2>5. c < Width /\ c \in 0 .. Width - 1 /\ Width > 0
    BY <2>3, <2>4
  <2>6. field_at[p][c] = Slot(p, c)
    <3> HIDE DEF c
    <3>1. field_at[p] = Flattened(p)
      BY <2>1, <2>5
    <3>2. Flattened(p)[c] = Slot(p, c)
      BY <2>5 DEF Flattened
    <3> QED BY <3>1, <3>2
  <2>7. i \in Direct(p, c)
    BY <2>3 DEF Direct
  <2>8. \A j \in Direct(p, c) : j \in Nat /\ i <= j
    <3> SUFFICES ASSUME NEW j \in Direct(p, c), ~(j \in Nat /\ i <= j) PROVE FALSE
      OBVIOUS
    <3>1. j \in DOMAIN tf_field_map(p) /\ tf_field_map(p)[j].child_index = c
          /\ ~tf_field_map(p)[j].inherited
      BY DEF Direct, DirectEntries
    <3>2. j \in 1 .. i - 1
      BY <2>2, <3>1
    <3> QED BY <3>1, <3>2
  <2>9. Min(Direct(p, c)) = i
    <3>1. Direct(p, c) \in SUBSET Nat /\ Direct(p, c) # {}
      BY <2>7, <2>8
    <3>2. Min(Direct(p, c)) \in Direct(p, c) /\ \A x \in Direct(p, c) : Min(Direct(p, c)) <= x
      BY <3>1, MinIsLeast
    <3> HIDE DEF c
    <3> QED BY <2>7, <2>8, <3>2
  <2>10. Slot(p, c) = e(p, i).field_id
    BY <2>7, <2>9 DEF Slot
  <2> QED BY <2>1, <2>5, <2>6, <2>10
<1> QED BY <1>1, LoaderInvariance, PTL

(* Where the n-th turn of the walk of alias_map is, for a grammar whose    *)
(* runs start at the given indices: the recursion of idx in closed form.   *)
LEMMA WalkIsAtRuns ==
  ASSUME Stage, Rejection = NULL,
         NEW at \in [0 .. Len(ts.aliases) -> DOMAIN ts.alias_map], Encodes(ts, at)
  PROVE  \A n \in Nat : idx[n] = IF n <= Len(ts.aliases) THEN at[n] ELSE at[Len(ts.aliases)]
<1> DEFINE m == Len(ts.aliases)
           Step(f, n) == IF n = 0 THEN 0
                         ELSE IF ts.alias_map[f[n - 1]] = 0 THEN f[n - 1] ELSE RunEnd(f[n - 1])
           place == [n \in Nat |-> IF n <= m THEN at[n] ELSE at[m]]
<1>1. ts.aliases \in Seq(AliasRun)
  BY Grammar DEF WellFormed
<1>2. m \in Nat /\ DOMAIN ts.aliases = 1 .. m /\ \A i \in 1 .. m : ts.aliases[i] \in AliasRun
  BY <1>1
<1>3. /\ at[0] = 0 /\ ts.alias_map[at[m]] = 0
      /\ \A i \in 1 .. m : /\ ts.alias_map[at[i - 1]] = ts.aliases[i].symbol
                           /\ ts.alias_map[at[i - 1]] # 0
                           /\ at[i] = RunEnd(at[i - 1])
  BY <1>2 DEF Encodes, RunEnd, AliasRun
<1> HIDE DEF m
<1>4. ASSUME NEW n \in Nat
      PROVE  place[n] = Step(place, n)
  <2>1. CASE n = 0
    BY <2>1, <1>2, <1>3
  <2>2. CASE n # 0 /\ n <= m
    <3>1. n \in 1 .. m /\ place[n] = at[n] /\ place[n - 1] = at[n - 1]
      BY <2>2, <1>2
    <3> QED BY <3>1, <2>2, <1>3
  <2>3. CASE n > m
    <3>1. n - 1 \in Nat /\ n # 0 /\ place[n] = at[m] /\ place[n - 1] = at[m]
      BY <2>3, <1>2
    <3> QED BY <3>1, <1>3
  <2> QED BY <2>1, <2>2, <2>3, <1>2
<1>5. place = [n \in Nat |-> Step(place, n)]
  <2>1. place \in [Nat -> {place[n] : n \in Nat}]
    OBVIOUS
  <2> HIDE DEF place, Step
  <2> QED BY <1>4, <2>1
<1>6. idx = [n \in Nat |-> Step(idx, n)]
  <2>1. idx = CHOOSE f : f = [n \in Nat |-> Step(f, n)]
    BY DEF idx
  <2> HIDE DEF place, Step
  <2> QED BY <2>1, <1>5
<1>7. ASSUME NEW n \in Nat, idx[n] # place[n]
      PROVE  FALSE
  <2> DEFINE Apart == {k \in Nat : idx[k] # place[k]}
  <2>1. PICK k \in Apart : \A j \in Apart : <<j, k>> \notin OpToRel(<, Nat)
    <3>1. Apart \subseteq Nat /\ Apart # {}
      BY <1>7
    <3> HIDE DEF Apart
    <3> QED BY <3>1, WFMin, NatLessThanWellFounded, Zenon
  <2>2. \A j \in Apart : ~(j < k)
    BY <2>1 DEF OpToRel
  <2> HIDE DEF place
  <2>3. idx[k] = Step(idx, k) /\ place[k] = Step(place, k)
    BY <1>4, <1>6
  <2>4. k # 0
    BY <2>3
  <2>5. k - 1 \in Nat /\ k - 1 < k
    BY <2>4
  <2>6. idx[k - 1] = place[k - 1]
    BY <2>2, <2>5
  <2> QED BY <2>3, <2>6
<1> QED BY <1>7 DEF m

(* The symbols the walk comes to are those of the runs: there are as many  *)
(* turns as runs and no more runs than cells.                              *)
LEMMA RenamedExactly ==
  ASSUME Stage, Rejection = NULL
  PROVE  Renamed = {ts.aliases[i].symbol : i \in DOMAIN ts.aliases} \cap Symbols
<1> DEFINE m == Len(ts.aliases)
<1>1. PICK at \in [0 .. m -> DOMAIN ts.alias_map] : Encodes(ts, at)
  BY Grammar DEF WellFormed
<1>2. ts.aliases \in Seq(AliasRun) /\ \E last \in DOMAIN ts.alias_map : DOMAIN ts.alias_map = 0 .. last
  BY Grammar DEF WellFormed
<1>3. m \in Nat /\ DOMAIN ts.aliases = 1 .. m /\ \A i \in 1 .. m : ts.aliases[i] \in AliasRun
  BY <1>2
<1>4. \A n \in Nat : idx[n] = IF n <= m THEN at[n] ELSE at[m]
  BY <1>1, WalkIsAtRuns
<1>5. PICK last \in DOMAIN ts.alias_map : DOMAIN ts.alias_map = 0 .. last
  BY <1>2
<1>6. \A i \in 1 .. m : /\ ts.alias_map[at[i - 1]] = ts.aliases[i].symbol
                        /\ ts.aliases[i].symbol \in Nat \ {0}
                        /\ Len(ts.aliases[i].names) \in Nat
                        /\ at[i] = at[i - 1] + 2 + Len(ts.aliases[i].names)
  <2> SUFFICES ASSUME NEW i \in 1 .. m
               PROVE  /\ ts.aliases[i].symbol \in Nat \ {0}
                      /\ Len(ts.aliases[i].names) \in Nat
    BY <1>1, <1>3 DEF Encodes
  <2>1. ts.aliases[i] \in AliasRun
    BY <1>3
  <2>2. ts.aliases[i].symbol \in Nat \ {0} /\ ts.aliases[i].names \in Seq(Nat)
    BY <2>1 DEF AliasRun
  <2> QED BY <2>2
<1>7. at[0] = 0 /\ ts.alias_map[at[m]] = 0
  BY <1>1 DEF Encodes
<1> HIDE DEF m
<1>8. \A i \in 0 .. m : at[i] \in 0 .. last
  BY <1>1, <1>5 DEF m
<1>9. last \in Nat
  <2>1. 0 \in 0 .. last
    BY <1>3, <1>7, <1>8
  <2>2. last \in 0 .. last
    BY <1>5
  <2> QED BY <2>2
<1>10. ASSUME NEW i \in 0 .. m, ~(i <= at[i])
       PROVE  FALSE
  <2> DEFINE Behind == {j \in Nat : j <= m /\ ~(j <= at[j])}
  <2>1. PICK k \in Behind : \A j \in Behind : <<j, k>> \notin OpToRel(<, Nat)
    <3>1. Behind \subseteq Nat /\ Behind # {}
      BY <1>3, <1>10
    <3> HIDE DEF Behind
    <3> QED BY <3>1, WFMin, NatLessThanWellFounded, Zenon
  <2>2. \A j \in Behind : ~(j < k)
    BY <2>1 DEF OpToRel
  <2>3. k # 0 /\ k \in 1 .. m
    BY <1>3, <1>7
  <2>4. k - 1 <= at[k - 1]
    BY <2>2, <2>3, <1>3
  <2>5. at[k] = at[k - 1] + 2 + Len(ts.aliases[k].names) /\ Len(ts.aliases[k].names) \in Nat
    BY <1>6, <2>3
  <2>6. at[k - 1] \in Int
    BY <1>8, <1>9, <2>3, <1>3
  <2> QED BY <2>3, <2>4, <2>5, <2>6
<1>11. m <= last
  BY <1>3, <1>8, <1>9, <1>10
<1>12. ASSUME NEW y \in Symbols, NEW turn \in DOMAIN ts.alias_map, y = ts.alias_map[idx[turn]], y # 0
       PROVE  \E i \in DOMAIN ts.aliases : y = ts.aliases[i].symbol
  <2>1. turn \in Nat /\ turn < m
    BY <1>3, <1>4, <1>5, <1>7, <1>9, <1>12
  <2>2. PICK i \in 1 .. m : i - 1 = turn
    <3>1. turn + 1 \in 1 .. m /\ (turn + 1) - 1 = turn
      BY <2>1, <1>3
    <3> QED BY <3>1
  <2>3. idx[turn] = at[i - 1]
    BY <2>1, <2>2, <1>3, <1>4
  <2>4. ts.alias_map[at[i - 1]] = ts.aliases[i].symbol
    BY <1>6
  <2> QED BY <2>3, <2>4, <1>3, <1>12
<1>13. ASSUME NEW i \in DOMAIN ts.aliases
       PROVE  /\ \E turn \in DOMAIN ts.alias_map : ts.aliases[i].symbol = ts.alias_map[idx[turn]]
              /\ ts.aliases[i].symbol # 0
  <2>1. i \in 1 .. m /\ i - 1 \in Nat /\ i - 1 <= m
    BY <1>3
  <2>2. i - 1 \in DOMAIN ts.alias_map
    BY <2>1, <1>3, <1>5, <1>9, <1>11
  <2>3. idx[i - 1] = at[i - 1]
    BY <2>1, <1>4
  <2> QED BY <2>1, <2>2, <2>3, <1>6
<1> QED BY <1>12, <1>13 DEF Renamed

(* The walk of alias_map finds the symbols that productions rename, and    *)
(* never one of their aliases, whatever the lengths of the runs: the part  *)
(* of ExpandedAsGenerated about the aliases.                               *)
LEMMA LoaderFindsTheRenamed == Spec => []AliasableExact
<1>1. IInv => AliasableExact
  <2> SUFFICES ASSUME Stage, Vetted, Marked, pc = "loaded"
               PROVE  aliasable = {ts.aliases[i].symbol : i \in DOMAIN ts.aliases} \cap Symbols
    BY DEF IInv, AliasableExact, Loaded
  <2>1. Rejection = NULL /\ aliasable = Renamed
    BY DEF Vetted, Marked, AfterCheck, AfterSelf, AfterModes, AfterDense, AfterFields,
           AfterAliasable, AfterCounts, AfterAcceptsEnd
  <2> QED BY <2>1, RenamedExactly
<1> QED BY <1>1, LoaderInvariance, PTL

(* What tf_language_load expands says what the generated tables say, of    *)
(* every well-formed grammar.                                              *)
THEOREM LoaderExpandsAsGenerated == Spec => []ExpandedAsGenerated
<1>1. LookupAsPacked /\ FieldsAsScanned /\ AliasableExact => ExpandedAsGenerated
  BY DEF ExpandedAsGenerated
<1> QED BY <1>1, LoaderExpandsTheTable, LoaderFlattensTheFields, LoaderFindsTheRenamed, PTL

-----------------------------------------------------------------------------
(* Skipping every repeat shift of an entry whose repeat shifts all stand   *)
(* at the end leaves its kept actions: the recursion in closed form.       *)
LEMMA SkippingKeeps ==
  ASSUME NEW acts \in Seq(Action), Truncates(acts)
  PROVE  Skipping(acts) = SubSeq(acts, 1, Kept(acts))
<1> DEFINE k == Kept(acts)
           n == Len(acts)
           Step(f, i) == IF i = 0 THEN <<>>
                         ELSE IF tf_language__is_repeat_shift(acts[i]) THEN f[i - 1]
                         ELSE Append(f[i - 1], acts[i])
           left == [i \in 0 .. n |-> SubSeq(acts, 1, IF i <= k THEN i ELSE k)]
<1>1. n \in Nat /\ k \in 0 .. n /\ DOMAIN acts = 1 .. n
  BY KeptIsPrefix
<1>2. /\ \A i \in 1 .. k : ~tf_language__is_repeat_shift(acts[i])
      /\ \A i \in k + 1 .. n : tf_language__is_repeat_shift(acts[i])
  BY KeptIsPrefix DEF Truncates
<1> HIDE DEF k, n
<1>3. ASSUME NEW i \in 0 .. n
      PROVE  left[i] = Step(left, i)
  <2>1. CASE i = 0
    BY <2>1, <1>1
  <2>2. CASE i # 0 /\ i <= k
    <3>1. left[i] = SubSeq(acts, 1, i) /\ left[i - 1] = SubSeq(acts, 1, i - 1)
      BY <2>2, <1>1
    <3>2. i \in 1 .. n /\ ~tf_language__is_repeat_shift(acts[i])
      BY <2>2, <1>1, <1>2
    <3>3. SubSeq(acts, 1, i) = Append(SubSeq(acts, 1, i - 1), acts[i])
      BY <3>2, <1>1 DEF n
    <3> QED BY <3>1, <3>2, <3>3, <2>2
  <2>3. CASE k < i
    <3>1. left[i] = SubSeq(acts, 1, k) /\ left[i - 1] = SubSeq(acts, 1, k)
      BY <2>3, <1>1
    <3>2. tf_language__is_repeat_shift(acts[i]) /\ i # 0
      BY <2>3, <1>1, <1>2
    <3> QED BY <3>1, <3>2
  <2>4. i = 0 \/ (i # 0 /\ i <= k) \/ k < i
    BY <1>1
  <2> HIDE DEF left, Step
  <2> QED BY <2>1, <2>2, <2>3, <2>4
<1>4. left = [i \in 0 .. n |-> Step(left, i)]
  <2>1. left \in [0 .. n -> {left[i] : i \in 0 .. n}]
    OBVIOUS
  <2> HIDE DEF left, Step
  <2> QED BY <1>3, <2>1
<1> DEFINE upto == CHOOSE f : f = [i \in 0 .. n |-> Step(f, i)]
<1>5. Skipping(acts) = upto[n]
  BY DEF Skipping, n
<1>6. upto = [i \in 0 .. n |-> Step(upto, i)]
  <2> HIDE DEF left, Step
  <2> QED BY <1>4
<1> HIDE DEF upto
<1>7. ASSUME upto[n] # left[n]
      PROVE  FALSE
  <2> DEFINE Apart == {j \in Nat : j <= n /\ upto[j] # left[j]}
  <2>1. PICK j \in Apart : \A h \in Apart : <<h, j>> \notin OpToRel(<, Nat)
    <3>1. Apart \subseteq Nat /\ Apart # {}
      <4> HIDE DEF left
      <4> QED BY <1>1, <1>7
    <3> HIDE DEF Apart
    <3> QED BY <3>1, WFMin, NatLessThanWellFounded, Zenon
  <2>2. \A h \in Apart : ~(h < j)
    BY <2>1 DEF OpToRel
  <2> HIDE DEF left
  <2>3. j \in 0 .. n
    BY <1>1
  <2>4. upto[j] = Step(upto, j) /\ left[j] = Step(left, j)
    <3> HIDE DEF Step
    <3> QED BY <2>3, <1>3, <1>6
  <2>5. j # 0
    BY <2>4
  <2>6. upto[j - 1] = left[j - 1]
    BY <2>2, <2>5, <1>1
  <2> QED BY <2>4, <2>6
<1>8. left[n] = SubSeq(acts, 1, k)
  BY <1>1
<1> QED BY <1>5, <1>7, <1>8 DEF k

(* In a loaded language the counted actions of a pair are all its actions  *)
(* but the repeat shifts, in order, so that a count stands for the skip    *)
(* tree-sitter's runtime makes at each use; and a state accepts the end of *)
(* the file just when accept is the only action left there.                *)
THEOREM LoaderSkipsRepeats == Spec => []ActionsAsSkipped
<1>1. IInv => ActionsAsSkipped
  <2> DEFINE skipped(s, t) == IF tf_lookup(s, t) = 0 THEN <<>> ELSE Skipping(ts.actions[tf_lookup(s, t)])
             alone(acts) == Len(acts) = 1 /\ acts[1].type = "accept"
  <2> SUFFICES ASSUME Stage, Vetted, Expanded, Tallied, pc = "loaded"
               PROVE  \A s \in States :
                        /\ \A t \in Tokens : tf_actions(s, t) = skipped(s, t)
                        /\ s \in accepts_end <=> alone(skipped(s, ts_builtin_sym_end))
    BY Zenon DEF IInv, ActionsAsSkipped, Loaded
  <2> USE DEF AfterCheck, AfterSelf, AfterModes, AfterDense, AfterFields, AfterAliasable,
              AfterCounts, AfterAcceptsEnd
  <2>1. Rejection = NULL /\ dense = [s \in States |-> Row(s)]
    BY DEF Vetted, Expanded
  <2>2. /\ accepts_end = {s \in States : Accepts(s)}
        /\ \A index \in Indices : /\ Truncates(ts.actions[index])
                                  /\ action_counts[index] = Kept(ts.actions[index])
    BY DEF Tallied
  <2>3. ASSUME NEW s \in States, NEW t \in Tokens
        PROVE  tf_actions(s, t) = skipped(s, t)
    <3>1. CASE tf_lookup(s, t) = 0
      BY <3>1 DEF tf_actions
    <3>2. CASE tf_lookup(s, t) # 0
      <4> DEFINE index == tf_lookup(s, t)
      <4>1. index \in Indices
        BY <3>2 DEF Indices
      <4>2. ts.actions[index] \in Seq(Action)
        BY <4>1, <2>1, FilterDecides
      <4>3. Truncates(ts.actions[index]) /\ action_counts[index] = Kept(ts.actions[index])
        BY <4>1, <2>2
      <4>4. Skipping(ts.actions[index]) = SubSeq(ts.actions[index], 1, Kept(ts.actions[index]))
        BY <4>2, <4>3, SkippingKeeps
      <4>5. tf_actions(s, t) = SubSeq(ts.actions[index], 1, action_counts[index])
        BY <3>2 DEF tf_actions
      <4> HIDE DEF index
      <4> QED BY <3>2, <4>3, <4>4, <4>5 DEF index
    <3> QED BY <3>1, <3>2
  <2>4. ts_builtin_sym_end \in Tokens
    BY <2>1, Grammar DEF ts_builtin_sym_end, Tokens
  <2> HIDE DEF skipped
  <2>5. ASSUME NEW s \in States
        PROVE  s \in accepts_end <=> alone(skipped(s, ts_builtin_sym_end))
    BY <2>2, <2>3, <2>4 DEF Accepts
  <2> QED BY <2>3, <2>5
<1> QED BY <1>1, LoaderInvariance, PTL
=============================================================================
