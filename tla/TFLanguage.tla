----------------------------- MODULE TFLanguage -----------------------------
(***************************************************************************)
(* tf_language_load and tf_language_free of lib/src/tf_language.c: the     *)
(* checks a generated grammar must pass, the tables expanded from it, and  *)
(* what is allocated on the way.  A grammar `ts` is a record of the fields *)
(* of TSLanguage the loader reads:                                         *)
(*   rows        parse_table for the first large_state_count states, a     *)
(*               function of the symbol; small_parse_table for the others, *)
(*               a sequence of groups [value, symbols]                     *)
(*   actions     parse_actions, from the index of an entry's header to the *)
(*               sequence of actions that follows it                       *)
(*   field_map   production -> its sequence of field map entries           *)
(*   aliases     the runs alias_map is the flat encoding of; the loader    *)
(*               reads alias_map and the properties read `aliases`         *)
(* States, symbols, productions and indices count from 0 as in the code.   *)
(***************************************************************************)
EXTENDS Integers, Sequences, FiniteSets, FiniteSetsExt, Functions

CONSTANTS
  Languages,    \* the grammars that may be handed to the loader
  NULL,         \* the null pointer, and a table not yet built
  MaxCells      \* 64 * 1024 * 1024: the largest table it will expand

TF_ABI_VERSION == 15
ts_builtin_sym_end == 0
NoLexState == 65535             \* the lex state of a non-terminal extra

Messages == {"null", "abi", "empty", "external scanner", "non-terminal extras",
             "too large", "oom", "no such action", "repeat shift in front"}

Action == [type : {"shift", "reduce", "accept", "recover"}, repetition : BOOLEAN]
PackedGroup == [value : Nat, symbols : Seq(Nat)]
FieldMapEntry == [child_index : Nat, field_id : Nat \ {0}, inherited : BOOLEAN]

(* alias_map is its runs one behind the other and a 0, when they start at  *)
(* the given indices.                                                      *)
AliasRun == [symbol : Nat \ {0}, names : Seq(Nat)]
Encodes(g, at) ==
  /\ at[0] = 0 /\ g.alias_map[at[Len(g.aliases)]] = 0
  /\ \A i \in DOMAIN g.aliases :
       /\ g.alias_map[at[i - 1]] = g.aliases[i].symbol
       /\ g.alias_map[at[i - 1] + 1] = Len(g.aliases[i].names)
       /\ at[i] = at[i - 1] + 2 + Len(g.aliases[i].names)

(* What tree-sitter's generator ensures of a grammar: terminals come first *)
(* among the symbols, a state's row lists a symbol once and a terminal     *)
(* with an entry of parse_actions, and the sizes are natural numbers.      *)
WellFormed(g) ==
  /\ {g.symbol_count, g.token_count, g.state_count, g.production_id_count,
      g.large_state_count, g.field_count, g.max_alias_sequence_length} \subseteq Nat
  /\ 0 \in {g.symbol_count, g.state_count, g.production_id_count} \/ g.token_count <= g.symbol_count
  /\ DOMAIN g.actions \subseteq Nat \ {0}
  /\ \A index \in DOMAIN g.actions : g.actions[index] \in Seq(Action)
  /\ \A s \in 0 .. g.state_count - 1 : s < g.large_state_count =>
       \A t \in 0 .. g.token_count - 1 : g.rows[s][t] \in {0} \cup DOMAIN g.actions
  /\ \A s \in 0 .. g.state_count - 1 : ~(s < g.large_state_count) =>
       /\ g.rows[s] \in Seq(PackedGroup)
       /\ \A i \in DOMAIN g.rows[s], t \in 0 .. g.token_count - 1 :
            t \in Range(g.rows[s][i].symbols) => g.rows[s][i].value \in {0} \cup DOMAIN g.actions
       /\ \A i, j \in DOMAIN g.rows[s] :
            i # j => Range(g.rows[s][i].symbols) \cap Range(g.rows[s][j].symbols) = {}
  /\ \A p \in 0 .. g.production_id_count - 1 : g.field_map[p] \in Seq(FieldMapEntry)
  /\ g.aliases \in Seq(AliasRun) /\ \E last \in DOMAIN g.alias_map : DOMAIN g.alias_map = 0 .. last
  /\ \E at \in [0 .. Len(g.aliases) -> DOMAIN g.alias_map] : Encodes(g, at)

ASSUME LanguageAssumption ==
  /\ MaxCells \in Nat /\ NULL \notin Languages /\ NULL \notin Messages
  /\ \A g \in Languages : WellFormed(g)

VARIABLES
  ts,           \* the grammar being loaded
  pc,           \* the allocation the loader is about to make, or its end
  error,        \* what *error says, NULL for nothing
  blocks,       \* the blocks allocated and not freed
  dense, field_at, field_at_width, aliasable, action_counts, accepts_end

tables == <<dense, field_at, field_at_width, aliasable, action_counts, accepts_end>>
vars == <<ts, pc, error, blocks, tables>>

States == 0 .. ts.state_count - 1
Symbols == 0 .. ts.symbol_count - 1
Tokens == 0 .. ts.token_count - 1
Productions == 0 .. ts.production_id_count - 1

Init ==
  /\ ts \in Languages \cup {NULL}
  /\ pc = "check" /\ error = NULL /\ blocks = {}
  /\ dense = NULL /\ field_at = NULL /\ field_at_width = 0
  /\ aliasable = NULL /\ action_counts = NULL /\ accepts_end = NULL

-----------------------------------------------------------------------------
(* Mutant: tf_language_free forgets the field map. *)
FreedMost == {"self", "dense", "aliasable", "action_counts", "accepts_end"}

(* The blocks tf_language_free returns; those not allocated are NULL there.*)
Freed == {"self", "dense", "aliasable", "field_at", "action_counts", "accepts_end"}

(* `goto fail` and `goto oom`: free the language and report. *)
Fail(why) ==
  /\ error' = why /\ pc' = "failed" /\ blocks' = blocks \ Freed
  /\ UNCHANGED <<ts, tables>>

(* calloc of a block, on the way from one step of the loader to the next.  *)
Calloc(block, next) ==
  /\ blocks' = blocks \cup {block} /\ pc' = next
  /\ UNCHANGED <<ts, error>>

(* What is wrong with a grammar before anything is allocated, or NULL.     *)
Rejection ==
  IF ts = NULL THEN "null"
  ELSE IF ts.abi_version # TF_ABI_VERSION THEN "abi"
  ELSE IF 0 \in {ts.symbol_count, ts.state_count, ts.token_count, ts.production_id_count}
       THEN "empty"
  ELSE IF ts.external_token_count # 0 THEN "external scanner"
  ELSE NULL

(* And once the language itself is allocated. *)
Refusal ==
  IF \E s \in States : ts.lex_state[s] = NoLexState THEN "non-terminal extras"
  ELSE IF ts.state_count * ts.symbol_count > MaxCells THEN "too large"
  ELSE NULL

Check ==
  /\ pc = "check"
  /\ pc' = IF Rejection = NULL THEN "self" ELSE "failed"
  /\ error' = Rejection
  /\ UNCHANGED <<ts, blocks, tables>>

Self ==
  /\ pc = "self"
  /\ Calloc("self", "modes") /\ UNCHANGED tables

Modes ==
  /\ pc = "modes"
  /\ \/ Refusal # NULL /\ Fail(Refusal)
     \/ Refusal = NULL /\ pc' = "dense" /\ UNCHANGED <<ts, error, blocks, tables>>

-----------------------------------------------------------------------------
(* One row of the expansion: every group writes its value at its symbols,  *)
(* over zeros, and a later group overwrites an earlier one.                *)
Unpack(groups) ==
  [y \in Symbols |->
     LET hits == {i \in DOMAIN groups : y \in Range(groups[i].symbols)}
     IN  IF hits = {} THEN 0 ELSE groups[Max(hits)].value]

(* Mutant: only the first group of a row is read. *)
RowFirst(s) ==
  IF s < ts.large_state_count THEN ts.rows[s]
  ELSE Unpack(SubSeq(ts.rows[s], 1, Min({1, Len(ts.rows[s])})))

Row(s) == IF s < ts.large_state_count THEN ts.rows[s] ELSE Unpack(ts.rows[s])

Dense ==
  /\ pc = "dense"
  /\ dense' = [s \in States |-> Row(s)]
  /\ Calloc("dense", "fields")
  /\ UNCHANGED <<field_at, field_at_width, aliasable, action_counts, accepts_end>>

tf_lookup(s, y) == dense[s][y]

-----------------------------------------------------------------------------
tf_field_map(p) == IF ts.field_count = 0 THEN <<>> ELSE ts.field_map[p]

(* The entries of a production's map, and the places of those that fill    *)
(* child c directly.                                                       *)
DirectEntries(p) == {e \in Range(tf_field_map(p)) : ~e.inherited}
Direct(p, c) == {i \in DOMAIN tf_field_map(p) :
                   tf_field_map(p)[i] \in DirectEntries(p) /\ tf_field_map(p)[i].child_index = c}

(* The slot of one child: the first match wins and 0 is no field. *)
Slot(p, c) == IF Direct(p, c) = {} THEN 0 ELSE tf_field_map(p)[Min(Direct(p, c))].field_id

(* Wide enough for the aliases and for every child a field names. *)
Width ==
  Max({ts.max_alias_sequence_length}
      \cup UNION {{e.child_index + 1 : e \in DirectEntries(p)} : p \in Productions})

(* A rectangle of no width is not allocated. *)
Fields ==
  /\ pc = "fields"
  /\ field_at_width' = Width
  /\ \/ /\ Width > 0
        /\ field_at' = [p \in Productions |-> [c \in 0 .. Width - 1 |-> Slot(p, c)]]
        /\ Calloc("field_at", "aliasable")
     \/ /\ Width = 0
        /\ pc' = "aliasable"
        /\ UNCHANGED <<ts, error, blocks, field_at>>
  /\ UNCHANGED <<dense, aliasable, action_counts, accepts_end>>

-----------------------------------------------------------------------------
(* alias_map at index `at`: a symbol, how many aliases, the aliases; the   *)
(* next turn of the loop resumes behind them and a 0 symbol ends it.       *)
RunEnd(at) == at + 2 + ts.alias_map[at + 1]

idx[turn \in Nat] ==
  IF turn = 0 THEN 0
  ELSE LET at == idx[turn - 1] IN IF ts.alias_map[at] = 0 THEN at ELSE RunEnd(at)

(* Symbols that are aliases themselves lie past the grammar's own. *)
Renamed == {ts.alias_map[idx[turn]] : turn \in DOMAIN ts.alias_map} \cap (Symbols \ {0})

Aliasable ==
  /\ pc = "aliasable"
  /\ aliasable' = Renamed
  /\ Calloc("aliasable", "counts")
  /\ UNCHANGED <<dense, field_at, field_at_width, action_counts, accepts_end>>

-----------------------------------------------------------------------------
tf_language__is_repeat_shift(a) == a.type = "shift" /\ a.repetition

(* The action entries some (state, terminal) pair refers to. *)
Indices == {tf_lookup(s, t) : s \in States, t \in Tokens} \ {0}

(* Index 0 is the shared empty entry. *)
tf_language__action_table_extent ==
  Max({1} \cup {index + 1 + Len(ts.actions[index]) : index \in Indices})

(* Mutant: repeat shifts are counted as well. *)
KeptAll(acts) == Len(acts)

(* The actions before the first repeat shift. *)
Kept(acts) ==
  Min({Len(acts)} \cup {i - 1 : i \in {j \in DOMAIN acts : tf_language__is_repeat_shift(acts[j])}})

(* Mutant: the actions after the first repeat shift are not looked at. *)
TruncatesAny(acts) == TRUE

(* Only repeat shifts follow, so that a count can stand for the kept ones. *)
Truncates(acts) ==
  \A i \in Kept(acts) + 1 .. Len(acts) : tf_language__is_repeat_shift(acts[i])

Counts ==
  /\ pc = "counts"
  /\ action_counts' = [index \in 0 .. tf_language__action_table_extent - 1 |-> 0]
  /\ Calloc("action_counts", "filter")
  /\ UNCHANGED <<dense, field_at, field_at_width, aliasable, accepts_end>>

(* What the loop over the pairs finds wrong with the entry it refers to.   *)
Missing(index) == index \notin DOMAIN action_counts
Unusable(index) == Missing(index) \/ ~Truncates(ts.actions[index])

Filter ==
  /\ pc = "filter"
  /\ \/ /\ \A index \in Indices : ~Unusable(index)
        /\ action_counts' = [index \in DOMAIN action_counts |->
                               IF index \in Indices THEN Kept(ts.actions[index]) ELSE 0]
        /\ pc' = "accepts_end"
        /\ UNCHANGED <<ts, error, blocks, dense, field_at, field_at_width, aliasable, accepts_end>>
     \/ \E index \in Indices :
          Unusable(index) /\ Fail(IF Missing(index) THEN "no such action" ELSE "repeat shift in front")

(* tf_actions: the kept actions of a pair; the empty entry has none.       *)
tf_actions(s, t) ==
  LET index == tf_lookup(s, t)
  IN  IF index = 0 THEN <<>> ELSE SubSeq(ts.actions[index], 1, action_counts[index])

Accepts(s) ==
  LET acts == tf_actions(s, ts_builtin_sym_end) IN Len(acts) = 1 /\ acts[1].type = "accept"

AcceptsEnd ==
  /\ pc = "accepts_end"
  /\ accepts_end' = {s \in States : Accepts(s)}
  /\ Calloc("accepts_end", "loaded")
  /\ UNCHANGED <<dense, field_at, field_at_width, aliasable, action_counts>>

-----------------------------------------------------------------------------
(* calloc may return NULL wherever it is called. *)
OutOfMemory ==
  /\ \/ pc \in {"self", "dense", "aliasable", "counts", "accepts_end"}
     \/ pc = "fields" /\ Width > 0
  /\ Fail("oom")

(* The owner frees a language that loaded. *)
tf_language_free ==
  /\ pc = "loaded"
  /\ pc' = "freed" /\ blocks' = blocks \ Freed
  /\ UNCHANGED <<ts, error, tables>>

Next == \/ Check \/ Self \/ Modes \/ Dense \/ Fields \/ Aliasable \/ Counts \/ Filter
        \/ AcceptsEnd \/ OutOfMemory \/ tf_language_free

Spec == Init /\ [][Next]_vars

-----------------------------------------------------------------------------
Loaded == pc = "loaded"

(* Nothing the loader allocated outlives a load that failed, at whichever  *)
(* of its allocations or checks, or the language's tf_language_free; and a *)
(* loaded language has all its tables, the field map just when it has a    *)
(* width.                                                                  *)
NoLeak ==
  /\ pc \in {"failed", "freed"} => blocks = {}
  /\ Loaded => Freed \ blocks = IF field_at_width = 0 THEN {"field_at"} ELSE {}

(* "The same value language.h:78-92 computes": a lookup in the expanded    *)
(* table gives what the scan of the packed one gives, which returns the    *)
(* value of the first group that lists the symbol, and 0 if none does.     *)
LookupAsPacked ==
  LET scan(groups, y) ==
        LET hits == {i \in DOMAIN groups : y \in Range(groups[i].symbols)}
        IN  IF hits = {} THEN 0 ELSE groups[Min(hits)].value
  IN  Loaded => \A s \in States, y \in Symbols :
        tf_lookup(s, y) = IF s < ts.large_state_count THEN ts.rows[s][y] ELSE scan(ts.rows[s], y)

(* An entry's actions with every repeat shift skipped where it stands.     *)
Skipping(acts) ==
  LET upto[i \in 0 .. Len(acts)] ==
        IF i = 0 THEN <<>>
        ELSE IF tf_language__is_repeat_shift(acts[i]) THEN upto[i - 1]
        ELSE Append(upto[i - 1], acts[i])
  IN  upto[Len(acts)]

(* The counts are as good as skipping every SHIFT_REPEAT at each use,      *)
(* which is what tree-sitter's runtime does: in a loaded language the kept *)
(* actions of a pair are all the others, in order (LoadAssumption of       *)
(* TFTables), and a state accepts the end of the file just when accept is  *)
(* the only one there, which the driver asks when a reduction may be the   *)
(* root.                                                                   *)
ActionsAsSkipped ==
  LET skipped(s, t) == IF tf_lookup(s, t) = 0 THEN <<>> ELSE Skipping(ts.actions[tf_lookup(s, t)])
      alone(acts) == Len(acts) = 1 /\ acts[1].type = "accept"
  IN  Loaded => \A s \in States :
        /\ \A t \in Tokens : tf_actions(s, t) = skipped(s, t)
        /\ s \in accepts_end <=> alone(skipped(s, ts_builtin_sym_end))

(* A child's field in the flattened map is the one a scan of its           *)
(* production's map would return, and no child that has a field is too far *)
(* right to be found.                                                      *)
FieldsAsScanned ==
  Loaded => \A p \in Productions : \A i \in DOMAIN tf_field_map(p) :
    LET e == tf_field_map(p)[i]
        earlier == {j \in 1 .. i - 1 : tf_field_map(p)[j].child_index = e.child_index
                                       /\ ~tf_field_map(p)[j].inherited}
    IN  ~e.inherited /\ earlier = {} =>
          e.child_index < field_at_width /\ field_at[p][e.child_index] = e.field_id

(* The walk of alias_map finds the symbols productions rename, never one   *)
(* of their aliases, whatever the lengths of the runs.                     *)
AliasableExact ==
  Loaded => aliasable = {ts.aliases[i].symbol : i \in DOMAIN ts.aliases} \cap Symbols

(* What tf_language_load expands says what the generated tables say. *)
ExpandedAsGenerated == LookupAsPacked /\ FieldsAsScanned /\ AliasableExact

(* The entries the packed tables refer to, and those whose repeat shifts   *)
(* all stand at the end.                                                   *)
Referenced == {Row(s)[t] : s \in States, t \in Tokens} \ {0}
RepeatsTrail(acts) == \A i, j \in DOMAIN acts :
  i < j /\ tf_language__is_repeat_shift(acts[i]) => tf_language__is_repeat_shift(acts[j])

(* The grammars README.md and tree_feller.h promise to run: ABI 15, no     *)
(* external scanner, no non-terminal extras, and tables this loader can    *)
(* expand and filter.                                                      *)
Supported ==
  /\ ts # NULL
  /\ ts.abi_version = 15 /\ ts.external_token_count = 0
  /\ 0 \notin {ts.symbol_count, ts.state_count, ts.token_count, ts.production_id_count}
  /\ ts.state_count * ts.symbol_count <= MaxCells
  /\ \A s \in States : ts.lex_state[s] # NoLexState
  /\ \A index \in Referenced : RepeatsTrail(ts.actions[index])

(* A grammar loads only if it is supported, and one that is supported is   *)
(* refused for want of memory alone; *error is set exactly when there is   *)
(* no language.  The loop that filters the actions never finds an index    *)
(* past the extent another loop computed.                                  *)
LoadsTheSupported ==
  /\ Loaded => Supported
  /\ pc = "failed" /\ error # "oom" => ~Supported
  /\ pc \in {"loaded", "failed"} => (pc = "failed" <=> error # NULL)
  /\ error # "no such action"
=============================================================================
