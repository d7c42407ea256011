----------------------------- MODULE MCLanguage -----------------------------
(***************************************************************************)
(* Grammars for TFLanguage: one base, and around it every choice of what   *)
(* the loader looks at in one of its steps.  Symbols 0 (end) and 1 are     *)
(* terminals, 2 and 3 nonterminals; parse_actions has headers at 1 and 5.  *)
(***************************************************************************)
EXTENDS TFLanguage

Shift == [type |-> "shift", repetition |-> FALSE]
Repeat == [type |-> "shift", repetition |-> TRUE]
Reduce == [type |-> "reduce", repetition |-> FALSE]
Accept == [type |-> "accept", repetition |-> FALSE]

Group(v, symbols) == [value |-> v, symbols |-> symbols]
Entry(c, f, inherited) == [child_index |-> c, field_id |-> f, inherited |-> inherited]

(* The flat alias_map of some runs. *)
Flat(runs) ==
  LET flat[i \in 0 .. Len(runs)] ==
        IF i = 0 THEN <<>>
        ELSE flat[i - 1] \o <<runs[i].symbol, Len(runs[i].names)>> \o runs[i].names
      whole == flat[Len(runs)] \o <<0>>
  IN  [at \in 0 .. Len(whole) - 1 |-> whole[at + 1]]

Base ==
  [abi_version |-> 15, symbol_count |-> 4, token_count |-> 2, state_count |-> 2,
   production_id_count |-> 2, external_token_count |-> 0, large_state_count |-> 1,
   max_alias_sequence_length |-> 1, field_count |-> 2,
   lex_state |-> [s \in 0 .. 1 |-> 0],
   rows |-> [s \in 0 .. 1 |-> IF s = 0 THEN [y \in 0 .. 3 |-> IF y = 1 THEN 1 ELSE 0]
                              ELSE <<Group(5, <<0>>), Group(1, <<1, 2>>)>>],
   actions |-> [i \in {1, 5} |-> IF i = 1 THEN <<Shift>> ELSE <<Accept>>],
   field_map |-> [p \in 0 .. 1 |-> IF p = 0 THEN <<>> ELSE <<Entry(0, 1, FALSE)>>],
   aliases |-> <<>>, alias_map |-> Flat(<<>>)]

(* The header fields, each at a value the loader rejects. *)
Headers ==
  {[Base EXCEPT !.abi_version = a, !.external_token_count = e, !.symbol_count = y,
                !.token_count = t, !.production_id_count = p, !.state_count = s, !.lex_state[1] = m] :
     a \in {14, 15, 16}, e \in {0, 1}, y \in {0, 4, 5}, t \in {0, 2}, p \in {0, 2},
     s \in {0, 2}, m \in {0, NoLexState}}

(* Packed rows: groups in any order, and a row without any. *)
PackedRows ==
  {<<>>, <<Group(1, <<0, 1>>)>>, <<Group(5, <<0>>), Group(1, <<3, 1>>)>>,
   <<Group(1, <<3, 1>>), Group(5, <<0>>)>>, <<Group(1, <<2>>), Group(2, <<3>>), Group(5, <<1>>)>>}

Packings ==
  {[Base EXCEPT !.rows[1] = r] : r \in PackedRows}
  \cup {[Base EXCEPT !.large_state_count = 0, !.rows[0] = r, !.rows[1] = q] :
          r \in PackedRows, q \in PackedRows}

(* An entry of up to three actions for the end of the file. *)
ActionEntries ==
  LET A == {Shift, Repeat, Reduce, Accept}
  IN  {[Base EXCEPT !.actions[5] = acts] :
         acts \in {<<a>> : a \in A} \cup (A \X A) \cup (A \X A \X A)}

(* Field maps of up to three entries, and grammars without fields. *)
FieldMaps ==
  LET E == {Entry(c, f, h) : c \in {0, 2}, f \in {1, 2}, h \in BOOLEAN}
  IN  {[Base EXCEPT !.field_map[1] = m, !.max_alias_sequence_length = w, !.field_count = n] :
         m \in {<<>>} \cup {<<e>> : e \in E} \cup (E \X E) \cup (E \X E \X E),
         w \in {0, 2}, n \in {0, 2}}

(* Alias runs of one or two names, of symbols within the grammar and past  *)
(* it (an alias of its own).                                               *)
Aliased ==
  LET Run == {[symbol |-> y, names |-> n] : y \in {1, 3, 4}, n \in {<<2>>, <<2, 4>>, <<2, 3, 1>>}}
      of(runs) == [Base EXCEPT !.aliases = runs, !.alias_map = Flat(runs)]
  IN  {of(<<r>>) : r \in Run} \cup {of(<<p[1], p[2]>>) : p \in {q \in Run \X Run : q[1].symbol < q[2].symbol}}

MCLanguages == Headers \cup Packings \cup ActionEntries \cup FieldMaps \cup Aliased
=============================================================================
