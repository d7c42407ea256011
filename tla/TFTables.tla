------------------------------ MODULE TFTables ------------------------------
(***************************************************************************)
(* The generated parse tables as tf_language_load leaves them, and the     *)
(* accessors of tf_language.h the LR driver reads them through.  A table   *)
(* entry is the sequence of its actions; the missing entry (index 0 in the *)
(* code) is the empty sequence.  Symbol ids, packing and the dense         *)
(* expansion are data; tf_language_load itself is a component of its own.  *)
(***************************************************************************)
EXTENDS Integers, Sequences

CONSTANTS
  State,          \* parse states; 0 is ERROR_STATE and 1 the start state
  Terminal,       \* tokens, the end of the file among them
  Nonterminal,    \* the other grammar symbols
  End,            \* ts_builtin_sym_end
  Entries,        \* parse_actions of (state, terminal), unfiltered
  ActionCounts,   \* action_counts of (state, terminal): SHIFT_REPEAT left out
  Goto,           \* dense table of (state, nonterminal)
  Word,           \* keyword_capture_token
  Keyword,        \* what the keyword lexer can turn a Word into
  Reserved,       \* the reserved words of each state
  Height          \* per state, a lower bound on the real cells below it

Symbol == Terminal \cup Nonterminal

StartState == 1
ErrorState == 0

(* TSParseAction; the fields an action type does not use are arbitrary. *)
Action == [type          : {"shift", "reduce", "accept", "recover"},
           state         : State,
           extra         : BOOLEAN,
           repetition    : BOOLEAN,
           symbol        : Nonterminal,
           child_count   : Nat,
           production_id : Nat,
           dynamic_precedence : Int]

ASSUME SymbolAssumption ==
  /\ End \in Terminal /\ Word \in Terminal \ {End}
  /\ Keyword \subseteq Terminal \ {End, Word}
  /\ Terminal \cap Nonterminal = {}
  /\ StartState \in State /\ ErrorState \in State

ASSUME TableAssumption ==
  /\ Entries \in [State -> [Terminal -> Seq(Action)]]
  /\ ActionCounts \in [State -> [Terminal -> Nat]]
  /\ Goto \in [State -> [Nonterminal -> State]]
  /\ Reserved \in [State -> SUBSET Terminal]

(* What tf_language_load established before the driver ran: the kept       *)
(* actions are a prefix of the entry and every SHIFT_REPEAT comes after.   *)
ASSUME LoadAssumption ==
  \A s \in State, t \in Terminal :
    /\ ActionCounts[s][t] \in 0 .. Len(Entries[s][t])
    /\ \A i \in 1 .. Len(Entries[s][t]) :
         i > ActionCounts[s][t] <=> Entries[s][t][i].type = "shift" /\ Entries[s][t][i].repetition

(* tf_actions: the kept actions of an entry, by position. *)
tf_count(s, t) == ActionCounts[s][t]
tf_action(s, t, i) == Entries[s][t][i]
tf_actions(s, t) == {tf_action(s, t, i) : i \in 1 .. tf_count(s, t)}

tf_is_reserved_word(s, t) == t \in Reserved[s]

(* accepts_end: the end of the file has one action here, and it accepts.   *)
accepts_end(s) == tf_count(s, End) = 1 /\ tf_action(s, End, 1).type = "accept"

(* tf_next_state of a nonterminal: the goto table.                         *)
tf_next_state(s, n) == Goto[s][n]

(* Generated tables accept on the end of the file only, and without        *)
(* conflict; the driver's Accept branch relies on it.                      *)
ASSUME AcceptAssumption ==
  \A s \in State, t \in Terminal : \A a \in tf_actions(s, t) :
    a.type = "accept" => t = End /\ tf_count(s, t) = 1

shifts_extra(s, t) == \E a \in tf_actions(s, t) : a.type = "shift" /\ a.extra

(* A lookahead that selected an action may later be demoted to the word.   *)
Becomes(t) == IF t \in Keyword THEN {t, Word} ELSE {t}

(* What generated tables give the accept action.  The start state is       *)
(* entered by nothing, and an accepting state only from the start state.   *)
(* It may be entered while another token than the end waits: a start rule  *)
(* that recurs is reduced to be continued, and minimised tables reduce in  *)
(* front of a token they will reject.  That token is then no extra of the  *)
(* accepting state, as an extra is shifted where it is met and never       *)
(* decides a reduction.                                                    *)
ASSUME RootAssumption ==
  /\ ~accepts_end(StartState)
  /\ \A s \in State, t \in Terminal : \A a \in tf_actions(s, t) :
       /\ a.type = "shift" /\ ~a.extra => a.state # StartState /\ ~accepts_end(a.state)
       /\ LET next == Goto[StartState][a.symbol]
          IN  a.type = "reduce" /\ accepts_end(next) /\ t # End =>
                \A u \in Becomes(t) : ~shifts_extra(next, u)
  /\ \A s \in State, n \in Nonterminal :
       /\ Goto[s][n] # StartState
       /\ accepts_end(Goto[s][n]) => s = StartState

(* The LR property of generated tables the driver relies on without a      *)
(* check: a state certifies how many real cells lie below it, a shift or a *)
(* goto adds one, and a reduction never asks for more than there are.      *)
ASSUME HeightAssumption ==
  /\ Height \in [State -> Nat]
  /\ Height[StartState] = 0
  /\ \A s \in State, t \in Terminal : \A a \in tf_actions(s, t) :
       /\ a.type = "shift" /\ ~a.extra => Height[a.state] <= Height[s] + 1
       /\ a.type = "reduce" => a.child_count <= Height[s]
  /\ \A s \in State, n \in Nonterminal : Height[Goto[s][n]] <= Height[s] + 1
=============================================================================
