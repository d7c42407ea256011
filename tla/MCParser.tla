------------------------------ MODULE MCParser ------------------------------
(***************************************************************************)
(* A hand-made grammar for the driver.                                     *)
(*                                                                         *)
(*   source -> empty | m rep | source e | l source r             m -> empty *)
(*   rep -> x | p | q | rep rep    p -> b x w    q -> w b    x -> w | kw w   *)
(*                                                                         *)
(* A nullable root whose rule recurs: inside brackets, and on the left, so *)
(* that the accepting state is entered in front of other tokens than the   *)
(* end and left again (e goes on; the others are errors there, as          *)
(* minimised tables reduce on them too).  An empty production above the    *)
(* leading extras, tree-sitter's way of writing a repetition (rep rep,     *)
(* decided by a SHIFT_REPEAT), a real conflict (w before b is an x or      *)
(* begins a q), and a keyword the lexer accepts where a reduction then     *)
(* leads to a state that only takes the word.  The extra c is accepted     *)
(* everywhere.                                                             *)
(***************************************************************************)
EXTENDS TFParserRefines, TLC

CONSTANT NullReturns

Act(type, state, extra, repetition, symbol, count) ==
  [type |-> type, state |-> state, extra |-> extra, repetition |-> repetition,
   symbol |-> symbol, child_count |-> count, production_id |-> 0, dynamic_precedence |-> 0]

MCState    == 0 .. 19
MCTerminal == {"end", "w", "kw", "b", "c", "e", "l", "r"}
MCNonterminal == {"source", "m", "rep", "p", "q", "x"}
MCEnd      == "end"
MCWord     == "w"
MCKeyword  == {"kw"}

S(s)     == Act("shift", s, FALSE, FALSE, "x", 0)
SR(s)    == Act("shift", s, FALSE, TRUE, "x", 0)
X        == Act("shift", 0, TRUE, FALSE, "x", 0)
R(n, k)  == Act("reduce", 0, FALSE, FALSE, n, k)
A        == Act("accept", 0, FALSE, FALSE, "x", 0)
Recover  == Act("recover", 0, FALSE, FALSE, "x", 0)

Item(s)   == s \in {3, 7, 15}    \* states in which a statement may start
ItemOn(t) == CASE t = "w" -> 5 [] t = "kw" -> 4 [] t = "b" -> 9
Closed    == 5 :> R("x", 1) @@ 6 :> R("rep", 1) @@ 8 :> R("x", 2) @@ 10 :> R("rep", 1)
             @@ 12 :> R("p", 3) @@ 13 :> R("q", 2) @@ 14 :> R("x", 1) @@ 16 :> R("source", 2)
             @@ 19 :> R("source", 3)

Entry(s, t) ==
  CASE s = 0 -> <<Recover>>
    [] t = "c" -> <<X>>
    [] s \in {1, 17} /\ t = "l" -> <<S(17)>>
    [] s = 1 -> IF t \in {"end", "e"} THEN <<R("source", 0)>> ELSE <<R("m", 0)>>
    [] s = 17 /\ t \in {"r", "e"} -> <<R("source", 0)>>
    [] s = 18 /\ t = "r" -> <<S(19)>>
    [] s = 2 /\ t = "end" -> <<A>>
    [] s \in {2, 18} /\ t = "e" -> <<S(16)>>
    [] s = 3 /\ t \in {"end", "e"} -> <<R("source", 2)>>
    [] s = 7 /\ t \in {"end", "e"} -> <<R("rep", 2)>>
    [] Item(s) /\ t \in {"w", "kw", "b"} -> IF s = 7 THEN <<R("rep", 2), SR(ItemOn(t))>> ELSE <<S(ItemOn(t))>>
    [] s = 4 /\ t = "w"  -> <<S(8)>>
    [] s = 5 /\ t = "b"  -> <<R("x", 1), S(13)>>
    [] s = 9 /\ t = "w"  -> <<S(14)>>
    [] s = 9 /\ t = "kw" -> <<S(4)>>
    [] s = 11 /\ t = "w" -> <<S(12)>>
    [] s \in DOMAIN Closed -> <<Closed[s]>>
    [] OTHER -> <<>>

GotoOf(s, n) ==
  CASE s = 1 /\ n = "source" -> 2
    [] s = 17 /\ n = "source" -> 18
    [] s = 1 /\ n = "m" -> 15
    [] s = 15 /\ n = "rep" -> 3
    [] s \in {3, 7} /\ n = "rep" -> 7
    [] Item(s) /\ n = "x" -> 6
    [] Item(s) /\ n \in {"p", "q"} -> 10
    [] s = 9 /\ n = "x" -> 11
    [] OTHER -> 0

MCEntries == [s \in MCState |-> [t \in MCTerminal |-> Entry(s, t)]]
MCGoto    == [s \in MCState |-> [n \in MCNonterminal |-> GotoOf(s, n)]]
MCActionCounts == [s \in MCState |-> [t \in MCTerminal |->
                    Cardinality({i \in DOMAIN MCEntries[s][t] : ~MCEntries[s][t][i].repetition})]]
MCReserved == [s \in MCState |-> IF s = 4 THEN {"kw"} ELSE {}]
MCHeight   == [s \in MCState |-> CASE s \in {0, 1} -> 0 [] s \in {2, 15, 17} -> 1
                                   [] s \in {7, 8, 11, 13, 14, 19} -> 3 [] s = 12 -> 4 [] OTHER -> 2]

(* The sink ignores the symbols in NullReturns every other time. *)
MCReturns == [s \in MCTerminal \cup MCNonterminal |->
                IF s \in NullReturns THEN {TRUE, FALSE} ELSE {TRUE}]
=============================================================================
