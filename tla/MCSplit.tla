------------------------------- MODULE MCSplit ------------------------------
(***************************************************************************)
(* An ambiguous grammar for the splits, with tables of the form the        *)
(* generator writes.                                                       *)
(*                                                                         *)
(*   s -> e | q      e -> n | e o e | o e | e k (-1) | o e k (+1)          *)
(*   q -> d o n (+1) | d n | d w n | f k k | f w | f o k | g k             *)
(*   d -> n          f -> n (+1)          g -> n                           *)
(*                                                                         *)
(* n may be an e, a d, an f or a g, which only what follows can tell;      *)
(* e o e and o e associate both ways; o e k and o (e k) differ in          *)
(* precedence.  The text "oo" is the token w where the lex mode knows it   *)
(* and two o otherwise, k is a keyword that is spelled like an n, "c" is a *)
(* comment, "_" blank and "x" nothing the lexer knows.  Before a k there   *)
(* are four alternatives, one more than Versions lets live in the cfg.     *)
(***************************************************************************)
EXTENDS TFSplit

CONSTANTS Alphabet, MaxLength, More

MCState == 0 .. 25
MCTerminal == {"end", "n", "o", "k", "w", "c"}
MCNonterminal == {"s", "e", "q", "d", "f", "g"}

Act(type, state, extra, symbol, count, prec) ==
  [type |-> type, state |-> state, extra |-> extra, repetition |-> FALSE, symbol |-> symbol,
   child_count |-> count, production_id |-> 0, dynamic_precedence |-> prec]

S(s)       == Act("shift", s, FALSE, "e", 0, 0)
X          == Act("shift", 0, TRUE, "e", 0, 0)
R(n, k, p) == Act("reduce", 0, FALSE, n, k, p)
A          == Act("accept", 0, FALSE, "e", 0, 0)
Recover    == Act("recover", 0, FALSE, "e", 0, 0)

Entry(s, t) ==
  CASE s = 0 -> <<Recover>>
    [] t = "c" -> <<X>>
    [] s = 1 /\ t = "n" -> <<S(3)>>
    [] s = 2 /\ t = "end" -> <<A>>
    [] s = 3 /\ t \in {"o", "w"} -> <<R("e", 1, 0), R("g", 1, 0), R("f", 1, 1), R("d", 1, 0)>>
    [] s = 3 /\ t = "k" -> <<R("e", 1, 0), R("d", 1, 0), R("g", 1, 0), R("f", 1, 1)>>
    [] s = 3 /\ t = "end" -> <<R("e", 1, 0)>>
    [] s = 3 /\ t = "n" -> <<R("d", 1, 0)>>
    [] s = 4 /\ t = "o" -> <<S(6)>>
    [] s = 4 /\ t = "k" -> <<S(7)>>
    [] s \in {4, 9} /\ t = "end" -> <<R("s", 1, 0)>>
    [] s \in {1, 5, 6} /\ t = "o" -> <<S(5)>>
    [] s \in {5, 6} /\ t = "n" -> <<S(8)>>
    [] s = 7 /\ t \in {"o", "k", "end"} -> <<R("e", 2, -1)>>
    [] s = 8 /\ t \in {"o", "k", "end"} -> <<R("e", 1, 0)>>
    [] s = 10 /\ t = "o" -> <<S(13)>>
    [] s = 10 /\ t = "n" -> <<S(14)>>
    [] s = 10 /\ t = "w" -> <<S(15)>>
    [] s = 11 /\ t = "o" -> <<R("e", 2, 0), S(6)>>
    [] s = 11 /\ t = "k" -> <<R("e", 2, 0), S(18)>>
    [] s = 11 /\ t = "end" -> <<R("e", 2, 0)>>
    [] s = 12 /\ t = "o" -> <<R("e", 3, 0), S(6)>>
    [] s = 12 /\ t = "k" -> <<R("e", 3, 0), S(7)>>
    [] s = 12 /\ t = "end" -> <<R("e", 3, 0)>>
    [] s = 13 /\ t = "n" -> <<S(16)>>
    [] s = 15 /\ t = "n" -> <<S(17)>>
    [] s \in {14, 23, 24} /\ t = "end" -> <<R("q", 2, 0)>>
    [] s = 16 /\ t = "end" -> <<R("q", 3, 1)>>
    [] s = 17 /\ t = "end" -> <<R("q", 3, 0)>>
    [] s \in {19, 20} /\ t = "k" -> <<S(s + 1)>>
    [] s = 19 /\ t = "w" -> <<S(23)>>
    [] s = 19 /\ t = "o" -> <<S(25)>>
    [] s = 25 /\ t = "k" -> <<S(21)>>
    [] s = 22 /\ t = "k" -> <<S(24)>>
    [] s = 21 /\ t = "end" -> <<R("q", 3, 0)>>
    [] s = 18 /\ t \in {"o", "k", "end"} -> <<R("e", 2, -1), R("e", 3, 1)>>
    [] OTHER -> <<>>

GotoOf(s, n) ==
  CASE s = 1 /\ n = "s" -> 2
    [] s = 1 /\ n = "e" -> 4
    [] s = 1 /\ n = "q" -> 9
    [] s = 1 /\ n = "d" -> 10
    [] s = 1 /\ n = "f" -> 19
    [] s = 1 /\ n = "g" -> 22
    [] s = 5 /\ n = "e" -> 11
    [] s = 6 /\ n = "e" -> 12
    [] OTHER -> 0

MCEntries == [s \in MCState |-> [t \in MCTerminal |-> Entry(s, t)]]
MCGoto == [s \in MCState |-> [n \in MCNonterminal |-> GotoOf(s, n)]]
MCActionCounts == [s \in MCState |-> [t \in MCTerminal |-> Len(MCEntries[s][t])]]
MCReserved == [s \in MCState |-> {}]
MCHeight == [s \in MCState |->
  CASE s \in {0, 1} -> 0
    [] s \in {2, 3, 4, 5, 9, 10, 19, 22} -> 1
    [] s \in {6, 7, 8, 11, 13, 14, 15, 20, 23, 24, 25} -> 2
    [] OTHER -> 3]
MCReturns == [s \in MCTerminal \cup MCNonterminal |-> {TRUE}]
Order == <<"end", "n", "o", "k", "w", "c", "s", "e", "q", "d", "f", "g">>
MCSymbolId == [s \in MCTerminal \cup MCNonterminal |-> CHOOSE i \in DOMAIN Order : Order[i] = s]

(* States from which a d or an f may go on know the token w. *)
MCLexMode == [s \in MCState |-> IF s \in {3, 10, 19} THEN 1 ELSE 0]
MCReusable == [s \in MCState |->
  [t \in MCTerminal |-> t \in {"c", "k", "end"} /\ MCEntries[s][t] # <<>>]]

(* The lexer: blanks, then the longest token the mode knows. *)
MCScan(text, state, at) ==
  LET start == Min({i \in at .. Len(text) : i = Len(text) \/ text[i + 1] # "_"})
      Tok(symbol, width, kw) ==
        [found |-> TRUE, keyword |-> kw,
         token |-> [symbol |-> symbol, start |-> start, end |-> start + width]]
      letter == text[start + 1]
  IN  CASE start = Len(text) -> Tok("end", 0, FALSE)
        [] start < Len(text) /\ letter = "x" -> [found |-> FALSE, at |-> start]
        [] start < Len(text) /\ letter = "k" ->
             IF MCEntries[state]["k"] # <<>> THEN Tok("k", 1, TRUE) ELSE Tok("n", 1, FALSE)
        [] start < Len(text) /\ letter = "o" ->
             IF MCLexMode[state] = 1 /\ start + 2 <= Len(text) /\ text[start + 2] = "o"
             THEN Tok("w", 2, FALSE) ELSE Tok("o", 1, FALSE)
        [] OTHER -> Tok(letter, 1, FALSE)

MCSources == UNION {[1 .. n -> Alphabet] : n \in 0 .. MaxLength} \cup More
OtherSources == {<<"o", "x">>, <<"n", "o", "o", "n", "o", "n">>, <<"n", "o", "o", "o", "x">>,
                <<"c", "n", "c", "o", "_", "n", "c">>, <<"c", "n", "c", "o", "_", "n", "c", "k">>}
=============================================================================
