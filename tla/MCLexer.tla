------------------------------- MODULE MCLexer ------------------------------
(***************************************************************************)
(* Every buffer of up to three bytes over a newline, an ASCII letter and   *)
(* the bytes of a byte order mark, so that well-formed, malformed and      *)
(* cut-off characters all occur, and some buffers as long as TF_NO_END.    *)
(***************************************************************************)
EXTENDS TFLexer, TLC

CONSTANT Alphabet

BOM == <<239, 187, 191>>
MCSources ==
  UNION {[1 .. n -> Alphabet] : n \in 0 .. 3}
  \cup {BOM \o <<97>>, BOM \o <<10>>, <<97>> \o BOM, <<97, 10, 239, 97>>}
MCUsable == (0 :> {}) @@ (1 :> {"end", "word", "if"}) @@ (2 :> {"end", "word"})
=============================================================================
