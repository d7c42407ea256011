----------------------------- MODULE MCVisible ------------------------------
(***************************************************************************)
(* A small grammar for the visible filter:                                 *)
(*   src -> empty | _rep                    _rep -> item | _rep _rep       *)
(*   item -> _al _op _al p                  _al -> a                       *)
(*   _op -> empty | p p | blk               blk -> empty                   *)
(* _rep, _op and _al are hidden; item aliases its first _al to "al"; its   *)
(* last _al fills the field "rhs", its p the field "tail" and, if          *)
(* FieldOnHidden, its _op the field "op".  p is punctuation, c a comment.  *)
(***************************************************************************)
EXTENDS TFVisible, TLC

CONSTANTS FieldOnHidden

MCToken == {"a", "p", "c"}
MCRule ==
  {[symbol |-> "_al",  production |-> 0, kids |-> <<"a">>],
   [symbol |-> "_op",  production |-> 0, kids |-> <<"p", "p">>],
   [symbol |-> "_op",  production |-> 0, kids |-> <<>>],
   [symbol |-> "_op",  production |-> 0, kids |-> <<"blk">>],
   [symbol |-> "blk",  production |-> 0, kids |-> <<>>],
   [symbol |-> "item", production |-> 1, kids |-> <<"_al", "_op", "_al", "p">>],
   [symbol |-> "_rep", production |-> 0, kids |-> <<"item">>],
   [symbol |-> "_rep", production |-> 0, kids |-> <<"_rep", "_rep">>],
   [symbol |-> "src",  production |-> 0, kids |-> <<>>],
   [symbol |-> "src",  production |-> 0, kids |-> <<"_rep">>]}

(* At most two repetitions, or one and the beginning of an item. *)
MCItem == {<<>>, <<"a">>, <<"_al">>, <<"_al", "p">>, <<"_al", "p", "p">>, <<"_al", "blk">>,
           <<"_al", "_op">>, <<"_al", "_op", "a">>, <<"_al", "_op", "_al">>,
           <<"_al", "_op", "_al", "p">>, <<"item">>}
MCViable(w) == w \in MCItem \cup {<<"_rep">> \o i : i \in MCItem}
                     \cup {<<"_rep", "_rep">>, <<"src">>}

MCSymbol == MCToken \cup {"end", "_al", "_op", "item", "blk", "_rep", "src", "al"}
MCPublic == [s \in MCSymbol |-> IF s = "al" THEN "a" ELSE s]
MCAliasRow == <<[i \in 1 .. 4 |-> IF i = 1 THEN "al" ELSE None]>>
MCFieldRow == <<<<None, IF FieldOnHidden THEN "op" ELSE None, "rhs", "tail">>>>
=============================================================================
