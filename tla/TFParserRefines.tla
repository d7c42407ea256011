-------------------------- MODULE TFParserRefines ---------------------------
(***************************************************************************)
(* The driver seen through the two abstract specifications it implements.  *)
(***************************************************************************)
EXTENDS TFParser

(* The states of the real cells, extras left out: the k-th is that of the  *)
(* cell with k real cells up to it.                                        *)
RealStates ==
  [k \in 1 .. Cardinality(RealBelow(depth)) + 1 |->
     IF k = 1 THEN StartState
     ELSE states[CHOOSE i \in 1 .. depth :
                   ~nodes[i].extra /\ Cardinality(RealBelow(i)) = k - 1]]

LR == INSTANCE LRAutomaton WITH
  stack   <- RealStates,
  look    <- IF pc \in {"act", "split"} THEN {token.symbol} ELSE {},
  verdict <- IF error.kind # "none" THEN "rejected" ELSE IF pc = "done" THEN "accepted" ELSE "running"

(* With its extras, its keyword demotion and its splits, the driver makes  *)
(* only moves of the LR automaton on the real cells, and accepts only with *)
(* the root alone on the stack.                                            *)
ImplementsLR == LR!Spec

Contract == INSTANCE SinkContract WITH
  outcome <- IF error.kind = "oom" THEN "oom"
             ELSE IF pc # "done" THEN "running" ELSE IF error.kind = "none" THEN "ok" ELSE "failed"

(* The driver keeps the header's promise about values as long as memory    *)
(* lasts, through splits that succeed and splits that fail, and never      *)
(* hands a value back twice.                                               *)
KeepsContract == Contract!Spec
=============================================================================
