----------------------------- MODULE SinkContract ---------------------------
(***************************************************************************)
(* What lib/include/tree_feller.h promises a consumer about the values its *)
(* callbacks return: each goes to one parent, or it is the root of a parse *)
(* that succeeds, or it comes back through on_discard when the parse       *)
(* fails, and never two of these.  Nothing is said of grammars or stacks.  *)
(***************************************************************************)
EXTENDS Integers

VARIABLES
  issued,    \* values the consumer's callbacks have returned, 1 .. issued
  handed,    \* how often each was handed back to the consumer
  outcome,   \* "running", "ok", "failed", or "oom" once memory ran out
  root       \* the value the caller receives, 0 for none

vars == <<issued, handed, outcome, root>>

Once(n) == [1 .. n -> {0, 1}]

Init ==
  /\ issued = 0 /\ handed \in Once(0)
  /\ outcome = "running" /\ root = 0

(* A callback (or the end token and the root together) returned a value or *)
(* none, and the children it was given are spent.                          *)
Build ==
  /\ outcome = "running" /\ outcome' = "running"
  /\ issued' \in issued .. issued + 2
  /\ handed' \in Once(issued')
  /\ \A v \in 1 .. issued : handed[v] <= handed'[v]
  /\ root' = root

(* The caller takes the root; everything else is inside it. *)
Succeed ==
  /\ outcome = "running" /\ outcome' = "ok"
  /\ root' \in 0 .. issued
  /\ \A v \in 1 .. issued : IF v = root' THEN handed[v] = 0 ELSE handed[v] = 1
  /\ UNCHANGED <<issued, handed>>

(* Every value not yet spent comes back. *)
Fail ==
  /\ outcome = "running" /\ outcome' = "failed"
  /\ issued' = issued
  /\ handed' = [v \in 1 .. issued |-> 1]
  /\ root' = root

(* Once memory ran out the header's promise is kept only in part: no value *)
(* is handed back twice, but one may be lost.                              *)
RunOut ==
  /\ outcome \in {"running", "oom"} /\ outcome' = "oom"
  /\ issued' \in issued .. issued + 1
  /\ handed' \in Once(issued')
  /\ \A v \in 1 .. issued : handed[v] <= handed'[v]
  /\ root' = root

Next == Build \/ Succeed \/ Fail \/ RunOut

Spec == Init /\ [][Next]_vars
=============================================================================
