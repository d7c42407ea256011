----------------------------- MODULE LRAutomaton ----------------------------
(***************************************************************************)
(* The textbook LR automaton over the same tables: a stack of states, one  *)
(* lookahead, no extras, no spans and no values.  Where an entry holds     *)
(* several actions it may take any of them.  It is what a parse means; the *)
(* driver has to agree with it although its stack also carries comments.   *)
(***************************************************************************)
EXTENDS TFTables

VARIABLES
  stack,      \* states, the start state first
  look,       \* the lookahead: one terminal, or none yet read
  verdict     \* "running", "accepted" or "rejected"

vars == <<stack, look, verdict>>

Last == stack[Len(stack)]
Below(count) == SubSeq(stack, 1, Len(stack) - count)

Init == stack = <<StartState>> /\ look = {} /\ verdict = "running"

Read ==
  /\ verdict = "running" /\ look = {}
  /\ \E t \in Terminal : look' = {t}
  /\ UNCHANGED <<stack, verdict>>

(* A keyword the state has no use for is read as the word it is spelled as.*)
Demote ==
  /\ verdict = "running"
  /\ \E t \in Keyword : look = {t} /\ tf_count(Last, t) = 0 /\ t \notin Reserved[Last]
  /\ tf_count(Last, Word) # 0
  /\ look' = {Word}
  /\ UNCHANGED <<stack, verdict>>

Choices == UNION {tf_actions(Last, t) : t \in look}

Shift ==
  /\ verdict = "running"
  /\ \E a \in Choices : /\ a.type = "shift"
                        /\ stack' = IF a.extra THEN stack ELSE Append(stack, a.state)
  /\ look' = {}
  /\ UNCHANGED verdict

Reduce ==
  /\ verdict = "running"
  /\ \E a \in Choices :
       /\ a.type = "reduce" /\ a.child_count < Len(stack)
       /\ LET below == Below(a.child_count)
          IN  stack' = Append(below, Goto[below[Len(below)]][a.symbol])
  /\ UNCHANGED <<look, verdict>>

(* Accepting leaves the root and nothing else above the start state. *)
Accept ==
  /\ verdict = "running" /\ \E a \in Choices : a.type = "accept"
  /\ Len(stack) = 2
  /\ verdict' = "accepted" /\ look' = {}
  /\ UNCHANGED stack

(* The source, the lexer or memory may end a parse at any point. *)
Reject ==
  /\ verdict = "running"
  /\ verdict' = "rejected" /\ look' = {}
  /\ UNCHANGED stack

Next == Read \/ Demote \/ Shift \/ Reduce \/ Accept \/ Reject

Spec == Init /\ [][Next]_vars
=============================================================================
