---------------------------- MODULE RustBinding -----------------------------
(***************************************************************************)
(* The value slab and the callbacks of lib/binding_rust/lib.rs.  Values of *)
(* the visitor live in slots while the C side holds their handles (slot    *)
(* numbers from 1, 0 for null).  A callback is one step: the C side waits  *)
(* for it.                                                                 *)
(*                                                                         *)
(* The visible filter is the environment: it holds a row of handles, shows *)
(* a run of them to on_node and keeps the handle it gets back in their     *)
(* place, or offers the top of the row to on_hidden and leaves it alone    *)
(* when the answer is null.  So is the visitor, which may fold, decline or *)
(* panic.                                                                  *)
(***************************************************************************)
EXTENDS Integers, SequencesExt

CONSTANTS
  MaxValues,         \* bound: values the visitor returns in one parse
  VisitorMayPanic,
  VisitorMayDrain    \* whether `hidden` may take children out and decline

NoValue == 0         \* an empty slot
Null == 0            \* a null handle

ASSUME BindingAssumption ==
  MaxValues \in Nat /\ VisitorMayPanic \in BOOLEAN /\ VisitorMayDrain \in BOOLEAN

VARIABLES
  items,     \* Slab::items, a value or NoValue in each slot
  free,      \* Slab::free, a stack of slots
  panic,     \* State::panic: "none", "visitor" or "missing"
  held,      \* what the filter holds: a handle and, as history, the value it was returned for
  made,      \* history: values returned by the visitor
  peak,      \* history: the most values held at once
  outcome,   \* what parse_with returns, "running" before that
  result     \* the value it returns

slab == <<items, free>>
vars == <<slab, panic, held, made, peak, outcome, result>>

Handles(run) == [i \in DOMAIN run |-> run[i].handle]

(* Slab::insert: the slot freed last, or a new one. *)
SlotFor(list) == IF list = <<>> THEN Len(items) + 1 ELSE Last(list)

insert(slots, list, value) ==
  /\ items' = IF list = <<>> THEN Append(slots, value) ELSE [slots EXCEPT ![Last(list)] = value]
  /\ free'  = IF list = <<>> THEN list ELSE Front(list)

(* Slab::take of several handles, one after the other. *)
Present(h) == h \in DOMAIN items /\ items[h] # NoValue
Emptied(hs) == [s \in DOMAIN items |-> IF s \in Range(hs) THEN NoValue ELSE items[s]]

(* The slots of the taken values are free, the last one first.             *)
Freed(hs) == free \o hs

(* Mutant: the values go back in the order of a stack. *)
RestoreReversed(hs, rest) ==
  [s \in DOMAIN items |-> IF \E j \in DOMAIN rest : hs[j] = s
                          THEN rest[Len(rest) + 1 - (CHOOSE j \in DOMAIN rest : hs[j] = s)]
                          ELSE Emptied(hs)[s]]

(* Slab::restore of the values the visitor left, each under the handle in  *)
(* the same position, and Slab::rollback of the frees since the mark.      *)
restore(hs, rest) ==
  [s \in DOMAIN items |-> IF \E j \in DOMAIN rest : hs[j] = s
                          THEN rest[CHOOSE j \in DOMAIN rest : hs[j] = s]
                          ELSE Emptied(hs)[s]]

(* The children a visitor that declines has left in place, in order: all   *)
(* of them, or any when it may have drained some.                          *)
LeftBy(hs) ==
  IF VisitorMayDrain
  THEN LET order(left) == SetToSortSeq(left, LAMBDA x, y : x < y)
       IN  {[j \in DOMAIN order(left) |-> items[hs[order(left)[j]]]] : left \in SUBSET DOMAIN hs}
  ELSE {[j \in DOMAIN hs |-> items[hs[j]]]}

(* Mutant: the frees stay. *)
RollbackNothing(list, mark) == list

rollback(list, mark) == SubSeq(list, 1, mark)

(* What the filter holds once entries lo .. hi have become one. *)
Replace(lo, hi, entry) == SubSeq(held, 1, lo - 1) \o <<entry>> \o SubSeq(held, hi + 1, Len(held))

NoEntry == [handle |-> Null, value |-> NoValue]

Keep(row) ==
  /\ held' = row
  /\ peak' = IF Len(row) > peak THEN Len(row) ELSE peak

-----------------------------------------------------------------------------
Init ==
  /\ items = <<>> /\ free = <<>> /\ panic = "none"
  /\ held = <<>> /\ made = 0 /\ peak = 0
  /\ outcome = "running" /\ result = NoValue

(* dispatch: the children are taken one by one; one without a value is a   *)
(* panic, which is kept and raised again when C has returned.              *)
Missing(hs) ==
  \E k \in DOMAIN hs :
    /\ ~Present(hs[k]) \/ \E j \in 1 .. k - 1 : hs[j] = hs[k]
    /\ \A j \in 1 .. k - 1 : Present(hs[j])
    /\ items' = Emptied(SubSeq(hs, 1, k - 1))
    /\ free'  = Freed(SubSeq(hs, 1, k - 1))
    /\ panic' = "missing"

AllPresent(hs) ==
  \A i \in DOMAIN hs : Present(hs[i]) /\ \A j \in 1 .. i - 1 : hs[i] # hs[j]

VisitorPanics(hs) ==
  /\ VisitorMayPanic /\ AllPresent(hs) /\ made < MaxValues
  /\ items' = Emptied(hs) /\ free' = Freed(hs)
  /\ panic' = "visitor"

(* The visitor's value goes into the slab once its children are out of it. *)
Returns(hs) ==
  /\ AllPresent(hs) /\ made < MaxValues
  /\ insert(Emptied(hs), Freed(hs), made + 1)
  /\ made' = made + 1
  /\ UNCHANGED panic

NewEntry(hs) == [handle |-> SlotFor(Freed(hs)), value |-> made + 1]

(* on_node: children lo .. hi of the row, none if hi < lo. *)
OnNode ==
  /\ outcome = "running"
  /\ \E lo \in 1 .. Len(held) + 1 : \E hi \in lo - 1 .. Len(held) :
       LET hs == Handles(SubSeq(held, lo, hi)) IN
       \/ /\ panic # "none"
          /\ Len(held) < MaxValues
          /\ Keep(Replace(lo, hi, NoEntry))
          /\ UNCHANGED <<slab, panic, made>>
       \/ /\ panic = "none"
          /\ Missing(hs) \/ VisitorPanics(hs)
          /\ Keep(Replace(lo, hi, NoEntry))
          /\ UNCHANGED made
       \/ /\ panic = "none"
          /\ Returns(hs)
          /\ Keep(Replace(lo, hi, NewEntry(hs)))
  /\ UNCHANGED <<outcome, result>>

(* on_hidden: a run of two or more, at the top of the row.  A null leaves  *)
(* the row as it was; after a panic the answer is always null.             *)
OnHidden ==
  /\ outcome = "running" /\ panic = "none"
  /\ \E lo \in 1 .. Len(held) - 1 :
       LET hs == Handles(SubSeq(held, lo, Len(held))) IN
       \/ /\ Missing(hs) \/ VisitorPanics(hs)
          /\ UNCHANGED <<held, peak, made>>
       \/ /\ Returns(hs)
          /\ Keep(Replace(lo, Len(held), NewEntry(hs)))
       \/ /\ AllPresent(hs)
          /\ \E rest \in LeftBy(hs) : items' = restore(hs, rest)
          /\ free' = rollback(Freed(hs), Len(free))
          /\ UNCHANGED <<panic, held, peak, made>>
  /\ UNCHANGED <<outcome, result>>

(* tf_parse_visible returned.  A panic comes first, then the C error, then *)
(* the root's value, which a grammar with a hidden root does not have.     *)
ParseWith ==
  /\ outcome = "running"
  /\ \E ok \in BOOLEAN :
       /\ ok => Len(held) = 1
       /\ outcome' = IF panic # "none" THEN "panic"
                     ELSE IF ~ok THEN "error"
                     ELSE IF Present(held[1].handle) THEN "value" ELSE "no_root"
       /\ IF outcome' = "value"
          THEN /\ result' = items[held[1].handle]
               /\ items' = Emptied(Handles(held)) /\ free' = Freed(Handles(held))
          ELSE UNCHANGED <<result, slab>>
  /\ UNCHANGED <<panic, held, made, peak>>

Next == OnNode \/ OnHidden \/ ParseWith

Spec == Init /\ [][Next]_vars

-----------------------------------------------------------------------------
(* The slab and the callbacks' state keep their types: slots and handles   *)
(* stay within what the visitor has returned.                              *)
TypeOK ==
  /\ items \in Seq(0 .. MaxValues) /\ free \in Seq(1 .. MaxValues)
  /\ panic \in {"none", "visitor", "missing"}
  /\ held \in Seq([handle : 0 .. MaxValues, value : 0 .. MaxValues])
  /\ made \in 0 .. MaxValues /\ peak \in 0 .. MaxValues
  /\ outcome \in {"running", "value", "no_root", "error", "panic"} /\ result \in 0 .. MaxValues

(* A handle the C side holds leads to the value it was returned for, after *)
(* any number of folds and refusals and whatever slots were used again.    *)
HandlesResolve ==
  outcome = "running" /\ panic = "none" =>
    \A i \in DOMAIN held : held[i].handle \in DOMAIN items /\ items[held[i].handle] = held[i].value

(* The free list holds every empty slot once and no other, through take,   *)
(* insert and the rollback of a refused fold: no slot is lost, and none is *)
(* given out while it is in use.  "Slots are reused as parents consume     *)
(* their children, so this stays the size of the live set rather than of   *)
(* the file": there are never more slots than values held at once.         *)
FreeListExact ==
  /\ TypeOK
  /\ Range(free) = {s \in DOMAIN items : items[s] = NoValue}
  /\ \A i, j \in DOMAIN free : i # j => free[i] # free[j]
  /\ Len(items) <= peak

(* "A child with no value cannot happen: every visible node was reported   *)
(* before its parent" (the expect in dispatch).                            *)
ChildrenHaveValues == panic # "missing"
=============================================================================
