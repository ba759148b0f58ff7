----------------------------- MODULE BoundedFifo -----------------------------
(***************************************************************************)
(* What the users of a ring rely on: a first-in first-out queue of at most *)
(* N entries.  A push onto a full queue is dropped, a pop of an empty one  *)
(* answers "none" (the code's -1).                                         *)
(***************************************************************************)
EXTENDS Integers, Sequences

CONSTANTS N, Elem, None

VARIABLES
  items,    (* the entries, oldest first        *)
  result    (* the answer of the last pop       *)

vars == <<items, result>>

Init == items = <<>> /\ result = None

Push(x) ==
  /\ items' = IF Len(items) < N THEN Append(items, x) ELSE items
  /\ UNCHANGED result

Pop ==
  IF items = <<>>
  THEN result' = None /\ UNCHANGED items
  ELSE result' = Head(items) /\ items' = Tail(items)

Next == Pop \/ \E x \in Elem : Push(x)

Spec == Init /\ [][Next]_vars
=============================================================================
