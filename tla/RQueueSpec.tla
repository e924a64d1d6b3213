----------------------------- MODULE RQueueSpec -----------------------------
(***************************************************************************)
(* What src-std/b0_rqueue.ml promises: a bag.  What was added is taken     *)
(* once, in any order; None is answered only if the bag is empty.          *)
(***************************************************************************)
EXTENDS Naturals

CONSTANTS Elt, None

VARIABLES
  bag,  \* Elt -> how many times it is in the queue
  res   \* the answer of the last take

vars == <<bag, res>>

Init == bag = [e \in Elt |-> 0] /\ res = None

Add(e) ==
  /\ bag' = [bag EXCEPT ![e] = @ + 1]
  /\ res' = None

Take(e) ==
  /\ bag[e] > 0
  /\ bag' = [bag EXCEPT ![e] = @ - 1]
  /\ res' = e

TakeNone ==
  /\ \A e \in Elt : bag[e] = 0
  /\ res' = None
  /\ UNCHANGED bag

Next == (\E e \in Elt : Add(e) \/ Take(e)) \/ TakeNone

Spec == Init /\ [][Next]_vars
=============================================================================
