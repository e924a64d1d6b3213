------------------------------- MODULE RQueue -------------------------------
(***************************************************************************)
(* src-std/b0_rqueue.ml: a queue that gives its elements in random order,  *)
(* kept in the first slots of an array.  It holds the operations the       *)
(* executor has not started yet (todo of b0_exec.ml).                      *)
(***************************************************************************)
EXTENDS Integers, FiniteSets

CONSTANTS
  Elt,
  None,       \* the empty slot, and the answer of take on an empty queue
  Capacity,   \* slots of an empty queue, 256 in the code
  MaxLength   \* bound on the length

ASSUME NoneIsNoElt == None \notin Elt
ASSUME CapacityIsPos == Capacity \in Nat \ {0}
ASSUME MaxLengthIsNat == MaxLength \in Nat

VARIABLES
  length,  \* number of elements
  size,    \* Array.length slots
  slots,   \* the array, from 0
  res      \* the answer of the last take

queueVars == <<length, size, slots, res>>

QueueInit ==
  /\ length = 0
  /\ size = Capacity
  /\ slots = [i \in 0 .. Capacity - 1 |-> None]
  /\ res = None

\* Mutant: the elements are not copied.
GrowEmpty == [i \in 0 .. 2 * length - 1 |-> None]

\* Twice the slots, the first ones as before.
Grow == [i \in 0 .. 2 * length - 1 |-> IF i < length THEN slots[i] ELSE None]

IsFull == length = size

Add(v) ==
  /\ length < MaxLength
  /\ size' = IF IsFull THEN 2 * length ELSE size
  /\ slots' = [(IF IsFull THEN Grow ELSE slots) EXCEPT ![length] = v]
  /\ length' = length + 1
  /\ res' = None

NothingToTake ==
  /\ length = 0
  /\ res' = None
  /\ UNCHANGED <<length, size, slots>>

\* Mutant: the last element is not moved to the slot that was taken.
TakeAtHole(i) ==
  /\ length # 0
  /\ res' = slots[i]
  /\ length' = length - 1
  /\ slots' = [slots EXCEPT ![i] = None]
  /\ UNCHANGED size

\* The last element fills the slot that was taken.
TakeAt(i) ==
  /\ length # 0
  /\ res' = slots[i]
  /\ length' = length - 1
  /\ slots' = [slots EXCEPT ![i] = slots[length - 1], ![length - 1] = None]
  /\ UNCHANGED size

QueueNext ==
  \/ \E v \in Elt : Add(v)
  \/ NothingToTake
  \/ \E i \in 0 .. length - 1 : TakeAt(i)

QueueSpec == QueueInit /\ [][QueueNext]_queueVars

-----------------------------------------------------------------------------
(* Properties *)

\* The array has the size it is said to have, and room for the elements.
QueueTypeOK ==
  /\ length \in Nat
  /\ size \in Nat \ {0}
  /\ length <= size
  /\ slots \in [0 .. size - 1 -> Elt \cup {None}]
  /\ res \in Elt \cup {None}

\* take asserts that the slot it draws below length is not empty
\* (b0_rqueue.ml:32); the slots above hold on to no element.
Filled == \A i \in 0 .. size - 1 : slots[i] # None <=> i < length

\* The inductive invariant.
QueueIInv == QueueTypeOK /\ Filled

\* The slots that hold e.
SlotsOf(e) == {i \in 0 .. length - 1 : slots[i] = e}

Bag == INSTANCE RQueueSpec WITH bag <- [e \in Elt |-> Cardinality(SlotsOf(e))]

\* The queue is a bag: nothing is lost or given twice when it grows or when
\* the last element is moved.
IsBag == Bag!Spec
=============================================================================
