------------------------------ MODULE GuardSpec ------------------------------
(***************************************************************************)
(* What src-lib/b0_guard.ml promises to the build: an operation is handed  *)
(* out once, after all the files (or, for a Sync operation, the units) it  *)
(* reads were announced ready, in the order in which operations became     *)
(* ready.  Nothing is said of how events and waiting lists are kept.       *)
(***************************************************************************)
EXTENDS Sequences

CONSTANTS Op, File, Unit

Event == File \cup Unit

VARIABLES
  needs,     \* Op -> the events the operation was added with
  stage,     \* Op -> how far the operation is
  occurred,  \* the events announced so far
  queue      \* the released operations nobody took yet, oldest first

vars == <<needs, stage, occurred, queue>>

Init ==
  /\ needs = [op \in Op |-> {}]
  /\ stage = [op \in Op |-> "New"]
  /\ occurred = {}
  /\ queue = <<>>

\* An operation is added.  It is released at once when nothing holds it back.
Add(op, evs) ==
  /\ stage[op] = "New"
  /\ needs' = [needs EXCEPT ![op] = evs]
  /\ \/ /\ evs \subseteq occurred
        /\ stage' = [stage EXCEPT ![op] = "Ready"]
        /\ queue' = Append(queue, op)
     \/ /\ ~ evs \subseteq occurred
        /\ stage' = [stage EXCEPT ![op] = "Guarded"]
        /\ queue' = queue
  /\ UNCHANGED occurred

Occur(e) ==
  /\ occurred' = occurred \cup {e}
  /\ UNCHANGED <<needs, stage, queue>>

Release(op) ==
  /\ stage[op] = "Guarded"
  /\ needs[op] \subseteq occurred
  /\ stage' = [stage EXCEPT ![op] = "Ready"]
  /\ queue' = Append(queue, op)
  /\ UNCHANGED <<needs, occurred>>

Take ==
  /\ queue # <<>>
  /\ stage' = [stage EXCEPT ![Head(queue)] = "Taken"]
  /\ queue' = Tail(queue)
  /\ UNCHANGED <<needs, occurred>>

Next ==
  \/ \E op \in Op, evs \in (SUBSET File) \cup (SUBSET Unit) : Add(op, evs)
  \/ \E e \in Event : Occur(e)
  \/ \E op \in Op : Release(op)
  \/ Take

Spec == Init /\ [][Next]_vars

\* No operation stays behind once everything it awaits was announced.
Released ==
  \A op \in Op :
    (stage[op] = "Guarded" /\ needs[op] \subseteq occurred) ~> (stage[op] # "Guarded")
=============================================================================
