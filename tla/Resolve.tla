------------------------------- MODULE Resolve -------------------------------
(***************************************************************************)
(* resolve_blocked of src-lib/b0_build.ml: what happens, once nothing runs *)
(* any more, to the operations that are still guarded.  Each becomes       *)
(* Aborted; their units fail, or are aborted because of another one.       *)
(*                                                                         *)
(* The four loops over the list of guards are followed one iteration per   *)
(* step: resolve_known_failed_unit_writes ("known"),                       *)
(* abort_awaiting_on_failures ("abort"), fail_cycles ("cycles") and        *)
(* never_became_ready ("never").  Messages are left out, so the files that *)
(* were never written are a set.                                           *)
(***************************************************************************)
EXTENDS Naturals, Sequences, Functions

CONSTANTS
  Unit,     \* the units, one aim each
  File,
  Shape,    \* what a guard may be: [unit, reads, files, units, writes]
  N         \* number of guards

ASSUME ShapesOfGuards ==
  /\ Shape \subseteq [unit : Unit, reads : SUBSET File,
                      files : SUBSET File, units : SUBSET Unit, writes : SUBSET File]
  /\ \A s \in Shape : s.files \subseteq s.reads
ASSUME NIsPos == N \in Nat \ {0}

Guards == 1 .. N

VARIABLES
  guard,    \* Guards -> its unit, what it awaits and its operation's writes
  ustatus,  \* Unit -> build_status, "None" without build state
  pass,     \* the loop being run, "done", or "fault" after an assert false
  gs,       \* the guards the loop has still to visit
  unr,      \* those it leaves unresolved, latest first
  never,    \* the files never written
  count     \* res_count, or count

vars == <<guard, ustatus, pass, gs, unr, never, count>>

StatusOf(g) == ustatus[guard[g].unit]

\* What a build can leave: a guard awaits files or units ("files" are those of
\* its operation's reads that are not ready), its unit is Active or Failed.
\* An awaited unit was never announced, and has no build state if it is not in
\* the build set.  An Active unit without a guard has an operation that the
\* executor lost (Build, CollectRaises).
Init ==
  /\ guard \in [Guards -> Shape]
  /\ ustatus \in [Unit -> {"None", "Active", "Failed", "Finished"}]
  /\ \A g \in Guards :
       /\ StatusOf(g) \in {"Active", "Failed"}
       /\ \A u \in guard[g].units : ustatus[u] # "Finished"
       /\ \A h \in Guards : (guard[g].reads \ guard[g].files) \cap guard[h].files = {}
  /\ pass = "known"
  /\ gs = [g \in Guards |-> g]
  /\ unr = <<>> /\ never = {} /\ count = 0

-----------------------------------------------------------------------------
At(p) == pass = p /\ gs # <<>>

Next1 == gs' = Tail(gs)
Keep(g) == unr' = <<g>> \o unr
AddNeverWritten(g) == never' = never \cup guard[g].writes

\* resolve_known_failed_unit_writes
KnownActive ==
  /\ At("known")
  /\ StatusOf(Head(gs)) = "Active"
  /\ Keep(Head(gs)) /\ Next1
  /\ UNCHANGED <<guard, ustatus, pass, never, count>>

KnownFailed ==
  /\ At("known")
  /\ StatusOf(Head(gs)) = "Failed"
  /\ AddNeverWritten(Head(gs)) /\ Next1
  /\ UNCHANGED <<guard, ustatus, pass, unr, count>>

KnownEnd ==
  /\ pass = "known" /\ gs = <<>>
  /\ pass' = "abort"
  /\ gs' = unr /\ unr' = <<>> /\ count' = 0
  /\ UNCHANGED <<guard, ustatus, never>>

-----------------------------------------------------------------------------
(* abort_awaiting_on_failures *)

\* Mutant: an awaited unit that is still Active counts as a failure.
AwaitsUnfinished(g) ==
  IF guard[g].files # {}
  THEN guard[g].files \cap never # {}
  ELSE \E u \in guard[g].units : ustatus[u] # "Finished"

\* The guard awaits files, one of them never written; or no file and a unit
\* that failed or was aborted.
AwaitsFailure(g) ==
  IF guard[g].files # {}
  THEN guard[g].files \cap never # {}
  ELSE \E u \in guard[g].units : ustatus[u] \in {"Failed", "Aborted"}

\* The unit was aborted because of another of its guards.
AbortAgain ==
  /\ At("abort")
  /\ StatusOf(Head(gs)) = "Aborted"
  /\ AddNeverWritten(Head(gs)) /\ Next1
  /\ count' = count + 1
  /\ UNCHANGED <<guard, ustatus, pass, unr>>

\* get_unit_state asserts that the units a guard awaits have a build state.
AwaitsMissing(g) == guard[g].files = {} /\ \E u \in guard[g].units : ustatus[u] = "None"

AbortAssert ==
  /\ At("abort")
  /\ StatusOf(Head(gs)) = "Active"
  /\ AwaitsMissing(Head(gs))
  /\ pass' = "fault"
  /\ UNCHANGED <<guard, ustatus, gs, unr, never, count>>

Abort ==
  /\ At("abort")
  /\ StatusOf(Head(gs)) = "Active"
  /\ ~ AwaitsMissing(Head(gs))
  /\ AwaitsFailure(Head(gs))
  /\ ustatus' = [ustatus EXCEPT ![guard[Head(gs)].unit] = "Aborted"]
  /\ AddNeverWritten(Head(gs)) /\ Next1
  /\ count' = count + 1
  /\ UNCHANGED <<guard, pass, unr>>

AbortNot ==
  /\ At("abort")
  /\ StatusOf(Head(gs)) = "Active"
  /\ ~ AwaitsMissing(Head(gs))
  /\ ~ AwaitsFailure(Head(gs))
  /\ Keep(Head(gs)) /\ Next1
  /\ UNCHANGED <<guard, ustatus, pass, never, count>>

\* Mutants: the loop runs once; its count is not reset.
AbortOnce ==
  /\ pass = "abort" /\ gs = <<>>
  /\ pass' = "cycles"
  /\ gs' = unr /\ unr' = <<>> /\ count' = 0
  /\ UNCHANGED <<guard, ustatus, never>>
AbortNoReset ==
  /\ pass = "abort" /\ gs = <<>>
  /\ pass' = IF count = 0 THEN "cycles" ELSE "abort"
  /\ gs' = unr /\ unr' = <<>>
  /\ UNCHANGED <<guard, ustatus, never, count>>

\* The loop starts over until it resolves no guard.
AbortEnd ==
  /\ pass = "abort" /\ gs = <<>>
  /\ pass' = IF count = 0 THEN "cycles" ELSE "abort"
  /\ gs' = unr /\ unr' = <<>> /\ count' = 0
  /\ UNCHANGED <<guard, ustatus, never>>

-----------------------------------------------------------------------------
(* fail_cycles *)

\* B0_op.cycle: each operation reads what the other one writes, whether it
\* still awaits it or not.
OpCycle(g0, g1) ==
  /\ guard[g0].reads \cap guard[g1].writes # {}
  /\ guard[g1].reads \cap guard[g0].writes # {}

\* The test on awaited units: both operations await the unit of the second.
AwaitCycle(g0, g1) == guard[g1].unit \in guard[g0].units /\ guard[g1].unit \in guard[g1].units

Cycle(g0, g1) == OpCycle(g0, g1) \/ AwaitCycle(g0, g1)

CycleFailed ==
  /\ At("cycles")
  /\ StatusOf(Head(gs)) = "Failed"
  /\ Next1
  /\ count' = count + 1
  /\ UNCHANGED <<guard, ustatus, pass, unr, never>>

\* The first guard after g in a cycle with it: both units fail.
CycleFound ==
  /\ At("cycles")
  /\ StatusOf(Head(gs)) = "Active"
  /\ \E i \in 2 .. Len(gs) :
       LET g0 == Head(gs) g1 == gs[i]
       IN /\ Cycle(g0, g1)
          /\ \A j \in 2 .. i - 1 : ~ Cycle(g0, gs[j])
          /\ ustatus' = [ustatus EXCEPT ![guard[g0].unit] = "Failed",
                                        ![guard[g1].unit] = "Failed"]
          /\ never' = never \cup guard[g0].writes \cup guard[g1].writes
  /\ Next1
  /\ count' = count + 1
  /\ UNCHANGED <<guard, pass, unr>>

CycleNot ==
  /\ At("cycles")
  /\ StatusOf(Head(gs)) = "Active"
  /\ \A i \in 2 .. Len(gs) : ~ Cycle(Head(gs), gs[i])
  /\ Keep(Head(gs)) /\ Next1
  /\ UNCHANGED <<guard, ustatus, pass, never, count>>

\* Mutant: resolve does not start over.
CyclesStop ==
  /\ pass = "cycles" /\ gs = <<>>
  /\ pass' = IF count = 0 THEN "never" ELSE "done"
  /\ gs' = unr /\ unr' = <<>> /\ count' = 0
  /\ UNCHANGED <<guard, ustatus, never>>

\* With no cycle found all the rest fails, otherwise resolve starts over.
CyclesEnd ==
  /\ pass = "cycles" /\ gs = <<>>
  /\ pass' = IF count = 0 THEN "never" ELSE IF unr = <<>> THEN "done" ELSE "known"
  /\ gs' = unr /\ unr' = <<>> /\ count' = 0
  /\ UNCHANGED <<guard, ustatus, never>>

-----------------------------------------------------------------------------
\* never_became_ready: the unit fails, unless it did because of another guard.
Never ==
  /\ At("never")
  /\ StatusOf(Head(gs)) \in {"Active", "Failed"}
  /\ ustatus' = [ustatus EXCEPT ![guard[Head(gs)].unit] = "Failed"]
  /\ Next1
  /\ UNCHANGED <<guard, pass, unr, never, count>>

NeverEnd ==
  /\ pass = "never" /\ gs = <<>>
  /\ pass' = "done"
  /\ UNCHANGED <<guard, ustatus, gs, unr, never, count>>

-----------------------------------------------------------------------------
Next ==
  \/ KnownActive \/ KnownFailed \/ KnownEnd
  \/ AbortAgain \/ AbortAssert \/ Abort \/ AbortNot \/ AbortEnd
  \/ CycleFailed \/ CycleFound \/ CycleNot \/ CyclesEnd
  \/ Never \/ NeverEnd

Spec == Init /\ [][Next]_vars
FairSpec == Spec /\ WF_vars(Next)

-----------------------------------------------------------------------------
(* Properties *)

Status == {"None", "Active", "Failed", "Aborted", "Finished"}

TypeOK ==
  /\ guard \in [Guards -> Shape]
  /\ ustatus \in [Unit -> Status]
  /\ pass \in {"known", "abort", "cycles", "never", "done", "fault"}
  /\ gs \in Seq(Guards) /\ unr \in Seq(Guards)
  /\ never \subseteq File
  /\ count \in Nat

\* The statuses the loops assert impossible (b0_build.ml:609, 625, 682, 743)
\* are not met: a guard of an aborted unit never outlives the second loop.
AssertedStatuses ==
  gs # <<>> /\ pass # "fault" =>
    StatusOf(Head(gs)) \in IF pass = "abort" THEN {"Active", "Aborted"}
                                             ELSE {"Active", "Failed"}

\* Units with guarded operations all end Failed or Aborted.
AllSettled == pass = "done" => \A g \in Guards : StatusOf(g) \in {"Failed", "Aborted"}

\* "Happens if depends on a failed unit" (b0_unit.mli:45): a unit is aborted
\* only if a guard of it awaits what another one, failed or aborted, should give.
AbortedHasCause ==
  \A u \in Unit : ustatus[u] = "Aborted" =>
    \E g \in Guards :
      /\ guard[g].unit = u
      /\ \/ \E h \in Guards : /\ guard[h].unit # u
                              /\ StatusOf(h) \in {"Failed", "Aborted"}
                              /\ guard[g].files \cap guard[h].writes # {}
         \/ \E v \in guard[g].units \ {u} : ustatus[v] \in {"Failed", "Aborted"}

\* A unit does not lose its outcome, and the outcome tells its cause: a failed
\* unit is not later taken for an aborted one nor an aborted one for failed.
OutcomesStay ==
  [][\A u \in Unit : ustatus[u] # "Active" => ustatus'[u] = ustatus[u]]_vars

\* Two units that await each other, "unit await deadlock (1 step)"
\* (test/op-fails/B0.ml:90), are reported as a cycle, not as units that never
\* got ready.
MutualAwaitIsCycle ==
  pass = "never" /\ gs # <<>> =>
    \A i, j \in DOMAIN gs :
      ~ /\ StatusOf(gs[i]) = "Active" /\ StatusOf(gs[j]) = "Active"
        /\ i # j
        /\ guard[gs[i]].unit \in guard[gs[j]].units
        /\ guard[gs[j]].unit \in guard[gs[i]].units

\* The loops end, each round of resolve resolves a guard; they are left before
\* only if a unit is awaited that has no build state.
Terminates ==
  <>(pass = "done" \/ (pass = "fault" /\ \E g \in Guards : AwaitsMissing(g)))
=============================================================================
