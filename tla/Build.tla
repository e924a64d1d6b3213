-------------------------------- MODULE Build --------------------------------
(***************************************************************************)
(* src-lib/b0_build.ml: units are started, their functions add operations, *)
(* operations become ready, are executed and run their continuations,      *)
(* which add more of them, until nothing is left and the blocked           *)
(* operations are resolved.                                                *)
(*                                                                         *)
(* Everything happens in one thread, but deeply nested: adding an          *)
(* operation drains the ready and the completed operations before it       *)
(* returns, so the continuation of any other operation may run inside it.  *)
(* The call stack is a variable; its top is its first frame.               *)
(*                                                                         *)
(* The guards (see Guard), the executor (see Exec) and the cache are used  *)
(* by what they promise: an operation is ready once all it awaits was      *)
(* announced, in any order here; an operation submitted to the executor    *)
(* is collected once, any time, or is lost with an exception that leaves   *)
(* the call of collect; a blocking collect answers None only if nothing is *)
(* held.  The build functions and the continuations are the user's: they   *)
(* may add any operation, announce any file, fail or return at any point,  *)
(* and catch exceptions.                                                   *)
(***************************************************************************)
EXTENDS Integers, Sequences, FiniteSets

CONSTANTS
  Unit,       \* the units of the build set
  OnlyBuild,  \* the units with only_aim = Some `Build_os
  File,
  Setting     \* the builds: a function from their names to [tools, shapes, ops,
              \*   tmp_fails], the units used as tools, the operations that may be
              \*   added ([reads, writes, units, kont]), a bound on their number
              \*   and whether a temporary file may not be opened (Exec, TmpFails)

Aim == {"Host_os", "Build_os"}
\* A unit has one state per aim it is built for.
Inst == Aim \X Unit

ASSUME OnlyBuildUnits == OnlyBuild \subseteq Unit
ASSUME SettingsOfUnits ==
  \A s \in DOMAIN Setting :
    /\ Setting[s].tools \subseteq Unit
    /\ Setting[s].shapes \subseteq [reads : SUBSET File, writes : SUBSET File,
                                   units : SUBSET Unit, kont : BOOLEAN]
    /\ Setting[s].ops \in Nat
    /\ Setting[s].tmp_fails \in BOOLEAN

VARIABLES
  ustatus,      \* Inst -> build_status, "None" before the unit is started
  activity,     \* Inst -> activity of the build state
  ops,          \* the operations added so far; an operation is its index
  status,       \* operation -> B0_op.status
  result,       \* operation -> "None", "Ok" or "Error"
  files_ready,  \* the files announced to the guards
  units_ready,  \* the units announced to the guards
  ready,        \* the ready operations the guards hold
  execs,        \* the operations the executor holds
  konts,        \* the operations with a registered continuation
  to_start,     \* the units start has still to visit
  stack,        \* the frames of the calls in progress, innermost first
  phase,        \* "start", "finish", "done", or "raised" after an exception
  setting       \* which of the builds it is

vars == <<ustatus, activity, ops, status, result, files_ready, units_ready,
          ready, execs, konts, to_start, stack, phase, setting>>

Shape == Setting[setting].shapes
ToolUnit == Setting[setting].tools
MaxOps == Setting[setting].ops
TmpFails == Setting[setting].tmp_fails

Ids == DOMAIN ops
InstOf(o) == ops[o].inst
UnitOf(i) == i[2]

Init ==
  /\ ustatus = [i \in Inst |-> "None"]
  /\ activity = [i \in Inst |-> 0]
  /\ ops = <<>> /\ status = <<>> /\ result = <<>>
  /\ files_ready = {} /\ units_ready = {}
  /\ ready = {} /\ execs = {} /\ konts = {}
  /\ to_start = Unit
  /\ stack = <<>>
  /\ phase = "start"
  /\ setting \in DOMAIN Setting

-----------------------------------------------------------------------------
(* Frames *)

UnitFrame(i) == [call |-> "unit", inst |-> i]
\* "failed": whether the unit had failed when finish_op looked at it.
KontFrame(o, failed) == [call |-> "kont", inst |-> InstOf(o), failed |-> failed]
AddFrame(i, shape) == [call |-> "add_op", inst |-> i, shape |-> shape]
SubmitOps == [call |-> "submit_ops"]
CollectOps(finish) == [call |-> "collect_ops", finish |-> finish]

Running(call) == stack # <<>> /\ Head(stack).call = call
Return == stack' = Tail(stack)

\* User code runs: a build function or a continuation.
User == Running("unit") \/ Running("kont")

-----------------------------------------------------------------------------
(* Announcing to the guards: what awaits nothing more becomes ready. *)

Awaits(op, fs, us) == ~ (op.reads \subseteq fs /\ op.units \subseteq us)

Announce(fs, us, sts, rdy) ==
  LET released == {o \in Ids : /\ sts[o] = "Guarded"
                               /\ ~ Awaits(ops[o], files_ready \cup fs, units_ready \cup us)}
  IN /\ files_ready' = files_ready \cup fs
     /\ units_ready' = units_ready \cup us
     /\ ready' = rdy \cup released
     /\ status' = [o \in Ids |-> IF o \in released THEN "Ready" ELSE sts[o]]

\* Mutants of it: the unit is finished one activity early; its status is not
\* looked at.
TryEarly(s, act) == IF act <= 1 /\ s = "Active" THEN "Finished" ELSE s
TryAny(s, act) == IF act = 0 THEN "Finished" ELSE s

\* try_finish_unit, the unit having that status and activity: its new status,
\* and the units it announces.  A unit that is not Active is announced as well.
StatusAfterTry(s, act) == IF act = 0 /\ s = "Active" THEN "Finished" ELSE s
\* Mutant: a unit with activity is announced.
AnnounceAlways(i, act) == {UnitOf(i)}

AnnouncedByTry(i, act) == IF act = 0 THEN {UnitOf(i)} ELSE {}

-----------------------------------------------------------------------------
(* start and finish *)

\* Mutant: the activity of the running function is not counted.
StartUncounted(i) ==
  /\ ustatus' = [ustatus EXCEPT ![i] = "Active"]
  /\ activity' = [activity EXCEPT ![i] = 0]

\* start_unit: the state is created anew, whether there was one or not.
StartUnit(i) ==
  /\ ustatus' = [ustatus EXCEPT ![i] = "Active"]
  /\ activity' = [activity EXCEPT ![i] = 1]

Start(u) ==
  /\ phase = "start" /\ stack = <<>>
  /\ u \in to_start
  /\ to_start' = to_start \ {u}
  /\ LET i == <<IF u \in OnlyBuild THEN "Build_os" ELSE "Host_os", u>>
     IN /\ StartUnit(i)
        /\ stack' = <<UnitFrame(i)>>
  /\ UNCHANGED <<ops, status, result, files_ready, units_ready, ready, execs,
                 konts, phase>>

Finish ==
  /\ phase = "start" /\ stack = <<>>
  /\ to_start = {}
  /\ phase' = "finish"
  /\ stack' = <<CollectOps(TRUE)>>
  /\ UNCHANGED <<ustatus, activity, ops, status, result, files_ready,
                 units_ready, ready, execs, konts, to_start>>

\* resolve_blocked: the operations still guarded are aborted, and each Active
\* unit that has one fails or is aborted (see Resolve for which).
ResolveBlocked ==
  /\ phase = "finish" /\ stack = <<>>
  /\ LET blocked == {o \in Ids : status[o] = "Guarded"}
         stuck == {i \in Inst : ustatus[i] = "Active" /\ \E o \in blocked : InstOf(o) = i}
     IN /\ status' = [o \in Ids |-> IF o \in blocked THEN "Aborted" ELSE status[o]]
        /\ \E failed \in SUBSET stuck :
             ustatus' = [i \in Inst |-> IF i \in failed THEN "Failed"
                                        ELSE IF i \in stuck THEN "Aborted"
                                        ELSE ustatus[i]]
  /\ phase' = "done"
  /\ UNCHANGED <<activity, ops, result, files_ready, units_ready, ready, execs,
                 konts, to_start, stack>>

-----------------------------------------------------------------------------
(* What a build function or a continuation does *)

\* add_op (and add_op_kont before it), for the unit of the frame: the
\* operation is guarded or ready; then submit_ops and collect_ops.
AddOpFor(i, shape, rest) ==
  LET o == Len(ops) + 1
      op == [inst |-> i, reads |-> shape.reads, writes |-> shape.writes, units |-> shape.units]
      waits == Awaits(op, files_ready, units_ready)
  IN /\ o <= MaxOps
     /\ ops' = Append(ops, op)
     /\ status' = Append(status, IF waits THEN "Guarded" ELSE "Ready")
     /\ result' = Append(result, "None")
     /\ ready' = IF waits THEN ready ELSE ready \cup {o}
     /\ konts' = IF shape.kont THEN konts \cup {o} ELSE konts
     /\ activity' = [activity EXCEPT ![i] = @ + (IF shape.kont THEN 2 ELSE 1)]
     /\ stack' = <<SubmitOps, CollectOps(FALSE)>> \o rest

AddOp ==
  /\ User
  /\ \E shape \in Shape : AddOpFor(Head(stack).inst, shape, stack)
  /\ UNCHANGED <<ustatus, files_ready, units_ready, execs, to_start, phase>>

\* spawn with a tool that a unit builds: ensure_build runs the unit first if
\* it has no state for the Build_os aim; the operation is added after.
SpawnTool(t) ==
  /\ User
  /\ Len(ops) < MaxOps
  /\ ustatus[<<"Build_os", t>>] = "None"
  /\ \E shape \in Shape :
       stack' = <<UnitFrame(<<"Build_os", t>>), AddFrame(Head(stack).inst, shape)>> \o stack
  /\ StartUnit(<<"Build_os", t>>)
  /\ UNCHANGED <<ops, status, result, files_ready, units_ready, ready, execs,
                 konts, to_start, phase>>

AddSpawn ==
  /\ Running("add_op")
  /\ \/ AddOpFor(Head(stack).inst, Head(stack).shape, Tail(stack))
     \/ /\ Len(ops) = MaxOps
        /\ Return
        /\ UNCHANGED <<ops, status, result, ready, konts, activity>>
  /\ UNCHANGED <<ustatus, files_ready, units_ready, execs, to_start, phase>>

\* ready and src: a source file is announced.
Ready(f) ==
  /\ User
  /\ f \notin files_ready
  /\ Announce({f}, {}, status, ready)
  /\ UNCHANGED <<ustatus, activity, ops, result, execs, konts, to_start, stack, phase>>

\* start_unit, after the function of the unit returned or raised.
EndUnit(raised) ==
  /\ Running("unit")
  /\ LET i == Head(stack).inst
         act == activity[i] - 1
         s == IF raised THEN "Failed" ELSE ustatus[i]
     IN /\ activity' = [activity EXCEPT ![i] = act]
        /\ ustatus' = [ustatus EXCEPT ![i] = StatusAfterTry(s, act)]
        /\ Announce({}, AnnouncedByTry(i, act), status, ready)
  /\ Return
  /\ UNCHANGED <<ops, result, execs, konts, to_start, phase>>

\* A continuation returned: the rest of op_kont and of finish_op.
EndKont ==
  /\ Running("kont")
  /\ LET f == Head(stack)
         i == f.inst
         act == activity[i] - 1
     IN /\ activity' = [activity EXCEPT ![i] = act]
        /\ \/ /\ f.failed
              /\ UNCHANGED <<ustatus, files_ready, units_ready, ready, status>>
           \/ /\ ~ f.failed
              /\ ustatus' = [ustatus EXCEPT ![i] = StatusAfterTry(ustatus[i], act)]
              /\ Announce({}, AnnouncedByTry(i, act), status, ready)
  /\ Return
  /\ UNCHANGED <<ops, result, execs, konts, to_start, phase>>

\* A continuation raised.  Fail is caught in finish_op_kind: the continuation
\* is discarded (once more), and the unit fails unless it had already.  Any
\* other exception fails the unit.
RaiseKont(fail) ==
  /\ Running("kont")
  /\ LET f == Head(stack)
         i == f.inst
     IN /\ activity' = [activity EXCEPT ![i] = IF fail THEN @ - 1 ELSE @]
        /\ ustatus' = [ustatus EXCEPT ![i] = IF fail /\ f.failed THEN @ ELSE "Failed"]
  /\ Return
  /\ UNCHANGED <<ops, status, result, files_ready, units_ready, ready, execs,
                 konts, to_start, phase>>

-----------------------------------------------------------------------------
(* finish_op.  It asserts that the unit is Active or Failed (see
   PendingOpsOfLiveUnits); "st" is the final status of the operation, "rdy"
   the ready operations and "rest" the stack it leaves. *)

\* The operation did not succeed: no write is registered, the continuation is
\* discarded and the activity decremented for it, whether there is one or not.
FinishError(o, rdy, rest) ==
  LET i == InstOf(o)
  IN /\ activity' = [activity EXCEPT ![i] = @ - 2]
     /\ ustatus' = [ustatus EXCEPT ![i] = "Failed"]
     /\ konts' = konts \ {o}
     /\ status' = [status EXCEPT ![o] = "Executed"]
     /\ result' = [result EXCEPT ![o] = "Error"]
     /\ ready' = rdy
     /\ stack' = rest
     /\ UNCHANGED <<files_ready, units_ready>>

\* It did, and has a continuation: its writes are ready, and k runs.
FinishKont(o, st, rdy, rest) ==
  LET i == InstOf(o)
  IN /\ o \in konts
     /\ konts' = konts \ {o}
     /\ activity' = [activity EXCEPT ![i] = @ - 1]
     /\ result' = [result EXCEPT ![o] = "Ok"]
     /\ Announce(ops[o].writes, {}, [status EXCEPT ![o] = st], rdy)
     /\ stack' = <<KontFrame(o, ustatus[i] = "Failed")>> \o rest
     /\ UNCHANGED ustatus

\* It did, and has none: the unit is finished if that was the last of it (a
\* failed unit is not looked at any more).
FinishOk(o, st, rdy, rest) ==
  LET i == InstOf(o)
      act == activity[i] - 1
  IN /\ o \notin konts
     /\ activity' = [activity EXCEPT ![i] = act]
     /\ result' = [result EXCEPT ![o] = "Ok"]
     /\ \/ /\ ustatus[i] = "Active"
           /\ ustatus' = [ustatus EXCEPT ![i] = StatusAfterTry("Active", act)]
           /\ Announce(ops[o].writes, AnnouncedByTry(i, act), [status EXCEPT ![o] = st], rdy)
        \/ /\ ustatus[i] = "Failed"
           /\ UNCHANGED ustatus
           /\ Announce(ops[o].writes, {}, [status EXCEPT ![o] = st], rdy)
     /\ stack' = rest
     /\ UNCHANGED konts

FinishOp(o, st, rdy, rest) == FinishKont(o, st, rdy, rest) \/ FinishOk(o, st, rdy, rest)

-----------------------------------------------------------------------------
(* submit_op, submit_ops and collect_ops *)

Live(i) == ustatus[i] \in {"Active", "Failed"}

\* The cache is consulted for a Spawn that writes; a revived operation is
\* finished at once.
SubmitOp(o) ==
  LET i == InstOf(o)
  IN \/ /\ ustatus[i] = "Active"
        /\ o \notin konts /\ ops[o].writes # {}
        /\ FinishOp(o, "Cached", ready \ {o}, stack)
        /\ UNCHANGED execs
     \/ /\ ustatus[i] = "Active"
        /\ execs' = execs \cup {o}
        /\ ready' = ready \ {o}
        /\ UNCHANGED <<ustatus, activity, status, result, files_ready, units_ready, konts, stack>>
     \/ /\ ustatus[i] = "Failed"
        /\ status' = [status EXCEPT ![o] = "Aborted"]
        /\ ready' = ready \ {o}
        /\ UNCHANGED <<ustatus, activity, result, files_ready, units_ready, execs, konts, stack>>

Submit ==
  /\ Running("submit_ops")
  /\ \E o \in ready : SubmitOp(o)
  /\ UNCHANGED <<ops, to_start, phase>>

EndSubmit ==
  /\ Running("submit_ops")
  /\ ready = {}
  /\ Return
  /\ UNCHANGED <<ustatus, activity, ops, status, result, files_ready,
                 units_ready, ready, execs, konts, to_start, phase>>

\* Some o: finish it, submit what became ready, collect again.
CollectSome ==
  /\ Running("collect_ops")
  /\ \E o \in execs :
       /\ Live(InstOf(o))
       /\ execs' = execs \ {o}
       /\ \/ FinishOp(o, "Executed", ready, <<SubmitOps>> \o stack)
          \/ ops[o].units = {} /\ FinishError(o, ready, <<SubmitOps>> \o stack)
  /\ UNCHANGED <<ops, to_start, phase>>

\* The temporary file of a spawn cannot be opened (Exec, TmpError): the error is
\* its result, but it is not collected, and an exception leaves collect.  From
\* add_op it goes to the function or continuation that called it, which may
\* catch it or raise (EndUnit, RaiseKont); from finish it goes out of the build.
CollectRaises ==
  /\ Running("collect_ops")
  /\ TmpFails
  /\ \E o \in execs :
       /\ ops[o].units = {}
       /\ execs' = execs \ {o}
       /\ result' = [result EXCEPT ![o] = "Error"]
  /\ Return
  /\ phase' = IF Head(stack).finish THEN "raised" ELSE phase
  /\ UNCHANGED <<ustatus, activity, ops, status, files_ready, units_ready, ready, konts,
                 to_start>>

\* Mutants: the last collection does not block; no ready operation is looked
\* for after it.
NeverBlocks == Running("collect_ops")
NoReadyLeft == Running("collect_ops") /\ ready = {} /\ (Head(stack).finish => execs = {})

\* None: submit one ready operation and collect again, or return.
NoneCollected ==
  /\ Running("collect_ops")
  /\ Head(stack).finish => execs = {}

CollectNone ==
  /\ NoneCollected
  /\ \E o \in ready : SubmitOp(o)
  /\ UNCHANGED <<ops, to_start, phase>>

EndCollect ==
  /\ NoneCollected
  /\ ready = {}
  /\ Return
  /\ UNCHANGED <<ustatus, activity, ops, status, result, files_ready,
                 units_ready, ready, execs, konts, to_start, phase>>

-----------------------------------------------------------------------------
EnvStep ==
  \/ AddOp
  \/ \E t \in ToolUnit : SpawnTool(t)
  \/ \E f \in File : Ready(f)
  \/ \E raised \in BOOLEAN : EndUnit(raised)
  \/ EndKont
  \/ \E fail \in BOOLEAN : RaiseKont(fail)

BuildStep ==
  \/ \E u \in Unit : Start(u)
  \/ Finish \/ ResolveBlocked
  \/ AddSpawn
  \/ Submit \/ EndSubmit
  \/ CollectSome \/ CollectRaises \/ CollectNone \/ EndCollect

Next == (EnvStep \/ BuildStep) /\ UNCHANGED setting

Spec == Init /\ [][Next]_vars

\* The build is straight-line code; build functions and continuations return,
\* and the executor completes what it holds (Exec, Completes).
FairSpec == Spec /\ WF_vars(Next)

-----------------------------------------------------------------------------
(* Properties *)

TypeOK ==
  /\ ustatus \in [Inst -> {"None", "Active", "Failed", "Aborted", "Finished"}]
  /\ activity \in [Inst -> Int]
  /\ Len(ops) <= MaxOps /\ Len(status) = Len(ops) /\ Len(result) = Len(ops)
  /\ \A o \in Ids :
       /\ InstOf(o) \in Inst
       /\ status[o] \in {"Guarded", "Ready", "Executed", "Cached", "Aborted"}
       /\ result[o] \in {"None", "Ok", "Error"}
  /\ files_ready \subseteq File /\ units_ready \subseteq Unit
  /\ ready \subseteq Ids /\ execs \subseteq Ids /\ konts \subseteq Ids
  /\ to_start \subseteq Unit
  /\ phase \in {"start", "finish", "done", "raised"}

\* The operations of a unit that are not over.
Unfinished(i) == {o \in Ids : InstOf(o) = i /\ status[o] \in {"Guarded", "Ready"}}

\* An operation that the executor lost: it has a result and was never collected.
Lost(o) == status[o] = "Ready" /\ result[o] = "Error"

\* The calls of its function and of its continuations in progress.
Calls(i) ==
  {n \in DOMAIN stack : stack[n].call \in {"unit", "kont"} /\ stack[n].inst = i}

\* "Unfinished ops + konts" (b0_unit.ml:127): the counter that decides that a
\* unit is finished counts, as long as the unit is Active, the operations that
\* are not over, the continuations to run and the calls in progress.
ActivityExact ==
  \A i \in Inst : ustatus[i] = "Active" =>
    activity[i] = Cardinality(Unfinished(i)) + Cardinality(Calls(i))
                  + Cardinality({o \in konts : InstOf(o) = i})

\* submit_op and finish_op assert that the unit of an operation they get is
\* neither Finished nor Aborted (b0_build.ml:420 and 432).
PendingOpsOfLiveUnits ==
  phase # "done" => \A o \in Ids :
    (status[o] = "Guarded" \/ o \in ready \cup execs) => Live(InstOf(o))

\* A unit is Finished only when all its operations were executed with
\* success, all its continuations have run and its function has returned.
FinishedIsDone ==
  \A i \in Inst : ustatus[i] = "Finished" =>
    /\ \A o \in Ids : InstOf(o) = i =>
         status[o] \in {"Executed", "Cached"} /\ result[o] = "Ok" /\ o \notin konts
    /\ Calls(i) = {}

Awaited(o) == {<<InstOf(o)[1], u>> : u \in ops[o].units}

\* An operation awaiting units is released only once each of them, built for
\* one aim at least (units are announced without their aim), has an outcome.
AwaitedAreOver ==
  \A o \in Ids : status[o] \in {"Ready", "Executed"} =>
    \A u \in ops[o].units : \E a \in Aim : ustatus[<<a, u>>] \in {"Finished", "Failed"}

\* When the build is over nothing is left in between, and every unit and operation
\* has an outcome; but for the operations that the executor lost because of a
\* temporary file, whose units have none if they did not fail.
EndsSettled ==
  phase = "done" =>
    /\ \A i \in Inst : ustatus[i] = "Active" => \E o \in Unfinished(i) : Lost(o)
    /\ \A o \in Ids : status[o] \in {"Executed", "Cached", "Aborted"} \/ Lost(o)
    /\ \A o \in Ids : Lost(o) => TmpFails
    /\ ready = {} /\ execs = {}

\* An outcome stays what it is: the one of a unit that failed, was aborted or is
\* finished; the status and the result of an operation that was executed, revived
\* or aborted.
OutcomesStay ==
  [][/\ \A i \in Inst : ustatus[i] \in {"Failed", "Aborted", "Finished"} =>
          ustatus'[i] = ustatus[i]
     /\ \A o \in Ids : status[o] \in {"Executed", "Cached", "Aborted"} =>
          status'[o] = status[o] /\ result'[o] = result[o]]_vars

\* "waits for the build of [us] to be finished before proceeding with [k]"
\* (b0.mli:3173): when an operation awaiting units is released, no operation
\* of them is left, and neither their function nor a continuation runs.
AwaitedHaveStopped ==
  \A o \in Ids : status[o] = "Ready" =>
    \A i \in Awaited(o) : Unfinished(i) = {} /\ Calls(i) = {}

\* The build ends, with an exception only if a temporary file may not be opened.
Terminates == <>(phase = "done" \/ (phase = "raised" /\ TmpFails))
=============================================================================
