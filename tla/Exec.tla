-------------------------------- MODULE Exec --------------------------------
(***************************************************************************)
(* src-lib/b0_exec.ml: the asynchronous executor of build operations.  The *)
(* build submits operations and collects completed ones; between two of    *)
(* its steps the spawned processes run and exit on their own.              *)
(*                                                                         *)
(* One call of collect is followed statement by statement ("pc"):          *)
(*   stir    b0_exec.ml:195   take an operation of todo, or none is left   *)
(*   poll    b0_exec.ml:115   collect_spawns, one waitpid per step         *)
(*   exec    b0_exec.ml:209   run a synchronous operation, queue a spawn   *)
(*   spawns  b0_exec.ml:137   exec_spawns, one operation per step          *)
(*   take    b0_exec.ml:224   take a collectable operation, or stir again  *)
(* What an operation reads, writes and outputs is left out, but whether    *)
(* its outputs go to the user interface, in which case exec_spawn opens a  *)
(* temporary file for them.                                                *)
(*                                                                         *)
(* An exception that leaves a call of collect does not end the handler.    *)
(* The calls that do not block are those of add_op (b0_build.ml:471), made *)
(* by a build function or a continuation; these run in fail_unit_on_exn    *)
(* (b0_build.ml:245-253), which catches it, and the build goes on using    *)
(* the handler.  The blocking ones are those of finish (b0_build.ml:780),  *)
(* where nothing does: the build ends (pc "fault").                        *)
(***************************************************************************)
EXTENDS Integers, Sequences, Functions

CONSTANTS
  SyncOp,    \* Read, Write, Copy_file, Delete, Mkdir and Sync operations
  SpawnOp,   \* Spawn operations
  UiOp,      \* the Spawn operations with an output on the user interface
  MaxSpawns, \* the values max_spawn may have (option -j), any integer
  TmpFails,  \* whether open_tmp may fail
  NoOp

Op == SyncOp \cup SpawnOp

ASSUME KindsOfOp == SyncOp \cap SpawnOp = {} /\ UiOp \subseteq SpawnOp
ASSUME MaxSpawnsAreInt == MaxSpawns \subseteq Int
ASSUME TmpFailsIsBool == TmpFails \in BOOLEAN
ASSUME NoOpIsNone == NoOp \notin Op

VARIABLES
  max_spawn,    \* the bound given to make, never changed
  status,       \* Op -> "New", "Submitted", "Executed" or, once collected, "Collected"
  todo,         \* operations waiting for OS submission (a random queue)
  to_spawn,     \* spawn operations waiting for a free slot
  collectable,  \* completed operations
  spawn_count,  \* number of spawned processes
  spawns,       \* spawned processes, latest first
  proc,         \* Op -> its process, as the OS sees it
  pc,           \* where the handler is in a call of collect, or "idle"
  block,        \* the block argument of collect
  pass,         \* 1 in the first stir of collect, 2 in the blocking one
  cur,          \* the operation the Some branch of stir took, or NoOp in the None branch
  limit,        \* the argument of the loop of exec_spawns
  old_count,    \* old_spawn_count of collect_spawns
  visit,        \* what the fold of collect_spawns has still to visit ...
  kept,         \* ... and its accumulator
  lost,         \* history: the operations that the handler dropped by raising
  fault         \* the exception that ended the build, if any

vars == <<max_spawn, status, todo, to_spawn, collectable, spawn_count, spawns, proc, pc,
          block, pass, cur, limit, old_count, visit, kept, lost, fault>>
queues == <<max_spawn, status, todo, to_spawn, collectable, spawn_count, spawns, proc>>
locals == <<block, pass, cur, limit, old_count, visit, kept>>

Init ==
  /\ max_spawn \in MaxSpawns
  /\ status = [o \in Op |-> "New"]
  /\ todo = {}
  /\ to_spawn = <<>> /\ collectable = <<>>
  /\ spawn_count = 0 /\ spawns = <<>>
  /\ proc = [o \in SpawnOp |-> "None"]
  /\ pc = "idle" /\ block = FALSE /\ pass = 1
  /\ cur = NoOp /\ limit = 0 /\ old_count = 0
  /\ visit = <<>> /\ kept = <<>>
  /\ lost = {} /\ fault = "None"

\* Mutant: the running processes are forgotten.
QueuesEmpty == todo = {} /\ to_spawn = <<>>

\* all_done: nothing left to do in the handler.
AllDone == todo = {} /\ to_spawn = <<>> /\ spawn_count = 0

\* Mutants: the free slots are not looked at; one of them is not used.
SpawnAll(may_spawn) == may_spawn
SpawnFewer(may_spawn) ==
  LET free == max_spawn - spawn_count - 1
  IN IF may_spawn > free THEN free ELSE may_spawn

\* The argument exec_spawns gives to its loop, on a queue of that length.
SpawnLimit(may_spawn) ==
  LET free == max_spawn - spawn_count
  IN IF may_spawn > free THEN free ELSE may_spawn

\* complete_op: the operation is executed and can be collected.
CompleteOp(o) ==
  /\ status' = [status EXCEPT ![o] = "Executed"]
  /\ collectable' = Append(collectable, o)

-----------------------------------------------------------------------------
(* The environment: the build calls, the processes exit. *)

Submit(o) ==
  /\ pc = "idle"
  /\ status[o] = "New"
  /\ status' = [status EXCEPT ![o] = "Submitted"]
  /\ todo' = todo \cup {o}
  /\ UNCHANGED <<max_spawn, to_spawn, collectable, spawn_count, spawns, proc, pc, lost,
                 fault>>
  /\ UNCHANGED locals

Collect(b) ==
  /\ pc = "idle"
  /\ pc' = "stir"
  /\ block' = b
  /\ pass' = 1
  /\ UNCHANGED queues
  /\ UNCHANGED <<cur, limit, old_count, visit, kept, lost, fault>>

Exit(o) ==
  /\ proc[o] = "Running"
  /\ proc' = [proc EXCEPT ![o] = "Exited"]
  /\ UNCHANGED <<max_spawn, status, todo, to_spawn, collectable, spawn_count, spawns, pc,
                 lost, fault>>
  /\ UNCHANGED locals

-----------------------------------------------------------------------------
(* stir *)

\* Some o: collect what exited, then run the operation.
StirSome ==
  /\ pc = "stir"
  /\ \E o \in todo : cur' = o /\ todo' = todo \ {o}
  /\ pc' = "poll"
  /\ old_count' = spawn_count
  /\ visit' = spawns
  /\ kept' = <<>>
  /\ UNCHANGED <<max_spawn, status, to_spawn, collectable, spawn_count, spawns, proc>>
  /\ UNCHANGED <<block, pass, limit, lost, fault>>

\* None: spawn what can be, then collect (blocking in the second pass).
StirNone ==
  /\ pc = "stir"
  /\ todo = {}
  /\ cur' = NoOp
  /\ \/ AllDone /\ pc' = "take" /\ limit' = limit
     \/ ~ AllDone /\ pc' = "spawns" /\ limit' = SpawnLimit(Len(to_spawn))
  /\ UNCHANGED queues
  /\ UNCHANGED <<block, pass, old_count, visit, kept, lost, fault>>

-----------------------------------------------------------------------------
(* collect_spawns *)

\* Mutants: an exited process is reaped and its operation dropped; or its
\* operation is completed and its process stays counted.
PollDrops ==
  /\ pc = "poll"
  /\ visit # <<>>
  /\ visit' = Tail(visit)
  /\ LET o == Head(visit)
     IN \/ /\ proc[o] = "Exited"
           /\ proc' = [proc EXCEPT ![o] = "Reaped"]
           /\ spawn_count' = spawn_count - 1
           /\ kept' = kept
        \/ /\ proc[o] = "Running"
           /\ kept' = <<o>> \o kept
           /\ UNCHANGED <<proc, spawn_count>>
  /\ UNCHANGED <<max_spawn, todo, to_spawn, spawns, pc, block, pass, cur, limit, old_count,
                 lost, fault, status, collectable>>
PollNoDecr ==
  /\ pc = "poll"
  /\ visit # <<>>
  /\ visit' = Tail(visit)
  /\ LET o == Head(visit)
     IN \/ /\ proc[o] = "Exited"
           /\ proc' = [proc EXCEPT ![o] = "Reaped"]
           /\ CompleteOp(o)
           /\ kept' = kept
        \/ /\ proc[o] = "Running"
           /\ kept' = <<o>> \o kept
           /\ UNCHANGED <<proc, status, collectable>>
  /\ UNCHANGED <<max_spawn, todo, to_spawn, spawns, pc, block, pass, cur, limit, old_count,
                 lost, fault, spawn_count>>

\* waitpid WNOHANG on the next process of the list.
Poll ==
  /\ pc = "poll"
  /\ visit # <<>>
  /\ visit' = Tail(visit)
  /\ LET o == Head(visit)
     IN \/ /\ proc[o] = "Exited"
           /\ proc' = [proc EXCEPT ![o] = "Reaped"]
           /\ spawn_count' = spawn_count - 1
           /\ CompleteOp(o)
           /\ kept' = kept
        \/ /\ proc[o] = "Running"
           /\ kept' = <<o>> \o kept
           /\ UNCHANGED <<proc, spawn_count, status, collectable>>
  /\ UNCHANGED <<max_spawn, todo, to_spawn, spawns, pc, block, pass, cur, limit, old_count,
                 lost, fault>>

PollEnd ==
  /\ pc = "poll"
  /\ visit = <<>>
  /\ spawns' = kept
  /\ \/ /\ cur # NoOp
        /\ pc' = "exec"
        /\ UNCHANGED <<old_count, visit, kept>>
     \/ /\ cur = NoOp
        /\ ~ (pass = 2 /\ spawn_count # 0 /\ old_count = spawn_count)
        /\ pc' = "take"
        /\ UNCHANGED <<old_count, visit, kept>>
     \/ /\ cur = NoOp
        /\ pass = 2 /\ spawn_count # 0 /\ old_count = spawn_count
        /\ pc' = "poll"
        /\ visit' = kept
        /\ kept' = <<>>
        /\ old_count' = spawn_count
  /\ UNCHANGED <<max_spawn, status, todo, to_spawn, collectable, spawn_count, proc>>
  /\ UNCHANGED <<block, pass, cur, limit, lost, fault>>

-----------------------------------------------------------------------------
(* exec_read, exec_write, exec_copy_file, exec_delete, exec_mkdir, exec_sync *)

ExecSync ==
  /\ pc = "exec"
  /\ cur \in SyncOp
  /\ CompleteOp(cur)
  /\ pc' = "spawns"
  /\ limit' = SpawnLimit(Len(to_spawn))
  /\ UNCHANGED <<max_spawn, todo, to_spawn, spawn_count, spawns, proc>>
  /\ UNCHANGED <<block, pass, cur, old_count, visit, kept, lost, fault>>

\* Mutant: the latest spawn replaces the queued ones.
QueueOnly ==
  /\ pc = "exec"
  /\ cur \in SpawnOp
  /\ to_spawn' = <<cur>>
  /\ pc' = "spawns"
  /\ limit' = SpawnLimit(1)
  /\ UNCHANGED <<max_spawn, status, todo, collectable, spawn_count, spawns, proc>>
  /\ UNCHANGED <<block, pass, cur, old_count, visit, kept, lost, fault>>

QueueSpawn ==
  /\ pc = "exec"
  /\ cur \in SpawnOp
  /\ to_spawn' = Append(to_spawn, cur)
  /\ pc' = "spawns"
  /\ limit' = SpawnLimit(Len(to_spawn'))
  /\ UNCHANGED <<max_spawn, status, todo, collectable, spawn_count, spawns, proc>>
  /\ UNCHANGED <<block, pass, cur, old_count, visit, kept, lost, fault>>

-----------------------------------------------------------------------------
(* exec_spawns.  A negative limit never reaches 0: the queue is emptied. *)

MaySpawn == pc = "spawns" /\ limit # 0 /\ to_spawn # <<>>

\* The process starts.
Spawn ==
  /\ MaySpawn
  /\ LET o == Head(to_spawn)
     IN /\ spawns' = <<o>> \o spawns
        /\ proc' = [proc EXCEPT ![o] = "Running"]
  /\ spawn_count' = spawn_count + 1
  /\ to_spawn' = Tail(to_spawn)
  /\ limit' = limit - 1
  /\ UNCHANGED <<max_spawn, status, todo, collectable, pc, lost, fault>>
  /\ UNCHANGED <<block, pass, cur, old_count, visit, kept>>

\* Mutant: the operation that could not be spawned is dropped.
SpawnDropped ==
  /\ MaySpawn
  /\ to_spawn' = Tail(to_spawn)
  /\ UNCHANGED <<max_spawn, todo, spawn_count, spawns, proc, pc, limit,
                 lost, fault, status, collectable>>
  /\ UNCHANGED <<block, pass, cur, old_count, visit, kept>>

\* spawn_low fails: the operation is executed, with an error, and the loop
\* does not count it.
SpawnError ==
  /\ MaySpawn
  /\ CompleteOp(Head(to_spawn))
  /\ to_spawn' = Tail(to_spawn)
  /\ UNCHANGED <<max_spawn, todo, spawn_count, spawns, proc, pc, limit, lost, fault>>
  /\ UNCHANGED <<block, pass, cur, old_count, visit, kept>>

\* open_tmp fails: complete_spawn looks for the temporary file of the outputs,
\* which was not set, and asserts false after the spawn_count is back to what
\* it was and before complete_op.  The operation, taken from to_spawn, is in
\* no queue any more, and the call of collect is left by the exception.
TmpError ==
  /\ MaySpawn
  /\ TmpFails
  /\ Head(to_spawn) \in UiOp
  /\ to_spawn' = Tail(to_spawn)
  /\ lost' = lost \cup {Head(to_spawn)}
  /\ \/ ~ block /\ pc' = "idle" /\ fault' = fault
     \/ block /\ pc' = "fault" /\ fault' = "Assert_failure"
  /\ UNCHANGED <<max_spawn, status, todo, collectable, spawn_count, spawns, proc>>
  /\ UNCHANGED locals

\* The loop ends: stir again, or (nothing left todo) collect and return.
SpawnsEnd ==
  /\ pc = "spawns"
  /\ limit = 0 \/ to_spawn = <<>>
  /\ \/ /\ cur # NoOp
        /\ pc' = "stir"
        /\ cur' = NoOp
        /\ UNCHANGED <<old_count, visit, kept>>
     \/ /\ cur = NoOp
        /\ pc' = "poll"
        /\ old_count' = spawn_count
        /\ visit' = spawns
        /\ kept' = <<>>
        /\ UNCHANGED cur
  /\ UNCHANGED queues
  /\ UNCHANGED <<block, pass, limit, lost, fault>>

-----------------------------------------------------------------------------
(* collect, after a stir *)

TakeSome ==
  /\ pc = "take"
  /\ collectable # <<>>
  /\ status' = [status EXCEPT ![Head(collectable)] = "Collected"]
  /\ collectable' = Tail(collectable)
  /\ pc' = "idle"
  /\ UNCHANGED <<max_spawn, todo, to_spawn, spawn_count, spawns, proc, lost, fault>>
  /\ UNCHANGED locals

\* The first stir gave nothing: None if not blocking or all is done.
TakeNone ==
  /\ pc = "take" /\ pass = 1
  /\ collectable = <<>>
  /\ ~ block \/ AllDone
  /\ pc' = "idle"
  /\ UNCHANGED queues /\ UNCHANGED locals /\ UNCHANGED <<lost, fault>>

\* Otherwise stir again, blocking.
StirAgain ==
  /\ pc = "take" /\ pass = 1
  /\ collectable = <<>>
  /\ block /\ ~ AllDone
  /\ pc' = "stir"
  /\ pass' = 2
  /\ UNCHANGED queues
  /\ UNCHANGED <<block, cur, limit, old_count, visit, kept, lost, fault>>

\* Queue.take after the blocking stir is not guarded against Queue.Empty.
TakeEmpty ==
  /\ pc = "take" /\ pass = 2
  /\ collectable = <<>>
  /\ pc' = "fault"
  /\ fault' = "Empty"
  /\ UNCHANGED queues /\ UNCHANGED locals /\ UNCHANGED lost

-----------------------------------------------------------------------------
Handler ==
  \/ StirSome \/ StirNone
  \/ Poll \/ PollEnd
  \/ ExecSync \/ QueueSpawn
  \/ Spawn \/ SpawnError \/ TmpError \/ SpawnsEnd
  \/ TakeSome \/ TakeNone \/ StirAgain \/ TakeEmpty

Next ==
  \/ \E o \in Op : Submit(o)
  \/ \E b \in BOOLEAN : Collect(b)
  \/ Handler
  \/ \E o \in SpawnOp : Exit(o)

Spec == Init /\ [][Next]_vars

\* The handler is straight-line code, processes end, and the build collects
\* (B0_build.finish, b0_build.ml:438 and 780) until nothing is left.
FairSpec ==
  /\ Spec
  /\ WF_vars(Handler)
  /\ WF_vars(Collect(TRUE))
  /\ \A o \in SpawnOp : WF_vars(Exit(o))

-----------------------------------------------------------------------------
(* Properties *)

TypeOK ==
  /\ max_spawn \in Int
  /\ status \in [Op -> {"New", "Submitted", "Executed", "Collected"}]
  /\ todo \subseteq Op
  /\ to_spawn \in Seq(SpawnOp) /\ collectable \in Seq(Op)
  /\ spawn_count \in Int /\ spawns \in Seq(SpawnOp)
  /\ proc \in [SpawnOp -> {"None", "Running", "Exited", "Reaped"}]
  /\ pc \in {"idle", "stir", "poll", "exec", "spawns", "take", "fault"}
  /\ block \in BOOLEAN /\ pass \in {1, 2}
  /\ cur \in Op \cup {NoOp}
  /\ limit \in Int /\ old_count \in Int
  /\ visit \in Seq(SpawnOp) /\ kept \in Seq(SpawnOp)
  /\ lost \subseteq UiOp
  /\ fault \in {"None", "Assert_failure", "Empty"}

\* The processes the handler will still collect.
Tracked == IF pc = "poll" THEN Range(visit) \cup Range(kept) ELSE Range(spawns)
\* Their number, a process tracked twice being counted twice.
TrackedLen == IF pc = "poll" THEN Len(visit) + Len(kept) ELSE Len(spawns)

\* The cached spawn_count is the number of processes that were started and not
\* reaped; each of them is tracked, once.
CountsProcesses ==
  /\ spawn_count = TrackedLen
  /\ Tracked = {o \in SpawnOp : proc[o] \in {"Running", "Exited"}}

\* "supports up to [max_spawn] process spawns" (b0_exec.mli:27), for the
\* values of max_spawn that allow one.
AtMostMaxSpawn == max_spawn >= 0 => spawn_count <= max_spawn

\* Where an operation can be on its way through the handler.
Places(o) ==
  {p \in {"todo", "cur", "to_spawn", "process", "collectable"} :
     \/ p = "todo" /\ o \in todo
     \/ p = "cur" /\ pc \in {"poll", "exec"} /\ o = cur
     \/ p = "to_spawn" /\ o \in Range(to_spawn)
     \/ p = "process" /\ o \in Tracked
     \/ p = "collectable" /\ o \in Range(collectable)}

\* An operation that was submitted and not collected is in one place of the
\* handler, collectable iff it is executed: none is lost nor executed twice.
\* The exceptions are spawns with an output on the user interface whose
\* temporary file could not be opened: each of these is nowhere.
InOnePlace ==
  \A o \in Op :
    /\ status[o] \in {"New", "Collected"} \/ o \in lost => Places(o) = {}
    /\ status[o] = "Submitted" /\ o \notin lost =>
         \E p \in {"todo", "cur", "to_spawn", "process"} : Places(o) = {p}
    /\ status[o] = "Executed" => Places(o) = {"collectable"}
    /\ o \in lost => TmpFails /\ o \in UiOp /\ status[o] = "Submitted"

\* A blocking collect waits (polls again) only if no completed operation was
\* there before it and no queued spawn could use a free slot.
WaitsForAProcess ==
  pc = "poll" /\ pass = 2 /\ cur = NoOp /\ old_count = spawn_count =>
    /\ collectable = <<>>
    /\ to_spawn # <<>> => spawn_count >= max_spawn

\* "If block is [true] and [all_done h] is [false]. [h.completed] must be
\* non-empty when the function returns" (b0_exec.ml:196-197).
BlockingStirCompletes == pc = "take" /\ pass = 2 => collectable # <<>>

\* "If [block] is [true] and at least one incomplete operation exists in [h] it
\* blocks until an operation completes; if no operation exists [None] is
\* returned" (b0_exec.mli:38-41): None is the answer of a blocking collect only
\* if no operation is incomplete.
NoneIfComplete ==
  [][TakeNone /\ block => \A o \in Op : status[o] \in {"New", "Collected"}]_vars

\* What is left of it when temporary files cannot be opened: the operations
\* that are incomplete at that point are those dropped by the exception.
NoneWhenDone ==
  [][TakeNone /\ block =>
       \A o \in Op : status[o] \in {"New", "Collected"} <=> o \notin lost]_vars

\* The operations complete, if processes may be spawned: what is submitted is
\* handed back to the build, or was dropped with an exception.  Only that
\* exception ends the build.
Completes ==
  max_spawn # 0 =>
    \A o \in Op :
      status[o] = "Submitted" ~>
        (status[o] = "Collected" \/ o \in lost \/ fault = "Assert_failure")
=============================================================================
