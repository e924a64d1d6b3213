----------------------------- MODULE ExecProofs -----------------------------
(***************************************************************************)
(* Proofs about Exec: what the handler counts and holds, and when it       *)
(* waits, for any operations, any value of max_spawn, and processes that   *)
(* exit at any time.  At the end, proofs about RQueue, the queue it takes  *)
(* operations from: what take asserts, and that the array is a bag, for    *)
(* any elements, initial capacity and length.                              *)
(***************************************************************************)
EXTENDS Exec, RQueue, SeqLemmas, FiniteSetTheorems

-----------------------------------------------------------------------------
(* The inductive invariant *)

\* No operation is twice in a queue.
NoDuplicates ==
  /\ IsInjective(to_spawn) /\ IsInjective(collectable)
  /\ pc # "poll" => IsInjective(spawns)
  /\ pc = "poll" => /\ IsInjective(visit) /\ IsInjective(kept)
                    /\ Range(visit) \cap Range(kept) = {}

InHand(o) == pc \in {"poll", "exec"} /\ o = cur
Live(o) == o \in SpawnOp /\ proc[o] \in {"Running", "Exited"}

\* What is in one place of the handler is in no other one.
InItsPlace ==
  \A o \in Op :
    /\ o \in todo => /\ status[o] = "Submitted"
                     /\ ~ InHand(o) /\ o \notin Range(to_spawn) /\ ~ Live(o)
    /\ InHand(o) => status[o] = "Submitted" /\ o \notin Range(to_spawn) /\ ~ Live(o)
    /\ o \in Range(to_spawn) => status[o] = "Submitted" /\ ~ Live(o)
    /\ Live(o) => status[o] = "Submitted"
    /\ o \in Range(collectable) => status[o] = "Executed"

\* What was submitted is in a place, or was dropped and is in none.
NotLost ==
  \A o \in Op :
    /\ status[o] = "Submitted" =>
         o \in todo \/ InHand(o) \/ o \in Range(to_spawn) \/ Live(o) \/ o \in lost
    /\ status[o] = "Executed" => o \in Range(collectable)
    /\ o \in lost => /\ TmpFails /\ o \in UiOp /\ status[o] = "Submitted"
                     /\ o \notin todo /\ ~ InHand(o) /\ o \notin Range(to_spawn) /\ ~ Live(o)

\* exec_spawns spawns into the free slots, or everything that is queued.  With a
\* negative max_spawn its limit never gets to 0.
Slots ==
  /\ AtMostMaxSpawn
  /\ pc = "spawns" =>
       /\ max_spawn >= 0 => limit >= 0 /\ spawn_count + limit <= max_spawn
       /\ max_spawn < 0 => limit < 0
       /\ limit >= Len(to_spawn) \/ limit = max_spawn - spawn_count

\* A queued spawn has to wait for a process.
NoSlot == to_spawn # <<>> => spawn_count = max_spawn

\* The blocking stir begins when nothing is left to take, complete or spawn.
Waits ==
  /\ pc = "take" \/ (pc \in {"spawns", "poll"} /\ cur = NoOp) => todo = {}
  /\ pass = 2 /\ pc = "stir" => todo = {}
  /\ pass = 2 /\ pc \in {"spawns", "poll", "exec", "take"} => cur = NoOp
  /\ pc = "poll" /\ cur = NoOp =>
       /\ spawn_count <= old_count
       /\ collectable = <<>> => spawn_count = old_count /\ NoSlot
       /\ pass = 2 /\ spawn_count = old_count => collectable = <<>>
  /\ pc = "take" /\ collectable = <<>> => NoSlot
  /\ pass = 2 /\ pc \in {"stir", "spawns"} => collectable = <<>> /\ NoSlot
  /\ pass = 2 /\ pc = "spawns" => limit = 0 \/ to_spawn = <<>>

\* It begins with something left to do, so it ends with something completed, but
\* if no process may be spawned.
Starves ==
  /\ pass = 2 /\ pc \in {"stir", "spawns"} => ~ AllDone
  /\ pass = 2 /\ pc = "poll" /\ collectable = <<>> => ~ AllDone
  /\ pass = 2 /\ pc = "take" /\ collectable = <<>> => max_spawn = 0
  /\ fault = "Empty" => max_spawn = 0

Control ==
  /\ pc = "exec" => cur # NoOp
  /\ fault # "None" => pc = "fault"

IInv ==
  /\ TypeOK /\ Control
  /\ NoDuplicates /\ CountsProcesses
  /\ InItsPlace /\ NotLost
  /\ Slots /\ Waits /\ Starves

-----------------------------------------------------------------------------
(* Helpers *)

\* Nothing is in an empty queue.
LEMMA OfEmpty == Range(<<>>) = {} /\ IsInjective(<<>>) /\ Len(<<>>) = 0
BY DEF Range, IsInjective

\* The length of a queue when an element comes or goes.
LEMMA Lengths ==
  ASSUME NEW S, NEW s \in Seq(S)
  PROVE  /\ Len(s) \in Nat /\ (s = <<>> <=> Len(s) = 0)
         /\ s # <<>> => Len(Tail(s)) = Len(s) - 1
         /\ \A x \in S : Len(Append(s, x)) = Len(s) + 1 /\ Len(<<x>> \o s) = Len(s) + 1
<1>1. Len(s) \in Nat /\ (s = <<>> <=> Len(s) = 0)
  BY EmptySeq, LenProperties
<1>2. s # <<>> => Len(Tail(s)) = Len(s) - 1
  BY HeadTailProperties
<1>3. ASSUME NEW x \in S PROVE Len(Append(s, x)) = Len(s) + 1 /\ Len(<<x>> \o s) = Len(s) + 1
  BY AppendProperties, ConcatProperties, <<x>> \in Seq(S), Len(<<x>>) = 1, <1>1
<1>. QED
  BY <1>1, <1>2, <1>3

\* spawn_count, a cache of the length of the lists, is a natural number.
LEMMA CountIsNat == ASSUME TypeOK, CountsProcesses PROVE spawn_count \in Nat
BY Lengths DEF TypeOK, CountsProcesses, TrackedLen

\* complete_op: an operation that was not completed before is the last of the
\* queue now.
LEMMA Completed ==
  ASSUME IInv, NEW o \in Op, status[o] = "Submitted", CompleteOp(o)
  PROVE  /\ status' \in [Op -> {"New", "Submitted", "Executed", "Collected"}]
         /\ status'[o] = "Executed"
         /\ \A x \in Op \ {o} : status'[x] = status[x]
         /\ collectable' \in Seq(Op) /\ collectable' # <<>>
         /\ Range(collectable') = Range(collectable) \cup {o}
         /\ IsInjective(collectable')
<1>1. o \notin Range(collectable)
  BY DEF IInv, InItsPlace
<1>2. collectable' = Append(collectable, o) /\ status' = [status EXCEPT ![o] = "Executed"]
  BY DEF CompleteOp
<1>3. collectable \in Seq(Op) /\ IsInjective(collectable)
  BY DEF IInv, TypeOK, NoDuplicates
<1>4. collectable' # <<>>
  BY <1>2, <1>3, Lengths, RangeOfAppend
<1>. QED
  BY <1>1, <1>2, <1>3, <1>4, RangeOfAppend DEF IInv, TypeOK

\* What exec_spawns may spawn.
LEMMA LimitFits ==
  ASSUME NEW may \in Nat, TypeOK, CountsProcesses, AtMostMaxSpawn
  PROVE  LET l == SpawnLimit(may)
         IN  /\ l \in Int /\ l <= may
             /\ max_spawn >= 0 => l >= 0 /\ spawn_count + l <= max_spawn
             /\ max_spawn < 0 => l < 0
             /\ l = may \/ l = max_spawn - spawn_count
             /\ spawn_count = max_spawn => l = 0
BY CountIsNat DEF SpawnLimit, TypeOK, AtMostMaxSpawn

\* The handler is made empty.
LEMMA InitIInv == Init => IInv
<1>. SUFFICES ASSUME Init PROVE IInv
  OBVIOUS
<1>. USE OfEmpty
<1>1. TypeOK
  <2>1. to_spawn \in Seq(SpawnOp) /\ collectable \in Seq(Op) /\ spawns \in Seq(SpawnOp)
        /\ visit \in Seq(SpawnOp) /\ kept \in Seq(SpawnOp)
    BY EmptySeq DEF Init
  <2>2. max_spawn \in Int /\ spawn_count \in Int /\ limit \in Int /\ old_count \in Int
    BY MaxSpawnsAreInt DEF Init
  <2>3. block \in BOOLEAN
    BY DEF Init
  <2>. QED
    BY <2>1, <2>2, <2>3 DEF Init, TypeOK
<1>2. Control /\ NoDuplicates
  BY DEF Init, Control, NoDuplicates
<1>3. CountsProcesses
  BY DEF Init, CountsProcesses, Tracked, TrackedLen
<1>4. InItsPlace /\ NotLost
  BY DEF Init, InItsPlace, NotLost, InHand, Live
<1>5. Slots /\ Waits
  BY DEF Init, Slots, Waits, AtMostMaxSpawn
<1>6. Starves
  BY DEF Init, Starves
<1>. QED
  BY <1>1, <1>2, <1>3, <1>4, <1>5, <1>6 DEF IInv

-----------------------------------------------------------------------------
(* Steps of the build and of the processes *)

LEMMA SubmitStep == ASSUME IInv, NEW o \in Op, Submit(o) PROVE IInv'
<1>. USE DEF Submit, locals
<1>1. TypeOK' /\ Control' /\ NoDuplicates'
  BY DEF IInv, TypeOK, Control, NoDuplicates
<1>2. CountsProcesses'
  BY DEF IInv, CountsProcesses, Tracked, TrackedLen
<1>3. InItsPlace' /\ NotLost'
  BY DEF IInv, TypeOK, InItsPlace, NotLost, InHand, Live, Op
<1>4. Slots' /\ Waits'
  BY DEF IInv, Slots, Waits, AtMostMaxSpawn, NoSlot
<1>5. Starves'
  BY <1>1, <1>2 DEF IInv, TypeOK, Waits, Starves, AllDone
<1>. QED
  BY <1>1, <1>2, <1>3, <1>4, <1>5 DEF IInv

LEMMA CollectStep == ASSUME IInv, NEW b \in BOOLEAN, Collect(b) PROVE IInv'
<1>. USE DEF Collect, queues
<1>1. TypeOK' /\ Control' /\ NoDuplicates'
  BY DEF IInv, TypeOK, Control, NoDuplicates
<1>2. CountsProcesses'
  BY DEF IInv, CountsProcesses, Tracked, TrackedLen
<1>3. InItsPlace' /\ NotLost'
  BY DEF IInv, InItsPlace, NotLost, InHand, Live
<1>4. Slots' /\ Waits'
  BY DEF IInv, Slots, Waits, AtMostMaxSpawn
<1>5. Starves'
  BY <1>1, <1>2 DEF IInv, TypeOK, Waits, Starves, AllDone
<1>. QED
  BY <1>1, <1>2, <1>3, <1>4, <1>5 DEF IInv

LEMMA ExitStep == ASSUME IInv, NEW o \in SpawnOp, Exit(o) PROVE IInv'
<1>. USE DEF Exit, locals
<1>1. TypeOK' /\ Control' /\ NoDuplicates'
  BY DEF IInv, TypeOK, Control, NoDuplicates
<1>2. \A x \in SpawnOp : Live(x)' <=> Live(x)
  BY DEF IInv, TypeOK, Live
<1>3. CountsProcesses'
  BY DEF IInv, TypeOK, CountsProcesses, Tracked, TrackedLen
<1>4. InItsPlace' /\ NotLost'
  BY <1>2 DEF IInv, InItsPlace, NotLost, InHand, Live
<1>5. Slots' /\ Waits'
  BY DEF IInv, Slots, Waits, AtMostMaxSpawn, NoSlot
<1>6. Starves'
  BY <1>1, <1>2 DEF IInv, TypeOK, Waits, Starves, AllDone
<1>. QED
  BY <1>1, <1>3, <1>4, <1>5, <1>6 DEF IInv

-----------------------------------------------------------------------------
(* stir *)

LEMMA StirSomeStep == ASSUME IInv, StirSome PROVE IInv'
<1>1. PICK o \in todo : cur' = o /\ todo' = todo \ {o}
  BY DEF StirSome
<1>2. o \in Op /\ o # NoOp /\ pass = 1 /\ pc = "stir"
  BY <1>1, NoOpIsNone DEF StirSome, IInv, TypeOK, Waits
<1>. USE DEF StirSome
<1>3. TypeOK' /\ Control'
  BY <1>1, <1>2, EmptySeq DEF IInv, TypeOK, Control
<1>4. NoDuplicates'
  BY <1>2, OfEmpty DEF IInv, NoDuplicates
<1>5. CountsProcesses'
  BY <1>2, OfEmpty, Lengths DEF IInv, TypeOK, CountsProcesses, Tracked, TrackedLen
<1>6. InItsPlace' /\ NotLost'
  BY <1>1, <1>2 DEF IInv, InItsPlace, NotLost, InHand, Live
<1>7. Slots' /\ Waits'
  BY <1>1, <1>2 DEF IInv, Slots, Waits, AtMostMaxSpawn, NoSlot
<1>8. Starves'
  BY <1>1, <1>2 DEF IInv, TypeOK, Waits, Starves, AllDone
<1>. QED
  BY <1>3, <1>4, <1>5, <1>6, <1>7, <1>8 DEF IInv

LEMMA StirNoneStep == ASSUME IInv, StirNone PROVE IInv'
<1>1. /\ pc = "stir" /\ todo = {} /\ cur' = NoOp
      /\ UNCHANGED <<max_spawn, status, todo, to_spawn, collectable, spawn_count, spawns, proc>>
      /\ UNCHANGED <<block, pass, old_count, visit, kept, lost, fault>>
  BY DEF StirNone, queues
<1>2. \/ AllDone /\ pc' = "take" /\ limit' = limit
      \/ pc' = "spawns" /\ limit' = SpawnLimit(Len(to_spawn))
  BY DEF StirNone
<1>3. Len(to_spawn) \in Nat /\ (to_spawn = <<>> <=> Len(to_spawn) = 0)
  BY Lengths DEF IInv, TypeOK
<1>4. limit' \in Int /\ pc' \in {"take", "spawns"}
  BY <1>1, <1>2, <1>3, LimitFits DEF IInv, TypeOK, Slots
<1>5. TypeOK' /\ Control' /\ NoDuplicates'
  BY <1>1, <1>4 DEF IInv, TypeOK, Control, NoDuplicates
<1>6. CountsProcesses'
  BY <1>1, <1>4 DEF IInv, CountsProcesses, Tracked, TrackedLen
<1>7. InItsPlace' /\ NotLost'
  BY <1>1, <1>4 DEF IInv, InItsPlace, NotLost, InHand, Live
<1>8. Slots' /\ Waits'
  <2>1. CASE AllDone /\ pc' = "take"
    BY <1>1, <2>1 DEF IInv, Slots, Waits, AtMostMaxSpawn, NoSlot, AllDone
  <2>2. CASE pc' = "spawns" /\ limit' = SpawnLimit(Len(to_spawn))
    BY <1>1, <1>3, <2>2, LimitFits DEF IInv, TypeOK, Slots, Waits, AtMostMaxSpawn, NoSlot
  <2>. QED
    BY <1>2, <2>1, <2>2
<1>9. Starves'
  BY <1>1, <1>2 DEF IInv, TypeOK, Waits, Starves, AllDone
<1>. QED
  BY <1>5, <1>6, <1>7, <1>8, <1>9 DEF IInv

-----------------------------------------------------------------------------
(* collect_spawns *)

\* The next process of the list.
LEMMA Visited ==
  ASSUME IInv, pc = "poll", visit # <<>>, NEW o, o = Head(visit)
  PROVE  /\ o \in SpawnOp /\ o \in Op /\ Live(o) /\ status[o] = "Submitted"
         /\ Tail(visit) \in Seq(SpawnOp) /\ IsInjective(Tail(visit))
         /\ Range(Tail(visit)) = Range(visit) \ {o} /\ o \in Range(visit)
         /\ o \notin Range(kept) /\ ~ InHand(o)
<1>1. /\ o \in SpawnOp /\ Tail(visit) \in Seq(SpawnOp) /\ IsInjective(Tail(visit))
      /\ Range(Tail(visit)) = Range(visit) \ {o} /\ o \in Range(visit)
  BY RangeOfTail DEF IInv, TypeOK, NoDuplicates
<1>2. o \notin Range(kept)
  BY <1>1 DEF IInv, NoDuplicates
<1>3. Live(o)
  BY <1>1 DEF IInv, CountsProcesses, Tracked, Live
<1>. QED
  BY <1>1, <1>2, <1>3 DEF IInv, InItsPlace, Op

LEMMA PollStep == ASSUME IInv, Poll PROVE IInv'
<1>1. PICK o : o = Head(visit)
  OBVIOUS
<1>2. /\ pc = "poll" /\ visit # <<>> /\ visit' = Tail(visit)
      /\ UNCHANGED <<max_spawn, todo, to_spawn, spawns, pc, block, pass, cur, limit, old_count, lost, fault>>
  BY DEF Poll
<1>3. /\ o \in SpawnOp /\ o \in Op /\ Live(o) /\ status[o] = "Submitted"
      /\ visit' \in Seq(SpawnOp) /\ IsInjective(visit')
      /\ Range(visit') = Range(visit) \ {o} /\ o \in Range(visit)
      /\ o \notin Range(kept) /\ ~ InHand(o)
  BY <1>1, <1>2, Visited
<1>4. Len(visit') = Len(visit) - 1 /\ Len(visit) \in Nat /\ Len(kept) \in Nat
  BY <1>2, Lengths DEF IInv, TypeOK
<1>5. CASE /\ proc[o] = "Exited"
           /\ proc' = [proc EXCEPT ![o] = "Reaped"]
           /\ spawn_count' = spawn_count - 1
           /\ CompleteOp(o)
           /\ kept' = kept
  <2>1. /\ status' \in [Op -> {"New", "Submitted", "Executed", "Collected"}]
        /\ status'[o] = "Executed"
        /\ \A x \in Op \ {o} : status'[x] = status[x]
        /\ collectable' \in Seq(Op) /\ collectable' # <<>>
        /\ Range(collectable') = Range(collectable) \cup {o}
        /\ IsInjective(collectable')
    BY <1>3, <1>5, Completed
  <2>2. TypeOK' /\ Control'
    BY <1>2, <1>3, <1>5, <2>1 DEF IInv, TypeOK, Control
  <2>3. NoDuplicates'
    BY <1>2, <1>3, <1>5, <2>1 DEF IInv, NoDuplicates
  <2>4. ~ Live(o)' /\ \A x \in Op \ {o} : Live(x)' <=> Live(x)
    BY <1>3, <1>5 DEF IInv, TypeOK, Live
  <2>5. CountsProcesses'
    <3>1. spawn_count' = Len(visit') + Len(kept')
      BY <1>2, <1>4, <1>5 DEF IInv, TypeOK, CountsProcesses, TrackedLen
    <3>2. Range(visit') \cup Range(kept') = {x \in SpawnOp : proc'[x] \in {"Running", "Exited"}}
      BY <1>2, <1>3, <1>5 DEF IInv, TypeOK, CountsProcesses, Tracked
    <3>. QED
      BY <1>2, <3>1, <3>2 DEF CountsProcesses, Tracked, TrackedLen
  <2>6. InItsPlace'
    BY <1>2, <1>3, <2>1, <2>4 DEF IInv, InItsPlace, InHand
  <2>7. NotLost'
    BY <1>2, <1>3, <2>1, <2>4 DEF IInv, NotLost, InHand
  <2>8. Slots' /\ Waits'
    BY <1>2, <1>5, <2>1 DEF IInv, TypeOK, Slots, Waits, AtMostMaxSpawn, NoSlot
  <2>9. Starves'
    BY <1>2, <2>1 DEF IInv, Starves
  <2>. QED
    BY <2>2, <2>3, <2>5, <2>6, <2>7, <2>8, <2>9 DEF IInv
<1>6. CASE kept' = <<o>> \o kept /\ UNCHANGED <<proc, spawn_count, status, collectable>>
  <2>1. /\ kept' \in Seq(SpawnOp) /\ Range(kept') = Range(kept) \cup {o}
        /\ IsInjective(kept') /\ Len(kept') = Len(kept) + 1
    BY <1>2, <1>3, <1>6, RangeOfCons, Lengths DEF IInv, TypeOK, NoDuplicates
  <2>2. TypeOK' /\ Control'
    BY <1>2, <1>3, <1>6, <2>1 DEF IInv, TypeOK, Control
  <2>3. NoDuplicates'
    BY <1>2, <1>3, <1>6, <2>1 DEF IInv, NoDuplicates
  <2>4. CountsProcesses'
    BY <1>2, <1>3, <1>4, <1>6, <2>1 DEF IInv, CountsProcesses, Tracked, TrackedLen
  <2>5. InItsPlace' /\ NotLost'
    BY <1>2, <1>6 DEF IInv, InItsPlace, NotLost, InHand, Live
  <2>6. Slots' /\ Waits'
    BY <1>2, <1>6 DEF IInv, Slots, Waits, AtMostMaxSpawn, NoSlot
  <2>7. Starves'
    BY <1>2, <1>6 DEF IInv, Starves, AllDone
  <2>. QED
    BY <2>2, <2>3, <2>4, <2>5, <2>6, <2>7 DEF IInv
<1>. QED
  BY <1>1, <1>5, <1>6 DEF Poll

LEMMA PollEndStep == ASSUME IInv, PollEnd PROVE IInv'
<1>1. /\ pc = "poll" /\ visit = <<>> /\ spawns' = kept
      /\ UNCHANGED <<max_spawn, status, todo, to_spawn, collectable, spawn_count, proc>>
      /\ UNCHANGED <<block, pass, cur, limit, lost, fault>>
  BY DEF PollEnd
<1>2. \/ /\ cur # NoOp /\ pc' = "exec"
         /\ UNCHANGED <<old_count, visit, kept>>
      \/ /\ cur = NoOp /\ pc' = "take"
         /\ ~ (pass = 2 /\ spawn_count # 0 /\ old_count = spawn_count)
         /\ UNCHANGED <<old_count, visit, kept>>
      \/ /\ cur = NoOp /\ pass = 2 /\ old_count = spawn_count /\ pc' = "poll"
         /\ visit' = kept /\ kept' = <<>> /\ old_count' = spawn_count
  BY DEF PollEnd
<1>3. /\ spawns' \in Seq(SpawnOp) /\ IsInjective(kept)
      /\ spawn_count = Len(kept) /\ Len(kept) \in Nat
      /\ Range(kept) = {o \in SpawnOp : proc[o] \in {"Running", "Exited"}}
  BY <1>1, OfEmpty, Lengths DEF IInv, TypeOK, NoDuplicates, CountsProcesses, Tracked, TrackedLen
<1>4. TypeOK' /\ Control'
  BY <1>1, <1>2, EmptySeq DEF IInv, TypeOK, Control
<1>5. NoDuplicates'
  BY <1>1, <1>2, <1>3, OfEmpty DEF IInv, NoDuplicates
<1>6. CountsProcesses'
  BY <1>1, <1>2, <1>3, OfEmpty DEF CountsProcesses, Tracked, TrackedLen
<1>7. InItsPlace' /\ NotLost'
  <2>1. \A o \in Op : InHand(o)' <=> InHand(o)
    BY <1>1, <1>2, NoOpIsNone DEF InHand
  <2>. QED
    BY <1>1, <2>1 DEF IInv, InItsPlace, NotLost, Live
<1>8. Slots' /\ Waits'
  BY <1>1, <1>2, <1>3 DEF IInv, Slots, Waits, AtMostMaxSpawn, NoSlot
<1>9. Starves'
  BY <1>1, <1>2 DEF IInv, TypeOK, Waits, NoSlot, Starves, AllDone
<1>. QED
  BY <1>4, <1>5, <1>6, <1>7, <1>8, <1>9 DEF IInv
-----------------------------------------------------------------------------
(* exec *)

LEMMA ExecSyncStep == ASSUME IInv, ExecSync PROVE IInv'
<1>1. PICK o : o = cur
  OBVIOUS
<1>2. /\ pc = "exec" /\ pc' = "spawns" /\ o \in SyncOp /\ o \in Op /\ o # NoOp
      /\ CompleteOp(o) /\ limit' = SpawnLimit(Len(to_spawn))
      /\ UNCHANGED <<max_spawn, todo, to_spawn, spawn_count, spawns, proc>>
      /\ UNCHANGED <<block, pass, cur, old_count, visit, kept, lost, fault>>
  BY <1>1, NoOpIsNone DEF ExecSync, Op
<1>3. InHand(o) /\ status[o] = "Submitted" /\ pass = 1
  BY <1>1, <1>2 DEF IInv, TypeOK, InItsPlace, InHand, Waits
<1>4. /\ status' \in [Op -> {"New", "Submitted", "Executed", "Collected"}]
      /\ status'[o] = "Executed"
      /\ \A x \in Op \ {o} : status'[x] = status[x]
      /\ collectable' \in Seq(Op) /\ collectable' # <<>>
      /\ Range(collectable') = Range(collectable) \cup {o}
      /\ IsInjective(collectable')
  BY <1>2, <1>3, Completed
<1>5. Len(to_spawn) \in Nat /\ (to_spawn = <<>> <=> Len(to_spawn) = 0)
  BY Lengths DEF IInv, TypeOK
<1>6. TypeOK' /\ Control'
  BY <1>2, <1>4, <1>5, LimitFits DEF IInv, TypeOK, Control, Slots
<1>7. NoDuplicates' /\ CountsProcesses'
  BY <1>2, <1>4 DEF IInv, NoDuplicates, CountsProcesses, Tracked, TrackedLen
<1>8. InItsPlace' /\ NotLost'
  BY <1>1, <1>2, <1>3, <1>4 DEF IInv, InItsPlace, NotLost, InHand, Live
<1>9. Slots' /\ Waits'
  BY <1>1, <1>2, <1>3, <1>5, LimitFits DEF IInv, TypeOK, Slots, Waits, AtMostMaxSpawn
<1>10. Starves'
  BY <1>1, <1>2 DEF IInv, TypeOK, Waits, Starves, AllDone
<1>. QED
  BY <1>6, <1>7, <1>8, <1>9, <1>10 DEF IInv

LEMMA QueueSpawnStep == ASSUME IInv, QueueSpawn PROVE IInv'
<1>1. PICK o : o = cur
  OBVIOUS
<1>2. /\ pc = "exec" /\ pc' = "spawns" /\ o \in SpawnOp /\ o \in Op /\ o # NoOp
      /\ to_spawn' = Append(to_spawn, o) /\ limit' = SpawnLimit(Len(to_spawn'))
      /\ UNCHANGED <<max_spawn, status, todo, collectable, spawn_count, spawns, proc>>
      /\ UNCHANGED <<block, pass, cur, old_count, visit, kept, lost, fault>>
  BY <1>1, NoOpIsNone DEF QueueSpawn, Op
<1>3. InHand(o) /\ status[o] = "Submitted" /\ pass = 1 /\ o \notin Range(to_spawn)
  BY <1>1, <1>2 DEF IInv, TypeOK, InItsPlace, InHand, Waits
<1>4. /\ to_spawn' \in Seq(SpawnOp) /\ Range(to_spawn') = Range(to_spawn) \cup {o}
      /\ IsInjective(to_spawn')
  BY <1>2, <1>3, RangeOfAppend DEF IInv, TypeOK, NoDuplicates
<1>5. Len(to_spawn') \in Nat /\ (to_spawn' = <<>> <=> Len(to_spawn') = 0)
  BY <1>4, Lengths
<1>6. TypeOK' /\ Control'
  BY <1>2, <1>4, <1>5, LimitFits DEF IInv, TypeOK, Control, Slots
<1>7. NoDuplicates' /\ CountsProcesses'
  BY <1>2, <1>4 DEF IInv, NoDuplicates, CountsProcesses, Tracked, TrackedLen
<1>8. InItsPlace' /\ NotLost'
  BY <1>1, <1>2, <1>3, <1>4 DEF IInv, InItsPlace, NotLost, InHand, Live
<1>9. Slots' /\ Waits'
  BY <1>1, <1>2, <1>3, <1>5, LimitFits DEF IInv, TypeOK, Slots, Waits, AtMostMaxSpawn
<1>10. Starves'
  BY <1>1, <1>2 DEF IInv, TypeOK, Waits, Starves, AllDone
<1>. QED
  BY <1>6, <1>7, <1>8, <1>9, <1>10 DEF IInv

-----------------------------------------------------------------------------
(* exec_spawns *)

\* The next queued spawn.
LEMMA Dequeued ==
  ASSUME IInv, MaySpawn, NEW o, o = Head(to_spawn)
  PROVE  /\ o \in SpawnOp /\ o \in Op /\ ~ Live(o) /\ status[o] = "Submitted"
         /\ Tail(to_spawn) \in Seq(SpawnOp) /\ IsInjective(Tail(to_spawn))
         /\ Range(Tail(to_spawn)) = Range(to_spawn) \ {o} /\ o \in Range(to_spawn)
         /\ o \notin todo /\ o \notin Range(collectable)
         /\ Len(to_spawn) \in Nat /\ Len(Tail(to_spawn)) = Len(to_spawn) - 1
         /\ pass = 1
<1>1. /\ o \in SpawnOp /\ Tail(to_spawn) \in Seq(SpawnOp) /\ IsInjective(Tail(to_spawn))
      /\ Range(Tail(to_spawn)) = Range(to_spawn) \ {o} /\ o \in Range(to_spawn)
  BY RangeOfTail DEF MaySpawn, IInv, TypeOK, NoDuplicates
<1>2. pass = 1
  BY DEF MaySpawn, IInv, TypeOK, Waits
<1>3. Len(to_spawn) \in Nat /\ Len(Tail(to_spawn)) = Len(to_spawn) - 1
  BY Lengths DEF MaySpawn, IInv, TypeOK
<1>4. o \in Op /\ ~ Live(o) /\ status[o] = "Submitted" /\ o \notin todo /\ o \notin Range(collectable)
  BY <1>1 DEF IInv, InItsPlace, Op
<1>. QED
  BY <1>1, <1>2, <1>3, <1>4

LEMMA SpawnStep == ASSUME IInv, Spawn PROVE IInv'
<1>1. PICK o : o = Head(to_spawn)
  OBVIOUS
<1>2. /\ pc = "spawns" /\ limit # 0 /\ MaySpawn
      /\ spawns' = <<o>> \o spawns /\ proc' = [proc EXCEPT ![o] = "Running"]
      /\ spawn_count' = spawn_count + 1 /\ to_spawn' = Tail(to_spawn) /\ limit' = limit - 1
      /\ UNCHANGED <<max_spawn, status, todo, collectable, pc, lost, fault>>
      /\ UNCHANGED <<block, pass, cur, old_count, visit, kept>>
  BY <1>1 DEF Spawn, MaySpawn
<1>3. /\ o \in SpawnOp /\ o \in Op /\ ~ Live(o) /\ status[o] = "Submitted"
      /\ to_spawn' \in Seq(SpawnOp) /\ IsInjective(to_spawn')
      /\ Range(to_spawn') = Range(to_spawn) \ {o} /\ o \in Range(to_spawn)
      /\ o \notin todo /\ o \notin Range(collectable)
      /\ Len(to_spawn) \in Nat /\ Len(to_spawn') = Len(to_spawn) - 1
      /\ pass = 1
  BY <1>1, <1>2, Dequeued
<1>4. o \notin Range(spawns)
  BY <1>2, <1>3 DEF IInv, CountsProcesses, Tracked, Live
<1>5. /\ spawns' \in Seq(SpawnOp) /\ Range(spawns') = Range(spawns) \cup {o}
      /\ IsInjective(spawns') /\ Len(spawns') = Len(spawns) + 1
  BY <1>2, <1>3, <1>4, RangeOfCons, Lengths DEF IInv, TypeOK, NoDuplicates
<1>6. TypeOK' /\ Control'
  BY <1>2, <1>3, <1>5 DEF IInv, TypeOK, Control
<1>7. NoDuplicates'
  BY <1>2, <1>3, <1>5 DEF IInv, NoDuplicates
<1>8. Live(o)' /\ \A x \in Op \ {o} : Live(x)' <=> Live(x)
  BY <1>2, <1>3 DEF IInv, TypeOK, Live
<1>9. CountsProcesses'
  <2>1. Range(spawns') = {x \in SpawnOp : proc'[x] \in {"Running", "Exited"}}
    <3>1. Range(spawns) = {x \in SpawnOp : proc[x] \in {"Running", "Exited"}}
      BY <1>2 DEF IInv, CountsProcesses, Tracked
    <3>2. \A x \in SpawnOp : proc'[x] \in {"Running", "Exited"} <=> x = o \/ proc[x] \in {"Running", "Exited"}
      BY <1>2, <1>3 DEF IInv, TypeOK
    <3>. QED
      BY <1>3, <1>5, <3>1, <3>2
  <2>. QED
    BY <1>2, <1>5, <2>1 DEF IInv, CountsProcesses, Tracked, TrackedLen
<1>10. InItsPlace' /\ NotLost'
  BY <1>2, <1>3, <1>8 DEF IInv, InItsPlace, NotLost, InHand
<1>11. Slots'
  BY <1>2, <1>3, CountIsNat DEF IInv, TypeOK, Slots, AtMostMaxSpawn
<1>12. Waits'
  BY <1>2, <1>3 DEF IInv, Waits
<1>13. Starves'
  BY <1>2, <1>3 DEF IInv, Starves
<1>. QED
  BY <1>6, <1>7, <1>9, <1>10, <1>11, <1>12, <1>13 DEF IInv

LEMMA SpawnErrorStep == ASSUME IInv, SpawnError PROVE IInv'
<1>1. PICK o : o = Head(to_spawn)
  OBVIOUS
<1>2. /\ pc = "spawns" /\ MaySpawn /\ CompleteOp(o) /\ to_spawn' = Tail(to_spawn)
      /\ UNCHANGED <<max_spawn, todo, spawn_count, spawns, proc, pc, limit, lost, fault>>
      /\ UNCHANGED <<block, pass, cur, old_count, visit, kept>>
  BY <1>1 DEF SpawnError, MaySpawn
<1>3. /\ o \in SpawnOp /\ o \in Op /\ ~ Live(o) /\ status[o] = "Submitted"
      /\ to_spawn' \in Seq(SpawnOp) /\ IsInjective(to_spawn')
      /\ Range(to_spawn') = Range(to_spawn) \ {o} /\ o \in Range(to_spawn)
      /\ o \notin todo /\ o \notin Range(collectable)
      /\ Len(to_spawn) \in Nat /\ Len(to_spawn') = Len(to_spawn) - 1
      /\ pass = 1
  BY <1>1, <1>2, Dequeued
<1>4. /\ status' \in [Op -> {"New", "Submitted", "Executed", "Collected"}]
      /\ status'[o] = "Executed"
      /\ \A x \in Op \ {o} : status'[x] = status[x]
      /\ collectable' \in Seq(Op) /\ collectable' # <<>>
      /\ Range(collectable') = Range(collectable) \cup {o}
      /\ IsInjective(collectable')
  BY <1>2, <1>3, Completed
<1>5. TypeOK' /\ Control'
  BY <1>2, <1>3, <1>4 DEF IInv, TypeOK, Control
<1>6. NoDuplicates' /\ CountsProcesses'
  BY <1>2, <1>3, <1>4 DEF IInv, NoDuplicates, CountsProcesses, Tracked, TrackedLen
<1>7. InItsPlace' /\ NotLost'
  BY <1>2, <1>3, <1>4 DEF IInv, InItsPlace, NotLost, InHand, Live
<1>8. Slots' /\ Waits'
  BY <1>2, <1>3 DEF IInv, TypeOK, Slots, Waits, AtMostMaxSpawn
<1>9. Starves'
  BY <1>2, <1>3 DEF IInv, Starves
<1>. QED
  BY <1>5, <1>6, <1>7, <1>8, <1>9 DEF IInv

\* The operation is in no place any more, and the counts are what they were.
LEMMA TmpErrorStep == ASSUME IInv, TmpError PROVE IInv'
<1>1. PICK o : o = Head(to_spawn)
  OBVIOUS
<1>2. /\ pc = "spawns" /\ MaySpawn /\ TmpFails /\ o \in UiOp /\ to_spawn' = Tail(to_spawn)
      /\ lost' = lost \cup {o}
      /\ UNCHANGED <<max_spawn, status, todo, collectable, spawn_count, spawns, proc>>
      /\ UNCHANGED <<block, pass, cur, limit, old_count, visit, kept>>
  BY <1>1 DEF TmpError, MaySpawn, locals
<1>3. \/ pc' = "idle" /\ fault' = fault
      \/ pc' = "fault" /\ fault' = "Assert_failure"
  BY DEF TmpError
<1>4. /\ to_spawn' \in Seq(SpawnOp) /\ IsInjective(to_spawn')
      /\ Range(to_spawn') = Range(to_spawn) \ {o}
      /\ o \in Range(to_spawn) /\ pass = 1
      /\ o \in Op /\ ~ Live(o) /\ status[o] = "Submitted" /\ o \notin todo
  BY <1>1, <1>2, Dequeued
<1>5. TypeOK' /\ Control'
  BY <1>2, <1>3, <1>4 DEF IInv, TypeOK, Control
<1>6. NoDuplicates' /\ CountsProcesses'
  BY <1>2, <1>3, <1>4 DEF IInv, NoDuplicates, CountsProcesses, Tracked, TrackedLen
<1>7. InItsPlace' /\ NotLost'
  BY <1>2, <1>3, <1>4 DEF IInv, InItsPlace, NotLost, InHand, Live
<1>8. Slots' /\ Waits'
  BY <1>2, <1>3, <1>4 DEF IInv, Slots, Waits, AtMostMaxSpawn
<1>9. Starves'
  BY <1>2, <1>3, <1>4 DEF IInv, Starves
<1>. QED
  BY <1>5, <1>6, <1>7, <1>8, <1>9 DEF IInv

LEMMA SpawnsEndStep == ASSUME IInv, SpawnsEnd PROVE IInv'
<1>1. /\ pc = "spawns" /\ (limit = 0 \/ to_spawn = <<>>)
      /\ UNCHANGED <<max_spawn, status, todo, to_spawn, collectable, spawn_count, spawns, proc>>
      /\ UNCHANGED <<block, pass, limit, lost, fault>>
  BY DEF SpawnsEnd, queues
<1>2. \/ /\ cur # NoOp /\ pc' = "stir" /\ cur' = NoOp
         /\ UNCHANGED <<old_count, visit, kept>>
      \/ /\ cur = NoOp /\ pc' = "poll" /\ old_count' = spawn_count
         /\ visit' = spawns /\ kept' = <<>> /\ UNCHANGED cur
  BY DEF SpawnsEnd
<1>3. TypeOK' /\ Control'
  BY <1>1, <1>2, EmptySeq DEF IInv, TypeOK, Control
<1>4. NoDuplicates'
  BY <1>1, <1>2, OfEmpty DEF IInv, NoDuplicates
<1>5. CountsProcesses'
  BY <1>1, <1>2, OfEmpty, Lengths DEF IInv, TypeOK, CountsProcesses, Tracked, TrackedLen
<1>6. InItsPlace' /\ NotLost'
  <2>1. \A o \in Op : InHand(o)' <=> InHand(o)
    BY <1>1, <1>2, NoOpIsNone DEF InHand
  <2>. QED
    BY <1>1, <2>1 DEF IInv, InItsPlace, NotLost, Live
<1>7. Slots'
  BY <1>1, <1>2 DEF IInv, Slots, AtMostMaxSpawn
<1>8. limit = 0 => NoSlot
  <2>1. Len(to_spawn) \in Nat /\ (to_spawn = <<>> <=> Len(to_spawn) = 0)
    BY Lengths DEF IInv, TypeOK
  <2>. QED
    BY <1>1, <2>1 DEF IInv, TypeOK, Slots, NoSlot
<1>9. Waits'
  BY <1>1, <1>2, <1>8 DEF IInv, TypeOK, Waits, NoSlot
<1>10. Starves'
  BY <1>1, <1>2 DEF IInv, TypeOK, Waits, Starves, AllDone
<1>. QED
  BY <1>3, <1>4, <1>5, <1>6, <1>7, <1>9, <1>10 DEF IInv

-----------------------------------------------------------------------------
(* collect, after a stir *)

LEMMA TakeSomeStep == ASSUME IInv, TakeSome PROVE IInv'
<1>1. PICK o : o = Head(collectable)
  OBVIOUS
<1>2. /\ pc = "take" /\ pc' = "idle" /\ collectable # <<>>
      /\ status' = [status EXCEPT ![o] = "Collected"] /\ collectable' = Tail(collectable)
      /\ UNCHANGED <<max_spawn, todo, to_spawn, spawn_count, spawns, proc, lost, fault>>
      /\ UNCHANGED <<block, pass, cur, limit, old_count, visit, kept>>
  BY <1>1 DEF TakeSome, locals
<1>3. /\ o \in Op /\ collectable' \in Seq(Op) /\ o \in Range(collectable)
      /\ Range(collectable') = Range(collectable) \ {o} /\ IsInjective(collectable')
  BY <1>1, <1>2, RangeOfTail DEF IInv, TypeOK, NoDuplicates
<1>4. status[o] = "Executed"
  BY <1>3 DEF IInv, InItsPlace
<1>5. /\ status' \in [Op -> {"New", "Submitted", "Executed", "Collected"}]
      /\ status'[o] = "Collected" /\ \A x \in Op \ {o} : status'[x] = status[x]
  BY <1>2, <1>3 DEF IInv, TypeOK
<1>6. TypeOK' /\ Control'
  BY <1>2, <1>3, <1>5 DEF IInv, TypeOK, Control
<1>7. NoDuplicates' /\ CountsProcesses'
  BY <1>2, <1>3 DEF IInv, NoDuplicates, CountsProcesses, Tracked, TrackedLen
<1>8. InItsPlace' /\ NotLost'
  BY <1>2, <1>3, <1>4, <1>5 DEF IInv, InItsPlace, NotLost, InHand, Live
<1>9. Slots' /\ Waits'
  BY <1>2 DEF IInv, Slots, Waits, AtMostMaxSpawn
<1>10. Starves'
  BY <1>1, <1>2 DEF IInv, TypeOK, Waits, Starves, AllDone
<1>. QED
  BY <1>6, <1>7, <1>8, <1>9, <1>10 DEF IInv

LEMMA OtherTakeStep == ASSUME IInv, TakeNone \/ StirAgain \/ TakeEmpty PROVE IInv'
<1>1. /\ pc = "take" /\ collectable = <<>>
      /\ UNCHANGED <<max_spawn, status, todo, to_spawn, collectable, spawn_count, spawns, proc>>
      /\ UNCHANGED <<block, cur, limit, old_count, visit, kept>>
  BY DEF TakeNone, StirAgain, TakeEmpty, queues, locals
<1>2. \/ pc' = "idle" /\ UNCHANGED <<pass, lost, fault>>
      \/ pc' = "stir" /\ pass' = 2 /\ ~ AllDone /\ UNCHANGED <<lost, fault>>
      \/ pass = 2 /\ pc' = "fault" /\ fault' = "Empty" /\ UNCHANGED <<pass, lost>>
  BY DEF TakeNone, StirAgain, TakeEmpty, locals
<1>3. fault = "None"
  BY <1>1 DEF IInv, Control
<1>4. TypeOK' /\ Control'
  BY <1>1, <1>2 DEF IInv, TypeOK, Control
<1>5. NoDuplicates' /\ CountsProcesses'
  BY <1>1, <1>2 DEF IInv, NoDuplicates, CountsProcesses, Tracked, TrackedLen
<1>6. InItsPlace' /\ NotLost'
  BY <1>1, <1>2, <1>3 DEF IInv, InItsPlace, NotLost, InHand, Live
<1>7. Slots' /\ Waits'
  BY <1>1, <1>2 DEF IInv, Slots, Waits, AtMostMaxSpawn, NoSlot
<1>8. Starves'
  BY <1>1, <1>2, <1>3 DEF IInv, TypeOK, Starves, AllDone
<1>. QED
  BY <1>4, <1>5, <1>6, <1>7, <1>8 DEF IInv

-----------------------------------------------------------------------------
(* Theorems *)

\* No step of the handler, the build or a process leaves the invariant.
LEMMA NextIInv == ASSUME IInv, [Next]_vars PROVE IInv'
<1>1. CASE UNCHANGED vars
  <2>. USE <1>1 DEF vars
  <2>1. TypeOK' /\ Control' /\ NoDuplicates' /\ CountsProcesses'
    BY DEF IInv, TypeOK, Control, NoDuplicates, CountsProcesses, Tracked, TrackedLen
  <2>2. InItsPlace' /\ NotLost'
    BY DEF IInv, InItsPlace, NotLost, InHand, Live
  <2>3. Slots' /\ Waits'
    BY DEF IInv, Slots, Waits, AtMostMaxSpawn, NoSlot
  <2>4. Starves'
    BY DEF IInv, Starves, AllDone
  <2>. QED
    BY <2>1, <2>2, <2>3, <2>4 DEF IInv
<1>. QED
  BY <1>1, SubmitStep, CollectStep, ExitStep, StirSomeStep, StirNoneStep, PollStep, PollEndStep,
     ExecSyncStep, QueueSpawnStep, SpawnStep, SpawnErrorStep, TmpErrorStep, SpawnsEndStep,
     TakeSomeStep, OtherTakeStep DEF Next, Handler

\* The inductive invariant: an operation is in one place, and a blocking stir
\* begins when nothing is left to take or to spawn.
THEOREM ExecInvariant == Spec => []IInv
<1>. QED
  BY InitIInv, NextIInv, PTL DEF Spec

\* spawn_count is the number of processes that were started and not reaped, and
\* each of them is in the list once.
THEOREM CountIsExact == Spec => []CountsProcesses
<1>1. IInv => CountsProcesses
  BY DEF IInv
<1>. QED
  BY <1>1, ExecInvariant, PTL

\* Never more than max_spawn processes, whatever exits and whenever.
THEOREM SpawnsAreBounded == Spec => []AtMostMaxSpawn
<1>1. IInv => AtMostMaxSpawn
  BY DEF IInv, Slots
<1>. QED
  BY <1>1, ExecInvariant, PTL

\* No operation is executed twice, and none is lost but those dropped because of
\* their temporary file.
THEOREM OperationsAreInOnePlace == Spec => []InOnePlace
<1>1. ASSUME IInv PROVE InOnePlace
  <2>1. SUFFICES ASSUME NEW o \in Op
                 PROVE  /\ status[o] \in {"New", "Collected"} \/ o \in lost => Places(o) = {}
                        /\ status[o] = "Submitted" /\ o \notin lost =>
                             \E p \in {"todo", "cur", "to_spawn", "process"} : Places(o) = {p}
                        /\ status[o] = "Executed" => Places(o) = {"collectable"}
                        /\ o \in lost => TmpFails /\ o \in UiOp /\ status[o] = "Submitted"
    BY DEF InOnePlace
  <2>2. o \in Tracked <=> Live(o)
    BY <1>1 DEF IInv, CountsProcesses, Live
  <2>3. /\ "todo" \in Places(o) <=> o \in todo
        /\ "cur" \in Places(o) <=> InHand(o)
        /\ "to_spawn" \in Places(o) <=> o \in Range(to_spawn)
        /\ "process" \in Places(o) <=> Live(o)
        /\ "collectable" \in Places(o) <=> o \in Range(collectable)
        /\ Places(o) \subseteq {"todo", "cur", "to_spawn", "process", "collectable"}
    BY <2>2 DEF Places, InHand
  <2>4. status[o] \in {"New", "Submitted", "Executed", "Collected"}
    BY <1>1 DEF IInv, TypeOK
  <2>5. CASE status[o] \in {"New", "Collected"}
    BY <1>1, <2>3, <2>5 DEF IInv, InItsPlace, NotLost
  <2>6. CASE status[o] = "Executed"
    BY <1>1, <2>1, <2>3, <2>6 DEF IInv, InItsPlace, NotLost
  <2>7. CASE status[o] = "Submitted" /\ o \in lost
    BY <1>1, <2>3, <2>7 DEF IInv, InItsPlace, NotLost
  <2>8. CASE status[o] = "Submitted" /\ o \notin lost
    <3>1. PICK p \in {"todo", "cur", "to_spawn", "process"} : p \in Places(o)
      BY <1>1, <2>1, <2>3, <2>8 DEF IInv, NotLost
    <3>2. \A q \in Places(o) : q = p
      BY <1>1, <2>3, <2>8, <3>1 DEF IInv, InItsPlace
    <3>. QED
      BY <2>8, <3>1, <3>2
  <2>. QED
    BY <2>4, <2>5, <2>6, <2>7, <2>8
<1>. QED
  BY <1>1, ExecInvariant, PTL

\* A blocking collect waits for processes only when there is nothing else to do.
THEOREM WaitsOnlyIfNeeded == Spec => []WaitsForAProcess
<1>1. IInv => WaitsForAProcess
  BY DEF IInv, TypeOK, Waits, NoSlot, WaitsForAProcess
<1>. QED
  BY <1>1, ExecInvariant, PTL

\* A blocking collect that goes on to its second stir gets a completed operation
\* out of it (b0_exec.ml:196-197), for any max_spawn but 0: Queue.take is not
\* called on an empty queue.
THEOREM BlockingStirGivesAnOperation == Spec => [](max_spawn # 0 => BlockingStirCompletes)
<1>1. IInv => (max_spawn # 0 => BlockingStirCompletes)
  BY DEF IInv, Starves, BlockingStirCompletes
<1>. QED
  BY <1>1, ExecInvariant, PTL

\* When a blocking collect answers None every operation that was submitted was
\* collected, or was dropped because of its temporary file.
THEOREM NoneAtTheEnd == Spec => NoneWhenDone
<1>1. ASSUME IInv, TakeNone, block
      PROVE  \A o \in Op : status[o] \in {"New", "Collected"} <=> o \notin lost
  <2>1. /\ pc = "take" /\ collectable = <<>> /\ todo = {} /\ to_spawn = <<>>
        /\ spawn_count = 0
    BY <1>1 DEF TakeNone, AllDone, IInv, Control
  <2>2. spawns = <<>>
    BY <1>1, <2>1, Lengths DEF IInv, TypeOK, CountsProcesses, TrackedLen
  <2>3. \A o \in Op : ~ Live(o)
    BY <1>1, <2>1, <2>2, OfEmpty DEF IInv, CountsProcesses, Tracked, Live
  <2>4. TAKE o \in Op
  <2>5. status[o] \in {"New", "Submitted", "Executed", "Collected"}
    BY <1>1 DEF IInv, TypeOK
  <2>6. status[o] # "Executed" /\ (status[o] = "Submitted" <=> o \in lost)
    BY <1>1, <2>1, <2>3, OfEmpty DEF IInv, NotLost, InHand
  <2>. QED
    BY <2>5, <2>6
<1>2. ASSUME IInv, [Next]_vars
      PROVE  [TakeNone /\ block =>
                \A o \in Op : status[o] \in {"New", "Collected"} <=> o \notin lost]_vars
  BY <1>1, <1>2
<1>. QED
  BY <1>2, ExecInvariant, PTL DEF Spec, NoneWhenDone

-----------------------------------------------------------------------------
(* The queue of operations that todo stands for: RQueue *)

LEMMA InitQueueIInv == QueueInit => QueueIInv
BY NoneIsNoElt, CapacityIsPos DEF QueueInit, QueueIInv, QueueTypeOK, Filled

\* add: the array is as it was below length, and holds the element there.
LEMMA AddShape ==
  ASSUME QueueIInv, NEW v \in Elt, Add(v)
  PROVE  /\ size' \in Nat \ {0} /\ size <= size' /\ length < size'
         /\ DOMAIN slots' = 0 .. size' - 1
         /\ \A i \in 0 .. size' - 1 :
              slots'[i] = IF i = length THEN v ELSE IF i < length THEN slots[i] ELSE None
<1> USE DEF QueueIInv, QueueTypeOK, Filled
<1>1. CASE IsFull
  <2>1. size' = 2 * length /\ slots' = [Grow EXCEPT ![length] = v]
    BY <1>1 DEF Add
  <2>2. length = size
    BY <1>1 DEF IsFull
  <2> QED
    BY <2>1, <2>2 DEF Grow
<1>2. CASE ~ IsFull
  <2>1. size' = size /\ slots' = [slots EXCEPT ![length] = v]
    BY <1>2 DEF Add
  <2>2. length < size
    BY <1>2 DEF IsFull
  <2> QED
    BY <2>1, <2>2
<1> QED
  BY <1>1, <1>2

LEMMA AddIInv ==
  ASSUME QueueIInv, NEW v \in Elt, Add(v)
  PROVE  QueueIInv'
<1>1. length' = length + 1 /\ res' = None
  BY DEF Add
<1>2. QueueTypeOK'
  <2>1. /\ length' \in Nat
        /\ size' \in Nat \ {0}
        /\ length' <= size'
        /\ res' \in Elt \cup {None}
    BY <1>1, AddShape DEF QueueIInv, QueueTypeOK
  <2>2. slots' \in [0 .. size' - 1 -> Elt \cup {None}]
    <3>1. \A i \in 0 .. size' - 1 : slots'[i] \in Elt \cup {None}
      BY AddShape DEF QueueIInv, QueueTypeOK
    <3>2. slots' = [i \in 0 .. size' - 1 |-> slots'[i]]
      <4>1. CASE IsFull
        BY <4>1 DEF Add, Grow
      <4>2. CASE ~ IsFull
        BY <4>2 DEF Add, QueueIInv, QueueTypeOK
      <4> QED
        BY <4>1, <4>2
    <3> QED
      BY <3>1, <3>2
  <2> QED
    BY <2>1, <2>2 DEF QueueTypeOK
<1>3. Filled'
  BY <1>1, AddShape, NoneIsNoElt DEF QueueIInv, QueueTypeOK, Filled
<1> QED
  BY <1>2, <1>3 DEF QueueIInv

LEMMA TakeAtIInv ==
  ASSUME QueueIInv, NEW i \in 0 .. length - 1, TakeAt(i)
  PROVE  QueueIInv'
<1> USE DEF QueueIInv, QueueTypeOK, Filled
<1>1. /\ length \in Nat \ {0} /\ length' = length - 1
      /\ size' = size
      /\ slots' = [slots EXCEPT ![i] = slots[length - 1], ![length - 1] = None]
      /\ res' = slots[i]
  BY DEF TakeAt
<1>2. i \in 0 .. size - 1 /\ length - 1 \in 0 .. size - 1
  BY <1>1
<1>3. QueueTypeOK'
  BY <1>1, <1>2
<1>4. Filled'
  BY <1>1, <1>2
<1> QED
  BY <1>3, <1>4

LEMMA NextQueueIInv == QueueIInv /\ [QueueNext]_queueVars => QueueIInv'
<1> SUFFICES ASSUME QueueIInv, [QueueNext]_queueVars
             PROVE  QueueIInv'
  OBVIOUS
<1>1. ASSUME NEW v \in Elt, Add(v) PROVE QueueIInv'
  BY <1>1, AddIInv
<1>2. CASE NothingToTake
  BY <1>2 DEF NothingToTake, QueueIInv, QueueTypeOK, Filled
<1>3. ASSUME NEW i \in 0 .. length - 1, TakeAt(i) PROVE QueueIInv'
  BY <1>3, TakeAtIInv
<1>4. CASE UNCHANGED queueVars
  BY <1>4 DEF queueVars, QueueIInv, QueueTypeOK, Filled
<1> QED
  BY <1>1, <1>2, <1>3, <1>4 DEF QueueNext

\* The elements fill the first slots of an array that has room for them.
THEOREM QueueInvariant == QueueSpec => []QueueIInv
BY InitQueueIInv, NextQueueIInv, PTL DEF QueueSpec

\* The array always has the size it is said to have: no access is out of its
\* bounds.
THEOREM QueueTypeCorrect == QueueSpec => []QueueTypeOK
<1>1. QueueIInv => QueueTypeOK
  BY DEF QueueIInv
<1> QED
  BY <1>1, QueueInvariant, PTL

\* take never meets the empty slot it asserts impossible (b0_rqueue.ml:32),
\* and keeps no element alive above the length.
THEOREM TakeFindsElement == QueueSpec => []Filled
<1>1. QueueIInv => Filled
  BY DEF QueueIInv
<1> QED
  BY <1>1, QueueInvariant, PTL

-----------------------------------------------------------------------------
(* The queue is a bag *)

LEMMA SlotsFinite ==
  ASSUME length \in Nat, NEW e
  PROVE  IsFiniteSet(SlotsOf(e)) /\ Cardinality(SlotsOf(e)) \in Nat
<1>1. IsFiniteSet(0 .. length - 1)
  BY FS_Interval
<1>2. SlotsOf(e) \in SUBSET (0 .. length - 1)
  BY DEF SlotsOf
<1>3. IsFiniteSet(SlotsOf(e))
  BY <1>1, <1>2, FS_Subset
<1> QED
  BY <1>3, FS_CardinalityType

\* add: one slot more for the element, the same ones for the others.
LEMMA AddSlots ==
  ASSUME QueueIInv, NEW v \in Elt, Add(v), NEW e \in Elt
  PROVE  Cardinality(SlotsOf(e))' = IF e = v THEN Cardinality(SlotsOf(e)) + 1
                                           ELSE Cardinality(SlotsOf(e))
<1>1. length \in Nat /\ length' = length + 1
  BY DEF QueueIInv, QueueTypeOK, Add
<1>2. \A i \in 0 .. length : slots'[i] = IF i = length THEN v ELSE slots[i]
  BY <1>1, AddShape DEF QueueIInv, QueueTypeOK
<1>3. CASE e = v
  <2>1. SlotsOf(e)' = SlotsOf(e) \cup {length}
    BY <1>1, <1>2, <1>3 DEF SlotsOf
  <2>2. length \notin SlotsOf(e)
    BY <1>1 DEF SlotsOf
  <2> QED
    BY <1>1, <1>3, <2>1, <2>2, SlotsFinite, FS_AddElement
<1>4. CASE e # v
  <2>1. SlotsOf(e)' = SlotsOf(e)
    BY <1>1, <1>2, <1>4 DEF SlotsOf
  <2> QED
    BY <1>4, <2>1
<1> QED
  BY <1>3, <1>4

\* take: one slot less for the element it gives, as many for the others.  The
\* last slot takes the place of the one that was drawn.
LEMMA TakeSlots ==
  ASSUME QueueIInv, NEW i \in 0 .. length - 1, TakeAt(i), NEW e \in Elt
  PROVE  Cardinality(SlotsOf(e))' = IF e = slots[i] THEN Cardinality(SlotsOf(e)) - 1
                                                  ELSE Cardinality(SlotsOf(e))
<1> DEFINE last == length - 1
<1>1. /\ length \in Nat \ {0} /\ last \in Nat /\ last \in 0 .. length - 1
      /\ length' = length - 1
      /\ \A j \in 0 .. length' - 1 : slots'[j] = IF j = i THEN slots[last] ELSE slots[j]
  BY DEF QueueIInv, QueueTypeOK, TakeAt
<1>2. /\ IsFiniteSet(SlotsOf(e)) /\ Cardinality(SlotsOf(e)) \in Nat
      /\ IsFiniteSet(SlotsOf(e) \ {last})
      /\ Cardinality(SlotsOf(e) \ {last}) = IF last \in SlotsOf(e) THEN Cardinality(SlotsOf(e)) - 1
                                                             ELSE Cardinality(SlotsOf(e))
  BY <1>1, SlotsFinite, FS_RemoveElement
<1>3. /\ i \in SlotsOf(e) <=> e = slots[i]
      /\ last \in SlotsOf(e) <=> e = slots[last]
  BY <1>1 DEF SlotsOf
<1>4. CASE i = last
  <2>1. SlotsOf(e)' = SlotsOf(e) \ {last}
    BY <1>1, <1>4 DEF SlotsOf
  <2> QED
    BY <1>2, <1>3, <1>4, <2>1
<1>5. CASE i # last /\ e = slots[last]
  <2>1. SlotsOf(e)' = (SlotsOf(e) \ {last}) \cup {i}
    BY <1>1, <1>5 DEF SlotsOf
  <2>2. i \in SlotsOf(e) \ {last} <=> e = slots[i]
    BY <1>3, <1>5
  <2>3. Cardinality((SlotsOf(e) \ {last}) \cup {i})
          = IF i \in SlotsOf(e) \ {last} THEN Cardinality(SlotsOf(e) \ {last})
            ELSE Cardinality(SlotsOf(e) \ {last}) + 1
    BY <1>2, FS_AddElement
  <2>4. Cardinality(SlotsOf(e) \ {last}) = Cardinality(SlotsOf(e)) - 1
    BY <1>2, <1>3, <1>5
  <2>5. Cardinality(SlotsOf(e))' = Cardinality((SlotsOf(e) \ {last}) \cup {i})
    BY <2>1
  <2> HIDE DEF last
  <2> QED
    BY <1>2, <2>2, <2>3, <2>4, <2>5
<1>6. CASE i # last /\ e # slots[last]
  <2>1. SlotsOf(e)' = SlotsOf(e) \ {i}
    BY <1>1, <1>6 DEF SlotsOf
  <2> QED
    BY <1>2, <1>3, <1>6, <2>1, FS_RemoveElement
<1> QED
  BY <1>4, <1>5, <1>6

LEMMA StepIsBag ==
  ASSUME QueueIInv, [QueueNext]_queueVars
  PROVE  [Bag!Next]_(Bag!vars)
<1> DEFINE bag == [e \in Elt |-> Cardinality(SlotsOf(e))]
<1>1. ASSUME NEW v \in Elt, Add(v) PROVE Bag!Add(v)
  <2>1. bag' = [bag EXCEPT ![v] = @ + 1]
    BY <1>1, AddSlots
  <2> QED
    BY <1>1, <2>1 DEF Add, Bag!Add
<1>2. CASE NothingToTake
  <2>1. \A e \in Elt : SlotsOf(e) = {}
    BY <1>2 DEF NothingToTake, SlotsOf
  <2>2. \A e \in Elt : bag[e] = 0
    BY <2>1, FS_EmptySet
  <2>3. bag' = bag
    BY <1>2 DEF NothingToTake, SlotsOf
  <2>4. Bag!TakeNone
    BY <1>2, <2>2, <2>3 DEF NothingToTake, Bag!TakeNone
  <2> QED
    BY <2>4 DEF Bag!Next
<1>3. ASSUME NEW i \in 0 .. length - 1, TakeAt(i) PROVE Bag!Take(slots[i])
  <2>1. length \in Nat /\ i \in 0 .. size - 1
    BY DEF QueueIInv, QueueTypeOK
  <2>2. slots[i] \in Elt
    BY <2>1 DEF QueueIInv, QueueTypeOK, Filled
  <2>3. i \in SlotsOf(slots[i])
    BY DEF SlotsOf
  <2>4. bag[slots[i]] > 0
    BY <2>1, <2>2, <2>3, SlotsFinite, FS_EmptySet
  <2>5. bag' = [bag EXCEPT ![slots[i]] = @ - 1]
    BY <1>3, <2>2, TakeSlots
  <2> QED
    BY <1>3, <2>4, <2>5 DEF TakeAt, Bag!Take
<1>4. ASSUME NEW i \in 0 .. length - 1, TakeAt(i) PROVE Bag!Next
  <2>1. slots[i] \in Elt
    BY DEF QueueIInv, QueueTypeOK, Filled
  <2> QED
    BY <1>3, <1>4, <2>1 DEF Bag!Next
<1>5. CASE UNCHANGED queueVars
  BY <1>5 DEF queueVars, SlotsOf, Bag!vars
<1> QED
  BY <1>1, <1>2, <1>4, <1>5 DEF QueueNext, Bag!Next

\* The array implements a bag, whatever slots are drawn: an element that was
\* added is taken once, and take answers None only if there is none.
THEOREM QueueRefinement == QueueSpec => IsBag
<1>1. QueueInit => Bag!Init
  <2> SUFFICES ASSUME QueueInit PROVE Bag!Init
    OBVIOUS
  <2>1. \A e \in Elt : SlotsOf(e) = {}
    BY DEF QueueInit, SlotsOf
  <2>2. \A e \in Elt : Cardinality(SlotsOf(e)) = 0
    BY <2>1, FS_EmptySet
  <2> QED
    BY <2>2 DEF QueueInit, Bag!Init
<1> QED
  BY <1>1, QueueInvariant, StepIsBag, PTL DEF QueueSpec, IsBag, Bag!Spec
=============================================================================
