-------------------------------- MODULE Guard --------------------------------
(***************************************************************************)
(* src-lib/b0_guard.ml.  A guard is a build operation with the events it   *)
(* still awaits; an event definition holds the list of the guards waiting  *)
(* for it.  The code never records that an event occurred: an event that   *)
(* is defined and has no guards is taken to have occurred.                 *)
(*                                                                         *)
(* An event identifier stands for its kind (Fpath_ready f or Unit_ready u) *)
(* so an event is the file or the unit itself, and "evs" is the domain of  *)
(* the two maps of the handler together.  An operation has one guard       *)
(* (Guard.add is called once on an operation), so a guard is its           *)
(* operation.  set_event_ready is the one loop of the module: each         *)
(* iteration of its List.iter is a step here, and while it runs ("firing") *)
(* nothing else does.                                                      *)
(***************************************************************************)
EXTENDS Sequences, Functions

CONSTANTS Op, File, Unit, NoEvent

Event == File \cup Unit

ASSUME KindsDisjoint == File \cap Unit = {}
ASSUME NoEventIsNone == NoEvent \notin Event

VARIABLES
  needs,     \* Op -> the reads of the operation, or the units of a Sync
  status,    \* Op -> B0_op.status, with "New" before and "Taken" after the handler
  evs,       \* events with a definition
  guards,    \* Event -> list of the guards waiting for it, latest first
  awaiting,  \* Op -> the events its guard still awaits
  ready,     \* the handler's ready queue
  firing,    \* the event set_event_ready is processing, or NoEvent
  todo       \* the guards its List.iter has still to visit

vars == <<needs, status, evs, guards, awaiting, ready, firing, todo>>

Init ==
  /\ needs = [op \in Op |-> {}]
  /\ status = [op \in Op |-> "New"]
  /\ evs = {}
  /\ guards = [e \in Event |-> <<>>]
  /\ awaiting = [op \in Op |-> {}]
  /\ ready = <<>>
  /\ firing = NoEvent
  /\ todo = <<>>

\* Ev.ready, as asked by get_awaiting_*: an event with a definition.
IsReady(e) == guards[e] = <<>>

\* Mutant: an announced event counts as awaited.
AwaitAll(es) == es

\* The events an operation reading "es" has to wait for.
GetAwaiting(es) == {e \in es : ~ (e \in evs /\ IsReady(e))}

\* add_ready: the status of the operation, and the queue.
AddReady(op) ==
  /\ status' = [status EXCEPT ![op] = "Ready"]
  /\ ready' = Append(ready, op)

\* Mutant: the list is replaced.
AddGuardReplace(op, es) ==
  guards' = [e \in Event |-> IF e \in es THEN <<op>> ELSE guards[e]]

AddGuard(op, es) ==
  guards' = [e \in Event |-> IF e \in es THEN <<op>> \o guards[e] ELSE guards[e]]

Add(op, es) ==
  /\ firing = NoEvent
  /\ status[op] = "New"
  /\ needs' = [needs EXCEPT ![op] = es]
  /\ evs' = evs \cup es
  /\ awaiting' = [awaiting EXCEPT ![op] = GetAwaiting(es)]
  /\ \/ /\ GetAwaiting(es) = {}
        /\ AddReady(op)
        /\ UNCHANGED guards
     \/ /\ GetAwaiting(es) # {}
        /\ AddGuard(op, GetAwaiting(es))
        /\ status' = [status EXCEPT ![op] = "Guarded"]
        /\ UNCHANGED ready
  /\ UNCHANGED <<firing, todo>>

\* A Sync operation waits for units, any other one for the files it reads.
AddOp ==
  \/ \E op \in Op, fs \in SUBSET File : Add(op, fs)
  \/ \E op \in Op, us \in SUBSET Unit : Add(op, us)

\* set_file_ready and set_unit_ready on an event nobody asked for yet.
SetReadyNew(e) ==
  /\ firing = NoEvent
  /\ e \notin evs
  /\ evs' = evs \cup {e}
  /\ UNCHANGED <<needs, status, guards, awaiting, ready, firing, todo>>

\* set_event_ready: enter the loop over the guards of a defined event.
SetReady(e) ==
  /\ firing = NoEvent
  /\ e \in evs
  /\ ~ IsReady(e)
  /\ firing' = e
  /\ todo' = guards[e]
  /\ UNCHANGED <<needs, status, evs, guards, awaiting, ready>>

\* Mutants: any announced event releases the guard; the loop stops at its
\* first guard.
ReleaseOnAny ==
  /\ firing # NoEvent
  /\ todo # <<>>
  /\ awaiting' = [awaiting EXCEPT ![Head(todo)] = @ \ {firing}]
  /\ AddReady(Head(todo))
  /\ todo' = Tail(todo)
  /\ UNCHANGED <<needs, evs, guards, firing>>
ReleaseFirst ==
  /\ firing # NoEvent
  /\ todo # <<>>
  /\ LET op == Head(todo)
         left == awaiting[op] \ {firing}
     IN /\ awaiting' = [awaiting EXCEPT ![op] = left]
        /\ \/ left = {} /\ AddReady(op)
           \/ left # {} /\ UNCHANGED <<status, ready>>
  /\ todo' = <<>>
  /\ UNCHANGED <<needs, evs, guards, firing>>

\* guard_set_event_ready on the next guard of the list.
GuardSetEventReady ==
  /\ firing # NoEvent
  /\ todo # <<>>
  /\ LET op == Head(todo)
         left == awaiting[op] \ {firing}
     IN /\ awaiting' = [awaiting EXCEPT ![op] = left]
        /\ \/ left = {} /\ AddReady(op)
           \/ left # {} /\ UNCHANGED <<status, ready>>
  /\ todo' = Tail(todo)
  /\ UNCHANGED <<needs, evs, guards, firing>>

\* Ev.set_ready: the event has no guards any more.
EvSetReady ==
  /\ firing # NoEvent
  /\ todo = <<>>
  /\ guards' = [guards EXCEPT ![firing] = <<>>]
  /\ firing' = NoEvent
  /\ UNCHANGED <<needs, status, evs, awaiting, ready, todo>>

\* Mutant: the latest ready operation leaves first.
ReadyLatest ==
  /\ firing = NoEvent
  /\ ready # <<>>
  /\ status' = [status EXCEPT ![ready[Len(ready)]] = "Taken"]
  /\ ready' = SubSeq(ready, 1, Len(ready) - 1)
  /\ UNCHANGED <<needs, evs, guards, awaiting, firing, todo>>

\* ready: the oldest ready operation leaves the handler.
Ready ==
  /\ firing = NoEvent
  /\ ready # <<>>
  /\ status' = [status EXCEPT ![Head(ready)] = "Taken"]
  /\ ready' = Tail(ready)
  /\ UNCHANGED <<needs, evs, guards, awaiting, firing, todo>>

Fire == GuardSetEventReady \/ EvSetReady

Next ==
  \/ AddOp
  \/ \E e \in Event : SetReadyNew(e) \/ SetReady(e)
  \/ Fire
  \/ Ready

Spec == Init /\ [][Next]_vars

\* The loop of set_event_ready is straight-line code: it ends.
FairSpec == Spec /\ WF_vars(Fire)

-----------------------------------------------------------------------------
(* Properties *)

\* The guards an event has still to notify.
Pending(e) == IF e = firing THEN Range(todo) ELSE Range(guards[e])

\* The code's reading of its tables: defined and without guards.
Occurred == {e \in evs : IsReady(e) \/ e = firing}

TypeOK ==
  /\ needs \in [Op -> SUBSET Event]
  /\ status \in [Op -> {"New", "Guarded", "Ready", "Taken"}]
  /\ evs \subseteq Event
  /\ guards \in [Event -> Seq(Op)]
  /\ awaiting \in [Op -> SUBSET Event]
  /\ ready \in Seq(Op)
  /\ firing \in Event \cup {NoEvent}
  /\ todo \in Seq(Op)

\* The guard lists and the awaiting sets are two copies of one relation: an
\* operation is in the list of an event iff the event is in its awaiting set.
GuardsMatchAwaiting ==
  \A op \in Op, e \in Event : e \in awaiting[op] <=> op \in Pending(e)

\* A guard is visited once by the loop: no list holds an operation twice.
ListsWithoutDuplicates ==
  /\ \A e \in Event : IsInjective(guards[e])
  /\ IsInjective(todo)
  /\ IsInjective(ready)

\* Exactly the operations whose awaiting set is not empty are Guarded, and
\* the queue holds exactly the Ready ones: none is lost, none released twice.
StatusMatchesPlace ==
  /\ \A op \in Op : awaiting[op] # {} <=> status[op] = "Guarded"
  /\ \A op \in Op : status[op] = "Ready" <=> op \in Range(ready)

\* A guard awaits exactly those of its reads that have not been announced, or
\* that are being announced while the loop has not reached it.
AwaitsTheUnannounced ==
  \A op \in Op :
    /\ awaiting[op] \subseteq needs[op]
    /\ needs[op] \subseteq evs
    /\ needs[op] \ awaiting[op] \subseteq Occurred
    /\ awaiting[op] \cap Occurred \subseteq {firing}
    /\ status[op] = "New" => needs[op] = {}

\* The loop runs over the (non-empty) list of the event it fires.
LoopWellFormed ==
  /\ firing = NoEvent => todo = <<>>
  /\ firing # NoEvent => firing \in evs /\ ~ IsReady(firing)
  /\ Range(todo) \subseteq IF firing = NoEvent THEN {} ELSE Range(guards[firing])
  /\ \A e \in Event : ~ IsReady(e) => e \in evs

\* The inductive invariant of the handler.
IInv ==
  /\ TypeOK
  /\ GuardsMatchAwaiting
  /\ ListsWithoutDuplicates
  /\ StatusMatchesPlace
  /\ AwaitsTheUnannounced
  /\ LoopWellFormed

\* "Whenever an event occurs its list of guards becomes empty forever"
\* (b0_guard.ml:13): no step gives a guard to an event that has occurred.
EmptyForever ==
  [][\A e \in evs : IsReady(e) => guards'[e] = <<>>]_vars

Promise ==
  INSTANCE GuardSpec WITH stage <- status, occurred <- Occurred, queue <- ready

\* The handler implements GuardSpec: an operation is released once, only when
\* all it reads was announced, and handed out in the order of release.
KeepsPromise == Promise!Spec

\* An operation all of whose events were announced leaves the guards.
ReleasesAll == Promise!Released
=============================================================================
