----------------------------- MODULE GuardProofs -----------------------------
(***************************************************************************)
(* Proofs about Guard: the inductive invariant of the handler, and the     *)
(* refinement of GuardSpec, for any operations, files and units.           *)
(***************************************************************************)
EXTENDS Guard, SeqLemmas

-----------------------------------------------------------------------------
(* The inductive invariant *)

LEMMA InitIInv == Init => IInv
<1> SUFFICES ASSUME Init PROVE IInv
  OBVIOUS
<1>1. Range(<<>>) = {} /\ IsInjective(<<>>)
  BY DEF Range, IsInjective
<1> QED
  BY <1>1, NoEventIsNone, EmptySeq
  DEF Init, IInv, TypeOK, GuardsMatchAwaiting, ListsWithoutDuplicates,
      StatusMatchesPlace, AwaitsTheUnannounced, LoopWellFormed, Pending,
      Occurred, IsReady, Event

\* Adding an operation keeps the invariant.
LEMMA AddIInv ==
  ASSUME IInv, NEW op \in Op, NEW es \in SUBSET Event, Add(op, es)
  PROVE  IInv'
<1> DEFINE aw == GetAwaiting(es)
<1>1. /\ TypeOK /\ GuardsMatchAwaiting /\ ListsWithoutDuplicates
      /\ StatusMatchesPlace /\ AwaitsTheUnannounced /\ LoopWellFormed
  BY DEF IInv
<1>2. /\ firing = NoEvent
      /\ status[op] = "New"
      /\ needs' = [needs EXCEPT ![op] = es]
      /\ evs' = evs \cup es
      /\ awaiting' = [awaiting EXCEPT ![op] = aw]
      /\ firing' = firing
      /\ todo' = todo
  BY DEF Add
<1>3. aw = {e \in es : ~ (e \in evs /\ guards[e] = <<>>)}
  BY DEF GetAwaiting, IsReady
<1>4. aw \subseteq Event
  BY <1>3
<1>5. /\ awaiting[op] = {}
      /\ op \notin Range(ready)
      /\ \A e \in Event : op \notin Range(guards[e])
  BY <1>1, <1>2, NoEventIsNone
  DEF StatusMatchesPlace, GuardsMatchAwaiting, Pending
<1> HIDE DEF aw
<1>6. CASE aw = {}
  <2>1. /\ status' = [status EXCEPT ![op] = "Ready"]
        /\ ready' = Append(ready, op)
        /\ guards' = guards
    BY <1>6 DEF Add, AddReady, aw
  <2>2. /\ ready' \in Seq(Op)
        /\ Range(ready') = Range(ready) \cup {op}
        /\ IsInjective(ready')
    BY <1>1, <1>5, <2>1, RangeOfAppend DEF TypeOK, ListsWithoutDuplicates
  <2>3. TypeOK'
    BY <1>1, <1>2, <1>4, <2>1, <2>2 DEF TypeOK
  <2>4. GuardsMatchAwaiting'
    BY <1>1, <1>2, <1>5, <1>6, <2>1 DEF TypeOK, GuardsMatchAwaiting, Pending
  <2>5. ListsWithoutDuplicates'
    BY <1>1, <1>2, <2>1, <2>2 DEF ListsWithoutDuplicates
  <2>6. StatusMatchesPlace'
    BY <1>1, <1>2, <1>5, <1>6, <2>1, <2>2 DEF TypeOK, StatusMatchesPlace
  <2>7. AwaitsTheUnannounced'
    BY <1>1, <1>2, <1>3, <1>6, <2>1
    DEF TypeOK, AwaitsTheUnannounced, Occurred, IsReady
  <2>8. LoopWellFormed'
    BY <1>1, <1>2, <2>1 DEF LoopWellFormed, IsReady
  <2> QED
    BY <2>3, <2>4, <2>5, <2>6, <2>7, <2>8 DEF IInv
<1>7. CASE aw # {}
  <2>1. /\ status' = [status EXCEPT ![op] = "Guarded"]
        /\ ready' = ready
        /\ guards' = [e \in Event |-> IF e \in aw THEN <<op>> \o guards[e]
                                                  ELSE guards[e]]
    BY <1>7 DEF Add, AddGuard, aw
  <2>2. ASSUME NEW e \in Event
        PROVE  /\ guards'[e] \in Seq(Op)
               /\ Range(guards'[e]) =
                    Range(guards[e]) \cup (IF e \in aw THEN {op} ELSE {})
               /\ IsInjective(guards'[e])
               /\ guards'[e] = <<>> <=> (e \notin aw /\ guards[e] = <<>>)
    <3>1. guards[e] \in Seq(Op) /\ IsInjective(guards[e])
      BY <1>1 DEF TypeOK, ListsWithoutDuplicates
    <3>2. CASE e \in aw
      BY <1>5, <2>1, <3>1, <3>2, RangeOfCons
    <3>3. CASE e \notin aw
      BY <2>1, <3>1, <3>3
    <3> QED
      BY <3>2, <3>3
  <2>3. TypeOK'
    <3>1. guards' \in [Event -> Seq(Op)]
      BY <2>1, <2>2
    <3> QED
      BY <1>1, <1>2, <1>4, <2>1, <3>1 DEF TypeOK
  <2>4. GuardsMatchAwaiting'
    <3> SUFFICES ASSUME NEW o \in Op, NEW e \in Event
                 PROVE  e \in awaiting'[o] <=> o \in Range(guards'[e])
      BY <1>2, NoEventIsNone DEF GuardsMatchAwaiting, Pending
    <3>1. e \in awaiting[o] <=> o \in Range(guards[e])
      BY <1>1, <1>2, NoEventIsNone DEF GuardsMatchAwaiting, Pending
    <3> QED
      BY <1>1, <1>2, <1>5, <2>2, <3>1 DEF TypeOK
  <2>5. ListsWithoutDuplicates'
    BY <1>1, <1>2, <2>1, <2>2 DEF ListsWithoutDuplicates
  <2>6. StatusMatchesPlace'
    BY <1>1, <1>2, <1>5, <1>7, <2>1 DEF TypeOK, StatusMatchesPlace
  <2>7. AwaitsTheUnannounced'
    <3> SUFFICES ASSUME NEW o \in Op
                 PROVE  /\ awaiting'[o] \subseteq needs'[o]
                        /\ needs'[o] \subseteq evs'
                        /\ needs'[o] \ awaiting'[o] \subseteq Occurred'
                        /\ awaiting'[o] \cap Occurred' \subseteq {firing'}
                        /\ status'[o] = "New" => needs'[o] = {}
      BY DEF AwaitsTheUnannounced
    <3>1. Occurred = {e \in evs : guards[e] = <<>>}
      BY <1>1, <1>2, NoEventIsNone DEF Occurred, TypeOK, IsReady
    <3>2. Occurred' = {e \in evs \cup es : guards[e] = <<>> /\ e \notin aw}
      BY <1>1, <1>2, <2>2, NoEventIsNone DEF Occurred, TypeOK, IsReady
    <3>3. Occurred' = Occurred
      BY <1>3, <3>1, <3>2
    <3> QED
      BY <1>1, <1>2, <1>3, <2>1, <3>1, <3>3 DEF TypeOK, AwaitsTheUnannounced
  <2>8. LoopWellFormed'
    BY <1>1, <1>2, <1>3, <2>2 DEF LoopWellFormed, IsReady
  <2> QED
    BY <2>3, <2>4, <2>5, <2>6, <2>7, <2>8 DEF IInv
<1> QED
  BY <1>6, <1>7

\* Announcing an event nobody asked for keeps the invariant.
LEMMA SetReadyNewIInv ==
  ASSUME IInv, NEW e \in Event, SetReadyNew(e)
  PROVE  IInv'
<1>1. /\ TypeOK /\ GuardsMatchAwaiting /\ ListsWithoutDuplicates
      /\ StatusMatchesPlace /\ AwaitsTheUnannounced /\ LoopWellFormed
  BY DEF IInv
<1>2. /\ firing = NoEvent
      /\ e \notin evs
      /\ evs' = evs \cup {e}
      /\ UNCHANGED <<needs, status, guards, awaiting, ready, firing, todo>>
  BY DEF SetReadyNew
<1>3. TypeOK'
  BY <1>1, <1>2 DEF TypeOK
<1>4. GuardsMatchAwaiting'
  BY <1>1, <1>2 DEF GuardsMatchAwaiting, Pending
<1>5. ListsWithoutDuplicates' /\ StatusMatchesPlace'
  BY <1>1, <1>2 DEF ListsWithoutDuplicates, StatusMatchesPlace
<1>6. AwaitsTheUnannounced'
  BY <1>1, <1>2 DEF AwaitsTheUnannounced, Occurred, IsReady
<1>7. LoopWellFormed'
  BY <1>1, <1>2 DEF LoopWellFormed, IsReady
<1> QED
  BY <1>3, <1>4, <1>5, <1>6, <1>7 DEF IInv

\* Entering the loop keeps the invariant.
LEMMA SetReadyIInv ==
  ASSUME IInv, NEW e \in Event, SetReady(e)
  PROVE  IInv'
<1>1. /\ TypeOK /\ GuardsMatchAwaiting /\ ListsWithoutDuplicates
      /\ StatusMatchesPlace /\ AwaitsTheUnannounced /\ LoopWellFormed
  BY DEF IInv
<1>2. /\ firing = NoEvent
      /\ e \in evs
      /\ guards[e] # <<>>
      /\ firing' = e
      /\ todo' = guards[e]
      /\ UNCHANGED <<needs, status, evs, guards, awaiting, ready>>
  BY DEF SetReady, IsReady
<1>3. TypeOK'
  BY <1>1, <1>2 DEF TypeOK
<1>4. GuardsMatchAwaiting'
  BY <1>1, <1>2, NoEventIsNone DEF GuardsMatchAwaiting, Pending
<1>5. ListsWithoutDuplicates' /\ StatusMatchesPlace'
  BY <1>1, <1>2 DEF ListsWithoutDuplicates, StatusMatchesPlace
<1>6. AwaitsTheUnannounced'
  BY <1>1, <1>2, NoEventIsNone DEF TypeOK, AwaitsTheUnannounced, Occurred, IsReady
<1>7. LoopWellFormed'
  BY <1>1, <1>2, NoEventIsNone DEF LoopWellFormed, IsReady
<1> QED
  BY <1>3, <1>4, <1>5, <1>6, <1>7 DEF IInv

\* An iteration of the loop keeps the invariant.
LEMMA GuardSetEventReadyIInv ==
  ASSUME IInv, GuardSetEventReady
  PROVE  IInv'
<1> DEFINE op == Head(todo)
           left == awaiting[op] \ {firing}
<1>1. /\ TypeOK /\ GuardsMatchAwaiting /\ ListsWithoutDuplicates
      /\ StatusMatchesPlace /\ AwaitsTheUnannounced /\ LoopWellFormed
  BY DEF IInv
<1>2. /\ firing \in Event
      /\ todo # <<>>
      /\ awaiting' = [awaiting EXCEPT ![op] = left]
      /\ todo' = Tail(todo)
      /\ UNCHANGED <<needs, evs, guards, firing>>
  BY <1>1 DEF GuardSetEventReady, TypeOK
<1>3. /\ op \in Op
      /\ op \in Range(todo)
      /\ todo' \in Seq(Op)
      /\ Range(todo') = Range(todo) \ {op}
      /\ IsInjective(todo')
  BY <1>1, <1>2, RangeOfTail DEF TypeOK, ListsWithoutDuplicates
<1>4. firing \in awaiting[op]
  BY <1>1, <1>2, <1>3 DEF GuardsMatchAwaiting, Pending
<1>5. status[op] = "Guarded" /\ op \notin Range(ready)
  BY <1>1, <1>3, <1>4 DEF StatusMatchesPlace
<1>6. \/ left = {} /\ AddReady(op)
      \/ left # {} /\ UNCHANGED <<status, ready>>
  BY DEF GuardSetEventReady
<1> HIDE DEF op
<1>7. GuardsMatchAwaiting'
  <2> SUFFICES ASSUME NEW o \in Op, NEW e \in Event
               PROVE  e \in awaiting'[o] <=> o \in Pending(e)'
    BY DEF GuardsMatchAwaiting
  <2>1. e \in awaiting[o] <=> o \in Pending(e)
    BY <1>1 DEF GuardsMatchAwaiting
  <2> QED
    BY <1>1, <1>2, <1>3, <2>1 DEF TypeOK, Pending
<1>8. AwaitsTheUnannounced'
  <2>1. firing \in Occurred /\ Occurred' = Occurred
    BY <1>1, <1>2, NoEventIsNone DEF Occurred, IsReady, LoopWellFormed
  <2> SUFFICES ASSUME NEW o \in Op
               PROVE  /\ awaiting'[o] \subseteq needs'[o]
                      /\ needs'[o] \subseteq evs'
                      /\ needs'[o] \ awaiting'[o] \subseteq Occurred'
                      /\ awaiting'[o] \cap Occurred' \subseteq {firing'}
                      /\ status'[o] = "New" => needs'[o] = {}
    BY DEF AwaitsTheUnannounced
  <2>2. status'[o] = "New" => status[o] = "New"
    BY <1>1, <1>3, <1>6 DEF AddReady, TypeOK
  <2> QED
    BY <1>1, <1>2, <1>3, <2>1, <2>2 DEF TypeOK, AwaitsTheUnannounced
<1>9. LoopWellFormed'
  BY <1>1, <1>2, <1>3, NoEventIsNone DEF LoopWellFormed, IsReady
<1>10. CASE left = {} /\ AddReady(op)
  <2>1. /\ status' = [status EXCEPT ![op] = "Ready"]
        /\ ready' = Append(ready, op)
        /\ awaiting'[op] = {}
    BY <1>1, <1>2, <1>3, <1>10 DEF AddReady, TypeOK
  <2>2. /\ ready' \in Seq(Op)
        /\ Range(ready') = Range(ready) \cup {op}
        /\ IsInjective(ready')
    BY <1>1, <1>3, <1>5, <2>1, RangeOfAppend DEF TypeOK, ListsWithoutDuplicates
  <2>3. TypeOK'
    BY <1>1, <1>2, <1>3, <2>1, <2>2 DEF TypeOK
  <2>4. ListsWithoutDuplicates'
    BY <1>1, <1>2, <1>3, <2>2 DEF ListsWithoutDuplicates
  <2>5. StatusMatchesPlace'
    BY <1>1, <1>2, <1>3, <1>5, <2>1, <2>2 DEF TypeOK, StatusMatchesPlace
  <2> QED
    BY <1>7, <1>8, <1>9, <2>3, <2>4, <2>5 DEF IInv
<1>11. CASE left # {} /\ UNCHANGED <<status, ready>>
  <2>1. TypeOK'
    BY <1>1, <1>2, <1>3, <1>11 DEF TypeOK
  <2>2. ListsWithoutDuplicates'
    BY <1>1, <1>2, <1>3, <1>11 DEF ListsWithoutDuplicates
  <2>3. StatusMatchesPlace'
    BY <1>1, <1>2, <1>3, <1>5, <1>11 DEF TypeOK, StatusMatchesPlace
  <2> QED
    BY <1>7, <1>8, <1>9, <2>1, <2>2, <2>3 DEF IInv
<1> QED
  BY <1>6, <1>10, <1>11

\* Leaving the loop keeps the invariant.
LEMMA EvSetReadyIInv ==
  ASSUME IInv, EvSetReady
  PROVE  IInv'
<1>1. /\ TypeOK /\ GuardsMatchAwaiting /\ ListsWithoutDuplicates
      /\ StatusMatchesPlace /\ AwaitsTheUnannounced /\ LoopWellFormed
  BY DEF IInv
<1>2. /\ firing \in Event
      /\ todo = <<>>
      /\ guards' = [guards EXCEPT ![firing] = <<>>]
      /\ firing' = NoEvent
      /\ UNCHANGED <<needs, status, evs, awaiting, ready, todo>>
  BY <1>1 DEF EvSetReady, TypeOK
<1>3. <<>> \in Seq(Op) /\ Range(<<>>) = {} /\ IsInjective(<<>>)
  BY EmptySeq DEF Range, IsInjective
<1>4. TypeOK'
  BY <1>1, <1>2, <1>3 DEF TypeOK
<1>5. GuardsMatchAwaiting'
  <2> SUFFICES ASSUME NEW op \in Op, NEW e \in Event
               PROVE  e \in awaiting[op] <=> op \in Range(guards'[e])
    BY <1>2, NoEventIsNone DEF GuardsMatchAwaiting, Pending
  <2>1. e \in awaiting[op] <=> op \in Pending(e)
    BY <1>1 DEF GuardsMatchAwaiting
  <2> QED
    BY <1>1, <1>2, <1>3, <2>1 DEF TypeOK, Pending
<1>6. ListsWithoutDuplicates'
  BY <1>1, <1>2, <1>3 DEF ListsWithoutDuplicates, TypeOK
<1>7. StatusMatchesPlace'
  BY <1>1, <1>2 DEF StatusMatchesPlace
<1>8. AwaitsTheUnannounced'
  <2>1. Occurred' = Occurred
    BY <1>1, <1>2, NoEventIsNone DEF Occurred, IsReady, TypeOK, LoopWellFormed
  <2>2. \A op \in Op : firing \notin awaiting[op]
    BY <1>1, <1>2, <1>3 DEF GuardsMatchAwaiting, Pending
  <2> QED
    BY <1>1, <1>2, <2>1, <2>2 DEF AwaitsTheUnannounced
<1>9. LoopWellFormed'
  BY <1>1, <1>2, <1>3 DEF LoopWellFormed, IsReady, TypeOK
<1> QED
  BY <1>4, <1>5, <1>6, <1>7, <1>8, <1>9 DEF IInv

\* Taking the oldest ready operation keeps the invariant.
LEMMA ReadyIInv ==
  ASSUME IInv, Ready
  PROVE  IInv'
<1> DEFINE op == Head(ready)
<1>1. /\ TypeOK /\ GuardsMatchAwaiting /\ ListsWithoutDuplicates
      /\ StatusMatchesPlace /\ AwaitsTheUnannounced /\ LoopWellFormed
  BY DEF IInv
<1>2. /\ firing = NoEvent
      /\ ready # <<>>
      /\ status' = [status EXCEPT ![op] = "Taken"]
      /\ ready' = Tail(ready)
      /\ UNCHANGED <<needs, evs, guards, awaiting, firing, todo>>
  BY DEF Ready
<1>3. /\ op \in Op
      /\ op \in Range(ready)
      /\ ready' \in Seq(Op)
      /\ Range(ready') = Range(ready) \ {op}
      /\ IsInjective(ready')
  BY <1>1, <1>2, RangeOfTail DEF TypeOK, ListsWithoutDuplicates
<1> HIDE DEF op
<1>4. status[op] = "Ready"
  BY <1>1, <1>3 DEF StatusMatchesPlace
<1>5. TypeOK'
  BY <1>1, <1>2, <1>3 DEF TypeOK
<1>6. GuardsMatchAwaiting'
  BY <1>1, <1>2 DEF GuardsMatchAwaiting, Pending
<1>7. ListsWithoutDuplicates'
  BY <1>1, <1>2, <1>3 DEF ListsWithoutDuplicates
<1>8. StatusMatchesPlace'
  BY <1>1, <1>2, <1>3, <1>4 DEF TypeOK, StatusMatchesPlace
<1>9. AwaitsTheUnannounced'
  <2>1. Occurred' = Occurred
    BY <1>2 DEF Occurred, IsReady
  <2>2. \A o \in Op : status'[o] = "New" => status[o] = "New"
    BY <1>1, <1>2, <1>3 DEF TypeOK
  <2> QED
    BY <1>1, <1>2, <2>1, <2>2 DEF AwaitsTheUnannounced
<1>10. LoopWellFormed'
  BY <1>1, <1>2 DEF LoopWellFormed, IsReady
<1> QED
  BY <1>5, <1>6, <1>7, <1>8, <1>9, <1>10 DEF IInv

\* Every step keeps the invariant.
LEMMA NextIInv == IInv /\ [Next]_vars => IInv'
<1> SUFFICES ASSUME IInv, [Next]_vars PROVE IInv'
  OBVIOUS
<1>1. CASE AddOp
  <2>1. PICK op \in Op, es \in SUBSET Event : Add(op, es)
    BY <1>1 DEF AddOp, Event
  <2> QED
    BY <2>1, AddIInv
<1>2. CASE \E e \in Event : SetReadyNew(e) \/ SetReady(e)
  BY <1>2, SetReadyNewIInv, SetReadyIInv
<1>3. CASE Fire
  BY <1>3, GuardSetEventReadyIInv, EvSetReadyIInv DEF Fire
<1>4. CASE Ready
  BY <1>4, ReadyIInv
<1>5. CASE UNCHANGED vars
  BY <1>5 DEF vars, IInv, TypeOK, GuardsMatchAwaiting, ListsWithoutDuplicates,
     StatusMatchesPlace, AwaitsTheUnannounced, LoopWellFormed, Pending,
     Occurred, IsReady
<1> QED
  BY <1>1, <1>2, <1>3, <1>4, <1>5 DEF Next

\* The handler's tables agree with each other in every reachable state
\* (b0_guard.ml:60-151): lists and awaiting sets, statuses and the queue, and
\* an operation awaits exactly the events that were not announced.
THEOREM HandlerInvariant == Spec => []IInv
<1> QED
  BY InitIInv, NextIInv, PTL DEF Spec

\* The types of the handler's state.
THEOREM TypeCorrect == Spec => []TypeOK
<1>1. IInv => TypeOK
  BY DEF IInv
<1> QED
  BY <1>1, HandlerInvariant, PTL

\* The two copies of the waiting relation never diverge.
THEOREM ListsAndSetsAgree == Spec => []GuardsMatchAwaiting
<1>1. IInv => GuardsMatchAwaiting
  BY DEF IInv
<1> QED
  BY <1>1, HandlerInvariant, PTL

\* An operation is guarded, queued or handed out: never lost, never twice.
THEOREM NoOperationLost == Spec => []StatusMatchesPlace
<1>1. IInv => StatusMatchesPlace
  BY DEF IInv
<1> QED
  BY <1>1, HandlerInvariant, PTL

\* "Whenever an event occurs its list of guards becomes empty forever"
\* (b0_guard.ml:13-14).
THEOREM OccurredForever == Spec => EmptyForever
<1> DEFINE Kept == \A e \in evs : IsReady(e) => guards'[e] = <<>>
<1>1. ASSUME IInv, [Next]_vars PROVE [Kept]_vars
  <2> SUFFICES ASSUME Next, NEW e \in evs, guards[e] = <<>>
               PROVE  guards'[e] = <<>>
    BY <1>1 DEF IsReady
  <2>1. e \in Event /\ guards \in [Event -> Seq(Op)]
    BY <1>1 DEF IInv, TypeOK
  <2>2. CASE AddOp
    <3>1. PICK op \in Op, es \in (SUBSET File) \cup (SUBSET Unit) : Add(op, es)
      BY <2>2 DEF AddOp
    <3> QED
      BY <2>1, <3>1 DEF Add, AddGuard, GetAwaiting, IsReady
  <2>3. CASE \E x \in Event : SetReadyNew(x) \/ SetReady(x)
    BY <2>3 DEF SetReadyNew, SetReady
  <2>4. CASE Fire
    BY <2>1, <2>4 DEF Fire, GuardSetEventReady, EvSetReady
  <2>5. CASE Ready
    BY <2>5 DEF Ready
  <2> QED
    BY <2>2, <2>3, <2>4, <2>5 DEF Next
<1> QED
  BY <1>1, HandlerInvariant, PTL DEF Spec, EmptyForever

-----------------------------------------------------------------------------
(* Refinement of GuardSpec *)

\* Every step of the handler is a step of the promise, or none: entering the
\* loop is the occurrence of the event, an iteration the release of an
\* operation if it was its last event, leaving the loop is invisible.
LEMMA StepKeepsPromise ==
  ASSUME IInv, [Next]_vars
  PROVE  [Promise!Next]_(Promise!vars)
<1>1. /\ TypeOK /\ GuardsMatchAwaiting /\ ListsWithoutDuplicates
      /\ StatusMatchesPlace /\ AwaitsTheUnannounced /\ LoopWellFormed
  BY DEF IInv
<1> USE DEF Promise!vars, Promise!Event
<1>2. CASE AddOp
  <2>1. PICK op \in Op, es \in (SUBSET File) \cup (SUBSET Unit) : Add(op, es)
    BY <1>2 DEF AddOp
  <2>2. Occurred = {e \in evs : guards[e] = <<>>}
    BY <1>1, <2>1, NoEventIsNone DEF Add, Occurred, IsReady, TypeOK
  <2>3. GetAwaiting(es) = es \ Occurred
    BY <2>2 DEF GetAwaiting, IsReady
  <2>4. Occurred' = Occurred
    <3>1. \A e \in Event : guards'[e] = <<>> <=>
                             e \notin GetAwaiting(es) /\ guards[e] = <<>>
      <4>1. CASE GetAwaiting(es) = {}
        BY <2>1, <4>1 DEF Add
      <4>2. CASE GetAwaiting(es) # {}
        <5>1. \A e \in Event : guards[e] \in Seq(Op) => <<op>> \o guards[e] # <<>>
          BY RangeOfCons
        <5> QED
          BY <1>1, <2>1, <4>2, <5>1 DEF Add, AddGuard, TypeOK
      <4> QED
        BY <4>1, <4>2
    <3>2. /\ firing' = NoEvent
          /\ evs' = evs \cup es
          /\ evs' \subseteq Event
      BY <1>1, <2>1 DEF Add, TypeOK, Event
    <3>3. Occurred' = {e \in evs' : guards'[e] = <<>>}
      BY <3>2, NoEventIsNone DEF Occurred, IsReady
    <3> QED
      BY <2>2, <2>3, <3>1, <3>2, <3>3
  <2>5. Promise!Add(op, es)
    BY <2>1, <2>3, <2>4 DEF Add, AddReady, Promise!Add
  <2> QED
    BY <2>1, <2>5 DEF Promise!Next
<1>3. ASSUME NEW e \in Event, SetReadyNew(e) PROVE Promise!Next
  <2>1. Occurred' = Occurred \cup {e}
    <3>1. guards[e] = <<>>
      BY <1>1, <1>3 DEF LoopWellFormed, SetReadyNew, IsReady
    <3> QED
      BY <1>3, <3>1 DEF SetReadyNew, Occurred, IsReady
  <2>2. Promise!Occur(e)
    BY <1>3, <2>1 DEF SetReadyNew, Promise!Occur
  <2> QED
    BY <2>2 DEF Promise!Next, Event
<1>4. ASSUME NEW e \in Event, SetReady(e) PROVE Promise!Next
  <2>1. Occurred' = Occurred \cup {e}
    BY <1>1, <1>4, NoEventIsNone DEF SetReady, Occurred, IsReady, TypeOK
  <2>2. Promise!Occur(e)
    BY <1>4, <2>1 DEF SetReady, Promise!Occur
  <2> QED
    BY <2>2 DEF Promise!Next, Event
<1>5. CASE GuardSetEventReady
  <2> DEFINE op == Head(todo)
             left == awaiting[op] \ {firing}
  <2>1. op \in Op /\ op \in Range(todo)
    BY <1>1, <1>5, RangeOfTail
    DEF TypeOK, ListsWithoutDuplicates, GuardSetEventReady
  <2>2. firing \in awaiting[op] /\ status[op] = "Guarded"
    BY <1>1, <1>5, <2>1
    DEF GuardsMatchAwaiting, Pending, StatusMatchesPlace, TypeOK, GuardSetEventReady
  <2>3. Occurred' = Occurred /\ needs' = needs
    BY <1>5 DEF GuardSetEventReady, Occurred, IsReady
  <2>4. \/ left = {} /\ AddReady(op)
        \/ left # {} /\ UNCHANGED <<status, ready>>
    BY <1>5 DEF GuardSetEventReady
  <2> HIDE DEF op
  <2>5. CASE left = {} /\ AddReady(op)
    <3>1. firing \in Occurred
      BY <1>1, <1>5 DEF GuardSetEventReady, LoopWellFormed, Occurred
    <3>2. needs[op] \subseteq Occurred
      BY <1>1, <2>1, <2>5, <3>1 DEF AwaitsTheUnannounced
    <3>3. Promise!Release(op)
      BY <2>2, <2>3, <2>5, <3>2 DEF AddReady, Promise!Release
    <3> QED
      BY <2>1, <3>3 DEF Promise!Next
  <2>6. CASE left # {} /\ UNCHANGED <<status, ready>>
    BY <2>3, <2>6
  <2> QED
    BY <2>4, <2>5, <2>6
<1>6. CASE EvSetReady
  <2>1. Occurred' = Occurred
    BY <1>1, <1>6, NoEventIsNone
    DEF EvSetReady, Occurred, IsReady, TypeOK, LoopWellFormed
  <2> QED
    BY <1>6, <2>1 DEF EvSetReady
<1>7. CASE Ready
  <2>1. Occurred' = Occurred
    BY <1>7 DEF Ready, Occurred, IsReady
  <2>2. Promise!Take
    BY <1>7, <2>1 DEF Ready, Promise!Take
  <2> QED
    BY <2>2 DEF Promise!Next
<1>8. CASE UNCHANGED vars
  BY <1>8 DEF vars, Occurred, IsReady
<1> QED
  BY <1>2, <1>3, <1>4, <1>5, <1>6, <1>7, <1>8 DEF Next, Fire

\* The handler implements its promise (GuardSpec), whatever the operations,
\* the files and the units: once, after all they read, in order of release.
THEOREM Refinement == Spec => KeepsPromise
<1>1. Init => Promise!Init
  BY NoEventIsNone DEF Init, Promise!Init, Occurred, IsReady
<1> QED
  BY <1>1, HandlerInvariant, StepKeepsPromise, PTL
  DEF Spec, KeepsPromise, Promise!Spec
=============================================================================
