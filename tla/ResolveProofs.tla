---------------------------- MODULE ResolveProofs ----------------------------
(***************************************************************************)
(* Proofs about Resolve: the statuses that the loops assert, the outcomes  *)
(* they give, and that each of their steps brings them closer to their     *)
(* end, for any units, files and blocked operations.                       *)
(***************************************************************************)
EXTENDS Resolve, SeqLemmas

-----------------------------------------------------------------------------
(* The inductive invariant *)

Left == Range(gs) \cup Range(unr)
Over == {"Failed", "Aborted"}

\* A guard leaves the lists with an outcome for its unit.
Resolved == \A g \in Guards : g \in Left \/ StatusOf(g) \in Over

\* The guards still to visit.  Those of aborted units leave the lists before the
\* second loop ends: a round that resolves none has kept none of them.
ToVisit ==
  \A g \in Range(gs) :
    StatusOf(g) \in IF pass \in {"abort", "fault"} THEN {"Active", "Aborted"}
                                                  ELSE {"Active", "Failed"}
Visited ==
  \A g \in Range(unr) :
    \/ StatusOf(g) = "Active"
    \/ StatusOf(g) = "Aborted" /\ pass \in {"abort", "fault"} /\ count # 0
    \/ StatusOf(g) = "Failed" /\ pass = "cycles"

\* The last loop keeps no guard, and there is none when all is done.
Emptied ==
  /\ pass \in {"never", "done"} => unr = <<>>
  /\ pass = "done" => gs = <<>>

\* The files recorded as never written are those of units that are over.
NeverWritten ==
  \A f \in never : \E g \in Guards : f \in guard[g].writes /\ StatusOf(g) \in Over

IInv ==
  /\ TypeOK
  /\ Resolved /\ ToVisit /\ Visited /\ Emptied
  /\ NeverWritten /\ AbortedHasCause

\* What is left to do: the guards left and those that this round resolved, for
\* which the loops start over; then the loops; then the guards to visit.
Work == Len(gs) + Len(unr) + count
LoopsAfter ==
  IF pass = "known" THEN 4 ELSE IF pass = "abort" THEN 3
  ELSE IF pass = "cycles" THEN 2 ELSE IF pass = "never" THEN 1 ELSE 0
Closer ==
  \/ Work' < Work
  \/ Work' = Work /\ LoopsAfter' < LoopsAfter
  \/ Work' = Work /\ LoopsAfter' = LoopsAfter /\ Len(gs') < Len(gs)
Decreases == [][Closer]_vars

-----------------------------------------------------------------------------
(* The lists *)

\* The loop takes the first guard of its list.
LEMMA VisitHead ==
  ASSUME TypeOK, gs # <<>>, Next1
  PROVE  /\ Head(gs) \in Guards /\ Head(gs) \in Range(gs)
         /\ gs' \in Seq(Guards)
         /\ Range(gs) = Range(gs') \cup {Head(gs)}
         /\ Len(gs') \in Nat /\ Len(gs) = Len(gs') + 1
<1> DEFINE t == Tail(gs)
<1>1. gs \in Seq(Guards) /\ gs' = t
  BY DEF TypeOK, Next1
<1>2. /\ Head(gs) \in Guards
      /\ t \in Seq(Guards)
      /\ Len(t) = Len(gs) - 1
      /\ \A i \in 1 .. Len(t) : t[i] = gs[i + 1]
  BY <1>1, HeadTailProperties
<1>3. /\ DOMAIN gs = 1 .. Len(gs)
      /\ DOMAIN t = 1 .. Len(t)
      /\ Len(gs) \in Nat \ {0}
      /\ Head(gs) = gs[1]
  BY <1>1, <1>2, LenProperties, EmptySeq
<1> HIDE DEF t
<1>4. Head(gs) \in Range(gs)
  BY <1>3 DEF Range
<1>5. \A g \in Range(t) : g \in Range(gs)
  BY <1>2, <1>3 DEF Range
<1>6. \A g \in Range(gs) : g = Head(gs) \/ g \in Range(t)
  <2> SUFFICES ASSUME NEW i \in DOMAIN gs, i # 1
               PROVE  gs[i] \in Range(t)
    BY <1>3 DEF Range
  <2>1. i - 1 \in DOMAIN t /\ t[i - 1] = gs[i]
    BY <1>2, <1>3
  <2> QED
    BY <2>1 DEF Range
<1> QED
  BY <1>1, <1>2, <1>3, <1>4, <1>5, <1>6

\* It may keep the guard.
LEMMA KeepHead ==
  ASSUME TypeOK, NEW g \in Guards, Keep(g)
  PROVE  /\ unr' \in Seq(Guards)
         /\ Range(unr') = Range(unr) \cup {g}
         /\ Len(unr') = Len(unr) + 1
<1>1. unr \in Seq(Guards) /\ unr' = <<g>> \o unr
  BY DEF TypeOK, Keep
<1>2. <<g>> \in Seq(Guards) /\ Len(<<g>>) = 1
  OBVIOUS
<1>3. Len(<<g>> \o unr) = Len(unr) + 1
  BY <1>1, <1>2, ConcatProperties, LenProperties
<1> QED
  BY <1>1, <1>3, RangeOfCons

\* What every step of a loop on its first guard does to the lists: the guard is
\* kept, or it is resolved.
Step(g) ==
  /\ g \in Guards /\ g \in Range(gs)
  /\ gs' \in Seq(Guards) /\ unr' \in Seq(Guards)
  /\ Range(gs) = Range(gs') \cup {g}
  /\ Len(gs') \in Nat /\ Len(unr) \in Nat /\ Len(gs) = Len(gs') + 1
Kept(g) ==
  /\ Step(g)
  /\ Range(unr') = Range(unr) \cup {g} /\ Len(unr') = Len(unr) + 1
Dropped(g) ==
  /\ Step(g)
  /\ unr' = unr

LEMMA StepKept ==
  ASSUME TypeOK, gs # <<>>, Next1, Keep(Head(gs))
  PROVE  Kept(Head(gs))
<1>1. unr \in Seq(Guards) /\ Len(unr) \in Nat
  BY LenProperties DEF TypeOK
<1> QED
  BY <1>1, VisitHead, KeepHead DEF Kept, Step

LEMMA StepDropped ==
  ASSUME TypeOK, gs # <<>>, Next1, UNCHANGED unr
  PROVE  Dropped(Head(gs))
<1>1. unr \in Seq(Guards) /\ Len(unr) \in Nat
  BY LenProperties DEF TypeOK
<1> QED
  BY <1>1, VisitHead DEF Dropped, Step

LEMMA InLists == TypeOK => Range(gs) \subseteq Guards /\ Range(unr) \subseteq Guards
BY LenProperties DEF TypeOK, Range

\* The list of the next loop is what the last one kept.
LEMMA EmptyRange == Range(<<>>) = {}
BY DEF Range

NextLoop ==
  /\ gs = <<>>
  /\ gs' = unr /\ unr' = <<>> /\ count' = 0

-----------------------------------------------------------------------------
(* The steps *)

LEMMA InitIInv == Init => IInv
<1> SUFFICES ASSUME Init PROVE IInv
  OBVIOUS
<1>1. TypeOK
  <2>1. gs \in Seq(Guards) /\ unr \in Seq(Guards)
    BY NIsPos DEF Init, Guards
  <2> QED
    BY <2>1 DEF Init, TypeOK, Status
<1>2. Range(gs) = Guards /\ Range(unr) = {}
  BY EmptyRange DEF Init, Range
<1> QED
  BY <1>1, <1>2 DEF Init, IInv, Resolved, Left, ToVisit, Visited, Emptied, NeverWritten,
     AbortedHasCause, Over

\* A step that keeps a guard of an active unit changes no status.
LEMMA KeepIInv ==
  ASSUME IInv, gs # <<>>, pass \in {"known", "abort", "cycles"},
         StatusOf(Head(gs)) = "Active", Keep(Head(gs)), Next1,
         UNCHANGED <<guard, ustatus, pass, never, count>>
  PROVE  IInv' /\ Closer
<1>0. PICK g0 \in Guards : g0 = Head(gs)
  BY VisitHead DEF IInv
<1>1. Kept(g0)
  BY <1>0, StepKept DEF IInv
<1>2. TypeOK'
  BY <1>1 DEF IInv, TypeOK, Kept, Step
<1>3. \A g \in Guards : StatusOf(g)' = StatusOf(g)
  BY DEF StatusOf
<1>4. Resolved'
  BY <1>1, <1>3 DEF IInv, Resolved, Left, Kept, Step
<1>5. ToVisit' /\ Visited'
  BY <1>0, <1>1, <1>3 DEF IInv, ToVisit, Visited, Kept, Step, StatusOf
<1>6. Emptied'
  BY DEF Emptied
<1>7. NeverWritten' /\ AbortedHasCause'
  BY DEF IInv, NeverWritten, AbortedHasCause, StatusOf
<1>8. Closer
  BY <1>1 DEF Closer, Work, LoopsAfter, Kept, Step, IInv, TypeOK
<1> QED
  BY <1>2, <1>4, <1>5, <1>6, <1>7, <1>8 DEF IInv

\* A guard of a unit that is over is dropped.  Its writes may be recorded, and the
\* step is counted, except in the first loop.
LEMMA DropIInv ==
  ASSUME IInv, gs # <<>>, pass \in {"known", "abort", "cycles"},
         IF pass = "abort" THEN StatusOf(Head(gs)) = "Aborted" ELSE StatusOf(Head(gs)) = "Failed",
         never' = never \/ AddNeverWritten(Head(gs)), Next1,
         count' = IF pass = "known" THEN count ELSE count + 1,
         UNCHANGED <<guard, ustatus, pass, unr>>
  PROVE  IInv' /\ Closer
<1>0. PICK g0 \in Guards : g0 = Head(gs)
  BY VisitHead DEF IInv
<1>1. Dropped(g0)
  BY <1>0, StepDropped DEF IInv
<1>2. StatusOf(g0) \in Over
  BY <1>0 DEF Over
<1>3. never' \subseteq never \cup guard[g0].writes
  BY <1>0 DEF AddNeverWritten
<1>4. guard[g0] \in Shape
  BY <1>1 DEF IInv, TypeOK, Dropped, Step
<1>5. guard[g0].writes \subseteq File
  BY <1>4, ShapesOfGuards
<1>6. TypeOK'
  BY <1>1, <1>3, <1>5 DEF IInv, TypeOK, Dropped, Step
<1>7. \A g \in Guards : StatusOf(g)' = StatusOf(g)
  BY DEF StatusOf
<1>8. Resolved'
  BY <1>1, <1>2, <1>7 DEF IInv, Resolved, Left, Dropped, Step
<1>9. ToVisit' /\ Visited'
  BY <1>1, <1>7 DEF IInv, TypeOK, ToVisit, Visited, Dropped, Step, StatusOf
<1>10. Emptied'
  BY DEF Emptied
<1>11. NeverWritten'
  <2>1. g0 \in Guards
    BY <1>1 DEF Dropped, Step
  <2> QED
    BY <1>2, <1>3, <1>7, <2>1 DEF IInv, NeverWritten
<1>12. AbortedHasCause'
  BY DEF IInv, AbortedHasCause, StatusOf
<1>13. Closer
  <2>1. CASE pass = "known"
    BY <1>1, <2>1 DEF Closer, Work, Dropped, Step, IInv, TypeOK
  <2>2. CASE pass # "known"
    BY <1>1, <2>2 DEF Closer, Work, LoopsAfter, Dropped, Step, IInv, TypeOK
  <2> QED
    BY <2>1, <2>2
<1> QED
  BY <1>6, <1>8, <1>9, <1>10, <1>11, <1>12, <1>13 DEF IInv

\* The end of a loop: the lists change roles.
LEMMA EndIInv ==
  ASSUME IInv, NextLoop,
         \/ pass = "known" /\ pass' = "abort"
         \/ pass = "abort" /\ count # 0 /\ pass' = "abort"
         \/ pass = "abort" /\ count = 0 /\ pass' = "cycles"
         \/ pass = "cycles" /\ count = 0 /\ pass' = "never"
         \/ pass = "cycles" /\ count # 0 /\ unr = <<>> /\ pass' = "done"
         \/ pass = "cycles" /\ count # 0 /\ pass' = "known",
         UNCHANGED <<guard, ustatus, never>>
  PROVE  IInv' /\ Closer
<1>1. /\ gs = <<>> /\ gs' = unr /\ unr' = <<>> /\ count' = 0
      /\ Range(gs') = Range(unr) /\ Range(unr') = {} /\ Range(gs) = {}
      /\ Len(gs) = 0 /\ Len(unr') = 0
      /\ unr \in Seq(Guards) /\ Len(unr) \in Nat /\ <<>> \in Seq(Guards)
  BY EmptyRange, EmptySeq, LenProperties DEF NextLoop, IInv, TypeOK
<1>2. TypeOK'
  BY <1>1 DEF IInv, TypeOK
<1>3. \A g \in Guards : StatusOf(g)' = StatusOf(g)
  BY DEF StatusOf
<1>4. Resolved'
  BY <1>1, <1>3 DEF IInv, Resolved, Left
<1>5. ToVisit'
  BY <1>1, <1>3 DEF IInv, ToVisit, Visited, StatusOf
<1>6. Visited' /\ Emptied'
  BY <1>1 DEF Visited, Emptied
<1>7. NeverWritten' /\ AbortedHasCause'
  BY DEF IInv, NeverWritten, AbortedHasCause, StatusOf
<1>8. Closer
  BY <1>1 DEF Closer, Work, LoopsAfter, IInv, TypeOK
<1> QED
  BY <1>2, <1>4, <1>5, <1>6, <1>7, <1>8 DEF IInv

\* What the statuses do in a step: a unit gets an outcome and keeps it.
Outcomes == \A u \in Unit : ustatus[u] # "Active" => ustatus'[u] = ustatus[u]

LEMMA StillOver ==
  ASSUME IInv, Outcomes, guard' = guard
  PROVE  /\ \A g \in Guards : StatusOf(g) # "Active" => StatusOf(g)' = StatusOf(g)
         /\ NeverWritten => \A f \in never : \E g \in Guards :
                               f \in guard'[g].writes /\ StatusOf(g)' \in Over
         /\ \A u \in Unit : ustatus[u] = "Aborted" =>
              \E g \in Guards :
                /\ guard'[g].unit = u
                /\ \/ \E h \in Guards : /\ guard'[h].unit # u
                                        /\ StatusOf(h)' \in Over
                                        /\ guard'[g].files \cap guard'[h].writes # {}
                   \/ \E v \in guard'[g].units \ {u} : ustatus'[v] \in Over
<1>1. \A g \in Guards : guard[g].unit \in Unit /\ guard[g].units \subseteq Unit
  BY ShapesOfGuards DEF IInv, TypeOK
<1>2. \A g \in Guards : StatusOf(g) # "Active" => StatusOf(g)' = StatusOf(g)
  BY <1>1 DEF StatusOf, Outcomes
<1>3. NeverWritten => \A f \in never : \E g \in Guards :
                        f \in guard'[g].writes /\ StatusOf(g)' \in Over
  BY <1>2 DEF NeverWritten, Over
<1>4. ASSUME NEW u \in Unit, ustatus[u] = "Aborted"
      PROVE  \E g \in Guards :
                /\ guard'[g].unit = u
                /\ \/ \E h \in Guards : /\ guard'[h].unit # u
                                        /\ StatusOf(h)' \in Over
                                        /\ guard'[g].files \cap guard'[h].writes # {}
                   \/ \E v \in guard'[g].units \ {u} : ustatus'[v] \in Over
  <2>1. PICK g \in Guards :
          /\ guard[g].unit = u
          /\ \/ \E h \in Guards : /\ guard[h].unit # u
                                  /\ StatusOf(h) \in {"Failed", "Aborted"}
                                  /\ guard[g].files \cap guard[h].writes # {}
             \/ \E v \in guard[g].units \ {u} : ustatus[v] \in {"Failed", "Aborted"}
    BY <1>4 DEF IInv, AbortedHasCause
  <2>2. ASSUME NEW h \in Guards, StatusOf(h) \in {"Failed", "Aborted"}
        PROVE  StatusOf(h)' \in Over
    BY <1>2, <2>2 DEF Over
  <2>3. ASSUME NEW v \in guard[g].units, ustatus[v] \in {"Failed", "Aborted"}
        PROVE  ustatus'[v] \in Over
    BY <1>1, <2>3 DEF Over, Outcomes
  <2> QED
    BY <2>1, <2>2, <2>3
<1> QED
  BY <1>2, <1>3, <1>4

\* A unit is aborted: it was active, and what the guard awaits is of another one.
LEMMA AbortIInv ==
  ASSUME IInv, Abort
  PROVE  IInv' /\ Outcomes /\ Closer
<1>0. PICK g0 \in Guards : g0 = Head(gs)
  BY VisitHead DEF IInv, Abort, At
<1>1. Dropped(g0) /\ pass = "abort" /\ pass' = pass /\ count' = count + 1
  BY <1>0, StepDropped DEF IInv, Abort, At
<1>2. /\ StatusOf(g0) = "Active" /\ AwaitsFailure(g0)
      /\ ustatus' = [ustatus EXCEPT ![guard[g0].unit] = "Aborted"]
      /\ never' = never \cup guard[g0].writes
      /\ guard' = guard
  BY <1>0 DEF Abort, AddNeverWritten
<1>3. g0 \in Guards /\ g0 \in Range(gs)
  BY <1>1 DEF Dropped, Step
<1>4. /\ \A g \in Guards : guard[g].unit \in Unit /\ guard[g].units \subseteq Unit
      /\ \A g \in Guards : guard[g].writes \subseteq File
  BY ShapesOfGuards DEF IInv, TypeOK
<1>5. TypeOK'
  <2>1. ustatus' \in [Unit -> Status]
    BY <1>2, <1>3, <1>4 DEF IInv, TypeOK, Status
  <2> QED
    BY <1>1, <1>2, <1>3, <1>4, <2>1 DEF IInv, TypeOK, Dropped, Step
<1>6. \A u \in Unit : ustatus'[u] = IF u = guard[g0].unit THEN "Aborted" ELSE ustatus[u]
  BY <1>2, <1>3, <1>4 DEF IInv, TypeOK
<1>7. Outcomes
  BY <1>2, <1>6 DEF Outcomes, StatusOf
<1>8. \A g \in Guards : StatusOf(g)' = IF guard[g].unit = guard[g0].unit THEN "Aborted" ELSE StatusOf(g)
  BY <1>2, <1>4, <1>6 DEF StatusOf
<1>9. Resolved'
  BY <1>1, <1>3, <1>8 DEF IInv, Resolved, Left, Dropped, Step, Over
<1>10. ToVisit'
  BY <1>1, <1>8, InLists DEF IInv, ToVisit, Dropped, Step
<1>11. Visited'
  BY <1>1, <1>8, InLists DEF IInv, TypeOK, Visited, Dropped, Step
<1>12. Emptied'
  BY <1>1 DEF Emptied
<1>13. NeverWritten'
  <2>1. StatusOf(g0)' \in Over
    BY <1>3, <1>8 DEF Over
  <2> QED
    BY <1>2, <1>3, <1>7, <2>1, StillOver DEF IInv, NeverWritten
<1>14. AbortedHasCause'
  <2> SUFFICES ASSUME NEW u \in Unit, ustatus'[u] = "Aborted"
               PROVE  (\E g \in Guards :
                         /\ guard[g].unit = u
                         /\ \/ \E h \in Guards : /\ guard[h].unit # u
                                                 /\ StatusOf(h) \in {"Failed", "Aborted"}
                                                 /\ guard[g].files \cap guard[h].writes # {}
                            \/ \E v \in guard[g].units \ {u} : ustatus[v] \in {"Failed", "Aborted"})'
    BY DEF AbortedHasCause
  <2>1. CASE ustatus[u] = "Aborted"
    BY <1>2, <1>7, <2>1, StillOver DEF Over
  <2>2. CASE ustatus[u] # "Aborted"
    <3>1. u = guard[g0].unit /\ ustatus[u] = "Active"
      BY <1>2, <1>6, <2>2 DEF StatusOf
    <3>2. CASE guard[g0].files # {}
      <4>1. PICK f \in guard[g0].files : f \in never
        BY <1>2, <3>2 DEF AwaitsFailure
      <4>2. PICK h \in Guards : f \in guard[h].writes /\ StatusOf(h) \in Over
        BY <4>1 DEF IInv, NeverWritten
      <4>3. guard[h].unit # u
        BY <3>1, <4>2 DEF StatusOf, Over
      <4>4. StatusOf(h)' \in {"Failed", "Aborted"}
        BY <1>2, <1>7, <4>2, StillOver DEF Over
      <4> QED
        BY <1>2, <1>3, <3>1, <4>1, <4>2, <4>3, <4>4
    <3>3. CASE guard[g0].files = {}
      <4>1. PICK v \in guard[g0].units : ustatus[v] \in {"Failed", "Aborted"}
        BY <1>2, <3>3 DEF AwaitsFailure
      <4>2. v # u /\ ustatus'[v] \in {"Failed", "Aborted"}
        BY <1>3, <1>4, <1>6, <3>1, <4>1
      <4> QED
        BY <1>2, <1>3, <3>1, <4>1, <4>2
    <3> QED
      BY <3>2, <3>3
  <2> QED
    BY <2>1, <2>2
<1>15. Closer
  BY <1>1 DEF Closer, Work, LoopsAfter, Dropped, Step, IInv, TypeOK
<1> QED
  BY <1>5, <1>7, <1>9, <1>10, <1>11, <1>12, <1>13, <1>14, <1>15 DEF IInv

\* Two units fail: none of them had another outcome.
LEMMA CycleIInv ==
  ASSUME IInv, CycleFound
  PROVE  IInv' /\ Outcomes /\ Closer
<1>1. PICK g0 \in Guards, g1 \in Guards :
        /\ g0 = Head(gs) /\ g1 \in Range(gs)
        /\ ustatus' = [ustatus EXCEPT ![guard[g0].unit] = "Failed",
                                      ![guard[g1].unit] = "Failed"]
        /\ never' = never \cup guard[g0].writes \cup guard[g1].writes
  <2>1. PICK i \in 2 .. Len(gs) :
          /\ ustatus' = [ustatus EXCEPT ![guard[Head(gs)].unit] = "Failed",
                                        ![guard[gs[i]].unit] = "Failed"]
          /\ never' = never \cup guard[Head(gs)].writes \cup guard[gs[i]].writes
    BY DEF CycleFound
  <2>2. gs[i] \in Range(gs)
    BY LenProperties DEF IInv, TypeOK, Range
  <2> QED
    BY <2>1, <2>2, InLists, VisitHead DEF IInv, CycleFound, At
<1>2. /\ Dropped(g0) /\ pass = "cycles" /\ pass' = pass /\ count' = count + 1
      /\ StatusOf(g0) = "Active" /\ StatusOf(g1) \in {"Active", "Failed"}
      /\ guard' = guard
  BY <1>1, StepDropped DEF IInv, ToVisit, CycleFound, At
<1>3. /\ \A g \in Guards : guard[g].unit \in Unit /\ guard[g].units \subseteq Unit
      /\ \A g \in Guards : guard[g].writes \subseteq File
  BY ShapesOfGuards DEF IInv, TypeOK
<1>4. TypeOK'
  <2>1. ustatus' \in [Unit -> Status]
    BY <1>1, <1>3 DEF IInv, TypeOK, Status
  <2> QED
    BY <1>1, <1>2, <1>3, <2>1 DEF IInv, TypeOK, Dropped, Step
<1>5. \A u \in Unit : ustatus'[u] = IF u \in {guard[g0].unit, guard[g1].unit} THEN "Failed" ELSE ustatus[u]
  BY <1>1, <1>3 DEF IInv, TypeOK
<1>6. Outcomes
  BY <1>2, <1>5 DEF Outcomes, StatusOf
<1>7. \A g \in Guards : StatusOf(g)' =
        IF guard[g].unit \in {guard[g0].unit, guard[g1].unit} THEN "Failed" ELSE StatusOf(g)
  BY <1>2, <1>3, <1>5 DEF StatusOf
<1>8. Resolved'
  BY <1>2, <1>7 DEF IInv, Resolved, Left, Dropped, Step, Over
<1>9. ToVisit'
  BY <1>2, <1>7, InLists DEF IInv, ToVisit, Dropped, Step
<1>10. Visited'
  BY <1>2, <1>7, InLists DEF IInv, Visited, Dropped, Step
<1>11. Emptied'
  BY <1>2 DEF Emptied
<1>12. NeverWritten'
  <2>1. StatusOf(g0)' \in Over /\ StatusOf(g1)' \in Over
    BY <1>7 DEF Over
  <2> QED
    BY <1>1, <1>2, <1>6, <2>1, StillOver DEF IInv, NeverWritten
<1>13. AbortedHasCause'
  <2>1. \A u \in Unit : ustatus'[u] = "Aborted" => ustatus[u] = "Aborted"
    BY <1>5
  <2> QED
    BY <1>2, <1>6, <2>1, StillOver DEF AbortedHasCause, Over
<1>14. Closer
  BY <1>2 DEF Closer, Work, LoopsAfter, Dropped, Step, IInv, TypeOK
<1> QED
  BY <1>4, <1>6, <1>8, <1>9, <1>10, <1>11, <1>12, <1>13, <1>14 DEF IInv

\* The last loop: the unit fails, or did because of another guard.
LEMMA NeverIInv ==
  ASSUME IInv, Never
  PROVE  IInv' /\ Outcomes /\ Closer
<1>1. PICK g0 \in Guards :
        /\ g0 = Head(gs)
        /\ ustatus' = [ustatus EXCEPT ![guard[g0].unit] = "Failed"]
  BY VisitHead DEF IInv, Never, At
<1>2. /\ Dropped(g0) /\ pass = "never"
      /\ StatusOf(g0) \in {"Active", "Failed"}
      /\ UNCHANGED <<guard, pass, unr, never, count>>
  BY <1>1, StepDropped DEF IInv, Never, At
<1>3. \A g \in Guards : guard[g].unit \in Unit /\ guard[g].units \subseteq Unit
  BY ShapesOfGuards DEF IInv, TypeOK
<1>4. TypeOK'
  <2>1. ustatus' \in [Unit -> Status]
    BY <1>1, <1>3 DEF IInv, TypeOK, Status
  <2> QED
    BY <1>2, <2>1 DEF IInv, TypeOK, Dropped, Step
<1>5. \A u \in Unit : ustatus'[u] = IF u = guard[g0].unit THEN "Failed" ELSE ustatus[u]
  BY <1>1, <1>3 DEF IInv, TypeOK
<1>6. Outcomes
  BY <1>2, <1>5 DEF Outcomes, StatusOf
<1>7. \A g \in Guards : StatusOf(g)' =
        IF guard[g].unit = guard[g0].unit THEN "Failed" ELSE StatusOf(g)
  BY <1>2, <1>3, <1>5 DEF StatusOf
<1>8. Resolved'
  BY <1>2, <1>7 DEF IInv, Resolved, Left, Dropped, Step, Over
<1>9. ToVisit'
  BY <1>2, <1>7, InLists DEF IInv, ToVisit, Dropped, Step
<1>10. Visited' /\ Emptied'
  <2>1. unr = <<>>
    BY <1>2 DEF IInv, Emptied
  <2> QED
    BY <1>2, <2>1, EmptyRange DEF Visited, Emptied
<1>11. NeverWritten'
  BY <1>2, <1>6, StillOver DEF IInv, NeverWritten
<1>12. AbortedHasCause'
  <2>1. \A u \in Unit : ustatus'[u] = "Aborted" => ustatus[u] = "Aborted"
    BY <1>5
  <2> QED
    BY <1>2, <1>6, <2>1, StillOver DEF AbortedHasCause, Over
<1>13. Closer
  BY <1>2 DEF Closer, Work, LoopsAfter, Dropped, Step, IInv, TypeOK
<1> QED
  BY <1>4, <1>6, <1>8, <1>9, <1>10, <1>11, <1>12, <1>13 DEF IInv

\* Steps that leave the lists alone: the last one, and an assertion that fails.
LEMMA LeaveIInv ==
  ASSUME IInv, AbortAssert \/ NeverEnd
  PROVE  IInv' /\ Outcomes /\ Closer
<1>1. UNCHANGED <<guard, ustatus, gs, unr, never, count>>
  BY DEF AbortAssert, NeverEnd
<1>2. \/ pass = "abort" /\ pass' = "fault"
      \/ pass = "never" /\ gs = <<>> /\ pass' = "done"
  BY DEF AbortAssert, NeverEnd, At
<1>3. TypeOK'
  BY <1>1, <1>2 DEF IInv, TypeOK
<1>4. Resolved' /\ NeverWritten' /\ AbortedHasCause'
  BY <1>1 DEF IInv, Resolved, Left, NeverWritten, AbortedHasCause, StatusOf
<1>5. ToVisit' /\ Emptied'
  BY <1>1, <1>2, EmptyRange DEF IInv, ToVisit, Emptied, StatusOf
<1>6. Visited'
  BY <1>1, <1>2, EmptyRange DEF IInv, Visited, Emptied, StatusOf
<1>7. Len(gs) \in Nat /\ Len(unr) \in Nat /\ count \in Nat
  BY LenProperties DEF IInv, TypeOK
<1>8. Closer
  BY <1>1, <1>2, <1>7 DEF Closer, Work, LoopsAfter
<1> QED
  BY <1>1, <1>3, <1>4, <1>5, <1>6, <1>8 DEF IInv, Outcomes

-----------------------------------------------------------------------------
LEMMA NextIInv ==
  ASSUME IInv, Next
  PROVE  IInv' /\ Outcomes /\ Closer
<1>1. CASE KnownActive \/ AbortNot \/ CycleNot
  <2>1. IInv' /\ Closer
    BY <1>1, KeepIInv DEF KnownActive, AbortNot, CycleNot, At
  <2> QED
    BY <1>1, <2>1 DEF KnownActive, AbortNot, CycleNot, Outcomes
<1>2. CASE KnownFailed
  <2>1. IInv' /\ Closer
    BY <1>2, DropIInv DEF KnownFailed, At
  <2> QED
    BY <1>2, <2>1 DEF KnownFailed, Outcomes
<1>3. CASE AbortAgain
  <2>1. IInv' /\ Closer
    BY <1>3, DropIInv DEF AbortAgain, At
  <2> QED
    BY <1>3, <2>1 DEF AbortAgain, Outcomes
<1>4. CASE CycleFailed
  <2>1. IInv' /\ Closer
    BY <1>4, DropIInv DEF CycleFailed, At
  <2> QED
    BY <1>4, <2>1 DEF CycleFailed, Outcomes
<1>5. CASE KnownEnd \/ AbortEnd \/ CyclesEnd
  <2>1. IInv' /\ Closer
    BY <1>5, EndIInv DEF KnownEnd, AbortEnd, CyclesEnd, NextLoop
  <2> QED
    BY <1>5, <2>1 DEF KnownEnd, AbortEnd, CyclesEnd, Outcomes
<1>6. CASE Abort
  BY <1>6, AbortIInv
<1>7. CASE CycleFound
  BY <1>7, CycleIInv
<1>8. CASE Never
  BY <1>8, NeverIInv
<1>9. CASE AbortAssert \/ NeverEnd
  BY <1>9, LeaveIInv
<1> QED
  BY <1>1, <1>2, <1>3, <1>4, <1>5, <1>6, <1>7, <1>8, <1>9 DEF Next

LEMMA StutterIInv == IInv /\ UNCHANGED vars => IInv'
BY DEF vars, IInv, TypeOK, Resolved, Left, ToVisit, Visited, Emptied, NeverWritten,
   AbortedHasCause, StatusOf

\* Through all rounds of the loops: a guard that left them has an outcome, and
\* each outcome its cause.
THEOREM ResolveInvariant == Spec => []IInv
<1>1. IInv /\ [Next]_vars => IInv'
  BY NextIInv, StutterIInv
<1> QED
  BY <1>1, InitIInv, PTL DEF Spec

\* The lists hold guards, the units have statuses.
THEOREM TypeCorrect == Spec => []TypeOK
<1>1. IInv => TypeOK
  BY DEF IInv
<1> QED
  BY <1>1, ResolveInvariant, PTL

\* The statuses the loops assert impossible (b0_build.ml:609, 625, 682 and 743)
\* are not met, however many guards and units there are.
THEOREM StatusesAsAsserted == Spec => []AssertedStatuses
<1>1. IInv => AssertedStatuses
  <2> SUFFICES ASSUME IInv, gs # <<>>, pass # "fault"
               PROVE  StatusOf(Head(gs)) \in IF pass = "abort" THEN {"Active", "Aborted"}
                                                              ELSE {"Active", "Failed"}
    BY DEF AssertedStatuses
  <2>1. Head(gs) \in Range(gs)
    BY HeadTailProperties, LenProperties, EmptySeq DEF IInv, TypeOK, Range
  <2> QED
    BY <2>1 DEF IInv, ToVisit
<1> QED
  BY <1>1, ResolveInvariant, PTL

\* When the loops end, each unit with a blocked operation has an outcome.
THEOREM BlockedUnitsAreSettled == Spec => []AllSettled
<1>1. IInv => AllSettled
  BY EmptyRange DEF IInv, Emptied, Resolved, Left, Over, AllSettled
<1> QED
  BY <1>1, ResolveInvariant, PTL

\* A unit is aborted only because of another one that failed or was aborted.
THEOREM AbortsHaveACause == Spec => []AbortedHasCause
<1>1. IInv => AbortedHasCause
  BY DEF IInv
<1> QED
  BY <1>1, ResolveInvariant, PTL

\* No loop changes an outcome that another one gave.
THEOREM OutcomesAreFinal == Spec => OutcomesStay
<1>1. IInv /\ [Next]_vars => [Outcomes]_vars
  BY NextIInv
<1>2. [Outcomes]_vars => [\A u \in Unit : ustatus[u] # "Active" => ustatus'[u] = ustatus[u]]_vars
  BY DEF Outcomes
<1> QED
  BY <1>1, <1>2, ResolveInvariant, PTL DEF Spec, OutcomesStay

\* Each step takes from what is left to do, three numbers compared in order: the
\* loops of b0_build.ml:756-778 start over only when guards were resolved since.
\* So a behaviour has finitely many steps, and Terminates needs no more than
\* that the thread goes on.
THEOREM StepsGetCloser == Spec => Decreases
<1>1. IInv /\ [Next]_vars => [Closer]_vars
  BY NextIInv
<1> QED
  BY <1>1, ResolveInvariant, PTL DEF Spec, Decreases

THEOREM WorkIsNumber ==
  Spec => [](Work \in Nat /\ LoopsAfter \in Nat /\ Len(gs) \in Nat)
<1>1. IInv => Work \in Nat /\ LoopsAfter \in Nat /\ Len(gs) \in Nat
  BY LenProperties DEF IInv, TypeOK, Work, LoopsAfter
<1> QED
  BY <1>1, ResolveInvariant, PTL
=============================================================================
