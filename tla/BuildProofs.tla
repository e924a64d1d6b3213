----------------------------- MODULE BuildProofs -----------------------------
(***************************************************************************)
(* Proofs about Build: the counter of each unit is exact, and what it      *)
(* decides is right, for any units, files, operations and tools, and       *)
(* however deep the calls are nested.                                      *)
(***************************************************************************)
EXTENDS Build, FunctionTheorems, FiniteSetTheorems, SequenceTheorems, TLAPS

\* No tool is a unit that is only built for the build OS: otherwise start
\* resets it (b0_build.ml:288-305).
ToolsApart == \A s \in DOMAIN Setting : Setting[s].tools \cap OnlyBuild = {}

-----------------------------------------------------------------------------
(* The inductive invariant *)

AnyShape == [reads : SUBSET File, writes : SUBSET File, units : SUBSET Unit, kont : BOOLEAN]

Frame ==
  [call : {"unit"}, inst : Inst] \cup [call : {"kont"}, inst : Inst, failed : BOOLEAN]
  \cup [call : {"add_op"}, inst : Inst, shape : AnyShape]
  \cup [call : {"submit_ops"}] \cup [call : {"collect_ops"}, finish : BOOLEAN]

Operation == [inst : Inst, reads : SUBSET File, writes : SUBSET File, units : SUBSET Unit]

OpStatus == {"Guarded", "Ready", "Executed", "Cached", "Aborted"}

Types ==
  /\ setting \in DOMAIN Setting
  /\ ustatus \in [Inst -> {"None", "Active", "Failed", "Aborted", "Finished"}]
  /\ activity \in [Inst -> Int]
  /\ ops \in Seq(Operation) /\ Len(ops) <= MaxOps
  /\ status \in [Ids -> OpStatus]
  /\ result \in [Ids -> {"None", "Ok", "Error"}]
  /\ files_ready \subseteq File /\ units_ready \subseteq Unit
  /\ ready \subseteq Ids /\ execs \subseteq Ids /\ konts \subseteq Ids
  /\ to_start \subseteq Unit
  /\ stack \in Seq(Frame)
  /\ phase \in {"start", "finish", "done", "raised"}

IsCall(f, i) == f.call \in {"unit", "kont"} /\ f.inst = i
CallsIn(s, i) == {n \in DOMAIN s : IsCall(s[n], i)}
FramesOf(s) == {s[n] : n \in DOMAIN s}

\* An operation to be added is one of the function that is called next below.
Nested(s) ==
  \A n \in DOMAIN s : s[n].call = "add_op" => n + 1 \in DOMAIN s /\ IsCall(s[n + 1], s[n].inst)

\* finish collects after everything else has returned.
Bottom(s) == s # <<>> => s[Len(s)] = CollectOps(TRUE)

\* Units that run are Active or Failed; finish_op remembers only a failure.
Calling ==
  /\ \A f \in FramesOf(stack) : f.call \in {"unit", "kont"} =>
       /\ Live(f.inst)
       /\ f.call = "kont" /\ f.failed => ustatus[f.inst] = "Failed"
  /\ Nested(stack)
  /\ phase = "finish" => Bottom(stack)
  /\ phase = "finish" /\ stack = <<>> => ready = {} /\ execs = {}
  /\ phase = "done" => stack = <<>>

\* The ready operations are with the guards or with the executor, but for those
\* that the executor lost.
Places ==
  /\ ready \cap execs = {}
  /\ \A o \in Ids :
       /\ o \in ready \cup execs <=> status[o] = "Ready" /\ result[o] = "None"
       /\ status[o] = "Guarded" => result[o] = "None"
       /\ status[o] = "Ready" => result[o] = "None" \/ (result[o] = "Error" /\ TmpFails)

Pending(o) == status[o] \in {"Guarded", "Ready"}
Succeeded(o) == status[o] \in {"Executed", "Cached"} /\ result[o] = "Ok" /\ o \notin konts
KontsOf(i) == {o \in konts : InstOf(o) = i}

\* What activity stands for.
Counted(i) == Cardinality(Unfinished(i)) + Cardinality(Calls(i)) + Cardinality(KontsOf(i))

\* try_finish_unit is not forgotten: an Active unit has something left.
Counts == \A i \in Inst : ustatus[i] = "Active" => activity[i] = Counted(i) /\ activity[i] > 0

\* As long as no operation of a unit failed, those that are over succeeded.
Successes ==
  \A o \in Ids : ustatus[InstOf(o)] \in {"Active", "Finished"} =>
    Pending(o) \/ Succeeded(o)

\* A unit without state has nothing, one that is Aborted is so at the end.
Absent ==
  /\ \A o \in Ids : ustatus[InstOf(o)] # "None"
  /\ \A i \in Inst : ustatus[i] = "Aborted" => phase = "done"

FinishedAreOver ==
  \A o \in Ids : ustatus[InstOf(o)] = "Finished" => ~ Pending(o)

Announced ==
  /\ \A o \in Ids : status[o] \in {"Ready", "Executed"} => ops[o].units \subseteq units_ready
  /\ \A u \in units_ready : \E a \in Aim : ustatus[<<a, u>>] \in {"Finished", "Failed"}

StartInst(u) == <<IF u \in OnlyBuild THEN "Build_os" ELSE "Host_os", u>>
NotStarted == \A u \in to_start : ustatus[StartInst(u)] = "None"

IInv ==
  /\ Types /\ Calling /\ Places /\ Counts /\ Successes /\ Absent
  /\ FinishedAreOver /\ Announced /\ NotStarted /\ EndsSettled

-----------------------------------------------------------------------------
(* Frames and stacks *)

LEMMA FrameFacts ==
  /\ \A i \in Inst : UnitFrame(i) \in Frame /\ UnitFrame(i).call = "unit" /\ UnitFrame(i).inst = i
  /\ \A o, failed : InstOf(o) \in Inst /\ failed \in BOOLEAN =>
       /\ KontFrame(o, failed) \in Frame
       /\ KontFrame(o, failed).call = "kont" /\ KontFrame(o, failed).inst = InstOf(o)
       /\ KontFrame(o, failed).failed = failed
  /\ \A i \in Inst, s \in AnyShape :
       /\ AddFrame(i, s) \in Frame
       /\ AddFrame(i, s).call = "add_op" /\ AddFrame(i, s).inst = i /\ AddFrame(i, s).shape = s
  /\ SubmitOps \in Frame /\ SubmitOps.call = "submit_ops"
  /\ \A b \in BOOLEAN :
       /\ CollectOps(b) \in Frame
       /\ CollectOps(b).call = "collect_ops" /\ CollectOps(b).finish = b
<1>1. \A i \in Inst : UnitFrame(i) \in Frame /\ UnitFrame(i).call = "unit" /\ UnitFrame(i).inst = i
  BY DEF UnitFrame, Frame
<1>2. \A o, failed : InstOf(o) \in Inst /\ failed \in BOOLEAN =>
        /\ KontFrame(o, failed) \in Frame
        /\ KontFrame(o, failed).call = "kont" /\ KontFrame(o, failed).inst = InstOf(o)
        /\ KontFrame(o, failed).failed = failed
  BY DEF KontFrame, Frame
<1>3. \A i \in Inst, s \in AnyShape :
        /\ AddFrame(i, s) \in Frame
        /\ AddFrame(i, s).call = "add_op" /\ AddFrame(i, s).inst = i /\ AddFrame(i, s).shape = s
  BY DEF AddFrame, Frame
<1>4. SubmitOps \in Frame /\ SubmitOps.call = "submit_ops"
  BY DEF SubmitOps, Frame
<1>5. \A b \in BOOLEAN :
        /\ CollectOps(b) \in Frame
        /\ CollectOps(b).call = "collect_ops" /\ CollectOps(b).finish = b
  BY DEF CollectOps, Frame
<1>. QED
  BY <1>1, <1>2, <1>3, <1>4, <1>5

LEMMA FrameTypes ==
  \A f \in Frame :
    /\ f.call \in {"unit", "kont", "add_op"} => f.inst \in Inst
    /\ f.call = "kont" => f.failed \in BOOLEAN
    /\ f.call = "add_op" => f.shape \in AnyShape
    /\ f.call = "collect_ops" => f.finish \in BOOLEAN
  BY DEF Frame

\* The calls on a stack are finitely many.
LEMMA CallsFinite ==
  ASSUME NEW s \in Seq(Frame), NEW i
  PROVE  /\ IsFiniteSet(CallsIn(s, i)) /\ Cardinality(CallsIn(s, i)) \in Nat
         /\ Cardinality(CallsIn(s, i)) = 0 <=> \A f \in FramesOf(s) : ~ IsCall(f, i)
<1>1. Len(s) \in Nat /\ DOMAIN s = 1 .. Len(s)
  BY LenProperties
<1>2. IsFiniteSet(1 .. Len(s))
  BY <1>1, FS_Interval
<1>3. CallsIn(s, i) \in SUBSET (1 .. Len(s))
  BY <1>1 DEF CallsIn
<1>4. IsFiniteSet(CallsIn(s, i))
  BY <1>2, <1>3, FS_Subset
<1>5. CallsIn(s, i) = {} <=> \A f \in FramesOf(s) : ~ IsCall(f, i)
  BY DEF CallsIn, FramesOf
<1>. QED
  BY <1>4, <1>5, FS_CardinalityType, FS_EmptySet

\* A frame is put on a stack.
LEMMA Push ==
  ASSUME NEW s \in Seq(Frame), NEW f \in Frame
  PROVE  /\ <<f>> \o s \in Seq(Frame)
         /\ <<f>> \o s # <<>> /\ Head(<<f>> \o s) = f /\ Tail(<<f>> \o s) = s
         /\ FramesOf(<<f>> \o s) = {f} \cup FramesOf(s)
         /\ \A i : Cardinality(CallsIn(<<f>> \o s, i)) =
                     Cardinality(CallsIn(s, i)) + (IF IsCall(f, i) THEN 1 ELSE 0)
         /\ Nested(s) /\ (f.call = "add_op" => s # <<>> /\ IsCall(Head(s), f.inst))
              => Nested(<<f>> \o s)
         /\ s # <<>> /\ Bottom(s) => Bottom(<<f>> \o s)
<1>. DEFINE t == <<f>> \o s
<1>1. /\ Len(s) \in Nat /\ DOMAIN s = 1 .. Len(s)
      /\ s # <<>> => Len(s) \in Nat \ {0} /\ Head(s) = s[1]
  BY LenProperties, EmptySeq
<1>2. /\ t \in Seq(Frame) /\ Len(t) = Len(s) + 1
      /\ t[1] = f /\ \A n \in 1 .. Len(s) : t[n + 1] = s[n]
  <2>1. <<f>> \in Seq(Frame) /\ Len(<<f>>) = 1 /\ <<f>>[1] = f
    OBVIOUS
  <2>2. /\ t \in Seq(Frame) /\ Len(t) = 1 + Len(s)
        /\ \A n \in 1 .. (1 + Len(s)) : t[n] = IF n <= 1 THEN <<f>>[n] ELSE s[n - 1]
    BY <2>1, ConcatProperties
  <2>. QED
    BY <1>1, <2>1, <2>2
<1>3. DOMAIN t = 1 .. (Len(s) + 1) /\ t # <<>>
  BY <1>1, <1>2, LenProperties, EmptySeq
<1>. HIDE DEF t
<1>4. Head(t) = f /\ Tail(t) = s
  <2>1. /\ Head(t) = t[1] /\ Tail(t) \in Seq(Frame) /\ Len(Tail(t)) = Len(t) - 1
        /\ \A n \in 1 .. Len(Tail(t)) : Tail(t)[n] = t[n + 1]
    BY <1>2, <1>3, HeadTailProperties
  <2>2. Len(Tail(t)) = Len(s) /\ \A n \in 1 .. Len(s) : Tail(t)[n] = s[n]
    BY <1>1, <1>2, <2>1
  <2>. QED
    BY <1>2, <2>1, <2>2, SeqEqual
<1>5. FramesOf(t) = {f} \cup FramesOf(s)
  <2>1. FramesOf(t) \subseteq {f} \cup FramesOf(s)
    <3>1. ASSUME NEW n \in 1 .. (Len(s) + 1) PROVE t[n] \in {f} \cup FramesOf(s)
      <4>1. CASE n = 1
        BY <1>2, <4>1
      <4>2. CASE n # 1
        <5>1. n - 1 \in 1 .. Len(s) /\ t[n] = s[n - 1]
          BY <1>1, <1>2, <4>2
        <5>. QED
          BY <1>1, <5>1 DEF FramesOf
      <4>. QED
        BY <4>1, <4>2
    <3>. QED
      BY <1>3, <3>1 DEF FramesOf
  <2>2. f \in FramesOf(t)
    BY <1>1, <1>2, <1>3 DEF FramesOf
  <2>3. \A n \in 1 .. Len(s) : s[n] \in FramesOf(t)
    BY <1>1, <1>2, <1>3 DEF FramesOf
  <2>. QED
    BY <1>1, <2>1, <2>2, <2>3 DEF FramesOf
<1>6. ASSUME NEW i
      PROVE  Cardinality(CallsIn(t, i)) = Cardinality(CallsIn(s, i)) + (IF IsCall(f, i) THEN 1 ELSE 0)
  <2>. DEFINE old == CallsIn(s, i)
              moved == {n + 1 : n \in old}
              move == [n \in old |-> n + 1]
  <2>1. old \subseteq 1 .. Len(s) /\ IsFiniteSet(old) /\ Cardinality(old) \in Nat
    BY <1>1, CallsFinite DEF CallsIn
  <2>2. IsFiniteSet(moved) /\ Cardinality(moved) = Cardinality(old)
    <3>1. move \in [old -> moved]
      OBVIOUS
    <3>2. \A m, n \in old : move[m] = move[n] => m = n
      BY <2>1
    <3>3. \A m \in moved : \E n \in old : move[n] = m
      OBVIOUS
    <3>4. move \in Bijection(old, moved)
      BY <3>1, <3>2, <3>3, Fun_IsBij
    <3>. QED
      BY <2>1, <3>4, FS_Bijection DEF ExistsBijection
  <2>3. \A n \in 1 .. Len(s) : n + 1 \in CallsIn(t, i) <=> n \in old
    BY <1>1, <1>2, <1>3 DEF CallsIn
  <2>4. 1 \in CallsIn(t, i) <=> IsCall(f, i)
    BY <1>1, <1>2, <1>3 DEF CallsIn
  <2>5. CallsIn(t, i) = IF IsCall(f, i) THEN moved \cup {1} ELSE moved
    <3>1. CallsIn(t, i) \subseteq 1 .. (Len(s) + 1)
      BY <1>3 DEF CallsIn
    <3>2. \A n \in 1 .. (Len(s) + 1) : n # 1 => n - 1 \in 1 .. Len(s)
      BY <1>1
    <3>3. \A n \in CallsIn(t, i) : n # 1 => n \in moved
      <4>. SUFFICES ASSUME NEW n \in CallsIn(t, i), n # 1 PROVE n \in moved
        OBVIOUS
      <4>1. n - 1 \in 1 .. Len(s) /\ (n - 1) + 1 = n
        BY <1>1, <3>1
      <4>2. n - 1 \in old
        BY <2>3, <4>1
      <4>. QED
        BY <4>1, <4>2
    <3>4. moved \subseteq CallsIn(t, i)
      BY <2>1, <2>3
    <3>. QED
      BY <2>4, <3>3, <3>4
  <2>6. 1 \notin moved
    BY <1>1, <2>1
  <2>7. Cardinality(moved \cup {1}) = Cardinality(moved) + 1
    BY <2>2, <2>6, FS_AddElement
  <2>. HIDE DEF old, moved, move
  <2>8. CASE IsCall(f, i)
    BY <2>1, <2>2, <2>5, <2>7, <2>8 DEF old
  <2>9. CASE ~ IsCall(f, i)
    BY <2>1, <2>2, <2>5, <2>9 DEF old
  <2>. QED
    BY <2>8, <2>9
<1>7. ASSUME Nested(s), f.call = "add_op" => s # <<>> /\ IsCall(Head(s), f.inst)
      PROVE  Nested(t)
  <2>. SUFFICES ASSUME NEW n \in 1 .. (Len(s) + 1), t[n].call = "add_op"
                PROVE  n + 1 \in 1 .. (Len(s) + 1) /\ IsCall(t[n + 1], t[n].inst)
    BY <1>3 DEF Nested
  <2>1. CASE n = 1
    <3>1. s # <<>> /\ IsCall(Head(s), f.inst)
      BY <1>2, <1>7, <2>1
    <3>2. Len(s) >= 1 /\ Head(s) = s[1] /\ t[1 + 1] = s[1]
      BY <1>1, <1>2, <3>1
    <3>. QED
      BY <1>1, <1>2, <2>1, <3>1, <3>2
  <2>2. CASE n # 1
    <3>1. n - 1 \in 1 .. Len(s) /\ t[n] = s[n - 1]
      BY <1>1, <1>2, <2>2
    <3>2. n \in 1 .. Len(s) /\ IsCall(s[n], s[n - 1].inst)
      BY <1>1, <1>7, <3>1 DEF Nested
    <3>. QED
      BY <1>1, <1>2, <3>1, <3>2
  <2>. QED
    BY <2>1, <2>2
<1>8. ASSUME s # <<>>, Bottom(s) PROVE Bottom(t)
  <2>1. Len(s) \in 1 .. Len(s)
    BY <1>1, <1>8
  <2>2. t[Len(t)] = s[Len(s)]
    BY <1>2, <2>1
  <2>. QED
    BY <1>8, <2>2 DEF Bottom
<1>. QED
  BY <1>2, <1>3, <1>4, <1>5, <1>6, <1>7, <1>8 DEF t

\* The innermost frame returns.
LEMMA Pop ==
  ASSUME NEW s \in Seq(Frame), s # <<>>
  PROVE  /\ Head(s) \in Frame /\ Head(s) \in FramesOf(s)
         /\ Tail(s) \in Seq(Frame) /\ FramesOf(Tail(s)) \subseteq FramesOf(s)
         /\ \A i : Cardinality(CallsIn(Tail(s), i)) =
                     Cardinality(CallsIn(s, i)) - (IF IsCall(Head(s), i) THEN 1 ELSE 0)
         /\ Nested(s) => /\ Nested(Tail(s))
                         /\ Head(s).call = "add_op" =>
                              Tail(s) # <<>> /\ IsCall(Head(Tail(s)), Head(s).inst)
         /\ Bottom(s) => Bottom(Tail(s))
         /\ Bottom(s) /\ Tail(s) = <<>> => Head(s) = CollectOps(TRUE)
<1>1. /\ Head(s) \in Frame /\ Tail(s) \in Seq(Frame)
      /\ s = <<Head(s)>> \o Tail(s) /\ Head(s) = s[1]
      /\ Len(Tail(s)) = Len(s) - 1 /\ \A n \in 1 .. Len(Tail(s)) : Tail(s)[n] = s[n + 1]
  <2>1. /\ Head(s) \in Frame /\ Tail(s) \in Seq(Frame) /\ Head(s) = s[1]
        /\ Len(Tail(s)) = Len(s) - 1 /\ \A n \in 1 .. Len(Tail(s)) : Tail(s)[n] = s[n + 1]
    BY HeadTailProperties
  <2>. QED
    BY <2>1, ConcatSimplifications, HeadTailAppend
<1>2. /\ Len(s) \in Nat \ {0} /\ DOMAIN s = 1 .. Len(s) /\ DOMAIN Tail(s) = 1 .. Len(Tail(s))
      /\ Tail(s) # <<>> <=> Len(Tail(s)) # 0
  BY <1>1, LenProperties, EmptySeq
<1>3. FramesOf(s) = {Head(s)} \cup FramesOf(Tail(s))
  <2>1. FramesOf(<<Head(s)>> \o Tail(s)) = {Head(s)} \cup FramesOf(Tail(s))
    BY <1>1, Push
  <2>. QED
    BY <1>1, <2>1
<1>4. ASSUME NEW i
      PROVE  Cardinality(CallsIn(Tail(s), i)) =
               Cardinality(CallsIn(s, i)) - (IF IsCall(Head(s), i) THEN 1 ELSE 0)
  <2>1. Cardinality(CallsIn(<<Head(s)>> \o Tail(s), i)) =
          Cardinality(CallsIn(Tail(s), i)) + (IF IsCall(Head(s), i) THEN 1 ELSE 0)
    BY <1>1, Push
  <2>2. Cardinality(CallsIn(s, i)) =
          Cardinality(CallsIn(Tail(s), i)) + (IF IsCall(Head(s), i) THEN 1 ELSE 0)
    BY <1>1, <2>1
  <2>3. Cardinality(CallsIn(Tail(s), i)) \in Nat
    BY <1>1, CallsFinite
  <2>. QED
    BY <2>2, <2>3
<1>5. ASSUME Nested(s) PROVE Nested(Tail(s))
  BY <1>1, <1>2, <1>5 DEF Nested
<1>6. ASSUME Nested(s), Head(s).call = "add_op"
      PROVE  Tail(s) # <<>> /\ IsCall(Head(Tail(s)), Head(s).inst)
  <2>1. 1 + 1 \in 1 .. Len(s) /\ IsCall(s[1 + 1], s[1].inst)
    BY <1>1, <1>2, <1>6 DEF Nested
  <2>2. Len(Tail(s)) >= 1 /\ Tail(s)[1] = s[1 + 1]
    BY <1>1, <1>2, <2>1
  <2>3. Tail(s) # <<>> /\ Head(Tail(s)) = Tail(s)[1]
    BY <1>1, <1>2, <2>2, HeadTailProperties
  <2>. QED
    BY <1>1, <2>1, <2>2, <2>3
<1>7. ASSUME Bottom(s) PROVE Bottom(Tail(s))
  <2>1. ASSUME Tail(s) # <<>> PROVE Tail(s)[Len(Tail(s))] = CollectOps(TRUE)
    <3>1. Len(Tail(s)) \in 1 .. Len(Tail(s)) /\ Len(Tail(s)) + 1 = Len(s)
      BY <1>1, <1>2, <2>1
    <3>2. Tail(s)[Len(Tail(s))] = s[Len(s)]
      BY <1>1, <3>1
    <3>. QED
      BY <1>7, <3>2 DEF Bottom
  <2>. QED
    BY <2>1 DEF Bottom
<1>8. ASSUME Bottom(s), Tail(s) = <<>> PROVE Head(s) = CollectOps(TRUE)
  <2>1. Len(s) = 1
    BY <1>1, <1>2, <1>8
  <2>. QED
    BY <1>1, <1>8, <2>1 DEF Bottom
<1>. QED
  BY <1>1, <1>3, <1>4, <1>5, <1>6, <1>7, <1>8

-----------------------------------------------------------------------------
(* Operations *)

LEMMA OpTypes ==
  ASSUME Types
  PROVE  /\ Len(ops) \in Nat /\ Ids = 1 .. Len(ops)
         /\ \A o \in Ids : /\ ops[o] \in Operation /\ InstOf(o) \in Inst
                           /\ ops[o].reads \subseteq File /\ ops[o].writes \subseteq File
                           /\ ops[o].units \subseteq Unit
         /\ IsFiniteSet(Ids)
<1>1. Len(ops) \in Nat /\ Ids = 1 .. Len(ops)
  BY LenProperties DEF Types, Ids
<1>2. ASSUME NEW o \in Ids PROVE ops[o] \in Operation
  BY <1>1, ElementOfSeq DEF Types
<1>3. IsFiniteSet(1 .. Len(ops))
  BY <1>1, FS_Interval
<1>. QED
  BY <1>1, <1>2, <1>3 DEF Operation, InstOf

\* The unit of an operation that is not over runs: no unit is finished before.
LEMMA PendingLive ==
  ASSUME Types, Absent, FinishedAreOver, phase # "done", NEW o \in Ids, Pending(o)
  PROVE  Live(InstOf(o))
<1>1. InstOf(o) \in Inst
  BY OpTypes
<1>. QED
  BY <1>1 DEF Types, Absent, FinishedAreOver, Live

\* The unfinished operations are told by their status.
LEMMA UnfinishedPending ==
  ASSUME Types, Places, NEW i
  PROVE  /\ Unfinished(i) = {o \in Ids : InstOf(o) = i /\ Pending(o)}
         /\ IsFiniteSet(Unfinished(i)) /\ Cardinality(Unfinished(i)) \in Nat
         /\ IsFiniteSet(KontsOf(i)) /\ Cardinality(KontsOf(i)) \in Nat
         /\ Calls(i) = CallsIn(stack, i) /\ Cardinality(Calls(i)) \in Nat
<1>1. Unfinished(i) = {o \in Ids : InstOf(o) = i /\ Pending(o)}
  BY DEF Unfinished, Pending
<1>2. IsFiniteSet(Ids) /\ Unfinished(i) \in SUBSET Ids /\ KontsOf(i) \in SUBSET Ids
  BY OpTypes DEF Unfinished, KontsOf, Types
<1>3. IsFiniteSet(Unfinished(i)) /\ IsFiniteSet(KontsOf(i))
  BY <1>2, FS_Subset
<1>4. Calls(i) = CallsIn(stack, i)
  BY DEF Calls, CallsIn, IsCall
<1>5. Cardinality(CallsIn(stack, i)) \in Nat
  BY CallsFinite DEF Types
<1>. QED
  BY <1>1, <1>3, <1>4, <1>5, FS_CardinalityType

\* What is announced makes guarded operations ready, and does nothing else.
AnnounceDoes(us, sts, rdy) ==
  /\ files_ready' \subseteq File /\ units_ready' = units_ready \cup us /\ units_ready' \subseteq Unit
  /\ ready' \subseteq Ids /\ status' \in [Ids -> OpStatus]
  /\ \A o \in Ids : \/ status'[o] = sts[o] /\ (o \in ready' <=> o \in rdy)
                    \/ /\ sts[o] = "Guarded" /\ status'[o] = "Ready"
                       /\ o \in ready' /\ ops[o].units \subseteq units_ready'

LEMMA AnnounceEffect ==
  ASSUME Types, NEW fs \in SUBSET File, NEW us \in SUBSET Unit, NEW sts \in [Ids -> OpStatus],
         NEW rdy \in SUBSET Ids, Announce(fs, us, sts, rdy)
  PROVE  AnnounceDoes(us, sts, rdy)
<1>. DEFINE released == {o \in Ids : /\ sts[o] = "Guarded"
                                     /\ ~ Awaits(ops[o], files_ready \cup fs, units_ready \cup us)}
<1>1. /\ files_ready' = files_ready \cup fs /\ units_ready' = units_ready \cup us
      /\ ready' = rdy \cup released
      /\ status' = [o \in Ids |-> IF o \in released THEN "Ready" ELSE sts[o]]
  BY DEF Announce
<1>2. \A o \in released : sts[o] = "Guarded" /\ ops[o].units \subseteq units_ready \cup us
  BY DEF Awaits
<1>3. released \subseteq Ids
  OBVIOUS
<1>. HIDE DEF released
<1>. QED
  BY <1>1, <1>2, <1>3 DEF Types, OpStatus, AnnounceDoes

\* A step of one unit i that runs, and has status s and activity n after it:
\* everything of the other units stays, except that operations of theirs may
\* become ready.
UnitState(i, s, n) ==
  /\ ustatus[i] = "Failed" => s = "Failed"
  /\ ustatus' = [ustatus EXCEPT ![i] = s] /\ activity' = [activity EXCEPT ![i] = n]
  /\ status' \in [Ids -> OpStatus] /\ result' \in [Ids -> {"None", "Ok", "Error"}]
  /\ files_ready' \subseteq File /\ units_ready' \subseteq Unit
  /\ ready' \subseteq Ids /\ execs' \subseteq Ids /\ konts' \subseteq Ids

UnitCalls(i, s) ==
  /\ stack' \in Seq(Frame)
  /\ \A f \in FramesOf(stack') :
       \/ f \in FramesOf(stack) \/ f.call \notin {"unit", "kont"}
       \/ f.inst = i /\ (f.call = "kont" /\ f.failed => s = "Failed")
  /\ s = "Finished" => \A f \in FramesOf(stack') : ~ IsCall(f, i)
  /\ Nested(stack')
  /\ phase = "finish" => stack' # <<>> /\ Bottom(stack')
  /\ \A j \in Inst \ {i} : Cardinality(CallsIn(stack', j)) = Cardinality(CallsIn(stack, j))

UnitOps(i, s, n) ==
  /\ \A o \in Ids : InstOf(o) # i =>
       /\ (Pending(o)' <=> Pending(o)) /\ result'[o] = result[o] /\ (o \in konts' <=> o \in konts)
       /\ ~ Pending(o) => status'[o] = status[o]
  /\ s = "Active" => n = Counted(i)' /\ n > 0
  /\ \A o \in Ids : InstOf(o) = i /\ s \in {"Active", "Finished"} =>
       Succeeded(o)' \/ (s = "Active" /\ Pending(o)')

UnitAnnounces(i, s) ==
  /\ \A o \in Ids : status'[o] \in {"Ready", "Executed"} => ops[o].units \subseteq units_ready'
  /\ \A u \in units_ready' : u \in units_ready \/ (u = UnitOf(i) /\ s \in {"Failed", "Finished"})

LEMMA UnitStep ==
  ASSUME IInv, phase # "done", UNCHANGED <<ops, setting, to_start, phase>>,
         NEW i \in Inst, NEW s \in {"Active", "Failed", "Finished"}, NEW n \in Int, Live(i),
         UnitState(i, s, n), UnitCalls(i, s), Places', UnitOps(i, s, n), UnitAnnounces(i, s)
  PROVE  IInv'
<1>. USE DEF OpStatus
<1>1. Types /\ Calling /\ Places /\ Counts /\ Successes /\ Absent
      /\ FinishedAreOver /\ Announced /\ NotStarted
  BY DEF IInv
<1>2. Ids' = Ids /\ \A o : InstOf(o)' = InstOf(o)
  BY DEF Ids, InstOf
<1>3. Types'
  BY <1>1, <1>2 DEF Types, MaxOps, UnitState, UnitCalls
<1>4. \A o \in Ids : InstOf(o) \in Inst
  BY <1>1, OpTypes
<1>5. ustatus'[i] = s /\ \A j \in Inst : j # i => ustatus'[j] = ustatus[j]
  BY <1>1 DEF Types, UnitState
<1>6. ustatus[i] \in {"Active", "Failed"}
  BY DEF Live
<1>7. Calling'
  <2>1. ASSUME NEW f \in FramesOf(stack'), f.call \in {"unit", "kont"}
        PROVE  Live(f.inst)' /\ (f.call = "kont" /\ f.failed => ustatus'[f.inst] = "Failed")
    <3>1. f \in Frame
      BY ElementOfSeq, LenProperties DEF FramesOf, UnitCalls
    <3>2. f.inst \in Inst
      BY <2>1, <3>1, FrameTypes
    <3>3. CASE f.inst = i /\ (f.call = "kont" /\ f.failed => s = "Failed")
      <4>1. s # "Finished"
        BY <2>1, <3>3 DEF IsCall, UnitCalls
      <4>. QED
        BY <1>5, <3>3, <4>1 DEF Live
    <3>4. CASE f \in FramesOf(stack)
      <4>1. /\ ustatus[f.inst] \in {"Active", "Failed"}
            /\ f.call = "kont" /\ f.failed => ustatus[f.inst] = "Failed"
        BY <1>1, <2>1, <3>4 DEF Calling, Live
      <4>2. f.inst = i => s # "Finished"
        BY <2>1 DEF IsCall, UnitCalls
      <4>. QED
        BY <1>5, <3>2, <4>1, <4>2 DEF Live, UnitState
    <3>. QED
      BY <2>1, <3>3, <3>4 DEF UnitCalls
  <2>. QED
    BY <2>1 DEF Calling, UnitCalls
<1>8. Counts'
  <2>. SUFFICES ASSUME NEW j \in Inst, ustatus'[j] = "Active"
                PROVE  activity'[j] = Counted(j)' /\ activity'[j] > 0
    BY DEF Counts
  <2>1. CASE j = i
    BY <1>1, <1>5, <2>1 DEF Types, UnitState, UnitOps
  <2>2. CASE j # i
    <3>1. activity'[j] = activity[j] /\ ustatus[j] = "Active"
      BY <1>1, <1>5, <2>2 DEF Types, UnitState
    <3>2. Unfinished(j)' = Unfinished(j)
      <4>1. Unfinished(j) = {o \in Ids : InstOf(o) = j /\ Pending(o)}
        BY <1>1, UnfinishedPending
      <4>2. Unfinished(j)' = {o \in Ids : InstOf(o) = j /\ Pending(o)'}
        BY <1>2 DEF Unfinished, Pending
      <4>. QED
        BY <2>2, <4>1, <4>2 DEF UnitOps
    <3>3. KontsOf(j)' = KontsOf(j)
      BY <1>1, <1>2, <2>2 DEF KontsOf, Types, UnitState, UnitOps
    <3>4. Cardinality(Calls(j))' = Cardinality(Calls(j))
      BY <2>2 DEF Calls, CallsIn, IsCall, UnitCalls
    <3>5. Counted(j)' = Counted(j)
      BY <3>2, <3>3, <3>4 DEF Counted
    <3>. QED
      BY <1>1, <3>1, <3>5 DEF Counts
  <2>. QED
    BY <2>1, <2>2
<1>9. Successes' /\ FinishedAreOver'
  <2>1. ASSUME NEW o \in Ids, InstOf(o) = i, s \in {"Active", "Finished"}
        PROVE  Succeeded(o)' \/ (s = "Active" /\ Pending(o)')
    BY <2>1 DEF UnitOps
  <2>2. ASSUME NEW o \in Ids, InstOf(o) # i
        PROVE  /\ (Pending(o)' <=> Pending(o)) /\ (Succeeded(o) => Succeeded(o)')
               /\ ustatus'[InstOf(o)] = ustatus[InstOf(o)]
    BY <1>4, <1>5, <2>2 DEF Succeeded, Pending, UnitOps
  <2>3. \A o \in Ids : ~ (Succeeded(o)' /\ Pending(o)')
    BY DEF Succeeded, Pending
  <2>4. Successes'
    BY <1>1, <1>2, <1>5, <2>1, <2>2 DEF Successes
  <2>5. FinishedAreOver'
    BY <1>1, <1>2, <1>5, <2>1, <2>2, <2>3 DEF FinishedAreOver
  <2>. QED
    BY <2>4, <2>5
<1>10. Absent' /\ NotStarted'
  <2>1. \A o \in Ids : ustatus'[InstOf(o)] # "None"
    BY <1>1, <1>4, <1>5 DEF Absent
  <2>2. \A j \in Inst : ustatus'[j] = "Aborted" => phase' = "done"
    BY <1>1, <1>5 DEF Absent
  <2>3. ASSUME NEW u \in to_start PROVE ustatus'[StartInst(u)] = "None"
    <3>1. StartInst(u) \in Inst /\ ustatus[StartInst(u)] = "None"
      BY <1>1 DEF NotStarted, StartInst, Inst, Aim, Types
    <3>. QED
      BY <1>5, <1>6, <3>1
  <2>. QED
    BY <1>2, <2>1, <2>2, <2>3 DEF Absent, NotStarted, StartInst
<1>12. Announced'
  <2>1. ASSUME NEW u \in units_ready' PROVE \E a \in Aim : ustatus'[<<a, u>>] \in {"Finished", "Failed"}
    <3>1. CASE u \in units_ready
      <4>1. PICK a \in Aim : ustatus[<<a, u>>] \in {"Finished", "Failed"}
        BY <1>1, <3>1 DEF Announced
      <4>2. <<a, u>> \in Inst
        BY <1>1, <3>1 DEF Inst, Types
      <4>. QED
        BY <1>5, <1>6, <4>1, <4>2 DEF UnitState
    <3>2. CASE u = UnitOf(i) /\ s \in {"Failed", "Finished"}
      <4>1. i[1] \in Aim /\ i = <<i[1], u>>
        BY <3>2 DEF Inst, UnitOf
      <4>. QED
        BY <1>5, <3>2, <4>1
    <3>. QED
      BY <2>1, <3>1, <3>2 DEF UnitAnnounces
  <2>. QED
    BY <1>2, <2>1 DEF Announced, UnitAnnounces
<1>13. EndsSettled'
  BY DEF EndsSettled
<1>. QED
  BY <1>3, <1>7, <1>8, <1>9, <1>10, <1>12, <1>13 DEF IInv

-----------------------------------------------------------------------------
(* The count of a unit in a step *)

LEMMA SumOfNone ==
  ASSUME NEW U, NEW C, NEW K, IsFiniteSet(U), IsFiniteSet(C), IsFiniteSet(K)
  PROVE  /\ Cardinality(U) + Cardinality(C) + Cardinality(K) \in Nat
         /\ Cardinality(U) + Cardinality(C) + Cardinality(K) = 0 => U = {} /\ C = {} /\ K = {}
         /\ C # {} => Cardinality(U) + Cardinality(C) + Cardinality(K) > 0
<1>1. Cardinality(U) \in Nat /\ Cardinality(C) \in Nat /\ Cardinality(K) \in Nat
  BY FS_CardinalityType
<1>2. /\ Cardinality(U) = 0 <=> U = {}
      /\ Cardinality(C) = 0 <=> C = {}
      /\ Cardinality(K) = 0 <=> K = {}
  BY FS_EmptySet
<1>. QED
  BY <1>1, <1>2

\* What is left of a unit after a step that leaves the operations in their places.
LEMMA CountAfter ==
  ASSUME Types, ops' = ops, Places', stack' \in Seq(Frame), konts' \subseteq Ids, NEW i
  PROVE  /\ Unfinished(i)' = {o \in Ids : InstOf(o) = i /\ Pending(o)'}
         /\ KontsOf(i)' = {o \in konts' : InstOf(o) = i}
         /\ Calls(i)' = CallsIn(stack', i)
         /\ Counted(i)' \in Nat
         /\ Counted(i)' = 0 =>
              /\ \A o \in Ids : InstOf(o) = i => ~ Pending(o)' /\ o \notin konts'
              /\ \A f \in FramesOf(stack') : ~ IsCall(f, i)
         /\ (\E f \in FramesOf(stack') : IsCall(f, i)) => Counted(i)' > 0
<1>1. Ids' = Ids /\ \A o : InstOf(o)' = InstOf(o)
  BY DEF Ids, InstOf
<1>2. Unfinished(i)' = {o \in Ids : InstOf(o) = i /\ Pending(o)'}
  BY <1>1 DEF Unfinished, Pending
<1>3. KontsOf(i)' = {o \in konts' : InstOf(o) = i}
  BY <1>1 DEF KontsOf
<1>4. Calls(i)' = CallsIn(stack', i)
  BY DEF Calls, CallsIn, IsCall
<1>5. IsFiniteSet(Unfinished(i)') /\ IsFiniteSet(KontsOf(i)') /\ IsFiniteSet(Calls(i)')
  <2>1. Unfinished(i)' \in SUBSET Ids /\ KontsOf(i)' \in SUBSET Ids /\ IsFiniteSet(Ids)
    BY <1>2, <1>3, OpTypes
  <2>. QED
    BY <1>4, <2>1, FS_Subset, CallsFinite
<1>6. Calls(i)' = {} <=> \A f \in FramesOf(stack') : ~ IsCall(f, i)
  BY <1>4 DEF CallsIn, FramesOf
<1>7. Counted(i)' = Cardinality(Unfinished(i)') + Cardinality(Calls(i)') + Cardinality(KontsOf(i)')
  BY DEF Counted
<1>. QED
  BY <1>2, <1>3, <1>4, <1>5, <1>6, <1>7, SumOfNone

LEMMA CountBefore ==
  ASSUME IInv, NEW i \in Inst
  PROVE  /\ Unfinished(i) = {o \in Ids : InstOf(o) = i /\ Pending(o)}
         /\ IsFiniteSet(Unfinished(i)) /\ IsFiniteSet(KontsOf(i))
         /\ Cardinality(Unfinished(i)) \in Nat /\ Cardinality(KontsOf(i)) \in Nat
         /\ Calls(i) = CallsIn(stack, i) /\ Cardinality(Calls(i)) \in Nat
         /\ activity[i] \in Int
         /\ ustatus[i] = "Active" => activity[i] = Counted(i) /\ activity[i] > 0
<1>1. Types /\ Places /\ Counts
  BY DEF IInv
<1>2. activity[i] \in Int
  BY <1>1 DEF Types
<1>. QED
  BY <1>1, <1>2, UnfinishedPending DEF Counts

\* The operations are in their places, but those announced.
AreIn(sts, rdy) ==
  \A o \in Ids :
    /\ o \in rdy \cup execs' <=> sts[o] = "Ready" /\ result'[o] = "None"
    /\ sts[o] = "Guarded" => result'[o] = "None"
    /\ sts[o] = "Ready" => result'[o] = "None" \/ (result'[o] = "Error" /\ TmpFails)

\* After an announcement the ready operations are in their places.
LEMMA AnnouncePlaces ==
  ASSUME Types, ops' = ops, NEW fs \in SUBSET File, NEW us \in SUBSET Unit,
         NEW sts \in [Ids -> OpStatus], NEW rdy \in SUBSET Ids, Announce(fs, us, sts, rdy),
         setting' = setting, rdy \cap execs' = {}, AreIn(sts, rdy)
  PROVE  Places'
<1>a. AnnounceDoes(us, sts, rdy)
  BY AnnounceEffect
<1>1. \A o \in Ids : \/ status'[o] = sts[o] /\ (o \in ready' <=> o \in rdy)
                     \/ sts[o] = "Guarded" /\ status'[o] = "Ready" /\ o \in ready'
  BY <1>a DEF AnnounceDoes
<1>2. ready' \subseteq Ids /\ Ids' = Ids
  BY <1>a DEF Ids, AnnounceDoes
<1>3. ready' \cap execs' = {}
  BY <1>1, <1>2 DEF AreIn
<1>. QED
  BY <1>1, <1>2, <1>3 DEF Places, AreIn, TmpFails

\* The frames of rest are those of the stack, but for submit_ops.
SameCalls(rest) ==
  /\ rest \in Seq(Frame) /\ rest # <<>>
  /\ \A f \in FramesOf(rest) : f \in FramesOf(stack) \/ f.call \notin {"unit", "kont"}
  /\ Nested(rest)
  /\ phase = "finish" => Bottom(rest)
  /\ \A i : Cardinality(CallsIn(rest, i)) = Cardinality(CallsIn(stack, i))

\* finish_op of an operation that succeeded.
LEMMA FinishOpStep ==
  ASSUME IInv, phase # "done", UNCHANGED <<ops, setting, to_start, phase>>,
         NEW o \in ready \cup execs, NEW st \in {"Executed", "Cached"}, NEW rdy \in SUBSET Ids, NEW rest,
         Live(InstOf(o)), SameCalls(rest),
         rdy \cup execs' = (ready \cup execs) \ {o}, rdy \cap execs' = {},
         FinishOp(o, st, rdy, rest)
  PROVE  IInv'
<1>. DEFINE sts == [status EXCEPT ![o] = st]
<1>1. Types /\ Calling /\ Places /\ Successes /\ Announced
  BY DEF IInv
<1>a. o \in Ids /\ status[o] = "Ready" /\ InstOf(o) \in Inst /\ execs' \subseteq Ids
      /\ ops[o].writes \in SUBSET File
  <2>1. o \in Ids
    BY <1>1 DEF Types
  <2>. QED
    BY <1>1, <2>1, OpTypes DEF Places, Types
<1>b. PICK i \in Inst : i = InstOf(o)
  BY <1>a
<1>2. o \in Ids /\ status[o] = "Ready" /\ i = InstOf(o) /\ execs' \subseteq Ids
      /\ ops[o].writes \in SUBSET File /\ ustatus[i] \in {"Active", "Failed"}
  BY <1>a, <1>b DEF Live
<1>3. sts \in [Ids -> OpStatus] /\ sts[o] = st /\ \A p \in Ids : p # o => sts[p] = status[p]
  BY <1>1, <1>2 DEF Types, OpStatus
<1>4. AreIn(sts, rdy)
  <2>1. result' = [result EXCEPT ![o] = "Ok"]
    BY DEF FinishOp, FinishKont, FinishOk
  <2>. QED
    BY <1>1, <1>2, <1>3, <2>1 DEF Places, AreIn, Types
<1>. HIDE DEF sts
<1>5. PICK us \in SUBSET Unit, s \in {"Active", "Failed", "Finished"} :
        /\ Announce(ops[o].writes, us, sts, rdy)
        /\ us \subseteq {UnitOf(i)} /\ (us # {} => s = "Finished")
        /\ ustatus' = [ustatus EXCEPT ![i] = s] /\ activity' = [activity EXCEPT ![i] = activity[i] - 1]
        /\ result' = [result EXCEPT ![o] = "Ok"] /\ konts' = konts \ {o}
        /\ ustatus[i] = "Failed" => s = "Failed"
        /\ \/ /\ o \in konts /\ s = ustatus[i]
              /\ stack' = <<KontFrame(o, ustatus[i] = "Failed")>> \o rest
           \/ /\ o \notin konts /\ stack' = rest
              /\ ustatus[i] = "Active" => s = StatusAfterTry("Active", activity[i] - 1)
  <2>1. UnitOf(i) \in Unit /\ ustatus = [ustatus EXCEPT ![i] = ustatus[i]]
    BY <1>1, <1>2 DEF Types, Inst, UnitOf
  <2>2. CASE FinishKont(o, st, rdy, rest)
    <3>1. /\ Announce(ops[o].writes, {}, sts, rdy) /\ o \in konts
          /\ stack' = <<KontFrame(o, ustatus[i] = "Failed")>> \o rest
          /\ ustatus' = ustatus /\ activity' = [activity EXCEPT ![i] = activity[i] - 1]
          /\ result' = [result EXCEPT ![o] = "Ok"] /\ konts' = konts \ {o}
      BY <1>2, <2>2 DEF FinishKont, sts
    <3>. QED
      BY <1>2, <2>1, <3>1
  <2>3. CASE FinishOk(o, st, rdy, rest)
    <3>1. /\ o \notin konts /\ konts' = konts \ {o} /\ stack' = rest
          /\ activity' = [activity EXCEPT ![i] = activity[i] - 1]
          /\ result' = [result EXCEPT ![o] = "Ok"]
      BY <1>2, <2>3 DEF FinishOk
    <3>2. CASE /\ ustatus[i] = "Active"
               /\ ustatus' = [ustatus EXCEPT ![i] = StatusAfterTry("Active", activity[i] - 1)]
               /\ Announce(ops[o].writes, AnnouncedByTry(i, activity[i] - 1), sts, rdy)
      <4>1. /\ AnnouncedByTry(i, activity[i] - 1) \in SUBSET {UnitOf(i)}
            /\ AnnouncedByTry(i, activity[i] - 1) # {} => StatusAfterTry("Active", activity[i] - 1) = "Finished"
            /\ StatusAfterTry("Active", activity[i] - 1) \in {"Active", "Finished"}
        BY DEF AnnouncedByTry, StatusAfterTry
      <4>. QED
        BY <1>2, <2>1, <3>1, <3>2, <4>1
    <3>3. CASE /\ ustatus[i] = "Failed" /\ ustatus' = ustatus
               /\ Announce(ops[o].writes, {}, sts, rdy)
      BY <1>2, <2>1, <3>1, <3>3
    <3>. QED
      BY <1>2, <2>3, <3>2, <3>3 DEF FinishOk, sts
  <2>. QED
    BY <2>2, <2>3 DEF FinishOp
<1>6. AnnounceDoes(us, sts, rdy)
  BY <1>1, <1>2, <1>3, <1>5, AnnounceEffect
<1>e. /\ files_ready' \subseteq File /\ units_ready' = units_ready \cup us /\ units_ready' \subseteq Unit
      /\ ready' \subseteq Ids /\ status' \in [Ids -> OpStatus]
  BY <1>6 DEF AnnounceDoes
<1>f. \A u \in units_ready' : u \in units_ready \/ (u = UnitOf(i) /\ s = "Finished")
  BY <1>5, <1>e
<1>7. Places'
  BY <1>1, <1>2, <1>3, <1>4, <1>5, AnnouncePlaces
<1>8. /\ status'[o] = st /\ ~ Pending(o)' /\ Pending(o)
      /\ \A p \in Ids : p # o => /\ (Pending(p)' <=> Pending(p))
                                 /\ ~ Pending(p) => status'[p] = status[p]
  BY <1>2, <1>3, <1>6 DEF Pending, AnnounceDoes
<1>9. /\ result' \in [Ids -> {"None", "Ok", "Error"}] /\ result'[o] = "Ok"
      /\ \A p \in Ids : p # o => result'[p] = result[p]
      /\ konts' \subseteq Ids
  BY <1>1, <1>2, <1>5 DEF Types
<1>10. \A p \in Ids : status'[p] \in {"Ready", "Executed"} => ops[p].units \subseteq units_ready'
  BY <1>1, <1>2, <1>3, <1>6 DEF Announced, AnnounceDoes
<1>11. /\ stack' \in Seq(Frame) /\ stack' # <<>> /\ Nested(stack')
       /\ phase = "finish" => Bottom(stack')
       /\ \A f \in FramesOf(stack') :
            \/ f \in FramesOf(stack) \/ f.call \notin {"unit", "kont"}
            \/ o \in konts /\ f.inst = i /\ (f.failed => ustatus[i] = "Failed")
       /\ \A j \in Inst : Cardinality(CallsIn(stack', j)) =
            Cardinality(CallsIn(stack, j)) + (IF o \in konts /\ j = i THEN 1 ELSE 0)
       /\ o \in konts => \E f \in FramesOf(stack') : IsCall(f, i)
  <2>1. CASE o \notin konts
    <3>1. \A j \in Inst : Cardinality(CallsIn(stack, j)) \in Nat
      BY <1>1, CallsFinite DEF Types
    <3>. QED
      BY <1>5, <2>1, <3>1 DEF SameCalls
  <2>2. CASE o \in konts
    <3>. DEFINE k == KontFrame(o, ustatus[i] = "Failed")
    <3>1. k \in Frame /\ k.call = "kont" /\ k.inst = i /\ (k.failed => ustatus[i] = "Failed")
      BY <1>2 DEF KontFrame, Frame
    <3>2. stack' = <<k>> \o rest
      BY <1>5, <2>2
    <3>. HIDE DEF k
    <3>3. /\ stack' \in Seq(Frame) /\ stack' # <<>> /\ FramesOf(stack') = {k} \cup FramesOf(rest)
          /\ Nested(stack') /\ (phase = "finish" => Bottom(stack'))
      BY <3>1, <3>2, Push DEF SameCalls
    <3>4. \A j \in Inst : IsCall(k, j) <=> j = i
      BY <3>1 DEF IsCall
    <3>5. \A j \in Inst : Cardinality(CallsIn(stack', j)) =
            Cardinality(CallsIn(stack, j)) + (IF j = i THEN 1 ELSE 0)
      BY <3>1, <3>2, <3>4, Push DEF SameCalls
    <3>. QED
      BY <1>2, <2>2, <3>1, <3>3, <3>4, <3>5 DEF SameCalls
  <2>. QED
    BY <2>1, <2>2
<1>12. /\ Unfinished(i)' = {p \in Ids : InstOf(p) = i /\ Pending(p)'}
       /\ KontsOf(i)' = {p \in konts' : InstOf(p) = i}
       /\ Calls(i)' = CallsIn(stack', i)
       /\ Counted(i)' \in Nat
       /\ Counted(i)' = 0 =>
            /\ \A p \in Ids : InstOf(p) = i => ~ Pending(p)' /\ p \notin konts'
            /\ \A f \in FramesOf(stack') : ~ IsCall(f, i)
       /\ (\E f \in FramesOf(stack') : IsCall(f, i)) => Counted(i)' > 0
  BY <1>1, <1>7, <1>9, <1>11, CountAfter
<1>c. /\ Unfinished(i) = {p \in Ids : InstOf(p) = i /\ Pending(p)}
      /\ IsFiniteSet(Unfinished(i)) /\ IsFiniteSet(KontsOf(i))
      /\ Cardinality(Unfinished(i)) \in Nat /\ Cardinality(KontsOf(i)) \in Nat
      /\ Calls(i) = CallsIn(stack, i) /\ Cardinality(Calls(i)) \in Nat
      /\ activity[i] \in Int
      /\ ustatus[i] = "Active" => activity[i] = Counted(i) /\ activity[i] > 0
  BY CountBefore
<1>d. ASSUME ustatus[i] = "Active" PROVE Counted(i)' = activity[i] - 1
  <2>1. Unfinished(i)' = Unfinished(i) \ {o} /\ o \in Unfinished(i)
    BY <1>2, <1>8, <1>12, <1>c
  <2>2. Cardinality(Unfinished(i)') = Cardinality(Unfinished(i)) - 1
    BY <2>1, <1>c, FS_RemoveElement
  <2>3. KontsOf(i)' = KontsOf(i) \ {o} /\ (o \in KontsOf(i) <=> o \in konts)
    BY <1>2, <1>5, <1>12 DEF KontsOf
  <2>4. Counted(i)' = Cardinality(Unfinished(i)') + Cardinality(Calls(i)') + Cardinality(KontsOf(i)')
    BY DEF Counted
  <2>5. activity[i] = Cardinality(Unfinished(i)) + Cardinality(Calls(i)) + Cardinality(KontsOf(i))
    BY <1>c, <1>d DEF Counted
  <2>6. CASE o \in konts
    <3>1. Cardinality(KontsOf(i)') = Cardinality(KontsOf(i)) - 1
      BY <1>c, <2>3, <2>6, FS_RemoveElement
    <3>2. Cardinality(Calls(i)') = Cardinality(Calls(i)) + 1
      BY <1>11, <1>12, <1>c, <2>6
    <3>. QED
      BY <1>c, <2>2, <2>4, <2>5, <3>1, <3>2
  <2>7. CASE o \notin konts
    <3>1. KontsOf(i)' = KontsOf(i)
      BY <2>3, <2>7
    <3>2. Cardinality(Calls(i)') = Cardinality(Calls(i))
      BY <1>11, <1>12, <1>c, <2>7
    <3>. QED
      BY <1>c, <2>2, <2>4, <2>5, <3>1, <3>2
  <2>. QED
    BY <2>6, <2>7
<1>13. /\ s = "Active" => activity[i] - 1 = Counted(i)' /\ activity[i] - 1 > 0
       /\ s = "Finished" => Counted(i)' = 0
  <2>2. CASE o \in konts
    <3>1. s = ustatus[i] /\ Counted(i)' > 0
      BY <1>5, <1>11, <1>12, <2>2
    <3>. QED
      BY <1>2, <1>c, <1>d, <3>1
  <2>3. CASE o \notin konts
    <3>1. ustatus[i] = "Active" => s = IF activity[i] - 1 = 0 THEN "Finished" ELSE "Active"
      BY <1>5, <2>3 DEF StatusAfterTry
    <3>. QED
      BY <1>2, <1>5, <1>12, <1>c, <1>d, <3>1
  <2>. QED
    BY <2>2, <2>3
<1>14. s = "Finished" => /\ \A p \in Ids : InstOf(p) = i => ~ Pending(p)' /\ p \notin konts'
                         /\ \A f \in FramesOf(stack') : ~ IsCall(f, i)
  BY <1>12, <1>13
<1>15. ASSUME NEW p \in Ids, InstOf(p) = i, s \in {"Active", "Finished"}
       PROVE  Succeeded(p)' \/ (s = "Active" /\ Pending(p)')
  <2>1. CASE p = o
    BY <1>5, <1>8, <1>9, <2>1 DEF Succeeded
  <2>2. CASE p # o
    <3>1. ustatus[i] = "Active"
      BY <1>2, <1>5, <1>15
    <3>2. Pending(p) \/ Succeeded(p)
      BY <1>1, <1>15, <3>1 DEF Successes
    <3>3. Succeeded(p) => Succeeded(p)'
      BY <1>5, <1>8, <1>9, <2>2 DEF Succeeded, Pending
    <3>. QED
      BY <1>8, <1>14, <1>15, <2>2, <3>2, <3>3
  <2>. QED
    BY <2>1, <2>2
<1>16. \A p \in Ids : InstOf(p) # i =>
         /\ (Pending(p)' <=> Pending(p)) /\ result'[p] = result[p] /\ (p \in konts' <=> p \in konts)
         /\ ~ Pending(p) => status'[p] = status[p]
  BY <1>2, <1>5, <1>8, <1>9
<1>17. activity[i] - 1 \in Int /\ \A j \in Inst \ {i} : Cardinality(CallsIn(stack', j)) = Cardinality(CallsIn(stack, j))
  <2>1. \A j \in Inst : Cardinality(CallsIn(stack, j)) \in Nat
    BY <1>1, CallsFinite DEF Types
  <2>2. activity[i] \in Int
    BY <1>1, <1>2 DEF Types
  <2>. QED
    BY <1>11, <2>1, <2>2
<1>18. \A f \in FramesOf(stack') :
         \/ f \in FramesOf(stack) \/ f.call \notin {"unit", "kont"}
         \/ f.inst = i /\ (f.call = "kont" /\ f.failed => s = "Failed")
  BY <1>5, <1>11
<1>g. UnitState(i, s, activity[i] - 1)
  BY <1>2, <1>5, <1>e, <1>9 DEF UnitState
<1>h. UnitCalls(i, s)
  BY <1>11, <1>14, <1>17, <1>18 DEF UnitCalls
<1>j. UnitOps(i, s, activity[i] - 1)
  BY <1>13, <1>15, <1>16 DEF UnitOps
<1>k. UnitAnnounces(i, s)
  BY <1>f, <1>10 DEF UnitAnnounces
<1>. QED
  BY <1>2, <1>7, <1>17, <1>g, <1>h, <1>j, <1>k, UnitStep

-----------------------------------------------------------------------------
(* submit_ops and collect_ops *)

\* While a call is in progress the build is not over.
LEMMA Collecting ==
  ASSUME IInv, stack # <<>>
  PROVE  /\ phase # "done"
         /\ SameCalls(stack) /\ SameCalls(<<SubmitOps>> \o stack)
<1>1. Types /\ Calling
  BY DEF IInv
<1>2. /\ stack \in Seq(Frame) /\ Nested(stack) /\ (phase = "finish" => Bottom(stack))
      /\ phase # "done"
  BY <1>1 DEF Types, Calling
<1>3. SameCalls(stack)
  BY <1>2 DEF SameCalls
<1>4. SubmitOps \in Frame /\ SubmitOps.call = "submit_ops" /\ \A i : ~ IsCall(SubmitOps, i)
  BY FrameFacts DEF IsCall
<1>5. /\ <<SubmitOps>> \o stack \in Seq(Frame) /\ <<SubmitOps>> \o stack # <<>>
      /\ FramesOf(<<SubmitOps>> \o stack) = {SubmitOps} \cup FramesOf(stack)
      /\ Nested(<<SubmitOps>> \o stack) /\ (phase = "finish" => Bottom(<<SubmitOps>> \o stack))
  BY <1>2, <1>4, Push
<1>6. ASSUME NEW i
      PROVE  Cardinality(CallsIn(<<SubmitOps>> \o stack, i)) = Cardinality(CallsIn(stack, i))
  <2>1. Cardinality(CallsIn(<<SubmitOps>> \o stack, i)) =
          Cardinality(CallsIn(stack, i)) + (IF IsCall(SubmitOps, i) THEN 1 ELSE 0)
    BY <1>2, <1>4, Push
  <2>2. Cardinality(CallsIn(stack, i)) \in Nat
    BY <1>2, CallsFinite
  <2>. QED
    BY <1>4, <2>1, <2>2
<1>7. SameCalls(<<SubmitOps>> \o stack)
  BY <1>4, <1>5, <1>6 DEF SameCalls
<1>. QED
  BY <1>2, <1>3, <1>7

\* A step in which ready operations go to the executor or are lost by it, or
\* calls that are not those of a unit begin or return.
LEMMA QuietStep ==
  ASSUME IInv, phase # "done", phase' \in {"start", "finish", "raised"},
         UNCHANGED <<ustatus, activity, ops, status, files_ready, units_ready,
                     konts, to_start, setting>>,
         result' \in [Ids -> {"None", "Ok", "Error"}],
         \A o \in Ids : ~ Pending(o) => result'[o] = result[o],
         ready' \subseteq Ids, execs' \subseteq Ids, stack' \in Seq(Frame),
         Places', Calling',
         \A j \in Inst : Cardinality(CallsIn(stack', j)) = Cardinality(CallsIn(stack, j))
  PROVE  IInv'
<1>1. Types /\ Calling /\ Places /\ Counts /\ Successes /\ Absent
      /\ FinishedAreOver /\ Announced /\ NotStarted
  BY DEF IInv
<1>2. Ids' = Ids /\ \A o : InstOf(o)' = InstOf(o) /\ Pending(o)' = Pending(o)
  BY DEF Ids, InstOf, Pending
<1>3. Types'
  BY <1>1, <1>2 DEF Types, MaxOps
<1>4. Counts'
  <2>. SUFFICES ASSUME NEW j \in Inst, ustatus[j] = "Active"
                PROVE  activity[j] = Counted(j)' /\ activity[j] > 0
    BY DEF Counts
  <2>1. Unfinished(j)' = Unfinished(j)
    <3>1. Unfinished(j) = {o \in Ids : InstOf(o) = j /\ Pending(o)}
      BY <1>1, UnfinishedPending
    <3>2. Unfinished(j)' = {o \in Ids : InstOf(o) = j /\ Pending(o)'}
      BY <1>2 DEF Unfinished, Pending
    <3>. QED
      BY <1>2, <3>1, <3>2
  <2>2. KontsOf(j)' = KontsOf(j)
    BY <1>2 DEF KontsOf
  <2>3. Cardinality(Calls(j))' = Cardinality(Calls(j))
    BY DEF Calls, CallsIn, IsCall
  <2>4. Counted(j)' = Counted(j)
    BY <2>1, <2>2, <2>3 DEF Counted
  <2>. QED
    BY <1>1, <2>4 DEF Counts
<1>5. Successes' /\ FinishedAreOver'
  BY <1>1, <1>2 DEF Successes, FinishedAreOver, Succeeded
<1>6. Absent'
  BY <1>1, <1>2 DEF Absent
<1>8. Announced' /\ NotStarted'
  BY <1>1, <1>2 DEF Announced, NotStarted, StartInst
<1>9. EndsSettled'
  BY DEF EndsSettled
<1>. QED
  BY <1>3, <1>4, <1>5, <1>6, <1>8, <1>9 DEF IInv

\* submit_op of an operation whose unit failed: it is aborted.
LEMMA AbortStep ==
  ASSUME IInv, stack # <<>>, NEW o \in ready, ustatus[InstOf(o)] = "Failed",
         status' = [status EXCEPT ![o] = "Aborted"], ready' = ready \ {o},
         UNCHANGED <<ustatus, activity, ops, result, files_ready, units_ready, execs, konts,
                     to_start, stack, phase, setting>>
  PROVE  IInv'
<1>1. Types /\ Calling /\ Places /\ Announced
  BY DEF IInv
<1>2. o \in Ids /\ InstOf(o) \in Inst /\ status[o] = "Ready" /\ o \notin execs
  <2>1. o \in Ids
    BY <1>1 DEF Types
  <2>. QED
    BY <1>1, <2>1, OpTypes DEF Places
<1>3. PICK i \in Inst : i = InstOf(o)
  BY <1>2
<1>4. Ids' = Ids /\ \A p : InstOf(p)' = InstOf(p)
  BY DEF Ids, InstOf
<1>5. status'[o] = "Aborted" /\ \A p \in Ids : p # o => status'[p] = status[p]
  BY <1>1, <1>2 DEF Types
<1>6. SameCalls(stack) /\ phase # "done"
  BY Collecting
<1>7. Places'
  BY <1>1, <1>2, <1>4, <1>5 DEF Places, TmpFails
<1>8. UnitState(i, "Failed", activity[i])
  BY <1>1, <1>2, <1>3 DEF UnitState, Types, OpStatus
<1>9. UnitCalls(i, "Failed")
  BY <1>6 DEF UnitCalls, SameCalls
<1>10. UnitOps(i, "Failed", activity[i])
  BY <1>3, <1>5 DEF UnitOps, Pending
<1>11. UnitAnnounces(i, "Failed")
  BY <1>1, <1>5 DEF UnitAnnounces, Announced
<1>12. activity[i] \in Int /\ Live(i)
  BY <1>1, <1>3 DEF Types, Live
<1>. QED
  BY <1>6, <1>7, <1>8, <1>9, <1>10, <1>11, <1>12, UnitStep

LEMMA SubmitStep ==
  ASSUME IInv, stack # <<>>, NEW o \in ready, SubmitOp(o),
         UNCHANGED <<ops, to_start, phase, setting>>
  PROVE  IInv'
<1>1. Types /\ Calling /\ Places
  BY DEF IInv
<1>2. SameCalls(stack) /\ phase # "done"
  BY Collecting
<1>3. o \in Ids /\ o \notin execs
  BY <1>1 DEF Types, Places
<1>4. CASE /\ ustatus[InstOf(o)] = "Active" /\ execs' = execs
           /\ FinishOp(o, "Cached", ready \ {o}, stack)
  <2>1. /\ (ready \ {o}) \cup execs' = (ready \cup execs) \ {o} /\ (ready \ {o}) \cap execs' = {}
        /\ ready \ {o} \in SUBSET Ids
    BY <1>1, <1>3, <1>4 DEF Places, Types
  <2>2. Live(InstOf(o)) /\ o \in ready \cup execs
    BY <1>4 DEF Live
  <2>. QED
    BY <1>2, <1>4, <2>1, <2>2, FinishOpStep
<1>5. CASE /\ execs' = execs \cup {o} /\ ready' = ready \ {o}
           /\ UNCHANGED <<ustatus, activity, status, result, files_ready, units_ready, konts, stack>>
  <2>1. Places'
    BY <1>1, <1>3, <1>5 DEF Places, TmpFails, Ids
  <2>2. Calling'
    BY <1>1, <1>2, <1>5 DEF Calling, SameCalls, Live
  <2>3. ready' \subseteq Ids /\ execs' \subseteq Ids /\ stack' \in Seq(Frame)
    BY <1>1, <1>3, <1>5 DEF Types
  <2>. QED
    BY <1>1, <1>2, <1>5, <2>1, <2>2, <2>3, QuietStep DEF Types
<1>6. CASE /\ ustatus[InstOf(o)] = "Failed"
           /\ status' = [status EXCEPT ![o] = "Aborted"] /\ ready' = ready \ {o}
           /\ UNCHANGED <<ustatus, activity, result, files_ready, units_ready, execs, konts, stack>>
  BY <1>6, AbortStep
<1>. QED
  BY <1>4, <1>5, <1>6 DEF SubmitOp

\* finish_op of an operation that failed.
LEMMA FinishErrorStep ==
  ASSUME IInv, phase # "done", NEW o \in execs, NEW rest, Live(InstOf(o)), SameCalls(rest),
         execs' = execs \ {o}, FinishError(o, ready, rest), UNCHANGED <<ops, setting, to_start, phase>>
  PROVE  IInv'
<1>1. Types /\ Calling /\ Places /\ Announced
  BY DEF IInv
<1>2. o \in Ids /\ InstOf(o) \in Inst /\ status[o] = "Ready" /\ o \notin ready
  <2>1. o \in Ids
    BY <1>1 DEF Types
  <2>. QED
    BY <1>1, <2>1, OpTypes DEF Places
<1>3. PICK i \in Inst : i = InstOf(o)
  BY <1>2
<1>4. /\ activity' = [activity EXCEPT ![i] = activity[i] - 2]
      /\ ustatus' = [ustatus EXCEPT ![i] = "Failed"] /\ konts' = konts \ {o}
      /\ status' = [status EXCEPT ![o] = "Executed"] /\ result' = [result EXCEPT ![o] = "Error"]
      /\ ready' = ready /\ stack' = rest /\ UNCHANGED <<files_ready, units_ready>>
  BY <1>3 DEF FinishError
<1>5. Ids' = Ids /\ \A p : InstOf(p)' = InstOf(p)
  BY DEF Ids, InstOf
<1>6. /\ status'[o] = "Executed"
      /\ \A p \in Ids : p # o => status'[p] = status[p] /\ result'[p] = result[p]
  BY <1>1, <1>2, <1>4 DEF Types
<1>7. Places'
  BY <1>1, <1>2, <1>4, <1>5, <1>6 DEF Places, TmpFails
<1>8. UnitState(i, "Failed", activity[i] - 2)
  BY <1>1, <1>2, <1>3, <1>4 DEF UnitState, Types, OpStatus
<1>9. UnitCalls(i, "Failed")
  BY <1>4 DEF UnitCalls, SameCalls
<1>10. UnitOps(i, "Failed", activity[i] - 2)
  BY <1>3, <1>4, <1>6 DEF UnitOps, Pending
<1>11. UnitAnnounces(i, "Failed")
  BY <1>1, <1>2, <1>4, <1>6 DEF UnitAnnounces, Announced
<1>12. activity[i] - 2 \in Int /\ Live(i)
  <2>1. activity[i] \in Int
    BY <1>1, <1>3 DEF Types
  <2>. QED
    BY <1>3, <2>1
<1>. QED
  BY <1>7, <1>8, <1>9, <1>10, <1>11, <1>12, UnitStep

LEMMA CollectStep ==
  ASSUME IInv, CollectSome, UNCHANGED setting
  PROVE  IInv'
<1>1. Types /\ Places /\ stack # <<>> /\ UNCHANGED <<ops, to_start, phase>>
  BY DEF IInv, CollectSome, Running
<1>2. SameCalls(<<SubmitOps>> \o stack) /\ phase # "done"
  BY <1>1, Collecting
<1>3. PICK o \in execs :
        /\ Live(InstOf(o)) /\ execs' = execs \ {o}
        /\ \/ FinishOp(o, "Executed", ready, <<SubmitOps>> \o stack)
           \/ FinishError(o, ready, <<SubmitOps>> \o stack)
  BY DEF CollectSome
<1>4. CASE FinishOp(o, "Executed", ready, <<SubmitOps>> \o stack)
  <2>1. /\ ready \cup execs' = (ready \cup execs) \ {o} /\ ready \cap execs' = {}
        /\ ready \in SUBSET Ids /\ o \in ready \cup execs
    BY <1>1, <1>3 DEF Places, Types
  <2>. QED
    BY <1>1, <1>2, <1>3, <1>4, <2>1, FinishOpStep
<1>5. CASE FinishError(o, ready, <<SubmitOps>> \o stack)
  BY <1>1, <1>2, <1>3, <1>5, FinishErrorStep
<1>. QED
  BY <1>3, <1>4, <1>5

-----------------------------------------------------------------------------
(* Calls that return *)

\* submit_ops, collect_ops or an operation that is not added any more.
LEMMA ReturnStep ==
  ASSUME IInv, stack # <<>>, Head(stack).call \notin {"unit", "kont"}, Return,
         Head(stack) = CollectOps(TRUE) => ready = {} /\ execs = {},
         UNCHANGED <<ustatus, activity, ops, status, result, files_ready, units_ready,
                     ready, execs, konts, to_start, phase, setting>>
  PROVE  IInv'
<1>1. Types /\ Calling /\ Places
  BY DEF IInv
<1>2. stack \in Seq(Frame) /\ stack' = Tail(stack) /\ Nested(stack)
  BY <1>1 DEF Types, Calling, Return
<1>3. /\ Tail(stack) \in Seq(Frame) /\ FramesOf(Tail(stack)) \subseteq FramesOf(stack)
      /\ Nested(Tail(stack)) /\ (Bottom(stack) => Bottom(Tail(stack)))
      /\ Bottom(stack) /\ Tail(stack) = <<>> => Head(stack) = CollectOps(TRUE)
  BY <1>2, Pop
<1>4. \A j : Cardinality(CallsIn(Tail(stack), j)) = Cardinality(CallsIn(stack, j))
  <2>. TAKE j
  <2>1. Cardinality(CallsIn(Tail(stack), j)) =
          Cardinality(CallsIn(stack, j)) - (IF IsCall(Head(stack), j) THEN 1 ELSE 0)
    BY <1>2, Pop
  <2>2. ~ IsCall(Head(stack), j) /\ Cardinality(CallsIn(stack, j)) \in Nat
    BY <1>2, CallsFinite DEF IsCall
  <2>. QED
    BY <2>1, <2>2
<1>5. phase # "done"
  BY Collecting
<1>6. Calling'
  BY <1>1, <1>2, <1>3, <1>5 DEF Calling, Live
<1>7. Places' /\ ready' \subseteq Ids /\ execs' \subseteq Ids
  BY <1>1 DEF Places, TmpFails, Types, Ids
<1>. QED
  BY <1>1, <1>2, <1>3, <1>4, <1>5, <1>6, <1>7, QuietStep DEF Types

\* The executor loses an operation, and its exception leaves collect_ops.
LEMMA CollectRaisesStep ==
  ASSUME IInv, CollectRaises, UNCHANGED setting
  PROVE  IInv'
<1>1. Types /\ Calling /\ Places
  BY DEF IInv
<1>2. /\ stack # <<>> /\ Head(stack).call = "collect_ops" /\ stack' = Tail(stack) /\ TmpFails
      /\ phase' = IF Head(stack).finish THEN "raised" ELSE phase
      /\ UNCHANGED <<ustatus, activity, ops, status, files_ready, units_ready, ready, konts, to_start>>
  BY DEF CollectRaises, Running, Return
<1>3. PICK o \in execs : execs' = execs \ {o} /\ result' = [result EXCEPT ![o] = "Error"]
  BY DEF CollectRaises
<1>4. phase # "done" /\ phase \in {"start", "finish", "raised"}
  BY <1>1, <1>2, Collecting DEF Types
<1>5. /\ Tail(stack) \in Seq(Frame) /\ FramesOf(Tail(stack)) \subseteq FramesOf(stack)
      /\ Nested(Tail(stack)) /\ (Bottom(stack) => Bottom(Tail(stack)))
      /\ Bottom(stack) /\ Tail(stack) = <<>> => Head(stack).finish
  BY <1>1, <1>2, Pop, FrameFacts DEF Types, Calling
<1>6. \A j : Cardinality(CallsIn(Tail(stack), j)) = Cardinality(CallsIn(stack, j))
  <2>. TAKE j
  <2>1. Cardinality(CallsIn(Tail(stack), j)) =
          Cardinality(CallsIn(stack, j)) - (IF IsCall(Head(stack), j) THEN 1 ELSE 0)
    BY <1>1, <1>2, Pop DEF Types
  <2>2. ~ IsCall(Head(stack), j) /\ Cardinality(CallsIn(stack, j)) \in Nat
    BY <1>1, <1>2, CallsFinite DEF IsCall, Types
  <2>. QED
    BY <2>1, <2>2
<1>7. o \in Ids /\ status[o] = "Ready" /\ Ids' = Ids
  BY <1>1, <1>2 DEF Types, Places, Ids
<1>8. /\ result' \in [Ids -> {"None", "Ok", "Error"}] /\ result'[o] = "Error"
      /\ \A p \in Ids : p # o => result'[p] = result[p]
  BY <1>1, <1>3, <1>7 DEF Types
<1>9. Places'
  BY <1>1, <1>2, <1>3, <1>7, <1>8 DEF Places, TmpFails
<1>10. Calling'
  <2>1. CASE Head(stack).finish
    BY <1>1, <1>2, <1>5, <2>1 DEF Calling, Live
  <2>2. CASE ~ Head(stack).finish
    BY <1>1, <1>2, <1>4, <1>5, <2>2 DEF Calling, Live
  <2>. QED
    BY <2>1, <2>2
<1>11. ready' \subseteq Ids /\ execs' \subseteq Ids /\ phase' \in {"start", "finish", "raised"}
  BY <1>1, <1>2, <1>3, <1>4 DEF Types
<1>12. \A p \in Ids : ~ Pending(p) => result'[p] = result[p]
  BY <1>7, <1>8 DEF Pending
<1>. QED
  BY <1>2, <1>4, <1>5, <1>6, <1>8, <1>9, <1>10, <1>11, <1>12, QuietStep

\* A function of a unit or a continuation.
LEMMA CallReturns ==
  ASSUME IInv, stack # <<>>, NEW i, IsCall(Head(stack), i), Return
  PROVE  /\ i \in Inst /\ Live(i) /\ phase # "done"
         /\ stack' \in Seq(Frame) /\ FramesOf(stack') \subseteq FramesOf(stack) /\ Nested(stack')
         /\ phase = "finish" => stack' # <<>> /\ Bottom(stack')
         /\ \A j \in Inst \ {i} : Cardinality(CallsIn(stack', j)) = Cardinality(CallsIn(stack, j))
         /\ Cardinality(CallsIn(stack', i)) = Cardinality(CallsIn(stack, i)) - 1
         /\ Head(stack).call = "kont" /\ Head(stack).failed => ustatus[i] = "Failed"
<1>1. stack \in Seq(Frame) /\ stack' = Tail(stack) /\ Calling
  BY DEF IInv, Types, Return
<1>2. phase # "done"
  BY Collecting
<1>3. Nested(stack) /\ (phase = "finish" => Bottom(stack))
  BY <1>1 DEF Calling
<1>4. /\ Head(stack) \in Frame /\ Head(stack) \in FramesOf(stack)
      /\ Tail(stack) \in Seq(Frame) /\ FramesOf(Tail(stack)) \subseteq FramesOf(stack)
      /\ Nested(Tail(stack)) /\ (Bottom(stack) => Bottom(Tail(stack)))
      /\ Bottom(stack) /\ Tail(stack) = <<>> => Head(stack) = CollectOps(TRUE)
      /\ \A j : Cardinality(CallsIn(Tail(stack), j)) =
                  Cardinality(CallsIn(stack, j)) - (IF IsCall(Head(stack), j) THEN 1 ELSE 0)
  BY <1>1, <1>3, Pop
<1>5. i \in Inst /\ Head(stack) # CollectOps(TRUE)
  BY <1>4, FrameTypes, FrameFacts DEF IsCall
<1>6. Live(i) /\ (Head(stack).call = "kont" /\ Head(stack).failed => ustatus[i] = "Failed")
  BY <1>1, <1>4 DEF Calling, IsCall
<1>7. \A j : Cardinality(CallsIn(stack, j)) \in Nat
  BY <1>1, CallsFinite
<1>8. \A j \in Inst \ {i} : Cardinality(CallsIn(stack', j)) = Cardinality(CallsIn(stack, j))
  <2>. TAKE j \in Inst \ {i}
  <2>1. ~ IsCall(Head(stack), j)
    BY DEF IsCall
  <2>. QED
    BY <1>1, <1>4, <1>7, <2>1
<1>. QED
  BY <1>1, <1>2, <1>3, <1>4, <1>5, <1>6, <1>8

\* ... the unit being Failed after it.
LEMMA FailStep ==
  ASSUME IInv, stack # <<>>, NEW i, NEW n \in Int, IsCall(Head(stack), i), Return,
         activity' = [activity EXCEPT ![i] = n], ustatus' = [ustatus EXCEPT ![i] = "Failed"],
         UNCHANGED <<ops, status, result, files_ready, units_ready, ready, execs, konts,
                     to_start, phase, setting>>
  PROVE  IInv'
<1>1. Types /\ Places /\ Announced
  BY DEF IInv
<1>2. /\ i \in Inst /\ Live(i) /\ phase # "done"
      /\ stack' \in Seq(Frame) /\ FramesOf(stack') \subseteq FramesOf(stack) /\ Nested(stack')
      /\ phase = "finish" => stack' # <<>> /\ Bottom(stack')
      /\ \A j \in Inst \ {i} : Cardinality(CallsIn(stack', j)) = Cardinality(CallsIn(stack, j))
  BY CallReturns
<1>3. Places'
  BY <1>1 DEF Places, TmpFails, Ids
<1>4. UnitState(i, "Failed", n)
  BY <1>1 DEF UnitState, Types
<1>5. UnitCalls(i, "Failed")
  BY <1>2 DEF UnitCalls
<1>6. UnitOps(i, "Failed", n)
  BY DEF UnitOps, Pending
<1>7. UnitAnnounces(i, "Failed")
  BY <1>1 DEF UnitAnnounces, Announced
<1>. QED
  BY <1>2, <1>3, <1>4, <1>5, <1>6, <1>7, UnitStep

\* ... and try_finish_unit.
LEMMA TryStep ==
  ASSUME IInv, stack # <<>>, NEW i, NEW s \in {"Active", "Failed"}, ustatus[i] = "Failed" => s = "Failed",
         IsCall(Head(stack), i), Return,
         activity' = [activity EXCEPT ![i] = activity[i] - 1],
         ustatus' = [ustatus EXCEPT ![i] = StatusAfterTry(s, activity[i] - 1)],
         Announce({}, AnnouncedByTry(i, activity[i] - 1), status, ready),
         UNCHANGED <<ops, result, execs, konts, to_start, phase, setting>>
  PROVE  IInv'
<1>1. Types /\ Places /\ Announced /\ Successes
  BY DEF IInv
<1>2. /\ i \in Inst /\ Live(i) /\ phase # "done"
      /\ stack' \in Seq(Frame) /\ FramesOf(stack') \subseteq FramesOf(stack) /\ Nested(stack')
      /\ phase = "finish" => stack' # <<>> /\ Bottom(stack')
      /\ \A j \in Inst \ {i} : Cardinality(CallsIn(stack', j)) = Cardinality(CallsIn(stack, j))
      /\ Cardinality(CallsIn(stack', i)) = Cardinality(CallsIn(stack, i)) - 1
  BY CallReturns
<1>3. PICK n \in Int, t \in {"Active", "Failed", "Finished"}, us \in SUBSET Unit :
        /\ n = activity[i] - 1 /\ t = StatusAfterTry(s, n) /\ us = AnnouncedByTry(i, n)
  <2>1. activity[i] - 1 \in Int
    BY <1>1, <1>2 DEF Types
  <2>2. StatusAfterTry(s, activity[i] - 1) \in {"Active", "Failed", "Finished"}
    BY DEF StatusAfterTry
  <2>3. AnnouncedByTry(i, activity[i] - 1) \in SUBSET Unit
    BY <1>2 DEF AnnouncedByTry, UnitOf, Inst
  <2>. QED
    BY <2>1, <2>2, <2>3
<1>4. /\ t = IF n = 0 /\ s = "Active" THEN "Finished" ELSE s
      /\ us = IF n = 0 THEN {UnitOf(i)} ELSE {}
  BY <1>3 DEF StatusAfterTry, AnnouncedByTry
<1>5. AnnounceDoes(us, status, ready)
  BY <1>1, <1>3, AnnounceEffect DEF Types
<1>6. Places'
  <2>1. /\ status \in [Ids -> OpStatus] /\ ready \in SUBSET Ids /\ execs' = execs /\ ops' = ops
        /\ ready \cap execs' = {} /\ AreIn(status, ready)
    BY <1>1 DEF Types, Places, AreIn
  <2>2. {} \in SUBSET File /\ Announce({}, us, status, ready)
    BY <1>3
  <2>. QED
    BY <1>1, <2>1, <2>2, AnnouncePlaces
<1>7. \A o \in Ids : (Pending(o)' <=> Pending(o)) /\ (~ Pending(o) => status'[o] = status[o])
  BY <1>5 DEF AnnounceDoes, Pending
<1>8. konts' \subseteq Ids /\ execs' \subseteq Ids
  BY <1>1 DEF Types
<1>9. /\ Unfinished(i)' = {o \in Ids : InstOf(o) = i /\ Pending(o)'}
      /\ KontsOf(i)' = {o \in konts' : InstOf(o) = i}
      /\ Calls(i)' = CallsIn(stack', i)
      /\ Counted(i)' \in Nat
      /\ Counted(i)' = 0 => /\ \A o \in Ids : InstOf(o) = i => ~ Pending(o)' /\ o \notin konts'
                            /\ \A f \in FramesOf(stack') : ~ IsCall(f, i)
  BY <1>1, <1>2, <1>6, <1>8, CountAfter
<1>10. /\ Unfinished(i) = {o \in Ids : InstOf(o) = i /\ Pending(o)}
       /\ Cardinality(Unfinished(i)) \in Nat /\ Cardinality(KontsOf(i)) \in Nat
       /\ Calls(i) = CallsIn(stack, i) /\ Cardinality(Calls(i)) \in Nat
       /\ ustatus[i] = "Active" => activity[i] = Counted(i) /\ activity[i] > 0
  BY <1>2, CountBefore
<1>11. ASSUME ustatus[i] = "Active" PROVE n = Counted(i)'
  <2>1. Unfinished(i)' = Unfinished(i) /\ KontsOf(i)' = KontsOf(i)
    BY <1>7, <1>9, <1>10 DEF KontsOf
  <2>2. Cardinality(Calls(i)') = Cardinality(Calls(i)) - 1
    BY <1>2, <1>9, <1>10
  <2>3. Counted(i)' = Cardinality(Unfinished(i)') + Cardinality(Calls(i)') + Cardinality(KontsOf(i)')
    BY DEF Counted
  <2>4. activity[i] = Cardinality(Unfinished(i)) + Cardinality(Calls(i)) + Cardinality(KontsOf(i))
    BY <1>10, <1>11 DEF Counted
  <2>. QED
    BY <1>3, <1>10, <2>1, <2>2, <2>3, <2>4
<1>12. s = "Active" => ustatus[i] = "Active"
  BY <1>2 DEF Live
<1>13. /\ t = "Active" => n = Counted(i)' /\ n > 0
       /\ t = "Finished" => Counted(i)' = 0
  <2>1. CASE s = "Active"
    <3>1. n = Counted(i)' /\ t = IF n = 0 THEN "Finished" ELSE "Active"
      BY <1>4, <1>11, <1>12, <2>1
    <3>. QED
      BY <1>9, <3>1
  <2>2. CASE s = "Failed"
    BY <1>4, <2>2
  <2>. QED
    BY <2>1, <2>2
<1>14. UnitState(i, t, n)
  BY <1>1, <1>3, <1>4, <1>5 DEF UnitState, AnnounceDoes, Types
<1>15. UnitCalls(i, t)
  BY <1>2, <1>9, <1>13 DEF UnitCalls
<1>16. UnitOps(i, t, n)
  <2>1. ASSUME NEW o \in Ids, InstOf(o) = i, t \in {"Active", "Finished"}
        PROVE  Succeeded(o)' \/ (t = "Active" /\ Pending(o)')
    <3>1. ustatus[i] = "Active"
      BY <1>4, <1>12, <2>1
    <3>2. Pending(o) \/ Succeeded(o)
      BY <1>1, <2>1, <3>1 DEF Successes
    <3>3. Succeeded(o) => Succeeded(o)'
      BY <1>7 DEF Succeeded, Pending
    <3>. QED
      BY <1>7, <1>9, <1>13, <2>1, <3>2, <3>3
  <2>. QED
    BY <1>7, <1>13, <2>1 DEF UnitOps
<1>17. UnitAnnounces(i, t)
  <2>1. \A u \in units_ready' : u \in units_ready \/ (u = UnitOf(i) /\ t \in {"Failed", "Finished"})
    BY <1>4, <1>5 DEF AnnounceDoes
  <2>2. \A o \in Ids : status'[o] \in {"Ready", "Executed"} => ops[o].units \subseteq units_ready'
    BY <1>1, <1>5 DEF AnnounceDoes, Announced
  <2>. QED
    BY <2>1, <2>2 DEF UnitAnnounces
<1>. QED
  BY <1>2, <1>3, <1>6, <1>14, <1>15, <1>16, <1>17, UnitStep

LEMMA EndUnitStep ==
  ASSUME IInv, NEW raised \in BOOLEAN, EndUnit(raised), UNCHANGED setting
  PROVE  IInv'
<1>1. /\ stack # <<>> /\ Head(stack).call = "unit" /\ Return
      /\ UNCHANGED <<ops, result, execs, konts, to_start, phase>>
  BY DEF EndUnit, Running
<1>2. PICK i : i = Head(stack).inst
  OBVIOUS
<1>3. IsCall(Head(stack), i)
  BY <1>1, <1>2 DEF IsCall
<1>4. Live(i)
  BY <1>1, <1>3, CallReturns
<1>5. PICK s \in {"Active", "Failed"} : s = IF raised THEN "Failed" ELSE ustatus[i]
  BY <1>4 DEF Live
<1>6. /\ activity' = [activity EXCEPT ![i] = activity[i] - 1]
      /\ ustatus' = [ustatus EXCEPT ![i] = StatusAfterTry(s, activity[i] - 1)]
      /\ Announce({}, AnnouncedByTry(i, activity[i] - 1), status, ready)
  BY <1>2, <1>5 DEF EndUnit
<1>. QED
  BY <1>1, <1>3, <1>5, <1>6, TryStep

LEMMA EndKontStep ==
  ASSUME IInv, EndKont, UNCHANGED setting
  PROVE  IInv'
<1>1. /\ stack # <<>> /\ Head(stack).call = "kont" /\ Return
      /\ UNCHANGED <<ops, result, execs, konts, to_start, phase>>
  BY DEF EndKont, Running
<1>2. PICK i : i = Head(stack).inst
  OBVIOUS
<1>3. IsCall(Head(stack), i)
  BY <1>1, <1>2 DEF IsCall
<1>4. i \in Inst /\ Live(i) /\ (Head(stack).failed => ustatus[i] = "Failed")
  BY <1>1, <1>3, CallReturns
<1>5. PICK s \in {"Active", "Failed"} : s = ustatus[i]
  BY <1>4 DEF Live
<1>6. activity' = [activity EXCEPT ![i] = activity[i] - 1]
  BY <1>2 DEF EndKont
<1>7. CASE Head(stack).failed /\ UNCHANGED <<ustatus, files_ready, units_ready, ready, status>>
  <2>1. activity[i] - 1 \in Int
    BY <1>4 DEF IInv, Types
  <2>2. ustatus' = [ustatus EXCEPT ![i] = "Failed"]
    BY <1>4, <1>7 DEF IInv, Types
  <2>. QED
    BY <1>1, <1>3, <1>6, <1>7, <2>1, <2>2, FailStep
<1>8. CASE /\ ustatus' = [ustatus EXCEPT ![i] = StatusAfterTry(s, activity[i] - 1)]
           /\ Announce({}, AnnouncedByTry(i, activity[i] - 1), status, ready)
  BY <1>1, <1>3, <1>5, <1>6, <1>8, TryStep
<1>. QED
  BY <1>2, <1>5, <1>7, <1>8 DEF EndKont

LEMMA RaiseKontStep ==
  ASSUME IInv, NEW fail \in BOOLEAN, RaiseKont(fail), UNCHANGED setting
  PROVE  IInv'
<1>1. /\ stack # <<>> /\ Head(stack).call = "kont" /\ Return
      /\ UNCHANGED <<ops, status, result, files_ready, units_ready, ready, execs, konts, to_start, phase>>
  BY DEF RaiseKont, Running
<1>2. PICK i : i = Head(stack).inst
  OBVIOUS
<1>3. IsCall(Head(stack), i)
  BY <1>1, <1>2 DEF IsCall
<1>4. i \in Inst /\ (Head(stack).failed => ustatus[i] = "Failed")
  BY <1>1, <1>3, CallReturns
<1>5. activity[i] \in Int
  BY <1>4 DEF IInv, Types
<1>6. PICK n \in Int : n = IF fail THEN activity[i] - 1 ELSE activity[i]
  BY <1>5
<1>7. activity' = [activity EXCEPT ![i] = n]
  BY <1>2, <1>6 DEF RaiseKont
<1>8. ustatus' = [ustatus EXCEPT ![i] = "Failed"]
  BY <1>2, <1>4 DEF RaiseKont
<1>. QED
  BY <1>1, <1>3, <1>7, <1>8, FailStep

\* ready: everything of the unit that announces the file stays.
LEMMA ReadyStep ==
  ASSUME IInv, NEW f \in File, Ready(f), UNCHANGED setting
  PROVE  IInv'
<1>1. /\ stack # <<>> /\ Head(stack).call \in {"unit", "kont"}
      /\ Announce({f}, {}, status, ready)
      /\ UNCHANGED <<ustatus, activity, ops, result, execs, konts, to_start, stack, phase>>
  BY DEF Ready, User, Running
<1>2. Types /\ Calling /\ Places /\ Successes /\ Announced
  BY DEF IInv
<1>3. stack \in Seq(Frame) /\ Head(stack) \in Frame /\ Head(stack) \in FramesOf(stack)
  BY <1>1, <1>2, Pop DEF Types
<1>4. PICK i \in Inst : i = Head(stack).inst
  BY <1>1, <1>3, FrameTypes
<1>5. Live(i) /\ IsCall(Head(stack), i)
  BY <1>1, <1>2, <1>3, <1>4 DEF Calling, IsCall
<1>6. SameCalls(stack) /\ phase # "done"
  BY <1>1, Collecting
<1>7. PICK s \in {"Active", "Failed", "Finished"}, n \in Int : s = ustatus[i] /\ n = activity[i]
  BY <1>2, <1>4, <1>5 DEF Live, Types
<1>8. AnnounceDoes({}, status, ready)
  BY <1>1, <1>2, AnnounceEffect DEF Types
<1>9. Places'
  <2>1. /\ status \in [Ids -> OpStatus] /\ ready \in SUBSET Ids /\ execs' = execs /\ ops' = ops
        /\ ready \cap execs' = {} /\ AreIn(status, ready)
    BY <1>1, <1>2 DEF Types, Places, AreIn
  <2>2. {f} \in SUBSET File /\ {} \in SUBSET Unit
    OBVIOUS
  <2>. QED
    BY <1>1, <1>2, <2>1, <2>2, AnnouncePlaces
<1>10. \A o \in Ids : (Pending(o)' <=> Pending(o)) /\ (~ Pending(o) => status'[o] = status[o])
  BY <1>8 DEF AnnounceDoes, Pending
<1>11. ustatus[i] = "Active" => activity[i] = Counted(i)' /\ activity[i] > 0
  <2>1. konts' \subseteq Ids /\ stack' \in Seq(Frame)
    BY <1>1, <1>2, <1>3 DEF Types
  <2>2. /\ Unfinished(i)' = {o \in Ids : InstOf(o) = i /\ Pending(o)'}
        /\ KontsOf(i)' = {o \in konts' : InstOf(o) = i}
        /\ Calls(i)' = CallsIn(stack', i)
    BY <1>1, <1>2, <1>9, <2>1, CountAfter
  <2>3. /\ Unfinished(i) = {o \in Ids : InstOf(o) = i /\ Pending(o)}
        /\ Calls(i) = CallsIn(stack, i)
        /\ ustatus[i] = "Active" => activity[i] = Counted(i) /\ activity[i] > 0
    BY CountBefore
  <2>4. Unfinished(i)' = Unfinished(i) /\ KontsOf(i)' = KontsOf(i) /\ Calls(i)' = Calls(i)
    BY <1>1, <1>10, <2>2, <2>3 DEF KontsOf
  <2>. QED
    BY <2>3, <2>4 DEF Counted
<1>12. UnitState(i, s, n)
  BY <1>1, <1>2, <1>7, <1>8 DEF UnitState, AnnounceDoes, Types
<1>13. UnitCalls(i, s)
  BY <1>1, <1>5, <1>6, <1>7 DEF UnitCalls, SameCalls, Live
<1>14. UnitOps(i, s, n)
  <2>1. ASSUME NEW o \in Ids, InstOf(o) = i, s \in {"Active", "Finished"}
        PROVE  Succeeded(o)' \/ (s = "Active" /\ Pending(o)')
    <3>1. s = "Active" /\ (Pending(o) \/ Succeeded(o))
      BY <1>2, <1>5, <1>7, <2>1 DEF Successes, Live
    <3>2. Succeeded(o) => Succeeded(o)'
      BY <1>1, <1>10 DEF Succeeded, Pending
    <3>. QED
      BY <1>10, <3>1, <3>2
  <2>. QED
    BY <1>1, <1>7, <1>10, <1>11, <2>1 DEF UnitOps
<1>15. UnitAnnounces(i, s)
  BY <1>2, <1>8 DEF UnitAnnounces, AnnounceDoes, Announced
<1>. QED
  BY <1>1, <1>5, <1>6, <1>9, <1>12, <1>13, <1>14, <1>15, UnitStep

-----------------------------------------------------------------------------
(* add_op *)

LEMMA TwoFrames ==
  ASSUME NEW a \in Frame, NEW b \in Frame, NEW s \in Seq(Frame)
  PROVE  <<a, b>> \o s = <<a>> \o (<<b>> \o s)
<1>1. <<a>> \in Seq(Frame) /\ <<b>> \in Seq(Frame)
  OBVIOUS
<1>2. <<a>> \o <<b>> = <<a, b>>
  <2>1. /\ <<a>> \o <<b>> \in Seq(Frame) /\ Len(<<a>> \o <<b>>) = 2
        /\ (<<a>> \o <<b>>)[1] = a /\ (<<a>> \o <<b>>)[2] = b
    BY <1>1, ConcatProperties
  <2>2. <<a, b>> \in Seq(Frame) /\ Len(<<a, b>>) = 2 /\ <<a, b>>[1] = a /\ <<a, b>>[2] = b
    OBVIOUS
  <2>3. \A n \in 1 .. Len(<<a, b>>) : (<<a>> \o <<b>>)[n] = <<a, b>>[n]
    BY <2>1, <2>2
  <2>. QED
    BY <2>1, <2>2, <2>3, SeqEqual
<1>3. (<<a>> \o <<b>>) \o s = <<a>> \o (<<b>> \o s)
  BY <1>1, ConcatAssociative
<1>. QED
  BY <1>2, <1>3

LEMMA PushQuiet ==
  ASSUME stack \in Seq(Frame), NEW s, SameCalls(s), NEW f \in Frame,
         f.call \notin {"unit", "kont", "add_op"}
  PROVE  SameCalls(<<f>> \o s)
<1>1. /\ s \in Seq(Frame) /\ s # <<>> /\ Nested(s) /\ (phase = "finish" => Bottom(s))
      /\ \A i : ~ IsCall(f, i)
  BY DEF SameCalls, IsCall
<1>2. /\ <<f>> \o s \in Seq(Frame) /\ <<f>> \o s # <<>>
      /\ FramesOf(<<f>> \o s) = {f} \cup FramesOf(s)
      /\ Nested(<<f>> \o s) /\ (phase = "finish" => Bottom(<<f>> \o s))
  BY <1>1, Push
<1>3. ASSUME NEW i PROVE Cardinality(CallsIn(<<f>> \o s, i)) = Cardinality(CallsIn(stack, i))
  <2>1. Cardinality(CallsIn(<<f>> \o s, i)) =
          Cardinality(CallsIn(s, i)) + (IF IsCall(f, i) THEN 1 ELSE 0)
    BY <1>1, Push
  <2>2. Cardinality(CallsIn(s, i)) \in Nat
    BY <1>1, CallsFinite
  <2>. QED
    BY <1>1, <2>1, <2>2 DEF SameCalls
<1>. QED
  BY <1>2, <1>3 DEF SameCalls

LEMMA AddOpStep ==
  ASSUME IInv, NEW i \in Inst, NEW shape \in AnyShape, NEW rest, SameCalls(rest), Live(i),
         phase # "done", AddOpFor(i, shape, rest),
         UNCHANGED <<ustatus, files_ready, units_ready, execs, to_start, phase, setting>>
  PROVE  IInv'
<1>1. Types /\ Calling /\ Places /\ Counts /\ Successes /\ Absent
      /\ FinishedAreOver /\ Announced /\ NotStarted
  BY DEF IInv
<1>2. Len(ops) \in Nat /\ Ids = 1 .. Len(ops)
  BY <1>1, OpTypes
<1>3. PICK o \in Nat, op \in Operation, waits \in BOOLEAN :
        /\ o = Len(ops) + 1 /\ o <= MaxOps /\ ops' = Append(ops, op)
        /\ op.inst = i /\ (~ waits => op.units \subseteq units_ready)
        /\ status' = Append(status, IF waits THEN "Guarded" ELSE "Ready")
        /\ result' = Append(result, "None")
        /\ ready' = IF waits THEN ready ELSE ready \cup {o}
        /\ konts' = IF shape.kont THEN konts \cup {o} ELSE konts
        /\ activity' = [activity EXCEPT ![i] = activity[i] + (IF shape.kont THEN 2 ELSE 1)]
        /\ stack' = <<SubmitOps, CollectOps(FALSE)>> \o rest
  <2>. DEFINE op == [inst |-> i, reads |-> shape.reads, writes |-> shape.writes, units |-> shape.units]
              waits == Awaits(op, files_ready, units_ready)
  <2>1. op \in Operation /\ op.inst = i
    BY DEF Operation, AnyShape
  <2>2. waits \in BOOLEAN /\ (~ waits => op.units \subseteq units_ready)
    BY DEF Awaits
  <2>3. /\ Len(ops) + 1 <= MaxOps /\ ops' = Append(ops, op)
        /\ status' = Append(status, IF waits THEN "Guarded" ELSE "Ready")
        /\ result' = Append(result, "None")
        /\ ready' = IF waits THEN ready ELSE ready \cup {Len(ops) + 1}
        /\ konts' = IF shape.kont THEN konts \cup {Len(ops) + 1} ELSE konts
        /\ activity' = [activity EXCEPT ![i] = activity[i] + (IF shape.kont THEN 2 ELSE 1)]
        /\ stack' = <<SubmitOps, CollectOps(FALSE)>> \o rest
    BY DEF AddOpFor
  <2>. HIDE DEF op, waits
  <2>4. Len(ops) + 1 \in Nat
    BY <1>2
  <2>5. CASE waits
    BY <2>1, <2>2, <2>3, <2>4, <2>5
  <2>6. CASE ~ waits
    BY <2>1, <2>2, <2>3, <2>4, <2>6
  <2>. QED
    BY <2>5, <2>6
<1>4. /\ ops' \in Seq(Operation) /\ Len(ops') = o /\ ops'[o] = op
      /\ \A p \in Ids : ops'[p] = ops[p]
  <2>1. ops \in Seq(Operation)
    BY <1>1 DEF Types
  <2>. QED
    BY <1>2, <1>3, <2>1, AppendProperties
<1>5. Ids' = Ids \cup {o} /\ Ids' = 1 .. o /\ o \notin Ids
  <2>1. DOMAIN ops' = 1 .. Len(ops')
    BY <1>4, LenProperties
  <2>. QED
    BY <1>2, <1>3, <1>4, <2>1 DEF Ids
<1>6. /\ status' \in [Ids' -> OpStatus] /\ status'[o] = (IF waits THEN "Guarded" ELSE "Ready")
      /\ \A p \in Ids : status'[p] = status[p]
  <2>1. status \in [1 .. Len(ops) -> OpStatus]
    BY <1>1, <1>2 DEF Types
  <2>2. PICK st \in OpStatus : st = IF waits THEN "Guarded" ELSE "Ready"
    BY DEF OpStatus
  <2>3. /\ Append(status, st) \in [1 .. Len(ops) + 1 -> OpStatus]
        /\ \A p \in 1 .. Len(ops) : Append(status, st)[p] = status[p]
        /\ Append(status, st)[Len(ops) + 1] = st
    <3>1. status \in Seq(OpStatus) /\ Len(status) = Len(ops)
      BY <1>2, <2>1
    <3>2. /\ Append(status, st) \in Seq(OpStatus) /\ Len(Append(status, st)) = Len(ops) + 1
          /\ \A p \in 1 .. Len(ops) : Append(status, st)[p] = status[p]
          /\ Append(status, st)[Len(ops) + 1] = st
      BY <3>1, AppendProperties
    <3>3. Append(status, st) \in [1 .. Len(Append(status, st)) -> OpStatus]
      BY <3>2, LenProperties
    <3>. QED
      BY <3>2, <3>3
  <2>. QED
    BY <1>2, <1>3, <1>5, <2>2, <2>3
<1>7. /\ result' \in [Ids' -> {"None", "Ok", "Error"}]
      /\ result'[o] = "None" /\ \A p \in Ids : result'[p] = result[p]
  <2>1. result \in [1 .. Len(ops) -> {"None", "Ok", "Error"}]
    BY <1>1, <1>2 DEF Types
  <2>2. /\ Append(result, "None") \in [1 .. Len(ops) + 1 -> {"None", "Ok", "Error"}]
        /\ \A p \in 1 .. Len(ops) : Append(result, "None")[p] = result[p]
        /\ Append(result, "None")[Len(ops) + 1] = "None"
    <3>. DEFINE R == {"None", "Ok", "Error"}
    <3>1. result \in Seq(R) /\ Len(result) = Len(ops) /\ "None" \in R
      BY <1>2, <2>1
    <3>. HIDE DEF R
    <3>2. /\ Append(result, "None") \in Seq(R) /\ Len(Append(result, "None")) = Len(ops) + 1
          /\ \A p \in 1 .. Len(ops) : Append(result, "None")[p] = result[p]
          /\ Append(result, "None")[Len(ops) + 1] = "None"
      BY <3>1, AppendProperties
    <3>3. Append(result, "None") \in [1 .. Len(Append(result, "None")) -> R]
      BY <3>2, LenProperties
    <3>. QED
      BY <3>2, <3>3 DEF R
  <2>. QED
    BY <1>2, <1>3, <1>5, <2>2
<1>8. InstOf(o)' = i /\ \A p \in Ids : InstOf(p)' = InstOf(p)
  BY <1>3, <1>4 DEF InstOf
<1>9. SameCalls(stack')
  <2>1. stack \in Seq(Frame) /\ rest \in Seq(Frame)
    BY <1>1 DEF Types, SameCalls
  <2>2. /\ CollectOps(FALSE) \in Frame /\ CollectOps(FALSE).call = "collect_ops"
        /\ SubmitOps \in Frame /\ SubmitOps.call = "submit_ops"
    BY FrameFacts
  <2>3. SameCalls(<<SubmitOps>> \o (<<CollectOps(FALSE)>> \o rest))
    BY <2>1, <2>2, PushQuiet
  <2>4. <<SubmitOps>> \o (<<CollectOps(FALSE)>> \o rest) = <<SubmitOps, CollectOps(FALSE)>> \o rest
    BY <2>1, <2>2, TwoFrames
  <2>. QED
    BY <1>3, <2>3, <2>4
<1>10. Types'
  <2>1. activity' \in [Inst -> Int]
    <3>1. activity[i] \in Int
      BY <1>1 DEF Types
    <3>2. PICK n \in Int : n = activity[i] + (IF shape.kont THEN 2 ELSE 1)
      BY <3>1
    <3>. QED
      BY <1>1, <1>3, <3>2 DEF Types
  <2>2. ready' \subseteq Ids' /\ execs' \subseteq Ids' /\ konts' \subseteq Ids'
    BY <1>1, <1>3, <1>5 DEF Types
  <2>3. ops' \in Seq(Operation) /\ Len(ops') <= MaxOps /\ MaxOps' = MaxOps
    BY <1>3, <1>4 DEF MaxOps
  <2>4. stack' \in Seq(Frame)
    BY <1>9 DEF SameCalls
  <2>. QED
    BY <1>1, <1>6, <1>7, <2>1, <2>2, <2>3, <2>4 DEF Types
<1>11. Calling'
  BY <1>1, <1>9 DEF Calling, SameCalls, Live
<1>12. Places'
  <2>1. \A p \in Ids : /\ p \in ready' \cup execs' <=> p \in ready \cup execs
                       /\ status'[p] = status[p] /\ result'[p] = result[p]
    BY <1>3, <1>5, <1>6, <1>7
  <2>2. o \in ready' \cup execs' <=> status'[o] = "Ready"
    BY <1>1, <1>3, <1>5, <1>6 DEF Types
  <2>3. ready' \cap execs' = {}
    BY <1>1, <1>3, <1>5 DEF Places, Types
  <2>. QED
    BY <1>1, <1>5, <1>6, <1>7, <2>1, <2>2, <2>3 DEF Places, TmpFails
<1>13. Pending(o)' /\ \A p \in Ids : (Pending(p)' <=> Pending(p))
  BY <1>6 DEF Pending
<1>14. Counts'
  <2>. SUFFICES ASSUME NEW j \in Inst, ustatus[j] = "Active"
                PROVE  activity'[j] = Counted(j)' /\ activity'[j] > 0
    BY DEF Counts
  <2>1. /\ Unfinished(j) = {p \in Ids : InstOf(p) = j /\ Pending(p)}
        /\ IsFiniteSet(Unfinished(j)) /\ Cardinality(Unfinished(j)) \in Nat
        /\ IsFiniteSet(KontsOf(j)) /\ Cardinality(KontsOf(j)) \in Nat
        /\ Calls(j) = CallsIn(stack, j) /\ Cardinality(Calls(j)) \in Nat
        /\ activity[j] \in Int
        /\ activity[j] = Counted(j) /\ activity[j] > 0
    BY CountBefore
  <2>2. Unfinished(j)' = {p \in Ids' : InstOf(p)' = j /\ Pending(p)'}
    BY <1>12 DEF Unfinished, Pending
  <2>3. Calls(j)' = CallsIn(stack', j)
    BY DEF Calls, CallsIn, IsCall
  <2>4. Cardinality(Calls(j)') = Cardinality(Calls(j))
    BY <1>9, <2>1, <2>3 DEF SameCalls
  <2>5. konts \subseteq Ids /\ KontsOf(j) = {p \in konts : InstOf(p) = j}
        /\ KontsOf(j)' = {p \in konts' : InstOf(p)' = j}
    BY <1>1 DEF KontsOf, Types
  <2>6. Counted(j)' = Cardinality(Unfinished(j)') + Cardinality(Calls(j)') + Cardinality(KontsOf(j)')
    BY DEF Counted
  <2>7. activity[j] = Cardinality(Unfinished(j)) + Cardinality(Calls(j)) + Cardinality(KontsOf(j))
    BY <2>1 DEF Counted
  <2>8. CASE j # i
    <3>1. Unfinished(j)' = Unfinished(j)
      BY <1>5, <1>8, <1>13, <2>1, <2>2, <2>8
    <3>2. KontsOf(j)' = KontsOf(j)
      BY <1>3, <1>5, <1>8, <2>5, <2>8
    <3>3. activity'[j] = activity[j]
      BY <1>1, <1>3, <2>8 DEF Types
    <3>. QED
      BY <2>1, <2>4, <2>6, <2>7, <3>1, <3>2, <3>3
  <2>9. CASE j = i
    <3>1. Unfinished(j)' = Unfinished(j) \cup {o} /\ o \notin Unfinished(j)
      BY <1>5, <1>8, <1>13, <2>1, <2>2, <2>9
    <3>2. Cardinality(Unfinished(j)') = Cardinality(Unfinished(j)) + 1
      BY <2>1, <3>1, FS_AddElement
    <3>3. activity'[j] = activity[j] + (IF shape.kont THEN 2 ELSE 1)
      BY <1>1, <1>3, <2>9 DEF Types
    <3>4. CASE shape.kont
      <4>1. KontsOf(j)' = KontsOf(j) \cup {o} /\ o \notin KontsOf(j)
        BY <1>3, <1>5, <1>8, <2>5, <2>9, <3>4
      <4>2. Cardinality(KontsOf(j)') = Cardinality(KontsOf(j)) + 1
        BY <2>1, <4>1, FS_AddElement
      <4>3. activity'[j] = activity[j] + 2
        BY <3>3, <3>4
      <4>. QED
        BY <2>1, <2>4, <2>6, <2>7, <3>2, <4>2, <4>3
    <3>5. CASE ~ shape.kont
      <4>1. KontsOf(j)' = KontsOf(j)
        BY <1>3, <1>5, <1>8, <2>5, <3>5
      <4>2. activity'[j] = activity[j] + 1
        BY <3>3, <3>5
      <4>. QED
        BY <2>1, <2>4, <2>6, <2>7, <3>2, <4>1, <4>2
    <3>. QED
      BY <3>4, <3>5
  <2>. QED
    BY <2>8, <2>9
<1>15. ustatus[i] \in {"Active", "Failed"}
  BY DEF Live
<1>16. Successes'
  <2>1. \A p \in Ids : Succeeded(p) => Succeeded(p)'
    BY <1>3, <1>5, <1>6, <1>7 DEF Succeeded
  <2>. QED
    BY <1>1, <1>5, <1>8, <1>13, <2>1 DEF Successes
<1>17. Absent' /\ FinishedAreOver'
  BY <1>1, <1>5, <1>8, <1>13, <1>15 DEF Absent, FinishedAreOver
<1>18. Announced' /\ NotStarted' /\ EndsSettled'
  <2>1. ASSUME NEW p \in Ids', status'[p] \in {"Ready", "Executed"}
        PROVE  ops'[p].units \subseteq units_ready'
    <3>1. CASE p = o
      BY <1>3, <1>4, <1>6, <2>1, <3>1
    <3>2. CASE p \in Ids
      BY <1>1, <1>4, <1>6, <2>1, <3>2 DEF Announced
    <3>. QED
      BY <1>5, <3>1, <3>2
  <2>2. \A u \in units_ready' : \E a \in Aim : ustatus'[<<a, u>>] \in {"Finished", "Failed"}
    BY <1>1 DEF Announced
  <2>. QED
    BY <1>1, <2>1, <2>2 DEF Announced, NotStarted, StartInst, EndsSettled
<1>. QED
  BY <1>10, <1>11, <1>12, <1>14, <1>16, <1>17, <1>18 DEF IInv

\* The operation of a call in progress belongs to a unit that runs.
LEMMA UserCall ==
  ASSUME IInv, User
  PROVE  /\ stack # <<>> /\ Head(stack).inst \in Inst /\ Live(Head(stack).inst)
         /\ IsCall(Head(stack), Head(stack).inst)
<1>1. stack \in Seq(Frame) /\ Calling /\ stack # <<>> /\ Head(stack).call \in {"unit", "kont"}
  BY DEF IInv, Types, User, Running
<1>2. Head(stack) \in Frame /\ Head(stack) \in FramesOf(stack)
  BY <1>1, Pop
<1>. QED
  BY <1>1, <1>2, FrameTypes DEF Calling, IsCall

LEMMA ShapeTypes ==
  ASSUME IInv, NEW shape \in Shape
  PROVE  shape \in AnyShape
  BY SettingsOfUnits DEF IInv, Types, Shape, AnyShape

LEMMA UserAddStep ==
  ASSUME IInv, AddOp, UNCHANGED setting
  PROVE  IInv'
<1>1. PICK shape \in Shape : AddOpFor(Head(stack).inst, shape, stack)
  BY DEF AddOp
<1>2. /\ stack # <<>> /\ Head(stack).inst \in Inst /\ Live(Head(stack).inst)
      /\ UNCHANGED <<ustatus, files_ready, units_ready, execs, to_start, phase>>
  BY UserCall DEF AddOp
<1>3. SameCalls(stack) /\ phase # "done" /\ shape \in AnyShape
  BY <1>2, Collecting, ShapeTypes
<1>. QED
  BY <1>1, <1>2, <1>3, AddOpStep

LEMMA AddSpawnStep ==
  ASSUME IInv, AddSpawn, UNCHANGED setting
  PROVE  IInv'
<1>1. /\ stack # <<>> /\ Head(stack).call = "add_op" /\ Types /\ Calling
      /\ UNCHANGED <<ustatus, files_ready, units_ready, execs, to_start, phase>>
  BY DEF AddSpawn, Running, IInv
<1>2. CASE AddOpFor(Head(stack).inst, Head(stack).shape, Tail(stack))
  <2>1. stack \in Seq(Frame) /\ Nested(stack) /\ (phase = "finish" => Bottom(stack))
    BY <1>1 DEF Types, Calling
  <2>2. /\ Head(stack) \in Frame
        /\ Tail(stack) \in Seq(Frame) /\ FramesOf(Tail(stack)) \subseteq FramesOf(stack)
        /\ Nested(Tail(stack)) /\ (Bottom(stack) => Bottom(Tail(stack)))
        /\ Tail(stack) # <<>> /\ IsCall(Head(Tail(stack)), Head(stack).inst)
    BY <1>1, <2>1, Pop
  <2>3. Head(stack).inst \in Inst /\ Head(stack).shape \in AnyShape
    BY <1>1, <2>2, FrameTypes
  <2>4. Live(Head(stack).inst)
    <3>1. Head(Tail(stack)) \in FramesOf(stack)
      BY <2>2, Pop
    <3>. QED
      BY <1>1, <2>2, <3>1 DEF Calling, IsCall
  <2>5. ASSUME NEW j PROVE Cardinality(CallsIn(Tail(stack), j)) = Cardinality(CallsIn(stack, j))
    <3>1. Cardinality(CallsIn(Tail(stack), j)) =
            Cardinality(CallsIn(stack, j)) - (IF IsCall(Head(stack), j) THEN 1 ELSE 0)
      BY <1>1, <2>1, Pop
    <3>2. ~ IsCall(Head(stack), j) /\ Cardinality(CallsIn(stack, j)) \in Nat
      BY <1>1, <2>1, CallsFinite DEF IsCall
    <3>. QED
      BY <3>1, <3>2
  <2>6. SameCalls(Tail(stack))
    BY <2>1, <2>2, <2>5 DEF SameCalls
  <2>7. phase # "done"
    BY <1>1, Collecting
  <2>. QED
    BY <1>1, <1>2, <2>3, <2>4, <2>6, <2>7, AddOpStep
<1>3. CASE Return /\ UNCHANGED <<ops, status, result, ready, konts, activity>>
  <2>1. Head(stack) # CollectOps(TRUE)
    BY <1>1, FrameFacts
  <2>. QED
    BY <1>1, <1>3, <2>1, ReturnStep
<1>. QED
  BY <1>2, <1>3 DEF AddSpawn

-----------------------------------------------------------------------------
(* start, finish and resolve_blocked *)

\* A unit without state is started.
LEMMA StartStep ==
  ASSUME IInv, phase # "done", NEW i \in Inst, ustatus[i] = "None", StartUnit(i),
         NEW rest \in Seq(Frame), stack' = <<UnitFrame(i)>> \o rest,
         \A f \in FramesOf(rest) : f \in FramesOf(stack) \/ f.call \notin {"unit", "kont"},
         Nested(rest), phase = "finish" => rest # <<>> /\ Bottom(rest),
         \A j : Cardinality(CallsIn(rest, j)) = Cardinality(CallsIn(stack, j)),
         to_start' \subseteq to_start, \A u \in to_start' : StartInst(u) # i,
         UNCHANGED <<ops, status, result, files_ready, units_ready, ready, execs, konts, phase, setting>>
  PROVE  IInv'
<1>1. Types /\ Calling /\ Places /\ Counts /\ Successes /\ Absent
      /\ FinishedAreOver /\ Announced /\ NotStarted
  BY DEF IInv
<1>2. Ids' = Ids /\ (\A o : InstOf(o)' = InstOf(o)) /\ \A o : Pending(o)' = Pending(o)
  BY DEF Ids, InstOf, Pending
<1>3. /\ ustatus'[i] = "Active" /\ activity'[i] = 1
      /\ \A j \in Inst : j # i => ustatus'[j] = ustatus[j] /\ activity'[j] = activity[j]
  BY <1>1 DEF StartUnit, Types
<1>4. \A o \in Ids : InstOf(o) \in Inst /\ InstOf(o) # i
  BY <1>1, OpTypes DEF Absent
<1>5. UnitFrame(i) \in Frame /\ UnitFrame(i).call = "unit" /\ UnitFrame(i).inst = i
  BY FrameFacts
<1>6. /\ stack' \in Seq(Frame) /\ stack' # <<>> /\ FramesOf(stack') = {UnitFrame(i)} \cup FramesOf(rest)
      /\ Nested(stack') /\ (phase = "finish" => Bottom(stack'))
  BY <1>5, Push
<1>7. \A j : Cardinality(CallsIn(stack', j)) = Cardinality(CallsIn(stack, j)) + (IF j = i THEN 1 ELSE 0)
  <2>. TAKE j
  <2>1. Cardinality(CallsIn(stack', j)) =
          Cardinality(CallsIn(rest, j)) + (IF IsCall(UnitFrame(i), j) THEN 1 ELSE 0)
    BY <1>5, Push
  <2>2. IsCall(UnitFrame(i), j) <=> j = i
    BY <1>5 DEF IsCall
  <2>. QED
    BY <2>1, <2>2
<1>8. Types'
  <2>1. ustatus' \in [Inst -> {"None", "Active", "Failed", "Aborted", "Finished"}]
        /\ activity' \in [Inst -> Int]
    BY <1>1 DEF StartUnit, Types
  <2>. QED
    BY <1>1, <1>2, <1>6, <2>1 DEF Types, MaxOps
<1>9. Calling'
  <2>1. ASSUME NEW f \in FramesOf(stack'), f.call \in {"unit", "kont"}
        PROVE  Live(f.inst)' /\ (f.call = "kont" /\ f.failed => ustatus'[f.inst] = "Failed")
    <3>1. CASE f = UnitFrame(i)
      BY <1>3, <1>5, <3>1 DEF Live
    <3>2. CASE f \in FramesOf(stack)
      <4>1. /\ Live(f.inst)
            /\ f.call = "kont" /\ f.failed => ustatus[f.inst] = "Failed"
        BY <1>1, <2>1, <3>2 DEF Calling
      <4>2. f \in Frame
        BY <1>6, ElementOfSeq, LenProperties DEF FramesOf
      <4>3. f.inst \in Inst /\ f.inst # i
        BY <2>1, <4>1, <4>2, FrameTypes DEF Live
      <4>. QED
        BY <1>3, <4>1, <4>3 DEF Live
    <3>. QED
      BY <1>6, <2>1, <3>1, <3>2
  <2>. QED
    BY <1>6, <2>1 DEF Calling
<1>10. Places'
  BY <1>1, <1>2 DEF Places, TmpFails
<1>11. Counts'
  <2>. SUFFICES ASSUME NEW j \in Inst, ustatus'[j] = "Active"
                PROVE  activity'[j] = Counted(j)' /\ activity'[j] > 0
    BY DEF Counts
  <2>1. /\ Unfinished(j)' = Unfinished(j) /\ KontsOf(j)' = KontsOf(j)
        /\ Calls(j)' = CallsIn(stack', j) /\ Calls(j) = CallsIn(stack, j)
    BY <1>2 DEF Unfinished, KontsOf, Calls, CallsIn, IsCall
  <2>2. Unfinished(j) = {o \in Ids : InstOf(o) = j /\ Pending(o)} /\ Cardinality(Calls(j)) \in Nat
    BY <1>1, UnfinishedPending
  <2>3. CASE j # i
    <3>1. Cardinality(Calls(j)') = Cardinality(Calls(j))
      BY <1>7, <2>1, <2>2, <2>3
    <3>2. Counted(j)' = Counted(j)
      BY <2>1, <3>1 DEF Counted
    <3>. QED
      BY <1>1, <1>3, <2>3, <3>2 DEF Counts
  <2>4. CASE j = i
    <3>1. Unfinished(j) = {} /\ KontsOf(j) = {}
      BY <1>1, <1>4, <2>2, <2>4 DEF KontsOf, Types
    <3>2. \A f \in FramesOf(stack) : ~ IsCall(f, i)
      BY <1>1 DEF Calling, IsCall, Live
    <3>3. Cardinality(CallsIn(stack, i)) = 0
      BY <1>1, <3>2, CallsFinite DEF Types
    <3>4. Cardinality(Unfinished(j)') = 0 /\ Cardinality(KontsOf(j)') = 0 /\ Cardinality(Calls(j)') = 1
      BY <1>7, <2>1, <2>4, <3>1, <3>3, FS_EmptySet
    <3>5. Counted(j)' = Cardinality(Unfinished(j)') + Cardinality(Calls(j)') + Cardinality(KontsOf(j)')
      BY DEF Counted
    <3>. QED
      BY <1>3, <2>4, <3>4, <3>5
  <2>. QED
    BY <2>3, <2>4
<1>12. Successes' /\ FinishedAreOver' /\ Absent'
  BY <1>1, <1>2, <1>3, <1>4 DEF Successes, FinishedAreOver, Absent, Succeeded
<1>14. Announced'
  <2>1. ASSUME NEW u \in units_ready PROVE \E a \in Aim : ustatus'[<<a, u>>] \in {"Finished", "Failed"}
    <3>1. PICK a \in Aim : ustatus[<<a, u>>] \in {"Finished", "Failed"}
      BY <1>1 DEF Announced
    <3>2. <<a, u>> \in Inst
      BY <1>1 DEF Inst, Types
    <3>. QED
      BY <1>3, <3>1, <3>2
  <2>. QED
    BY <1>1, <1>2, <2>1 DEF Announced
<1>15. NotStarted' /\ EndsSettled'
  <2>1. ASSUME NEW u \in to_start' PROVE ustatus'[StartInst(u)] = "None"
    <3>1. StartInst(u) \in Inst /\ ustatus[StartInst(u)] = "None"
      BY <1>1 DEF NotStarted, StartInst, Inst, Aim, Types
    <3>. QED
      BY <1>3, <3>1
  <2>. QED
    BY <2>1 DEF NotStarted, StartInst, EndsSettled
<1>. QED
  BY <1>8, <1>9, <1>10, <1>11, <1>12, <1>14, <1>15 DEF IInv

\* start visits a unit once, and none that is started as a tool.
LEMMA StartUnitStep ==
  ASSUME IInv, NEW u \in Unit, Start(u), UNCHANGED setting
  PROVE  IInv'
<1>1. /\ phase = "start" /\ stack = <<>> /\ u \in to_start /\ to_start' = to_start \ {u}
      /\ StartUnit(StartInst(u)) /\ stack' = <<UnitFrame(StartInst(u))>>
      /\ UNCHANGED <<ops, status, result, files_ready, units_ready, ready, execs, konts, phase>>
  BY DEF Start, StartInst
<1>a. StartInst(u) \in Inst
  BY DEF StartInst, Inst, Aim
<1>2. PICK i \in Inst : i = StartInst(u)
  BY <1>a
<1>3. ustatus[i] = "None"
  BY <1>1, <1>2 DEF IInv, NotStarted
<1>4. \A v \in to_start' : StartInst(v) # i
  BY <1>1, <1>2 DEF StartInst
<1>5. stack' = <<UnitFrame(i)>> \o stack /\ stack \in Seq(Frame)
  <2>1. <<UnitFrame(i)>> \in Seq(Frame)
    BY FrameFacts
  <2>. QED
    BY <1>1, <1>2, <2>1, ConcatEmptySeq, EmptySeq
<1>6. Nested(stack)
  BY DEF IInv, Calling
<1>. QED
  BY <1>1, <1>2, <1>3, <1>4, <1>5, <1>6, StartStep

LEMMA SpawnToolStep ==
  ASSUME ToolsApart, IInv, NEW t \in ToolUnit, SpawnTool(t), UNCHANGED setting
  PROVE  IInv'
<1>1. /\ User /\ ustatus[<<"Build_os", t>>] = "None" /\ StartUnit(<<"Build_os", t>>)
      /\ UNCHANGED <<ops, status, result, files_ready, units_ready, ready, execs, konts, to_start, phase>>
  BY DEF SpawnTool
<1>2. t \in Unit /\ t \notin OnlyBuild
  BY SettingsOfUnits DEF IInv, Types, ToolUnit, ToolsApart
<1>3. PICK i \in Inst : i = <<"Build_os", t>>
  BY <1>2 DEF Inst, Aim
<1>4. PICK shape \in AnyShape :
        stack' = <<UnitFrame(i), AddFrame(Head(stack).inst, shape)>> \o stack
  BY <1>3, ShapeTypes DEF SpawnTool
<1>5. stack # <<>> /\ Head(stack).inst \in Inst /\ IsCall(Head(stack), Head(stack).inst)
  BY <1>1, UserCall
<1>6. PICK f \in Frame : f = AddFrame(Head(stack).inst, shape)
  BY <1>5, FrameFacts
<1>7. f.call = "add_op" /\ f.inst = Head(stack).inst /\ \A j : ~ IsCall(f, j)
  BY <1>5, <1>6, FrameFacts DEF IsCall
<1>8. SameCalls(stack) /\ phase # "done" /\ stack \in Seq(Frame)
  BY <1>5, Collecting DEF SameCalls
<1>9. PICK rest : rest = <<f>> \o stack
  OBVIOUS
<1>10. /\ rest \in Seq(Frame) /\ rest # <<>> /\ FramesOf(rest) = {f} \cup FramesOf(stack)
       /\ Nested(rest) /\ (phase = "finish" => Bottom(rest))
  BY <1>5, <1>7, <1>8, <1>9, Push DEF SameCalls
<1>11. ASSUME NEW j PROVE Cardinality(CallsIn(rest, j)) = Cardinality(CallsIn(stack, j))
  <2>1. Cardinality(CallsIn(rest, j)) = Cardinality(CallsIn(stack, j)) + (IF IsCall(f, j) THEN 1 ELSE 0)
    BY <1>8, <1>9, Push
  <2>2. Cardinality(CallsIn(stack, j)) \in Nat
    BY <1>8, CallsFinite
  <2>. QED
    BY <1>7, <2>1, <2>2
<1>12. stack' = <<UnitFrame(i)>> \o rest
  <2>1. UnitFrame(i) \in Frame
    BY FrameFacts
  <2>. QED
    BY <1>4, <1>6, <1>8, <1>9, <2>1, TwoFrames
<1>13. \A u \in to_start' : StartInst(u) # i
  BY <1>2, <1>3 DEF StartInst
<1>14. \A g \in FramesOf(rest) : g \in FramesOf(stack) \/ g.call \notin {"unit", "kont"}
  BY <1>7, <1>10
<1>15. ustatus[i] = "None" /\ StartUnit(i) /\ to_start' \subseteq to_start
  BY <1>1, <1>3
<1>. QED
  BY <1>1, <1>8, <1>10, <1>11, <1>12, <1>13, <1>14, <1>15, StartStep

LEMMA FinishStep ==
  ASSUME IInv, Finish, UNCHANGED setting
  PROVE  IInv'
<1>1. /\ phase = "start" /\ stack = <<>> /\ phase' = "finish" /\ stack' = <<CollectOps(TRUE)>>
      /\ UNCHANGED <<ustatus, activity, ops, status, result, files_ready, units_ready, ready,
                     execs, konts, to_start>>
  BY DEF Finish
<1>2. Types /\ Calling /\ Places
  BY DEF IInv
<1>3. PICK f \in Frame : f = CollectOps(TRUE)
  BY FrameFacts
<1>4. f.call = "collect_ops" /\ \A j : ~ IsCall(f, j)
  BY <1>3, FrameFacts DEF IsCall
<1>5. stack \in Seq(Frame) /\ stack' = <<f>> \o stack
  <2>1. <<f>> \in Seq(Frame)
    OBVIOUS
  <2>. QED
    BY <1>1, <1>3, <2>1, ConcatEmptySeq, EmptySeq
<1>6. Nested(stack)
  BY <1>2 DEF Calling
<1>7. stack' \in Seq(Frame) /\ FramesOf(stack') = {f} \cup FramesOf(stack) /\ Nested(stack') /\ stack' # <<>>
  BY <1>4, <1>5, <1>6, Push
<1>8. Bottom(stack')
  <2>1. stack' = <<f>> /\ Len(<<f>>) = 1 /\ <<f>>[1] = f
    BY <1>1, <1>3
  <2>. QED
    BY <1>3, <2>1 DEF Bottom
<1>9. \A j : Cardinality(CallsIn(stack', j)) = Cardinality(CallsIn(stack, j))
  <2>. TAKE j
  <2>1. Cardinality(CallsIn(stack', j)) = Cardinality(CallsIn(stack, j)) + (IF IsCall(f, j) THEN 1 ELSE 0)
    BY <1>5, Push
  <2>2. Cardinality(CallsIn(stack, j)) \in Nat
    BY <1>5, CallsFinite
  <2>. QED
    BY <1>4, <2>1, <2>2
<1>10. Calling'
  BY <1>1, <1>2, <1>4, <1>7, <1>8 DEF Calling, Live
<1>11. Places' /\ ready' \subseteq Ids /\ execs' \subseteq Ids
  BY <1>1, <1>2 DEF Places, TmpFails, Types, Ids
<1>. QED
  BY <1>1, <1>2, <1>7, <1>9, <1>10, <1>11, QuietStep DEF Types

\* The units that are still Active have a blocked operation, or one that was lost:
\* else their counter would be 0.
LEMMA ResolveStep ==
  ASSUME IInv, ResolveBlocked, UNCHANGED setting
  PROVE  IInv'
<1>. DEFINE blocked == {o \in Ids : status[o] = "Guarded"}
            stuck == {i \in Inst : ustatus[i] = "Active" /\ \E o \in blocked : InstOf(o) = i}
<1>1. Types /\ Calling /\ Places /\ Counts /\ Successes /\ Absent
      /\ FinishedAreOver /\ Announced /\ NotStarted
  BY DEF IInv
<1>2. /\ stack = <<>> /\ phase = "finish" /\ ready = {} /\ execs = {} /\ phase' = "done"
      /\ status' = [o \in Ids |-> IF o \in blocked THEN "Aborted" ELSE status[o]]
      /\ UNCHANGED <<activity, ops, result, files_ready, units_ready, ready, execs, konts, to_start, stack>>
  BY <1>1 DEF ResolveBlocked, Calling
<1>3. PICK failed \in SUBSET stuck :
        ustatus' = [i \in Inst |-> IF i \in failed THEN "Failed"
                                   ELSE IF i \in stuck THEN "Aborted" ELSE ustatus[i]]
  BY DEF ResolveBlocked
<1>4. Ids' = Ids /\ \A o : InstOf(o)' = InstOf(o)
  BY <1>2 DEF Ids, InstOf
<1>5. \A o \in Ids : InstOf(o) \in Inst
  BY <1>1, OpTypes
<1>6. \A o \in Ids : /\ status[o] = "Ready" => Lost(o) /\ TmpFails
                     /\ Pending(o) <=> o \in blocked \/ Lost(o)
  BY <1>1, <1>2 DEF Places, Pending, Lost
<1>7. ASSUME NEW i \in Inst, ustatus[i] = "Active", i \notin stuck
      PROVE  \E o \in Ids : InstOf(o) = i /\ Lost(o)
  <2>. SUFFICES ASSUME \A o \in Ids : InstOf(o) = i => ~ Lost(o) PROVE FALSE
    OBVIOUS
  <2>1. \A o \in Ids : InstOf(o) = i => ~ Pending(o)
    BY <1>6, <1>7
  <2>2. Unfinished(i) = {}
    BY <1>1, <2>1, UnfinishedPending
  <2>3. KontsOf(i) = {}
    BY <1>1, <1>7, <2>1 DEF KontsOf, Successes, Succeeded, Types
  <2>4. Calls(i) = {}
    BY <1>2 DEF Calls
  <2>5. Counted(i) = Cardinality(Unfinished(i)) + Cardinality(Calls(i)) + Cardinality(KontsOf(i))
    BY DEF Counted
  <2>6. Counted(i) = 0
    BY <2>2, <2>3, <2>4, <2>5, FS_EmptySet
  <2>. QED
    BY <1>1, <1>7, <2>6 DEF Counts
<1>8. \A i \in Inst : /\ ustatus'[i] = "Active" => ustatus[i] = "Active" /\ i \notin stuck
                      /\ ustatus[i] # "Active" => ustatus'[i] = ustatus[i]
                      /\ ustatus[i] = "Active" => ustatus'[i] \in {"Active", "Failed", "Aborted"}
  BY <1>3
<1>9. \A o \in Ids : /\ o \in blocked => status'[o] = "Aborted"
                     /\ o \notin blocked => status'[o] = status[o]
                     /\ status'[o] \in {"Executed", "Cached", "Aborted"} \/ Lost(o)
  BY <1>1, <1>2, <1>6 DEF Types, OpStatus
<1>a. \A o \in Ids : /\ Pending(o)' <=> Lost(o)
                     /\ Lost(o)' <=> Lost(o)
                     /\ Lost(o) => o \notin blocked
                     /\ ~ Pending(o) => o \notin blocked
  BY <1>2, <1>6, <1>9 DEF Pending, Lost
<1>b. ASSUME NEW i \in Inst PROVE Unfinished(i)' = {o \in Ids : InstOf(o) = i /\ Lost(o)}
  BY <1>4, <1>a DEF Unfinished, Pending
<1>10. EndsSettled'
  <2>1. ASSUME NEW i \in Inst, ustatus'[i] = "Active"
        PROVE  \E o \in Unfinished(i)' : Lost(o)'
    BY <1>7, <1>8, <1>a, <1>b, <2>1
  <2>2. \A o \in Ids : Lost(o)' => TmpFails'
    BY <1>6, <1>a DEF TmpFails, Lost
  <2>. QED
    BY <1>2, <1>4, <1>9, <1>a, <2>1, <2>2 DEF EndsSettled
<1>11. Types'
  <2>1. ustatus' \in [Inst -> {"None", "Active", "Failed", "Aborted", "Finished"}]
    BY <1>1, <1>3 DEF Types
  <2>2. status' \in [Ids -> OpStatus]
    BY <1>1, <1>2 DEF Types, OpStatus
  <2>. QED
    BY <1>1, <1>2, <1>4, <2>1, <2>2 DEF Types, MaxOps
<1>12. Calling'
  <2>1. FramesOf(stack') = {} /\ stack' = <<>>
    BY <1>2 DEF FramesOf
  <2>. QED
    BY <1>1, <1>2, <2>1 DEF Calling
<1>13. Places'
  BY <1>1, <1>2, <1>4, <1>6, <1>9 DEF Places, Lost, TmpFails
<1>14. Counts'
  <2>. SUFFICES ASSUME NEW i \in Inst, ustatus'[i] = "Active"
                PROVE  activity'[i] = Counted(i)' /\ activity'[i] > 0
    BY DEF Counts
  <2>1. ustatus[i] = "Active" /\ \A o \in blocked : InstOf(o) # i
    BY <1>8
  <2>2. Unfinished(i) = {o \in Ids : InstOf(o) = i /\ Pending(o)}
    BY <1>1, UnfinishedPending
  <2>3. Unfinished(i)' = Unfinished(i)
    BY <1>6, <1>b, <2>1, <2>2
  <2>4. KontsOf(i)' = KontsOf(i) /\ Calls(i)' = Calls(i)
    BY <1>2, <1>4 DEF KontsOf, Calls
  <2>5. Counted(i)' = Counted(i)
    BY <2>3, <2>4 DEF Counted
  <2>. QED
    BY <1>1, <1>2, <2>1, <2>5 DEF Counts
<1>15. Successes' /\ FinishedAreOver'
  <2>1. ASSUME NEW o \in Ids, ustatus'[InstOf(o)] \in {"Active", "Finished"}
        PROVE  Pending(o)' \/ Succeeded(o)'
    <3>1. ustatus[InstOf(o)] \in {"Active", "Finished"}
      BY <1>5, <1>8, <2>1
    <3>2. Pending(o) \/ Succeeded(o)
      BY <1>1, <3>1 DEF Successes
    <3>3. o \notin blocked
      BY <1>1, <1>5, <1>6, <1>8, <2>1 DEF FinishedAreOver
    <3>. QED
      BY <1>2, <1>9, <3>2, <3>3 DEF Pending, Succeeded
  <2>2. ASSUME NEW o \in Ids, ustatus'[InstOf(o)] = "Finished" PROVE ~ Pending(o)'
    <3>1. ~ Pending(o)
      BY <1>1, <1>5, <1>8, <2>2 DEF FinishedAreOver
    <3>. QED
      BY <1>6, <1>a, <3>1
  <2>. QED
    BY <1>4, <2>1, <2>2 DEF Successes, FinishedAreOver
<1>16. Absent'
  BY <1>1, <1>2, <1>4, <1>5, <1>8 DEF Absent
<1>17. Announced'
  <2>1. ASSUME NEW u \in units_ready PROVE \E a \in Aim : ustatus'[<<a, u>>] \in {"Finished", "Failed"}
    <3>1. PICK a \in Aim : ustatus[<<a, u>>] \in {"Finished", "Failed"}
      BY <1>1 DEF Announced
    <3>2. <<a, u>> \in Inst
      BY <1>1 DEF Inst, Types
    <3>. QED
      BY <1>8, <3>1, <3>2
  <2>2. \A o \in Ids : status'[o] \in {"Ready", "Executed"} => status[o] = status'[o]
    BY <1>9
  <2>. QED
    BY <1>1, <1>2, <1>4, <2>1, <2>2 DEF Announced
<1>18. NotStarted'
  <2>1. ASSUME NEW u \in to_start PROVE ustatus'[StartInst(u)] = "None"
    <3>1. StartInst(u) \in Inst /\ ustatus[StartInst(u)] = "None"
      BY <1>1 DEF NotStarted, StartInst, Inst, Aim, Types
    <3>. QED
      BY <1>8, <3>1
  <2>. QED
    BY <1>2, <2>1 DEF NotStarted, StartInst
<1>. QED
  BY <1>10, <1>11, <1>12, <1>13, <1>14, <1>15, <1>16, <1>17, <1>18 DEF IInv

-----------------------------------------------------------------------------
(* The theorems *)

LEMMA InitInv == Init => IInv
<1>. SUFFICES ASSUME Init PROVE IInv
  OBVIOUS
<1>1. /\ ustatus = [i \in Inst |-> "None"] /\ activity = [i \in Inst |-> 0]
      /\ ops = <<>> /\ status = <<>> /\ result = <<>>
      /\ files_ready = {} /\ units_ready = {} /\ ready = {} /\ execs = {} /\ konts = {}
      /\ to_start = Unit /\ stack = <<>> /\ phase = "start" /\ setting \in DOMAIN Setting
  BY DEF Init
<1>2. Ids = {} /\ FramesOf(stack) = {} /\ DOMAIN stack = {}
  BY <1>1 DEF Ids, FramesOf
<1>3. Types
  <2>1. MaxOps \in Nat
    BY <1>1, SettingsOfUnits DEF MaxOps
  <2>2. ops \in Seq(Operation) /\ Len(ops) = 0 /\ stack \in Seq(Frame)
    BY <1>1, EmptySeq
  <2>3. status \in [Ids -> OpStatus] /\ result \in [Ids -> {"None", "Ok", "Error"}]
    BY <1>1, <1>2
  <2>. QED
    BY <1>1, <2>1, <2>2, <2>3 DEF Types
<1>4. Calling /\ Places /\ Counts /\ Successes
  BY <1>1, <1>2 DEF Calling, Nested, Places, Counts, Successes
<1>5. Absent /\ FinishedAreOver /\ Announced /\ EndsSettled
  BY <1>1, <1>2 DEF Absent, FinishedAreOver, Announced, EndsSettled
<1>6. NotStarted
  BY <1>1 DEF NotStarted, StartInst, Inst, Aim
<1>. QED
  BY <1>3, <1>4, <1>5, <1>6 DEF IInv

LEMMA NextInv ==
  ASSUME ToolsApart, IInv, [Next]_vars
  PROVE  IInv'
<1>1. CASE EnvStep /\ UNCHANGED setting
  BY <1>1, UserAddStep, SpawnToolStep, ReadyStep, EndUnitStep, EndKontStep, RaiseKontStep DEF EnvStep
<1>2. CASE BuildStep /\ UNCHANGED setting
  <2>1. ASSUME NEW u \in Unit, Start(u) PROVE IInv'
    BY <1>2, <2>1, StartUnitStep
  <2>2. CASE Finish
    BY <1>2, <2>2, FinishStep
  <2>3. CASE ResolveBlocked
    BY <1>2, <2>3, ResolveStep
  <2>4. CASE AddSpawn
    BY <1>2, <2>4, AddSpawnStep
  <2>5. CASE Submit
    BY <1>2, <2>5, SubmitStep DEF Submit, Running
  <2>6. CASE EndSubmit
    <3>1. Head(stack) # CollectOps(TRUE) /\ Head(stack).call = "submit_ops" /\ stack # <<>>
      BY <2>6, FrameFacts DEF EndSubmit, Running
    <3>. QED
      BY <1>2, <2>6, <3>1, ReturnStep DEF EndSubmit
  <2>7. CASE CollectSome
    BY <1>2, <2>7, CollectStep
  <2>8. CASE CollectNone
    BY <1>2, <2>8, SubmitStep DEF CollectNone, NoneCollected, Running
  <2>9. CASE EndCollect
    <3>1. stack # <<>> /\ Head(stack).call = "collect_ops" /\ ready = {}
          /\ (Head(stack) = CollectOps(TRUE) => execs = {})
      BY <2>9, FrameFacts DEF EndCollect, NoneCollected, Running
    <3>. QED
      BY <1>2, <2>9, <3>1, ReturnStep DEF EndCollect
  <2>10. CASE CollectRaises
    BY <1>2, <2>10, CollectRaisesStep
  <2>. QED
    BY <1>2, <2>1, <2>2, <2>3, <2>4, <2>5, <2>6, <2>7, <2>8, <2>9, <2>10 DEF BuildStep
<1>3. CASE UNCHANGED vars
  <2>. USE <1>3 DEF vars
  <2>1. Ids' = Ids /\ (\A o : InstOf(o)' = InstOf(o) /\ Pending(o)' = Pending(o) /\ Succeeded(o)' = Succeeded(o))
    BY DEF Ids, InstOf, Pending, Succeeded
  <2>2. \A i : Unfinished(i)' = Unfinished(i) /\ Calls(i)' = Calls(i) /\ KontsOf(i)' = KontsOf(i)
    BY <2>1 DEF Unfinished, Calls, KontsOf
  <2>3. \A i : Counted(i)' = Counted(i)
    BY <2>2 DEF Counted
  <2>4. Types' /\ Calling' /\ Places'
    BY <2>1 DEF IInv, Types, MaxOps, Calling, Live, Places, TmpFails
  <2>5. Counts' /\ Successes' /\ Absent' /\ FinishedAreOver'
    BY <2>1, <2>3 DEF IInv, Counts, Successes, Absent, FinishedAreOver
  <2>6. Announced' /\ NotStarted'
    BY <2>1 DEF IInv, Announced, NotStarted, StartInst
  <2>7. EndsSettled'
    BY <2>1, <2>2 DEF IInv, EndsSettled, Lost, TmpFails
  <2>. QED
    BY <2>4, <2>5, <2>6, <2>7 DEF IInv
<1>. QED
  BY <1>1, <1>2, <1>3 DEF Next

\* The inductive invariant.
THEOREM BuildInvariant ==
  ASSUME ToolsApart
  PROVE  Spec => []IInv
<1>1. Init => IInv
  BY InitInv
<1>2. IInv /\ [Next]_vars => IInv'
  BY NextInv
<1>. QED
  BY <1>1, <1>2, PTL DEF Spec

\* The functions, sequences and sets of a build are what they stand for.
THEOREM TypeCorrect ==
  ASSUME ToolsApart
  PROVE  Spec => []TypeOK
<1>1. IInv => TypeOK
  <2>. SUFFICES ASSUME IInv PROVE TypeOK
    OBVIOUS
  <2>1. Types /\ Len(ops) \in Nat /\ Ids = 1 .. Len(ops) /\ \A o \in Ids : InstOf(o) \in Inst
    BY OpTypes DEF IInv
  <2>2. Len(status) = Len(ops) /\ Len(result) = Len(ops)
    <3>1. status \in [1 .. Len(ops) -> OpStatus] /\ result \in [1 .. Len(ops) -> {"None", "Ok", "Error"}]
      BY <2>1 DEF Types
    <3>. QED
      BY <2>1, <3>1
  <2>. QED
    BY <2>1, <2>2 DEF Types, TypeOK, OpStatus
<1>. QED
  BY <1>1, BuildInvariant, PTL

\* The activity of a unit that is Active is what is left of it.
THEOREM CounterIsExact ==
  ASSUME ToolsApart
  PROVE  Spec => []ActivityExact
<1>1. IInv => ActivityExact
  BY DEF IInv, Counts, Counted, KontsOf, ActivityExact
<1>. QED
  BY <1>1, BuildInvariant, PTL

\* The assertions of submit_op and finish_op hold.
THEOREM PendingOfLiveUnits ==
  ASSUME ToolsApart
  PROVE  Spec => []PendingOpsOfLiveUnits
<1>1. IInv => PendingOpsOfLiveUnits
  <2>. SUFFICES ASSUME IInv, phase # "done", NEW o \in Ids,
                       status[o] = "Guarded" \/ o \in ready \cup execs
                PROVE  Live(InstOf(o))
    BY DEF PendingOpsOfLiveUnits
  <2>1. Types /\ Places /\ Absent /\ FinishedAreOver
    BY DEF IInv
  <2>2. Pending(o)
    BY <2>1 DEF Places, Pending
  <2>. QED
    BY <2>1, <2>2, PendingLive
<1>. QED
  BY <1>1, BuildInvariant, PTL

\* A unit is Finished only when everything of it is.
THEOREM FinishedUnitsAreDone ==
  ASSUME ToolsApart
  PROVE  Spec => []FinishedIsDone
<1>1. IInv => FinishedIsDone
  <2>. SUFFICES ASSUME IInv, NEW i \in Inst, ustatus[i] = "Finished"
                PROVE  /\ \A o \in Ids : InstOf(o) = i =>
                            status[o] \in {"Executed", "Cached"} /\ result[o] = "Ok" /\ o \notin konts
                       /\ Calls(i) = {}
    BY DEF FinishedIsDone
  <2>1. \A o \in Ids : InstOf(o) = i => Succeeded(o)
    BY DEF IInv, Successes, FinishedAreOver
  <2>2. Calls(i) = {}
    BY DEF IInv, Calling, Calls, FramesOf, Live
  <2>. QED
    BY <2>1, <2>2 DEF Succeeded
<1>. QED
  BY <1>1, BuildInvariant, PTL

\* The units an operation awaits have an outcome when it is released.
THEOREM AwaitedUnitsAreOver ==
  ASSUME ToolsApart
  PROVE  Spec => []AwaitedAreOver
<1>1. IInv => AwaitedAreOver
  BY DEF IInv, Announced, AwaitedAreOver
<1>. QED
  BY <1>1, BuildInvariant, PTL

\* When the build is over nothing is left in between.
THEOREM BuildEndsSettled ==
  ASSUME ToolsApart
  PROVE  Spec => []EndsSettled
<1>1. IInv => EndsSettled
  BY DEF IInv
<1>. QED
  BY <1>1, BuildInvariant, PTL

\* Nothing happens when the build is done.
LEMMA DoneStops ==
  ASSUME IInv, phase = "done"
  PROVE  ~ Next
<1>1. stack = <<>>
  BY DEF IInv, Calling
<1>2. ~ EnvStep
  BY <1>1 DEF EnvStep, AddOp, SpawnTool, Ready, EndUnit, EndKont, RaiseKont, User, Running
<1>3. ~ BuildStep
  BY <1>1 DEF BuildStep, Start, Finish, ResolveBlocked, AddSpawn, Submit, EndSubmit, CollectSome,
              CollectRaises, CollectNone, EndCollect, NoneCollected, Running
<1>. QED
  BY <1>2, <1>3 DEF Next

\* No step changes the outcome of a unit.
LEMMA UnitOutcomesKept ==
  ASSUME ToolsApart, IInv, Next, NEW i \in Inst, ustatus[i] \in {"Failed", "Aborted", "Finished"}
  PROVE  ustatus'[i] = ustatus[i]
<1>a. ustatus[i] # "Aborted"
  BY DoneStops DEF IInv, Absent
<1>b. ustatus[i] \in {"Failed", "Finished"}
  BY <1>a
<1>. USE <1>b DEF IInv, Types
<1>1. ASSUME NEW j, ustatus[j] = "None", StartUnit(j) PROVE ustatus'[i] = ustatus[i]
  BY <1>1 DEF StartUnit
<1>2. ASSUME NEW o, NEW st, NEW rdy, NEW rest, FinishOp(o, st, rdy, rest)
      PROVE  ustatus'[i] = ustatus[i]
  BY <1>2 DEF FinishOp, FinishKont, FinishOk
<1>3. ASSUME NEW o, SubmitOp(o) PROVE ustatus'[i] = ustatus[i]
  BY <1>2, <1>3 DEF SubmitOp
<1>4. ASSUME NEW u \in Unit, Start(u) PROVE ustatus'[i] = ustatus[i]
  <2>1. ustatus[StartInst(u)] = "None" /\ StartUnit(StartInst(u))
    BY <1>4 DEF Start, NotStarted, StartInst
  <2>. QED
    BY <1>1, <2>1
<1>5. ASSUME NEW t, SpawnTool(t) PROVE ustatus'[i] = ustatus[i]
  BY <1>1, <1>5 DEF SpawnTool
<1>6. CASE CollectSome
  <2>1. PICK o \in execs :
          /\ Live(InstOf(o))
          /\ \/ FinishOp(o, "Executed", ready, <<SubmitOps>> \o stack)
             \/ FinishError(o, ready, <<SubmitOps>> \o stack)
    BY <1>6 DEF CollectSome
  <2>2. CASE FinishError(o, ready, <<SubmitOps>> \o stack)
    BY <2>1, <2>2 DEF FinishError, Live
  <2>. QED
    BY <1>2, <2>1, <2>2
<1>7. ASSUME NEW raised \in BOOLEAN, EndUnit(raised) PROVE ustatus'[i] = ustatus[i]
  <2>1. Live(Head(stack).inst)
    BY <1>7, UserCall DEF EndUnit, User
  <2>. QED
    BY <1>7, <2>1 DEF EndUnit, Live, StatusAfterTry
<1>8. CASE EndKont
  <2>1. Live(Head(stack).inst)
    BY <1>8, UserCall DEF EndKont, User
  <2>. QED
    BY <1>8, <2>1 DEF EndKont, Live, StatusAfterTry
<1>9. ASSUME NEW fail \in BOOLEAN, RaiseKont(fail) PROVE ustatus'[i] = ustatus[i]
  <2>1. Live(Head(stack).inst)
    BY <1>9, UserCall DEF RaiseKont, User
  <2>. QED
    BY <1>9, <2>1 DEF RaiseKont, Live
<1>10. CASE ResolveBlocked
  BY <1>10 DEF ResolveBlocked
<1>11. CASE EnvStep
  <2>1. CASE AddOp \/ \E f \in File : Ready(f)
    BY <2>1 DEF AddOp, Ready
  <2>. QED
    BY <1>5, <1>7, <1>8, <1>9, <1>11, <2>1 DEF EnvStep
<1>12. CASE BuildStep
  <2>1. CASE Finish \/ AddSpawn \/ EndSubmit \/ EndCollect
    BY <2>1 DEF Finish, AddSpawn, EndSubmit, EndCollect
  <2>2. CASE Submit \/ CollectNone
    BY <1>3, <2>2 DEF Submit, CollectNone
  <2>3. CASE CollectRaises
    BY <2>3 DEF CollectRaises
  <2>. QED
    BY <1>4, <1>6, <1>10, <1>12, <2>1, <2>2, <2>3 DEF BuildStep
<1>. QED
  BY <1>11, <1>12 DEF Next

\* What is over is not with the guards nor the executor: no step changes it.
Over(p) == status[p] \in {"Executed", "Cached", "Aborted"}
Kept(p) == status'[p] = status[p] /\ result'[p] = result[p]

LEMMA OperationsKept ==
  ASSUME IInv, Next, NEW p \in Ids, Over(p)
  PROVE  Kept(p)
<1>1. Types /\ Places
  BY DEF IInv
<1>2. p \notin ready \cup execs /\ status[p] # "Guarded"
  BY <1>1 DEF Places, Over
<1>3. ASSUME NEW fs \in SUBSET File, NEW us \in SUBSET Unit, NEW rdy \in SUBSET Ids,
             NEW sts \in [Ids -> OpStatus], sts[p] = status[p], Announce(fs, us, sts, rdy)
      PROVE  status'[p] = status[p]
  <2>1. AnnounceDoes(us, sts, rdy)
    BY <1>1, <1>3, AnnounceEffect
  <2>. QED
    BY <1>2, <1>3, <2>1 DEF AnnounceDoes
<1>4. ASSUME NEW i, NEW shape, NEW rest, AddOpFor(i, shape, rest) PROVE Kept(p)
  <2>1. Len(ops) \in Nat /\ p \in 1 .. Len(ops)
    BY <1>1, OpTypes
  <2>2. status \in Seq(OpStatus) /\ Len(status) = Len(ops)
        /\ result \in Seq({"None", "Ok", "Error"}) /\ Len(result) = Len(ops)
    BY <1>1, <2>1, OpTypes DEF Types
  <2>3. PICK st \in OpStatus : status' = Append(status, st)
    BY <1>4 DEF AddOpFor, OpStatus
  <2>4. result' = Append(result, "None")
    BY <1>4 DEF AddOpFor
  <2>5. status'[p] = status[p]
    BY <2>1, <2>2, <2>3, AppendProperties
  <2>6. result'[p] = result[p]
    BY <2>1, <2>2, <2>4, AppendProperties
  <2>. QED
    BY <2>5, <2>6 DEF Kept
<1>5. ASSUME NEW o \in ready \cup execs, NEW st \in {"Executed", "Cached"}, NEW rdy \in SUBSET Ids,
             NEW rest, FinishOp(o, st, rdy, rest)
      PROVE  Kept(p)
  <2>1. o \in Ids /\ p # o /\ InstOf(o) \in Inst
    BY <1>1, <1>2, OpTypes DEF Types
  <2>2. result'[p] = result[p]
    BY <1>1, <1>5, <2>1 DEF FinishOp, FinishKont, FinishOk, Types
  <2>3. PICK sts \in [Ids -> OpStatus] : sts = [status EXCEPT ![o] = st]
    BY <1>1 DEF Types, OpStatus
  <2>4. \E us \in SUBSET Unit : Announce(ops[o].writes, us, sts, rdy)
    BY <1>5, <2>1, <2>3 DEF FinishOp, FinishKont, FinishOk, AnnouncedByTry, Inst, UnitOf
  <2>5. sts[p] = status[p] /\ ops[o].writes \in SUBSET File
    BY <1>1, <2>1, <2>3, OpTypes DEF Types
  <2>. QED
    BY <1>3, <2>2, <2>4, <2>5 DEF Kept
<1>6. ASSUME NEW o \in ready, SubmitOp(o) PROVE Kept(p)
  <2>1. p # o /\ ready \ {o} \in SUBSET Ids
    BY <1>1, <1>2 DEF Types
  <2>2. CASE FinishOp(o, "Cached", ready \ {o}, stack)
    BY <1>5, <2>1, <2>2
  <2>3. CASE UNCHANGED <<status, result>>
    BY <2>3 DEF Kept
  <2>4. CASE status' = [status EXCEPT ![o] = "Aborted"] /\ UNCHANGED result
    BY <1>1, <2>1, <2>4 DEF Kept, Types
  <2>. QED
    BY <1>6, <2>2, <2>3, <2>4 DEF SubmitOp
<1>7. CASE CollectSome
  <2>1. PICK o \in execs :
          \/ FinishOp(o, "Executed", ready, <<SubmitOps>> \o stack)
          \/ FinishError(o, ready, <<SubmitOps>> \o stack)
    BY <1>7 DEF CollectSome
  <2>2. p # o /\ ready \in SUBSET Ids /\ o \in ready \cup execs
    BY <1>1, <1>2 DEF Types
  <2>3. CASE FinishOp(o, "Executed", ready, <<SubmitOps>> \o stack)
    BY <1>5, <2>2, <2>3
  <2>4. CASE FinishError(o, ready, <<SubmitOps>> \o stack)
    BY <1>1, <2>2, <2>4 DEF FinishError, Kept, Types
  <2>. QED
    BY <2>1, <2>3, <2>4
<1>8. CASE CollectRaises
  <2>1. PICK o \in execs : result' = [result EXCEPT ![o] = "Error"]
    BY <1>8 DEF CollectRaises
  <2>2. p # o
    BY <1>2
  <2>. QED
    BY <1>1, <1>8, <2>1, <2>2 DEF CollectRaises, Kept, Types
<1>9. ASSUME NEW us \in SUBSET Unit, NEW fs \in SUBSET File, Announce(fs, us, status, ready),
             UNCHANGED result
      PROVE  Kept(p)
  <2>1. status \in [Ids -> OpStatus] /\ ready \in SUBSET Ids
    BY <1>1 DEF Types
  <2>. QED
    BY <1>3, <1>9, <2>1 DEF Kept
<1>10. CASE EnvStep
  <2>1. CASE AddOp
    BY <1>4, <2>1 DEF AddOp
  <2>2. ASSUME NEW t \in ToolUnit, SpawnTool(t) PROVE Kept(p)
    BY <2>2 DEF SpawnTool, Kept
  <2>3. ASSUME NEW f \in File, Ready(f) PROVE Kept(p)
    <3>1. {f} \in SUBSET File /\ {} \in SUBSET Unit /\ Announce({f}, {}, status, ready) /\ UNCHANGED result
      BY <2>3 DEF Ready
    <3>. QED
      BY <1>9, <3>1
  <2>4. ASSUME Running("unit") \/ Running("kont"), NEW n
        PROVE  AnnouncedByTry(Head(stack).inst, n) \in SUBSET Unit /\ {} \in SUBSET File
    BY <2>4, UserCall DEF User, AnnouncedByTry, Inst, UnitOf
  <2>5. ASSUME NEW raised \in BOOLEAN, EndUnit(raised) PROVE Kept(p)
    <3>1. /\ Announce({}, AnnouncedByTry(Head(stack).inst, activity[Head(stack).inst] - 1), status, ready)
          /\ Running("unit") /\ UNCHANGED result
      BY <2>5 DEF EndUnit
    <3>. QED
      BY <1>9, <2>4, <3>1
  <2>6. CASE EndKont
    <3>1. CASE Announce({}, AnnouncedByTry(Head(stack).inst, activity[Head(stack).inst] - 1), status, ready)
      <4>1. Running("kont") /\ UNCHANGED result
        BY <2>6 DEF EndKont
      <4>. QED
        BY <1>9, <2>4, <3>1, <4>1
    <3>2. CASE UNCHANGED status
      BY <2>6, <3>2 DEF EndKont, Kept
    <3>. QED
      BY <2>6, <3>1, <3>2 DEF EndKont
  <2>7. ASSUME NEW fail \in BOOLEAN, RaiseKont(fail) PROVE Kept(p)
    BY <2>7 DEF RaiseKont, Kept
  <2>. QED
    BY <1>10, <2>1, <2>2, <2>3, <2>5, <2>6, <2>7 DEF EnvStep
<1>11. CASE BuildStep
  <2>1. ASSUME NEW u \in Unit, Start(u) PROVE Kept(p)
    BY <2>1 DEF Start, Kept
  <2>2. CASE Finish \/ EndSubmit \/ EndCollect
    BY <2>2 DEF Finish, EndSubmit, EndCollect, Kept
  <2>3. CASE ResolveBlocked
    BY <1>2, <2>3 DEF ResolveBlocked, Kept
  <2>4. CASE AddSpawn
    <3>1. CASE UNCHANGED <<status, result>>
      BY <3>1 DEF Kept
    <3>. QED
      BY <1>4, <2>4, <3>1 DEF AddSpawn
  <2>5. CASE Submit \/ CollectNone
    BY <1>6, <2>5 DEF Submit, CollectNone
  <2>. QED
    BY <1>7, <1>8, <1>11, <2>1, <2>2, <2>3, <2>4, <2>5 DEF BuildStep
<1>. QED
  BY <1>10, <1>11 DEF Next

\* The outcome of a unit, and the one of an operation, stays what it is.
THEOREM OutcomesAreFinal ==
  ASSUME ToolsApart
  PROVE  Spec => OutcomesStay
<1>1. IInv /\ [Next]_vars =>
        [/\ \A i \in Inst : ustatus[i] \in {"Failed", "Aborted", "Finished"} =>
               ustatus'[i] = ustatus[i]
         /\ \A o \in Ids : status[o] \in {"Executed", "Cached", "Aborted"} =>
               status'[o] = status[o] /\ result'[o] = result[o]]_vars
  BY UnitOutcomesKept, OperationsKept DEF Over, Kept
<1>. QED
  BY <1>1, BuildInvariant, PTL DEF Spec, OutcomesStay
=============================================================================
