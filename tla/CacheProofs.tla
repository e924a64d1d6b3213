----------------------------- MODULE CacheProofs -----------------------------
(***************************************************************************)
(* Proofs about Cache: what is revived, and what the cache holds, for any  *)
(* operations, files and contents, and any number of builds that end       *)
(* anyhow while cache files are deleted.  Then about CacheTrim, the other  *)
(* scene of MCCache: what runs of bzsize leave and in which order they     *)
(* delete, for any files, any number of runs and any command lines.        *)
(***************************************************************************)
EXTENDS MCCache, SeqLemmas, FiniteSetTheorems

-----------------------------------------------------------------------------
(* The inductive invariant *)

Shape ==
  /\ setting \in Setting
  /\ DOMAIN out = File /\ DOMAIN stamp = Op
  /\ state \in [Op -> {"todo", "running", "exited", "failed", "Executed", "Cached"}]
  /\ DOMAIN stamps \subseteq File
  /\ copying => setting.exdev
  /\ loop \in {"idle", "get", "put"}
  /\ loop # "idle" => /\ cur \in Op /\ left \in Seq(Written(cur)) /\ IsInjective(left)
                      /\ state[cur] = IF loop = "get" THEN "todo" ELSE "exited"
  /\ \A f \in File : out[f].at = "cache" =>
       /\ out[f] = Link(out[f].key) /\ out[f].key \in DOMAIN entry /\ out[f].key.file = f
       /\ ~ setting.exdev

\* The operations that have a stamp.
Stamped(o) == state[o] # "todo" \/ (loop # "idle" /\ cur = o)

\* What was linked so far, or copied, is what the cache has.
GetsRevived ==
  loop = "get" =>
    /\ Written(cur) = undo \cup Range(left)
    /\ \A f \in undo : /\ Exists(f)
                       /\ KeyOf(cur, f) \in DOMAIN entry => ContentOf(f) = entry[KeyOf(cur, f)]

StampsOfOps == \A o \in Op : Stamped(o) => stamp[o].op = o

\* Only what was revived so far is there before the command.
Missing ==
  ~ Meets({"put"}) =>
    /\ \A o \in Op : \A f \in Written(o) :
         /\ state[o] = "todo" /\ Exists(f) => loop = "get" /\ cur = o /\ f \in undo
         /\ state[o] = "running" => ~ Exists(f)
    /\ loop = "get" => Range(left) \cap undo = {}

\* A file that does not change any more in this build.
Settled(f) ==
  f \in Source \/ \E p \in Op : f \in Written(p) /\ state[p] \in {"Executed", "Cached"}

\* The stamp is the one of what is read, and that does not change.
SoundStamps ==
  \A o \in Op : Stamped(o) => /\ stamp[o] = [op |-> o, reads |-> ReadsNow(o)]
                              /\ \A r \in Reads[o] : Settled(r)

\* What succeeded has the writes of a run.
SoundWrites ==
  \A o \in Op : state[o] \in {"exited", "Executed", "Cached"} =>
    \A f \in Written(o) : Exists(f) /\ ContentOf(f) = Output(f, ReadsNow(o))

\* A memoised hash is the one of the file.
SoundHashes ==
  \A f \in DOMAIN stamps :
    /\ stamps[f] = ContentOf(f)
    /\ Settled(f) \/ \E p \in Op : f \in Written(p) /\ state[p] = "exited"

SoundGets == loop = "get" => \A f \in undo : ContentOf(f) = Output(f, stamp[cur].reads)

Faultless == ~ Meets({"edit", "put", "torn"})
SoundEntries == \A k \in DOMAIN entry : entry[k] = Output(k.file, k.stamp.reads)
Sound == Faultless => SoundEntries /\ SoundStamps /\ SoundWrites /\ SoundHashes /\ SoundGets

IInv == Shape /\ GetsRevived /\ StampsOfOps /\ CachedIsRevived /\ Missing /\ Sound

-----------------------------------------------------------------------------
(* Helpers *)

\* A file is written by one operation at most, and is then no source.
LEMMA OneWriter ==
  ASSUME NEW o \in Op, NEW f \in Written(o)
  PROVE  f \in File /\ f \notin Source /\ \A p \in Op : f \in Written(p) => p = o
BY WritesOfOps DEF File

\* The next write of a loop.
LEMMA NextWrite ==
  ASSUME Shape, loop # "idle", left # <<>>, NEW f, f = Head(left)
  PROVE  /\ cur \in Op /\ f \in Written(cur) /\ f \in File /\ f \notin Source
         /\ Tail(left) \in Seq(Written(cur)) /\ IsInjective(Tail(left))
         /\ Range(Tail(left)) = Range(left) \ {f} /\ f \in Range(left)
<1>1. cur \in Op /\ left \in Seq(Written(cur)) /\ IsInjective(left)
  BY DEF Shape
<1>2. /\ f \in Written(cur) /\ Tail(left) \in Seq(Written(cur)) /\ IsInjective(Tail(left))
      /\ Range(Tail(left)) = Range(left) \ {f} /\ f \in Range(left)
  BY <1>1, RangeOfTail
<1>. QED
  BY <1>1, <1>2, OneWriter

\* Without faults put does not fail, and the cache files are not torn.
LEMMA FaultlessPuts == Faultless => ~ Meets({"put"}) /\ "torn" \notin setting.faults /\ "edit" \notin setting.faults /\ "put" \notin setting.faults
BY DEF Faultless, Meets

\* A new build, of any sources.
FreshBuild ==
  /\ \E src \in [Source -> Content] : out = FreshDir(src)
  /\ stamps = << >> /\ stamp = [o \in Op |-> None] /\ copying = FALSE
  /\ state = [o \in Op |-> "todo"] /\ loop = "idle"

\* All that is asked in a new build is that the cache is sound.
LEMMA FreshIInv == FreshBuild /\ setting \in Setting /\ (Faultless => SoundEntries) => IInv
<1>. SUFFICES ASSUME FreshBuild, setting \in Setting, Faultless => SoundEntries PROVE IInv
  OBVIOUS
<1>1. PICK src \in [Source -> Content] : out = FreshDir(src)
  BY DEF FreshBuild
<1>2. \A f \in File : out[f] = IF f \in Source THEN Data(src[f]) ELSE NoFile
  BY <1>1 DEF FreshDir
<1>3. \A f \in File : out[f].at # "cache" /\ (f \notin Source => ~ Exists(f))
  <2>1. ASSUME NEW f \in Source PROVE Data(src[f]).at = "disk"
    BY DEF Data
  <2>2. NoFile.at = "none"
    BY DEF NoFile
  <2>. QED
    BY <1>2, <2>1, <2>2 DEF Exists
<1>4. \A o \in Op : state[o] = "todo" /\ ~ Stamped(o)
  BY DEF FreshBuild, Stamped
<1>5. DOMAIN out = File /\ DOMAIN stamp = Op /\ DOMAIN stamps = {}
  BY <1>1 DEF FreshBuild, FreshDir
<1>6. Shape
  BY <1>3, <1>5 DEF FreshBuild, Shape
<1>7. GetsRevived /\ StampsOfOps /\ CachedIsRevived
  BY <1>4 DEF FreshBuild, GetsRevived, StampsOfOps, CachedIsRevived
<1>8. Missing
  BY <1>3, <1>4, OneWriter DEF FreshBuild, Missing
<1>9. Sound
  BY <1>4, <1>5 DEF FreshBuild, Sound, SoundStamps, SoundWrites, SoundHashes, SoundGets
<1>. QED
  BY <1>6, <1>7, <1>8, <1>9 DEF IInv

\* The cache is empty at first.
LEMMA InitIInv == Init => IInv
<1>. SUFFICES ASSUME Init PROVE IInv
  OBVIOUS
<1>1. DOMAIN entry = {}
  BY DEF Init
<1>. QED
  BY <1>1, FreshIInv DEF Init, FreshBuild, SoundEntries

LEMMA NewBuildStep == ASSUME IInv, NewBuild PROVE IInv'
<1>1. FreshBuild'
  BY DEF NewBuild, FreshBuild, Idle
<1>2. (setting \in Setting)' /\ (Faultless => SoundEntries)'
  BY DEF NewBuild, IInv, Shape, Sound, SoundEntries, Faultless, Meets
<1>. QED
  BY <1>1, <1>2, FreshIInv, PTL

LEMMA TornStep == ASSUME IInv, Torn PROVE IInv'
<1>1. FreshBuild'
  BY DEF Torn, FreshBuild, Idle
<1>2. (setting \in Setting)' /\ (Faultless => SoundEntries)'
  BY FaultlessPuts DEF Torn, IInv, Shape, Faultless, Meets
<1>. QED
  BY <1>1, <1>2, FreshIInv, PTL

-----------------------------------------------------------------------------
(* put_writes_from_cache *)

\* The memoised hashes, with those of files that do not change any more.
LEMMA MemoiseSound ==
  ASSUME NEW fs \in SUBSET File, Memoise(fs), SoundHashes, UNCHANGED <<out, entry>>,
         \A f \in DOMAIN stamps : Settled(f) => Settled(f)',
         \A f \in DOMAIN stamps, p \in Op : f \in Written(p) /\ state[p] = "exited" =>
            (Settled(f) \/ \E q \in Op : f \in Written(q) /\ state[q] = "exited")',
         \A f \in fs : (Settled(f) \/ \E p \in Op : f \in Written(p) /\ state[p] = "exited")'
  PROVE  SoundHashes' /\ \A f \in fs : stamps'[f] = ContentOf(f)
<1>1. \A f : ContentOf(f)' = ContentOf(f)
  BY DEF ContentOf
<1>2. /\ DOMAIN stamps' = DOMAIN stamps \cup fs
      /\ \A f \in DOMAIN stamps \cup fs :
           stamps'[f] = IF f \in DOMAIN stamps THEN stamps[f] ELSE ContentOf(f)
  BY DEF Memoise
<1>3. \A f \in DOMAIN stamps : stamps[f] = ContentOf(f)
  BY DEF SoundHashes
<1>4. \A f \in DOMAIN stamps : (Settled(f) \/ \E p \in Op : f \in Written(p) /\ state[p] = "exited")'
  BY DEF SoundHashes
<1>5. \A f \in DOMAIN stamps \cup fs : stamps'[f] = ContentOf(f)
  BY <1>2, <1>3
<1>. QED
  BY <1>1, <1>2, <1>4, <1>5 DEF SoundHashes

LEMMA ExecStep == ASSUME IInv, NEW o \in Op, Exec(o) PROVE IInv'
<1>1. /\ loop = "idle" /\ state[o] = "todo" /\ Ready(o) /\ Memoise(Reads[o])
      /\ stamp' = [stamp EXCEPT ![o] = [op |-> o, reads |-> [r \in Reads[o] |-> stamps'[r]]]]
      /\ UNCHANGED <<setting, entry, out, copying>>
  BY DEF Exec
<1>2. \/ /\ Writes[o] = <<>> /\ state' = [state EXCEPT ![o] = "running"]
         /\ UNCHANGED <<loop, cur, left, undo>>
      \/ /\ loop' = "get" /\ cur' = o /\ left' = Writes[o] /\ undo' = {} /\ UNCHANGED state
  BY DEF Exec, Set, locals
<1>3. Writes[o] = <<>> => Written(o) = {}
  BY DEF Written, Range
<1>4. Reads[o] \subseteq File
  BY WritesOfOps
<1>5. /\ \A p \in Op \ {o} : state'[p] = state[p]
      /\ state'[o] \in {"todo", "running"} /\ (state'[o] = "running" => Written(o) = {})
      /\ state' \in [Op -> {"todo", "running", "exited", "failed", "Executed", "Cached"}]
  BY <1>1, <1>2, <1>3 DEF IInv, Shape
<1>6. /\ DOMAIN stamp' = Op /\ \A p \in Op \ {o} : stamp'[p] = stamp[p]
      /\ stamp'[o] = [op |-> o, reads |-> [r \in Reads[o] |-> stamps'[r]]]
  BY <1>1 DEF IInv, Shape
<1>7. \A p \in Op : Stamped(p)' => p = o \/ Stamped(p)
  BY <1>1, <1>2, <1>5 DEF Stamped
<1>8. Shape'
  <2>1. DOMAIN stamps' \subseteq File
    BY <1>1, <1>4 DEF Memoise, IInv, Shape
  <2>2. Writes[o] \in Seq(Written(o)) /\ IsInjective(Writes[o])
    BY WritesOfOps
  <2>. QED
    BY <1>1, <1>2, <1>5, <1>6, <2>1, <2>2 DEF IInv, Shape
<1>9. GetsRevived'
  BY <1>1, <1>2 DEF GetsRevived, Written
<1>10. StampsOfOps'
  BY <1>6, <1>7 DEF IInv, StampsOfOps
<1>11. CachedIsRevived'
  BY <1>1, <1>5, <1>6 DEF IInv, CachedIsRevived, Exists, ContentOf, KeyOf
<1>12. Missing'
  BY <1>1, <1>2, <1>5 DEF IInv, Missing, Meets, Exists
<1>13. Sound'
  <2>1. SUFFICES ASSUME Faultless, SoundEntries, SoundStamps, SoundWrites, SoundHashes
                 PROVE  SoundEntries' /\ SoundStamps' /\ SoundWrites' /\ SoundHashes' /\ SoundGets'
    BY <1>1 DEF IInv, Sound, Faultless, Meets
  <2>2. \A f : ContentOf(f)' = ContentOf(f) /\ (Settled(f) => Settled(f)') /\ (Exists(f)' <=> Exists(f))
    BY <1>1, <1>5 DEF ContentOf, Settled, Exists
  <2>3. \A p \in Op : ReadsNow(p)' = ReadsNow(p)
    BY <2>2 DEF ReadsNow
  <2>4. \A r \in Reads[o] : Settled(r)
    BY <1>1 DEF Ready, Settled
  <2>5. \A p \in Op : state[p] = "exited" => state'[p] = "exited"
    BY <1>1, <1>5
  <2>6. SoundHashes' /\ \A r \in Reads[o] : stamps'[r] = ContentOf(r)
    BY <1>1, <1>4, <2>1, <2>2, <2>4, <2>5, MemoiseSound
  <2>7. stamp'[o] = [op |-> o, reads |-> ReadsNow(o)]
    BY <1>6, <2>6 DEF ReadsNow
  <2>8. SoundStamps'
    BY <1>6, <1>7, <2>1, <2>2, <2>3, <2>4, <2>7 DEF SoundStamps
  <2>9. SoundWrites'
    BY <1>5, <2>1, <2>2, <2>3 DEF SoundWrites
  <2>10. SoundEntries' /\ SoundGets'
    BY <1>1, <1>2, <2>1 DEF SoundEntries, SoundGets
  <2>. QED
    BY <2>6, <2>8, <2>9, <2>10
<1>. QED
  BY <1>8, <1>9, <1>10, <1>11, <1>12, <1>13 DEF IInv

\* The files of an operation that is not executed are neither settled nor hashed.
LEMMA Unsettled ==
  ASSUME NEW o \in Op, state[o] \notin {"exited", "Executed", "Cached"}
  PROVE  /\ \A f \in Written(o) : ~ Settled(f)
         /\ SoundHashes => DOMAIN stamps \cap Written(o) = {}
<1>1. ASSUME NEW f \in Written(o) PROVE ~ Settled(f) /\ ~ \E p \in Op : f \in Written(p) /\ state[p] = "exited"
  BY <1>1, OneWriter DEF Settled
<1>. QED
  BY <1>1 DEF SoundHashes

\* What the next step of the loop can rely on.
LEMMA Getter ==
  ASSUME IInv, Getting, NEW f, f = Head(left)
  PROVE  /\ loop = "get" /\ cur \in Op /\ state[cur] = "todo" /\ Stamped(cur)
         /\ f \in Written(cur) /\ f \in File /\ f \notin Source /\ f \in Range(left)
         /\ Tail(left) \in Seq(Written(cur)) /\ IsInjective(Tail(left))
         /\ Range(Tail(left)) = Range(left) \ {f}
         /\ Written(cur) = undo \cup Range(left)
         /\ ~ Meets({"put"}) => ~ Exists(f)
<1>1. /\ cur \in Op /\ f \in Written(cur) /\ f \in File /\ f \notin Source
      /\ Tail(left) \in Seq(Written(cur)) /\ IsInjective(Tail(left))
      /\ Range(Tail(left)) = Range(left) \ {f} /\ f \in Range(left)
  BY NextWrite DEF Getting, IInv
<1>2. loop = "get" /\ state[cur] = "todo" /\ Stamped(cur) /\ Written(cur) = undo \cup Range(left)
  BY <1>1 DEF Getting, IInv, Shape, GetsRevived, Stamped
<1>. QED
  BY <1>1, <1>2 DEF IInv, Missing

LEMMA GetStep == ASSUME IInv, Get PROVE IInv'
<1>1. PICK f : f = Head(left)
  OBVIOUS
<1>2. PICK o : o = cur
  OBVIOUS
<1>3. /\ loop = "get" /\ o \in Op /\ state[o] = "todo" /\ Stamped(o)
      /\ f \in Written(o) /\ f \in File /\ f \notin Source /\ f \in Range(left)
      /\ left' = Tail(left) /\ left' \in Seq(Written(o)) /\ IsInjective(left')
      /\ Range(left') = Range(left) \ {f}
      /\ Written(o) = undo \cup Range(left)
  BY <1>1, <1>2, Getter DEF Get
<1>4. PICK k : k = KeyOf(o, f)
  OBVIOUS
<1>5. /\ k \in DOMAIN entry /\ undo' = undo \cup {f}
      /\ UNCHANGED <<setting, entry, stamps, stamp, state, loop, cur>>
  BY <1>1, <1>2, <1>4 DEF Get
<1>6. \/ Copies /\ out' = [out EXCEPT ![f] = Data(entry[k])] /\ copying' = TRUE
      \/ ~ Copies /\ out' = [out EXCEPT ![f] = Link(k)] /\ copying' = FALSE
  BY <1>1, <1>2, <1>4 DEF Get
<1>7. Copies <=> setting.exdev
  BY DEF Copies, IInv, Shape
<1>8. k.file = f /\ k.stamp = stamp[o]
  BY <1>4 DEF KeyOf, Key
<1>9. /\ DOMAIN out' = File /\ \A g \in File \ {f} : out'[g] = out[g]
      /\ out'[f] = IF setting.exdev THEN Data(entry[k]) ELSE Link(k)
  BY <1>3, <1>6, <1>7 DEF IInv, Shape
<1>10. /\ Exists(f)' /\ ContentOf(f)' = entry[k]
       /\ \A g \in File \ {f} : ContentOf(g)' = ContentOf(g) /\ (Exists(g)' <=> Exists(g))
  BY <1>5, <1>9 DEF Exists, ContentOf, Link, Data, NoFile
<1>11. Shape'
  <2>1. out'[f].at = "cache" => out'[f] = Link(k) /\ out'[f].key = k /\ ~ setting.exdev
    BY <1>9 DEF Link, Data
  <2>2. ASSUME NEW g \in File, out'[g].at = "cache"
        PROVE  /\ out'[g] = Link(out'[g].key) /\ out'[g].key \in DOMAIN entry /\ out'[g].key.file = g
               /\ ~ setting.exdev
    BY <1>5, <1>8, <1>9, <2>1, <2>2 DEF IInv, Shape
  <2>3. copying' => setting.exdev
    BY <1>6, <1>7
  <2>. QED
    BY <1>2, <1>3, <1>5, <1>9, <2>2, <2>3 DEF IInv, Shape
<1>12. GetsRevived'
  <2>1. Written(o) = undo' \cup Range(left')
    BY <1>3, <1>5
  <2>2. undo \subseteq File
    BY <1>3, OneWriter
  <2>3. ASSUME NEW g \in undo'
        PROVE  Exists(g)' /\ (KeyOf(o, g) \in DOMAIN entry => ContentOf(g)' = entry[KeyOf(o, g)])
    BY <1>2, <1>3, <1>4, <1>5, <1>10, <2>2, <2>3 DEF IInv, GetsRevived
  <2>4. \A g : KeyOf(o, g)' = KeyOf(o, g)
    BY <1>5 DEF KeyOf
  <2>. QED
    BY <1>2, <1>5, <2>1, <2>3, <2>4 DEF GetsRevived, KeyOf
<1>13. StampsOfOps'
  BY <1>5 DEF IInv, StampsOfOps, Stamped
<1>14. CachedIsRevived'
  <2>1. ASSUME NEW p \in Op, state[p] = "Cached", NEW g \in Written(p) PROVE g \in File \ {f}
    BY <1>3, <2>1, OneWriter
  <2>. QED
    BY <1>5, <1>10, <2>1 DEF IInv, CachedIsRevived, KeyOf
<1>15. Missing'
  <2>1. SUFFICES ASSUME ~ Meets({"put"}) PROVE Missing'
    BY <1>5 DEF Missing, Meets
  <2>2. ASSUME NEW p \in Op, NEW g \in Written(p)
        PROVE  /\ state[p] = "todo" /\ Exists(g)' => loop = "get" /\ cur = p /\ g \in undo'
               /\ state[p] = "running" => ~ Exists(g)'
    <3>1. g \in File /\ (g = f => p = o)
      BY <1>3, <2>2, OneWriter
    <3>. QED
      BY <1>2, <1>3, <1>5, <1>10, <2>1, <3>1 DEF IInv, Missing
  <2>3. Range(left') \cap undo' = {}
    BY <1>3, <1>5, <2>1 DEF IInv, Missing
  <2>. QED
    BY <1>5, <2>2, <2>3 DEF Missing
<1>16. Sound'
  <2>1. SUFFICES ASSUME Faultless, SoundEntries, SoundStamps, SoundWrites, SoundHashes, SoundGets
                 PROVE  SoundEntries' /\ SoundStamps' /\ SoundWrites' /\ SoundHashes' /\ SoundGets'
    BY <1>5 DEF IInv, Sound, Faultless, Meets
  <2>2. \A g : Settled(g)' <=> Settled(g)
    BY <1>5 DEF Settled
  <2>3. \A g \in File : Settled(g) => ContentOf(g)' = ContentOf(g)
    BY <1>3, <1>10, Unsettled
  <2>4. ASSUME NEW p \in Op, Stamped(p) PROVE ReadsNow(p)' = ReadsNow(p)
    BY <2>1, <2>3, <2>4, WritesOfOps DEF ReadsNow, SoundStamps
  <2>5. SoundStamps'
    BY <1>5, <2>1, <2>2, <2>4 DEF SoundStamps, Stamped
  <2>6. SoundWrites'
    <3>1. ASSUME NEW p \in Op, state[p] \in {"exited", "Executed", "Cached"}, NEW g \in Written(p)
          PROVE  g \in File \ {f} /\ Stamped(p)
      BY <1>3, <3>1, OneWriter DEF Stamped
    <3>. QED
      BY <1>5, <1>10, <2>1, <2>4, <3>1 DEF SoundWrites
  <2>7. SoundHashes'
    <3>1. \A g \in DOMAIN stamps : g \in File \ {f}
      BY <1>3, <2>1, Unsettled DEF IInv, Shape
    <3>. QED
      BY <1>5, <1>10, <2>1, <2>2, <3>1 DEF SoundHashes
  <2>8. SoundGets'
    <3>1. undo \subseteq File
      BY <1>3, OneWriter
    <3>2. entry[k] = Output(f, stamp[o].reads)
      BY <1>5, <1>8, <2>1 DEF SoundEntries
    <3>3. ASSUME NEW g \in undo' PROVE ContentOf(g)' = Output(g, stamp[o].reads)
      BY <1>2, <1>3, <1>5, <1>10, <2>1, <3>1, <3>2, <3>3 DEF SoundGets
    <3>. QED
      BY <1>2, <1>5, <3>3 DEF SoundGets, Output
  <2>. QED
    BY <1>5, <2>1, <2>5, <2>6, <2>7, <2>8 DEF SoundEntries
<1>. QED
  BY <1>11, <1>12, <1>13, <1>14, <1>15, <1>16 DEF IInv

\* A loop ends, its operation gets another state.
LEMMA LoopEnds ==
  ASSUME Shape, loop # "idle", NEW o, o = cur, NEW st, Set(cur, st), Idle,
         st \in {"running", "Executed", "Cached"}
  PROVE  /\ o \in Op /\ loop' = "idle"
         /\ state' \in [Op -> {"todo", "running", "exited", "failed", "Executed", "Cached"}]
         /\ state'[o] = st /\ \A p \in Op \ {o} : state'[p] = state[p]
         /\ stamp' = stamp => \A p \in Op : Stamped(p)' => Stamped(p)
BY DEF Shape, Set, Idle, Stamped

LEMMA GetMissStep == ASSUME IInv, GetMiss PROVE IInv'
<1>1. PICK o : o = cur
  OBVIOUS
<1>2. PICK f : f = Head(left)
  OBVIOUS
<1>3. /\ loop = "get" /\ o \in Op /\ state[o] = "todo" /\ Stamped(o)
      /\ Written(o) = undo \cup Range(left)
  BY <1>1, <1>2, Getter DEF GetMiss
<1>4. /\ UNCHANGED <<setting, entry, stamps, stamp, copying>>
      /\ out' = [g \in File |-> IF g \in undo THEN NoFile ELSE out[g]]
  BY DEF GetMiss
<1>5. /\ loop' = "idle"
      /\ state' \in [Op -> {"todo", "running", "exited", "failed", "Executed", "Cached"}]
      /\ state'[o] = "running" /\ \A p \in Op \ {o} : state'[p] = state[p]
      /\ \A p \in Op : Stamped(p)' => Stamped(p)
  BY <1>1, <1>3, <1>4, LoopEnds DEF GetMiss, IInv
<1>6. /\ \A g \in undo : ~ Exists(g)' /\ g \in File
      /\ \A g \in File \ undo : ContentOf(g)' = ContentOf(g) /\ (Exists(g)' <=> Exists(g))
  BY <1>3, <1>4, OneWriter DEF Exists, ContentOf
<1>7. \A g \in File \ Written(o) : ContentOf(g)' = ContentOf(g) /\ (Exists(g)' <=> Exists(g))
  BY <1>3, <1>6
<1>8. Shape'
  <2>1. NoFile.at # "cache"
    BY DEF NoFile
  <2>2. ASSUME NEW g \in File, out'[g].at = "cache"
        PROVE  /\ out'[g] = Link(out'[g].key) /\ out'[g].key \in DOMAIN entry /\ out'[g].key.file = g
               /\ ~ setting.exdev
    BY <1>4, <2>1, <2>2 DEF IInv, Shape
  <2>. QED
    BY <1>4, <1>5, <2>2 DEF IInv, Shape
<1>9. GetsRevived' /\ StampsOfOps'
  BY <1>4, <1>5 DEF IInv, GetsRevived, StampsOfOps
<1>10. CachedIsRevived'
  <2>1. ASSUME NEW p \in Op, state'[p] = "Cached", NEW g \in Written(p)
        PROVE  state[p] = "Cached" /\ g \in File \ Written(o)
    BY <1>3, <1>5, <2>1, OneWriter
  <2>. QED
    BY <1>4, <1>7, <2>1 DEF IInv, CachedIsRevived, KeyOf
<1>11. Missing'
  <2>1. SUFFICES ASSUME ~ Meets({"put"}) PROVE Missing'
    BY <1>4 DEF Missing, Meets
  <2>2. \A g \in Written(o) : ~ Exists(g)'
    <3>1. SUFFICES ASSUME NEW g \in Written(o), g \notin undo PROVE ~ Exists(g)
      BY <1>6, OneWriter, <1>3
    <3>. QED
      BY <1>1, <1>3, <2>1, <3>1 DEF IInv, Missing
  <2>3. ASSUME NEW p \in Op, NEW g \in Written(p)
        PROVE  /\ state'[p] = "todo" => ~ Exists(g)'
               /\ state'[p] = "running" => ~ Exists(g)'
    <3>1. CASE p = o
      BY <2>2, <2>3, <3>1
    <3>2. CASE p # o
      <4>1. g \in File \ Written(o)
        BY <1>3, <2>3, <3>2, OneWriter
      <4>. QED
        BY <1>1, <1>5, <1>7, <2>1, <3>2, <4>1 DEF IInv, Missing
    <3>. QED
      BY <3>1, <3>2
  <2>. QED
    BY <1>5, <2>3 DEF Missing
<1>12. Sound'
  <2>1. SUFFICES ASSUME Faultless, SoundEntries, SoundStamps, SoundWrites, SoundHashes
                 PROVE  SoundEntries' /\ SoundStamps' /\ SoundWrites' /\ SoundHashes' /\ SoundGets'
    BY <1>4 DEF IInv, Sound, Faultless, Meets
  <2>2. \A g : Settled(g)' <=> Settled(g)
    BY <1>3, <1>5 DEF Settled
  <2>3. \A g \in File : Settled(g) => ContentOf(g)' = ContentOf(g)
    BY <1>3, <1>7, Unsettled
  <2>4. ASSUME NEW p \in Op, Stamped(p) PROVE ReadsNow(p)' = ReadsNow(p)
    BY <2>1, <2>3, <2>4, WritesOfOps DEF ReadsNow, SoundStamps
  <2>5. SoundStamps'
    BY <1>4, <1>5, <2>1, <2>2, <2>4 DEF SoundStamps
  <2>6. SoundWrites'
    <3>1. ASSUME NEW p \in Op, state'[p] \in {"exited", "Executed", "Cached"}, NEW g \in Written(p)
          PROVE  g \in File \ Written(o) /\ Stamped(p) /\ state'[p] = state[p]
      BY <1>3, <1>5, <3>1, OneWriter DEF Stamped
    <3>. QED
      BY <1>7, <2>1, <2>4, <3>1 DEF SoundWrites
  <2>7. SoundHashes'
    <3>1. \A g \in DOMAIN stamps : g \in File \ Written(o)
      BY <1>3, <2>1, Unsettled DEF IInv, Shape
    <3>2. \A p \in Op : state[p] = "exited" => state'[p] = "exited"
      BY <1>3, <1>5
    <3>. QED
      BY <1>4, <1>7, <2>1, <2>2, <3>1, <3>2 DEF SoundHashes
  <2>. QED
    BY <1>4, <1>5, <2>1, <2>5, <2>6, <2>7 DEF SoundEntries, SoundGets
<1>. QED
  BY <1>8, <1>9, <1>10, <1>11, <1>12 DEF IInv

\* Without an error of put the next write is not there, so put does not fail.
LEMMA GetFailureStep == ASSUME IInv, GetFailure PROVE IInv'
<1>1. PICK o : o = cur
  OBVIOUS
<1>2. PICK f : f = Head(left)
  OBVIOUS
<1>3. /\ loop = "get" /\ o \in Op /\ state[o] = "todo" /\ Stamped(o)
      /\ ~ Meets({"put"}) => ~ Exists(f)
  BY <1>1, <1>2, Getter DEF GetFailure
<1>4. UNCHANGED <<setting, entry, out, stamps, stamp, copying>>
  BY DEF GetFailure
<1>5. /\ loop' = "idle"
      /\ state' \in [Op -> {"todo", "running", "exited", "failed", "Executed", "Cached"}]
      /\ state'[o] = "running" /\ \A p \in Op \ {o} : state'[p] = state[p]
      /\ \A p \in Op : Stamped(p)' => Stamped(p)
  BY <1>1, <1>3, <1>4, LoopEnds DEF GetFailure, IInv
<1>6. Meets({"put"})
  BY <1>2, <1>3 DEF GetFailure, PutFails, Meets
<1>7. Shape' /\ GetsRevived' /\ StampsOfOps'
  BY <1>4, <1>5 DEF IInv, Shape, GetsRevived, StampsOfOps
<1>8. CachedIsRevived'
  BY <1>4, <1>5 DEF IInv, CachedIsRevived, KeyOf, ContentOf, Exists
<1>9. Missing' /\ Sound'
  BY <1>4, <1>6 DEF Missing, Sound, Faultless, Meets
<1>. QED
  BY <1>7, <1>8, <1>9 DEF IInv

LEMMA GetEndStep == ASSUME IInv, GetEnd PROVE IInv'
<1>1. PICK o : o = cur
  OBVIOUS
<1>2. /\ loop = "get" /\ left = <<>> /\ Memoise(Written(o))
      /\ UNCHANGED <<setting, entry, out, stamp, copying>>
  BY <1>1 DEF GetEnd
<1>3. /\ o \in Op /\ loop' = "idle"
      /\ state' \in [Op -> {"todo", "running", "exited", "failed", "Executed", "Cached"}]
      /\ state'[o] = "Cached" /\ \A p \in Op \ {o} : state'[p] = state[p]
      /\ \A p \in Op : Stamped(p)' => Stamped(p)
  BY <1>1, <1>2, LoopEnds DEF GetEnd, IInv
<1>4. state[o] = "todo" /\ Stamped(o) /\ Written(o) = undo
  <2>1. Range(<<>>) = {}
    BY DEF Range
  <2>. QED
    BY <1>1, <1>2, <2>1 DEF IInv, Shape, GetsRevived, Stamped
<1>5. Written(o) \subseteq File
  BY <1>3, OneWriter
<1>6. \A g : ContentOf(g)' = ContentOf(g) /\ (Exists(g)' <=> Exists(g))
  BY <1>2 DEF ContentOf, Exists
<1>7. Shape'
  <2>1. DOMAIN stamps' \subseteq File
    BY <1>2, <1>5 DEF Memoise, IInv, Shape
  <2>. QED
    BY <1>2, <1>3, <2>1 DEF IInv, Shape
<1>8. GetsRevived' /\ StampsOfOps'
  BY <1>2, <1>3 DEF IInv, GetsRevived, StampsOfOps
<1>9. CachedIsRevived'
  <2>1. \A g \in Written(o) : /\ Exists(g)
                              /\ KeyOf(o, g) \in DOMAIN entry => ContentOf(g) = entry[KeyOf(o, g)]
    BY <1>1, <1>2, <1>4 DEF IInv, GetsRevived
  <2>. QED
    BY <1>2, <1>3, <1>6, <2>1 DEF IInv, CachedIsRevived, KeyOf
<1>10. Missing'
  BY <1>1, <1>2, <1>3, <1>6 DEF IInv, Missing, Meets
<1>11. Sound'
  <2>1. SUFFICES ASSUME Faultless, SoundEntries, SoundStamps, SoundWrites, SoundHashes, SoundGets
                 PROVE  SoundEntries' /\ SoundStamps' /\ SoundWrites' /\ SoundHashes' /\ SoundGets'
    BY <1>2 DEF IInv, Sound, Faultless, Meets
  <2>2. \A g : Settled(g) => Settled(g)'
    BY <1>3, <1>4 DEF Settled
  <2>3. \A p \in Op : ReadsNow(p)' = ReadsNow(p)
    BY <1>6 DEF ReadsNow
  <2>4. SoundStamps'
    BY <1>2, <1>3, <2>1, <2>2, <2>3 DEF SoundStamps
  <2>5. \A g \in Written(o) : Exists(g) /\ ContentOf(g) = Output(g, ReadsNow(o))
    <3>0. stamp[o] = [op |-> o, reads |-> ReadsNow(o)]
      BY <1>3, <1>4, <2>1 DEF SoundStamps
    <3>1. stamp[o].reads = ReadsNow(o)
      BY <3>0
    <3>. QED
      BY <1>1, <1>2, <1>4, <2>1, <3>1 DEF IInv, GetsRevived, SoundGets
  <2>6. SoundWrites'
    BY <1>3, <1>6, <2>1, <2>3, <2>5 DEF SoundWrites
  <2>7. SoundHashes'
    <3>1. \A g \in Written(o) : Settled(g)'
      BY <1>3 DEF Settled
    <3>2. \A p \in Op : state[p] = "exited" => state'[p] = "exited"
      BY <1>3, <1>4
    <3>. QED
      BY <1>2, <1>5, <2>1, <2>2, <3>1, <3>2, MemoiseSound
  <2>. QED
    BY <1>2, <1>3, <2>1, <2>4, <2>6, <2>7 DEF SoundEntries, SoundGets
<1>. QED
  BY <1>7, <1>8, <1>9, <1>10, <1>11 DEF IInv

-----------------------------------------------------------------------------
(* The command *)

\* It writes its files only, and those through a link only if they are there.
LEMMA FilesWritten ==
  ASSUME Shape, NEW o \in Op, NEW cs, DOMAIN cs \subseteq Written(o), WriteFiles(cs)
  PROVE  /\ DOMAIN entry' = DOMAIN entry
         /\ \A k \in DOMAIN entry : k.file \notin Written(o) => entry'[k] = entry[k]
         /\ DOMAIN out' = File
         /\ \A g \in File : out'[g].at = "cache" => out'[g] = out[g]
         /\ \A g \in File \ Written(o) : out'[g] = out[g]
         /\ (\A g \in Written(o) : ~ Exists(g)) =>
              /\ \A k \in DOMAIN entry : entry'[k] = entry[k]
              /\ \A g \in DOMAIN cs : out'[g] = Data(cs[g])
<1>. DEFINE linkedTo == {g \in DOMAIN cs : out[g].at = "cache"}
<1>1. /\ DOMAIN entry' = DOMAIN entry
      /\ \A k \in DOMAIN entry : ~ (\E g \in linkedTo : out[g].key = k) => entry'[k] = entry[k]
      /\ DOMAIN out' = File
      /\ \A g \in File : out'[g] = IF g \in DOMAIN cs \ linkedTo THEN Data(cs[g]) ELSE out[g]
  BY DEF WriteFiles
<1>2. \A g \in Written(o) : g \in File
  BY OneWriter
<1>3. \A g \in linkedTo : out[g].key.file = g
  BY <1>2 DEF Shape
<1>4. \A k \in DOMAIN entry : k.file \notin Written(o) => entry'[k] = entry[k]
  BY <1>1, <1>3
<1>5. \A c : Data(c).at # "cache"
  BY DEF Data
<1>6. ASSUME \A g \in Written(o) : ~ Exists(g) PROVE linkedTo = {}
  BY <1>6 DEF Exists, NoFile
<1>. HIDE DEF linkedTo
<1>. QED
  BY <1>1, <1>2, <1>4, <1>5, <1>6

\* A run: of a successful one the writes are what the stamp says.
LEMMA RunStep ==
  ASSUME IInv, NEW o \in Op, state[o] = "running", NEW cs, DOMAIN cs \subseteq Written(o),
         WriteFiles(cs), NEW st \in {"exited", "failed"}, Set(o, st),
         st = "exited" => cs = [f \in Written(o) |-> Output(f, ReadsNow(o))],
         UNCHANGED <<setting, stamps, stamp, copying, loop, cur, left, undo>>
  PROVE  IInv'
<1>1. /\ DOMAIN entry' = DOMAIN entry
      /\ \A k \in DOMAIN entry : k.file \notin Written(o) => entry'[k] = entry[k]
      /\ DOMAIN out' = File
      /\ \A g \in File : out'[g].at = "cache" => out'[g] = out[g]
      /\ \A g \in File \ Written(o) : out'[g] = out[g]
      /\ (\A g \in Written(o) : ~ Exists(g)) =>
           /\ \A k \in DOMAIN entry : entry'[k] = entry[k]
           /\ \A g \in DOMAIN cs : out'[g] = Data(cs[g])
  BY FilesWritten DEF IInv
<1>2. /\ state' \in [Op -> {"todo", "running", "exited", "failed", "Executed", "Cached"}]
      /\ state'[o] = st /\ \A p \in Op \ {o} : state'[p] = state[p]
      /\ loop # "idle" => cur # o
  BY DEF Set, IInv, Shape
<1>3. \A p \in Op : Stamped(p)' <=> Stamped(p)
  BY <1>2 DEF Stamped
<1>4. \A g \in File \ Written(o) : ContentOf(g)' = ContentOf(g) /\ (Exists(g)' <=> Exists(g))
  BY <1>1 DEF ContentOf, Exists, IInv, Shape
<1>5. \A p \in Op \ {o} : \A g \in Written(p) : g \in File \ Written(o)
  BY OneWriter
<1>6. Shape'
  <2>1. loop # "idle" => state'[cur] = state[cur]
    BY <1>2 DEF IInv, Shape
  <2>2. \A g \in File : out'[g].at = "cache" =>
          /\ out'[g] = Link(out'[g].key) /\ out'[g].key \in DOMAIN entry' /\ out'[g].key.file = g
          /\ ~ setting.exdev
    BY <1>1 DEF IInv, Shape
  <2>. QED
    BY <1>1, <1>2, <2>1, <2>2 DEF IInv, Shape
<1>7. \A p \in Op \ {o} : \A g \in Written(p) :
        /\ KeyOf(p, g)' = KeyOf(p, g) /\ (KeyOf(p, g) \in DOMAIN entry' <=> KeyOf(p, g) \in DOMAIN entry)
        /\ KeyOf(p, g) \in DOMAIN entry => entry'[KeyOf(p, g)] = entry[KeyOf(p, g)]
  BY <1>1, <1>5 DEF KeyOf, Key
<1>8. GetsRevived'
  <2>1. SUFFICES ASSUME loop = "get" PROVE GetsRevived'
    BY DEF GetsRevived
  <2>2. cur \in Op \ {o}
    BY <1>2, <2>1 DEF IInv, Shape
  <2>3. \A g \in undo : g \in Written(cur)
    BY <2>1 DEF IInv, GetsRevived
  <2>4. \A g \in undo : KeyOf(cur, g)' = KeyOf(cur, g)
    BY DEF KeyOf
  <2>5. ASSUME NEW g \in undo
        PROVE  /\ Exists(g)'
               /\ KeyOf(cur, g) \in DOMAIN entry' => ContentOf(g)' = entry'[KeyOf(cur, g)]
    BY <1>4, <1>5, <1>7, <2>1, <2>2, <2>3, <2>5 DEF IInv, GetsRevived
  <2>. QED
    BY <2>1, <2>4, <2>5 DEF IInv, GetsRevived
<1>9. StampsOfOps'
  BY <1>3 DEF IInv, StampsOfOps
<1>10. CachedIsRevived'
  <2>1. \A p \in Op : state'[p] = "Cached" => p \in Op \ {o} /\ state[p] = "Cached"
    BY <1>2
  <2>. QED
    BY <1>4, <1>5, <1>7, <2>1 DEF IInv, CachedIsRevived
<1>11. Missing'
  BY <1>2, <1>4, <1>5 DEF IInv, Missing, Meets
<1>12. Sound'
  <2>1. SUFFICES ASSUME Faultless, SoundEntries, SoundStamps, SoundWrites, SoundHashes, SoundGets
                 PROVE  SoundEntries' /\ SoundStamps' /\ SoundWrites' /\ SoundHashes' /\ SoundGets'
    BY DEF IInv, Sound, Faultless, Meets
  <2>2. \A g \in Written(o) : ~ Exists(g)
    BY <2>1, FaultlessPuts DEF IInv, Missing
  <2>3. /\ \A k \in DOMAIN entry : entry'[k] = entry[k]
        /\ \A g \in DOMAIN cs : out'[g] = Data(cs[g])
    BY <1>1, <2>2
  <2>4. \A g : Settled(g) => Settled(g)'
    BY <1>2 DEF Settled
  <2>5. \A g \in File : Settled(g) => ContentOf(g)' = ContentOf(g)
    BY <1>4, Unsettled
  <2>6. ASSUME NEW p \in Op, Stamped(p) PROVE ReadsNow(p)' = ReadsNow(p)
    BY <2>1, <2>5, <2>6, WritesOfOps DEF ReadsNow, SoundStamps
  <2>7. SoundEntries'
    BY <1>1, <2>1, <2>3 DEF SoundEntries
  <2>8. SoundStamps'
    BY <1>3, <2>1, <2>4, <2>6 DEF SoundStamps
  <2>9. SoundWrites'
    <3>1. SUFFICES ASSUME NEW p \in Op, state'[p] \in {"exited", "Executed", "Cached"}, NEW g \in Written(p)
                   PROVE  Exists(g)' /\ ContentOf(g)' = Output(g, ReadsNow(p)')
      BY DEF SoundWrites, Output
    <3>2. Stamped(p)
      BY <1>2, <3>1 DEF Stamped
    <3>3. CASE p = o
      <4>1. cs = [f \in Written(o) |-> Output(f, ReadsNow(o))]
        BY <1>2, <3>1, <3>3
      <4>2. out'[g] = Data(Output(g, ReadsNow(o)))
        BY <2>3, <3>1, <3>3, <4>1
      <4>3. Exists(g)' /\ ContentOf(g)' = Output(g, ReadsNow(o))
        BY <4>2 DEF Exists, ContentOf, Data, NoFile
      <4>. QED
        BY <2>6, <3>2, <3>3, <4>3
    <3>4. CASE p # o
      BY <1>2, <1>4, <1>5, <2>1, <2>6, <3>1, <3>2, <3>4 DEF SoundWrites
    <3>. QED
      BY <3>3, <3>4
  <2>10. SoundHashes'
    <3>1. \A g \in DOMAIN stamps : g \in File \ Written(o)
      BY <2>1, Unsettled DEF IInv, Shape
    <3>2. \A p \in Op : state[p] = "exited" => state'[p] = "exited"
      BY <1>2
    <3>. QED
      BY <1>4, <2>1, <2>4, <3>1, <3>2 DEF SoundHashes
  <2>11. SoundGets'
    <3>1. SUFFICES ASSUME loop = "get", NEW g \in undo PROVE ContentOf(g)' = ContentOf(g)
      BY <2>1 DEF SoundGets, Output
    <3>2. cur \in Op \ {o} /\ g \in Written(cur)
      BY <1>2, <3>1 DEF IInv, Shape, GetsRevived
    <3>. QED
      BY <1>4, <1>5, <3>2
  <2>. QED
    BY <2>7, <2>8, <2>9, <2>10, <2>11
<1>. QED
  BY <1>6, <1>8, <1>9, <1>10, <1>11, <1>12 DEF IInv

LEMMA RunOkStep == ASSUME IInv, NEW o \in Op, RunOk(o) PROVE IInv'
<1>1. PICK cs : cs = [f \in Written(o) |-> Output(f, ReadsNow(o))]
  OBVIOUS
<1>2. state[o] = "running" /\ WriteFiles(cs) /\ Set(o, "exited") /\ DOMAIN cs = Written(o)
  BY <1>1 DEF RunOk
<1>. QED
  BY <1>1, <1>2, RunStep DEF RunOk

LEMMA RunFailStep == ASSUME IInv, NEW o \in Op, RunFail(o) PROVE IInv'
<1>1. PICK fs \in SUBSET Written(o) : WriteFiles([f \in fs |-> Bad])
  BY DEF RunFail
<1>2. PICK cs : cs = [f \in fs |-> Bad]
  OBVIOUS
<1>3. state[o] = "running" /\ WriteFiles(cs) /\ Set(o, "failed") /\ DOMAIN cs \subseteq Written(o)
  BY <1>1, <1>2 DEF RunFail
<1>. QED
  BY <1>3, RunStep DEF RunFail

-----------------------------------------------------------------------------
(* add_op *)

LEMMA AddOpStep == ASSUME IInv, NEW o \in Op, AddOp(o) PROVE IInv'
<1>1. /\ loop = "idle" /\ state[o] = "exited" /\ Memoise(Written(o))
      /\ loop' = "put" /\ cur' = o /\ left' = Writes[o]
      /\ UNCHANGED <<setting, entry, out, stamp, copying, state, undo>>
  BY DEF AddOp
<1>2. Written(o) \subseteq File
  BY OneWriter
<1>3. \A p \in Op : Stamped(p)' => Stamped(p)
  BY <1>1 DEF Stamped
<1>4. \A g : ContentOf(g)' = ContentOf(g) /\ (Exists(g)' <=> Exists(g))
  BY <1>1 DEF ContentOf, Exists
<1>5. Shape'
  <2>1. DOMAIN stamps' \subseteq File
    BY <1>1, <1>2 DEF Memoise, IInv, Shape
  <2>2. Writes[o] \in Seq(Written(o)) /\ IsInjective(Writes[o])
    BY WritesOfOps
  <2>. QED
    BY <1>1, <2>1, <2>2 DEF IInv, Shape
<1>6. GetsRevived' /\ StampsOfOps'
  BY <1>1, <1>3 DEF IInv, GetsRevived, StampsOfOps
<1>7. CachedIsRevived'
  BY <1>1, <1>4 DEF IInv, CachedIsRevived, KeyOf
<1>8. Missing'
  BY <1>1, <1>4 DEF IInv, Missing, Meets
<1>9. Sound'
  <2>1. SUFFICES ASSUME Faultless, SoundEntries, SoundStamps, SoundWrites, SoundHashes
                 PROVE  SoundEntries' /\ SoundStamps' /\ SoundWrites' /\ SoundHashes' /\ SoundGets'
    BY <1>1 DEF IInv, Sound, Faultless, Meets
  <2>2. \A g : Settled(g)' <=> Settled(g)
    BY <1>1 DEF Settled
  <2>3. \A p \in Op : ReadsNow(p)' = ReadsNow(p)
    BY <1>4 DEF ReadsNow
  <2>4. SoundHashes'
    BY <1>1, <1>2, <2>1, <2>2, MemoiseSound
  <2>. QED
    BY <1>1, <1>3, <1>4, <2>1, <2>2, <2>3, <2>4
    DEF SoundEntries, SoundStamps, SoundWrites, SoundGets
<1>. QED
  BY <1>5, <1>6, <1>7, <1>8, <1>9 DEF IInv

\* With copies there are no links, and a link is made to a new cache file:
\* the file written has its content still, and no other loses its own.
LEMMA PutStep == ASSUME IInv, Put PROVE IInv'
<1>1. PICK f : f = Head(left)
  OBVIOUS
<1>2. PICK o : o = cur
  OBVIOUS
<1>3. PICK k : k = KeyOf(o, f)
  OBVIOUS
<1>4. /\ loop = "put" /\ left # <<>> /\ (Copies \/ k \notin DOMAIN entry)
      /\ entry' = EntryWith(k, ContentOf(f))
      /\ out' = IF Copies THEN out ELSE [out EXCEPT ![f] = Link(k)]
      /\ copying' = Copies /\ left' = Tail(left)
      /\ UNCHANGED <<setting, stamps, stamp, state, loop, cur, undo>>
  BY <1>1, <1>2, <1>3 DEF Put, Putting
<1>5. /\ o \in Op /\ f \in Written(o) /\ f \in File
      /\ left' \in Seq(Written(o)) /\ IsInjective(left')
  BY <1>1, <1>2, <1>4, NextWrite DEF IInv
<1>6. state[o] = "exited" /\ Stamped(o)
  BY <1>2, <1>4 DEF IInv, Shape, Stamped
<1>7. (Copies <=> setting.exdev) /\ Copies \in BOOLEAN
  BY DEF Copies, IInv, Shape
<1>8. k.file = f /\ k.stamp = stamp[o] /\ k.stamp.op = o
  BY <1>3, <1>5, <1>6 DEF KeyOf, Key, IInv, StampsOfOps
<1>9. /\ DOMAIN entry' = DOMAIN entry \cup {k} /\ entry'[k] = ContentOf(f)
      /\ \A i \in DOMAIN entry \ {k} : entry'[i] = entry[i]
  BY <1>4 DEF EntryWith
<1>10. /\ DOMAIN out' = File /\ \A g \in File \ {f} : out'[g] = out[g]
       /\ out'[f] = IF setting.exdev THEN out[f] ELSE Link(k)
  BY <1>4, <1>5, <1>7 DEF IInv, Shape
<1>11. Link(k).at = "cache" /\ Link(k).key = k /\ Link(k) # NoFile
  BY DEF Link, NoFile
<1>12. \A g \in File : out[g].at = "cache" => out[g].key \in DOMAIN entry /\ k \notin DOMAIN entry
  BY <1>4, <1>7 DEF IInv, Shape
<1>13. \A g \in File : ContentOf(g)' = ContentOf(g) /\ (Exists(g) => Exists(g)')
  <2>1. ASSUME NEW g \in File \ {f} PROVE ContentOf(g)' = ContentOf(g) /\ Exists(g)' = Exists(g)
    BY <1>9, <1>10, <1>12, <2>1 DEF ContentOf, Exists
  <2>2. CASE setting.exdev
    <3>1. out[f].at # "cache"
      BY <1>5, <2>2 DEF IInv, Shape
    <3>2. ContentOf(f)' = ContentOf(f) /\ (Exists(f) => Exists(f)')
      BY <1>10, <2>2, <3>1 DEF ContentOf, Exists
    <3>. QED
      BY <2>1, <3>2
  <2>3. CASE ~ setting.exdev
    <3>1. ContentOf(f)' = entry'[k] /\ Exists(f)'
      BY <1>10, <1>11, <2>3 DEF ContentOf, Exists
    <3>. QED
      BY <1>9, <2>1, <3>1
  <2>. QED
    BY <2>2, <2>3
<1>14. \A g \in File \ {f} : Exists(g)' <=> Exists(g)
  BY <1>10 DEF Exists
<1>15. Shape'
  <2>1. ASSUME NEW g \in File, out'[g].at = "cache"
        PROVE  /\ out'[g] = Link(out'[g].key) /\ out'[g].key \in DOMAIN entry' /\ out'[g].key.file = g
               /\ ~ setting.exdev
    <3>1. CASE g = f /\ ~ setting.exdev
      BY <1>8, <1>9, <1>10, <1>11, <3>1
    <3>2. CASE g # f \/ setting.exdev
      BY <1>9, <1>10, <2>1, <3>2 DEF IInv, Shape
    <3>. QED
      BY <3>1, <3>2
  <2>. QED
    BY <1>2, <1>4, <1>5, <1>6, <1>7, <1>10, <2>1 DEF IInv, Shape
<1>16. GetsRevived' /\ StampsOfOps'
  BY <1>4 DEF IInv, GetsRevived, StampsOfOps, Stamped
<1>17. CachedIsRevived'
  <2>1. ASSUME NEW p \in Op, state[p] = "Cached", NEW g \in Written(p)
        PROVE  g \in File \ {f} /\ KeyOf(p, g) # k
    <3>1. p # o
      BY <1>6, <2>1
    <3>2. stamp[p].op = p
      BY <2>1 DEF IInv, StampsOfOps, Stamped
    <3>3. KeyOf(p, g).stamp = stamp[p]
      BY DEF KeyOf, Key
    <3>. QED
      BY <1>5, <1>8, <2>1, <3>1, <3>2, <3>3, OneWriter
  <2>. QED
    BY <1>4, <1>9, <1>13, <2>1 DEF IInv, CachedIsRevived, KeyOf
<1>18. Missing'
  <2>1. SUFFICES ASSUME ~ Meets({"put"}) PROVE Missing'
    BY <1>4 DEF Missing, Meets
  <2>2. ASSUME NEW p \in Op, NEW g \in Written(p), state[p] \in {"todo", "running"}
        PROVE  g \in File \ {f}
    BY <1>5, <1>6, <2>2, OneWriter
  <2>. QED
    BY <1>4, <1>14, <2>1, <2>2 DEF IInv, Missing
<1>19. Sound'
  <2>1. SUFFICES ASSUME Faultless, SoundEntries, SoundStamps, SoundWrites, SoundHashes
                 PROVE  SoundEntries' /\ SoundStamps' /\ SoundWrites' /\ SoundHashes' /\ SoundGets'
    BY <1>4 DEF IInv, Sound, Faultless, Meets
  <2>2. \A g : Settled(g)' <=> Settled(g)
    BY <1>4 DEF Settled
  <2>3. \A p \in Op : ReadsNow(p)' = ReadsNow(p)
    BY <1>13, WritesOfOps DEF ReadsNow
  <2>4. SoundEntries'
    <3>0. stamp[o] = [op |-> o, reads |-> ReadsNow(o)]
      BY <1>5, <1>6, <2>1 DEF SoundStamps
    <3>1. stamp[o].reads = ReadsNow(o)
      BY <3>0
    <3>2. ContentOf(f) = Output(f, ReadsNow(o))
      BY <1>5, <1>6, <2>1 DEF SoundWrites
    <3>3. entry'[k] = Output(k.file, k.stamp.reads)
      BY <1>8, <1>9, <3>1, <3>2
    <3>. QED
      BY <1>9, <2>1, <3>3 DEF SoundEntries
  <2>5. SoundStamps'
    BY <1>4, <2>1, <2>2, <2>3 DEF SoundStamps, Stamped
  <2>6. SoundWrites'
    BY <1>4, <1>13, <2>1, <2>3, OneWriter DEF SoundWrites
  <2>7. SoundHashes'
    BY <1>4, <1>13, <2>1, <2>2 DEF SoundHashes, IInv, Shape
  <2>. QED
    BY <1>4, <2>4, <2>5, <2>6, <2>7 DEF SoundGets
<1>. QED
  BY <1>15, <1>16, <1>17, <1>18, <1>19 DEF IInv

\* The loop of add_op ends, at the last write or at an error.
LEMMA PutsOverStep ==
  ASSUME IInv, loop = "put", Set(cur, "Executed"), Idle,
         UNCHANGED <<setting, entry, out, stamps, stamp, copying>>
  PROVE  IInv'
<1>1. PICK o : o = cur
  OBVIOUS
<1>2. /\ o \in Op /\ loop' = "idle"
      /\ state' \in [Op -> {"todo", "running", "exited", "failed", "Executed", "Cached"}]
      /\ state'[o] = "Executed" /\ \A p \in Op \ {o} : state'[p] = state[p]
      /\ \A p \in Op : Stamped(p)' => Stamped(p)
  BY <1>1, LoopEnds DEF IInv
<1>3. state[o] = "exited"
  BY <1>1 DEF IInv, Shape
<1>4. \A g : ContentOf(g)' = ContentOf(g) /\ (Exists(g)' <=> Exists(g))
  BY DEF ContentOf, Exists
<1>5. Shape' /\ GetsRevived' /\ StampsOfOps'
  BY <1>2 DEF IInv, Shape, GetsRevived, StampsOfOps
<1>6. CachedIsRevived'
  BY <1>2, <1>4 DEF IInv, CachedIsRevived, KeyOf
<1>7. Missing'
  BY <1>2, <1>4 DEF IInv, Missing, Meets
<1>8. Sound'
  <2>1. SUFFICES ASSUME Faultless, SoundEntries, SoundStamps, SoundWrites, SoundHashes
                 PROVE  SoundEntries' /\ SoundStamps' /\ SoundWrites' /\ SoundHashes' /\ SoundGets'
    BY DEF IInv, Sound, Faultless, Meets
  <2>2. \A g : Settled(g) => Settled(g)'
    BY <1>2, <1>3 DEF Settled
  <2>3. \A p \in Op : ReadsNow(p)' = ReadsNow(p)
    BY <1>4 DEF ReadsNow
  <2>4. \A p \in Op : state[p] = "exited" => state'[p] \in {"exited", "Executed"}
    BY <1>2
  <2>5. SoundHashes'
    BY <1>4, <2>1, <2>2, <2>4 DEF SoundHashes, Settled
  <2>6. SoundWrites'
    BY <1>2, <1>3, <1>4, <2>1, <2>3 DEF SoundWrites
  <2>. QED
    BY <1>2, <2>1, <2>2, <2>3, <2>5, <2>6 DEF SoundEntries, SoundStamps, SoundGets
<1>. QED
  BY <1>5, <1>6, <1>7, <1>8 DEF IInv

-----------------------------------------------------------------------------
(* The environment *)

\* A cache file that is deleted leaves its data to the files linked to it.
LEMMA DeleteStep == ASSUME IInv, NEW k \in DOMAIN entry, Delete(k) PROVE IInv'
<1>1. /\ entry' = [i \in DOMAIN entry \ {k} |-> entry[i]]
      /\ out' = [g \in File |-> IF out[g] = Link(k) THEN Data(entry[k]) ELSE out[g]]
      /\ UNCHANGED <<setting, stamps, stamp, copying, state, loop, cur, left, undo>>
  BY DEF Delete, locals
<1>2. /\ DOMAIN entry' = DOMAIN entry \ {k}
      /\ \A i \in DOMAIN entry \ {k} : entry'[i] = entry[i]
      /\ DOMAIN out' = File
      /\ \A g \in File : out'[g] = IF out[g] = Link(k) THEN Data(entry[k]) ELSE out[g]
  BY <1>1
<1>3. /\ \A c : Data(c).at = "disk" /\ Data(c).data = c /\ Data(c) # NoFile
      /\ Link(k).at = "cache" /\ Link(k).key = k /\ Link(k) # NoFile
  BY DEF Data, Link, NoFile
<1>4. \A g \in File : out[g].at = "cache" =>
         /\ out[g] = Link(out[g].key) /\ out[g].key \in DOMAIN entry /\ out[g].key.file = g
         /\ ~ setting.exdev
  BY DEF IInv, Shape
<1>5. \A g \in File : ContentOf(g)' = ContentOf(g) /\ (Exists(g)' <=> Exists(g))
  <2>1. ASSUME NEW g \in File, out[g] = Link(k) PROVE ContentOf(g)' = ContentOf(g) /\ Exists(g)' = Exists(g)
    BY <1>2, <1>3, <2>1 DEF ContentOf, Exists
  <2>2. ASSUME NEW g \in File, out[g] # Link(k) PROVE ContentOf(g)' = ContentOf(g) /\ Exists(g)' = Exists(g)
    <3>1. out[g].at = "cache" => out[g].key \in DOMAIN entry \ {k}
      BY <1>4, <2>2
    <3>. QED
      BY <1>2, <2>2, <3>1 DEF ContentOf, Exists
  <2>. QED
    BY <2>1, <2>2
<1>6. Shape'
  <2>1. ASSUME NEW g \in File, out'[g].at = "cache"
        PROVE  /\ out'[g] = Link(out'[g].key) /\ out'[g].key \in DOMAIN entry' /\ out'[g].key.file = g
               /\ ~ setting.exdev
    BY <1>2, <1>3, <1>4, <2>1
  <2>. QED
    BY <1>1, <1>2, <2>1 DEF IInv, Shape
<1>7. \A p \in Op : \A g : KeyOf(p, g)' = KeyOf(p, g)
  BY <1>1 DEF KeyOf
<1>8. GetsRevived'
  <2>1. SUFFICES ASSUME loop = "get" PROVE GetsRevived'
    BY <1>1 DEF GetsRevived
  <2>2. cur \in Op /\ \A g \in undo : g \in File
    BY <2>1, OneWriter DEF IInv, Shape, GetsRevived
  <2>3. \A g : KeyOf(cur, g)' = KeyOf(cur, g)
    BY <1>1 DEF KeyOf
  <2>4. \A g \in undo : /\ Exists(g)'
                        /\ KeyOf(cur, g) \in DOMAIN entry' => ContentOf(g)' = entry'[KeyOf(cur, g)]
    BY <1>2, <1>5, <2>1, <2>2 DEF IInv, GetsRevived
  <2>. QED
    BY <1>1, <2>1, <2>3, <2>4 DEF IInv, GetsRevived
<1>9. StampsOfOps'
  BY <1>1 DEF IInv, StampsOfOps, Stamped
<1>10. CachedIsRevived'
  BY <1>1, <1>2, <1>5, <1>7, OneWriter DEF IInv, CachedIsRevived
<1>11. Missing'
  BY <1>1, <1>5, OneWriter DEF IInv, Missing, Meets
<1>12. Sound'
  <2>1. SUFFICES ASSUME Faultless, SoundEntries, SoundStamps, SoundWrites, SoundHashes, SoundGets
                 PROVE  SoundEntries' /\ SoundStamps' /\ SoundWrites' /\ SoundHashes' /\ SoundGets'
    BY <1>1 DEF IInv, Sound, Faultless, Meets
  <2>2. \A g : Settled(g)' <=> Settled(g)
    BY <1>1 DEF Settled
  <2>3. \A p \in Op : ReadsNow(p)' = ReadsNow(p)
    BY <1>5, WritesOfOps DEF ReadsNow
  <2>4. SoundEntries'
    BY <1>2, <2>1 DEF SoundEntries
  <2>5. SoundStamps'
    BY <1>1, <2>1, <2>2, <2>3 DEF SoundStamps, Stamped
  <2>6. SoundWrites'
    BY <1>1, <1>5, <2>1, <2>3, OneWriter DEF SoundWrites
  <2>7. SoundHashes'
    BY <1>1, <1>5, <2>1, <2>2 DEF SoundHashes, IInv, Shape
  <2>8. SoundGets'
    <3>1. loop = "get" => \A g \in undo : g \in File
      BY OneWriter DEF IInv, Shape, GetsRevived
    <3>. QED
      BY <1>1, <1>5, <2>1, <3>1 DEF SoundGets, Output
  <2>. QED
    BY <2>4, <2>5, <2>6, <2>7, <2>8
<1>. QED
  BY <1>6, <1>8, <1>9, <1>10, <1>11, <1>12 DEF IInv

\* No operation writes the source that is saved.
LEMMA EditStep == ASSUME IInv, NEW f \in Source, NEW c, Edit(f, c) PROVE IInv'
<1>1. /\ "edit" \in setting.faults /\ out' = [out EXCEPT ![f] = Data(c)]
      /\ UNCHANGED <<setting, entry, stamps, stamp, copying, state, loop, cur, left, undo>>
  BY DEF Edit, locals
<1>2. /\ DOMAIN out' = File /\ f \in File /\ out'[f].at # "cache"
      /\ \A g \in File \ {f} : out'[g] = out[g]
  BY <1>1 DEF IInv, Shape, Data, File
<1>3. \A g \in File \ {f} : ContentOf(g)' = ContentOf(g) /\ (Exists(g)' <=> Exists(g))
  BY <1>1, <1>2 DEF ContentOf, Exists
<1>4. \A p \in Op : \A g \in Written(p) : g \in File \ {f}
  BY OneWriter
<1>5. Shape'
  BY <1>1, <1>2 DEF IInv, Shape
<1>6. GetsRevived'
  <2>1. SUFFICES ASSUME loop = "get" PROVE GetsRevived'
    BY <1>1 DEF GetsRevived
  <2>2. \A g \in undo : g \in File \ {f}
    BY <1>4, <2>1 DEF IInv, Shape, GetsRevived
  <2>3. \A g : KeyOf(cur, g)' = KeyOf(cur, g)
    BY <1>1 DEF KeyOf
  <2>. QED
    BY <1>1, <1>3, <2>1, <2>2, <2>3 DEF IInv, GetsRevived
<1>7. StampsOfOps'
  BY <1>1 DEF IInv, StampsOfOps, Stamped
<1>8. CachedIsRevived'
  BY <1>1, <1>3, <1>4 DEF IInv, CachedIsRevived, KeyOf
<1>9. Missing'
  BY <1>1, <1>3, <1>4 DEF IInv, Missing, Meets
<1>10. Sound'
  BY <1>1 DEF Sound, Faultless, Meets
<1>. QED
  BY <1>5, <1>6, <1>7, <1>8, <1>9, <1>10 DEF IInv

-----------------------------------------------------------------------------
(* The theorems *)

LEMMA StutterStep == ASSUME IInv, UNCHANGED vars PROVE IInv'
<1>1. \A g : ContentOf(g)' = ContentOf(g) /\ (Exists(g)' <=> Exists(g)) /\ (Settled(g)' <=> Settled(g))
  BY DEF vars, ContentOf, Exists, Settled
<1>2. \A p \in Op : ReadsNow(p)' = ReadsNow(p)
  BY <1>1 DEF ReadsNow
<1>3. Shape' /\ GetsRevived' /\ StampsOfOps' /\ CachedIsRevived'
  BY <1>1 DEF vars, IInv, Shape, GetsRevived, StampsOfOps, CachedIsRevived, KeyOf, Stamped
<1>4. Missing' /\ Sound'
  BY <1>1, <1>2 DEF vars, IInv, Missing, Meets, Sound, Faultless, SoundEntries, SoundStamps,
                    SoundWrites, SoundHashes, SoundGets, Stamped
<1>. QED
  BY <1>3, <1>4 DEF IInv

LEMMA NextIInv == IInv /\ [Next]_vars => IInv'
<1>. SUFFICES ASSUME IInv, [Next]_vars PROVE IInv'
  OBVIOUS
<1>1. ASSUME NEW o \in Op, Exec(o) PROVE IInv'
  BY <1>1, ExecStep
<1>2. ASSUME NEW o \in Op, RunOk(o) PROVE IInv'
  BY <1>2, RunOkStep
<1>3. ASSUME NEW o \in Op, RunFail(o) PROVE IInv'
  BY <1>3, RunFailStep
<1>4. ASSUME NEW o \in Op, AddOp(o) PROVE IInv'
  BY <1>4, AddOpStep
<1>5. CASE Get
  BY <1>5, GetStep
<1>6. CASE GetMiss
  BY <1>6, GetMissStep
<1>7. CASE GetFailure
  BY <1>7, GetFailureStep
<1>8. CASE GetEnd
  BY <1>8, GetEndStep
<1>9. CASE Put
  BY <1>9, PutStep
<1>10. CASE PutFailure
  BY <1>10, PutsOverStep DEF PutFailure, Putting
<1>11. CASE PutEnd
  BY <1>11, PutsOverStep DEF PutEnd
<1>12. CASE NewBuild
  BY <1>12, NewBuildStep
<1>13. CASE Torn
  BY <1>13, TornStep
<1>14. ASSUME NEW k \in DOMAIN entry, Delete(k) PROVE IInv'
  BY <1>14, DeleteStep
<1>15. ASSUME NEW f \in Source, NEW c \in Content, Edit(f, c) PROVE IInv'
  BY <1>15, EditStep
<1>16. CASE UNCHANGED vars
  BY <1>16, StutterStep
<1>. QED
  BY <1>1, <1>2, <1>3, <1>4, <1>5, <1>6, <1>7, <1>8, <1>9, <1>10, <1>11, <1>12, <1>13, <1>14,
     <1>15, <1>16 DEF Next

\* A cache handle, its loops and the cache directory keep their invariant,
\* however builds end and whatever else goes on.
THEOREM CacheInvariant == Spec => []IInv
<1>. QED
  BY InitIInv, NextIInv, PTL DEF Spec

\* An operation that is Cached has each of its writes from the cache
\* (b0_cache.ml:162-183): no error midway is taken for a success.
THEOREM CachedFromTheCache == Spec => []CachedIsRevived
<1>1. IInv => CachedIsRevived
  BY DEF IInv
<1>. QED
  BY <1>1, CacheInvariant, PTL

\* What is revived is what a run would write (b0.mli:3372), if sources do not
\* change during a build and link(2) and write(2) work.
THEOREM RevivalIsARun == Spec => []RevivedIsSuccessful
<1>1. IInv => RevivedIsSuccessful
  BY DEF IInv, Sound, SoundWrites, Faultless, RevivedIsSuccessful, CachedIsSuccessful
<1>. QED
  BY <1>1, CacheInvariant, PTL

\* Under the same conditions a cache file holds what a run writes that reads
\* what its key says.
THEOREM EntriesAreRuns == Spec => []CacheSound
<1>1. IInv => CacheSound
  BY DEF IInv, Sound, SoundEntries, Faultless, CacheSound
<1>. QED
  BY <1>1, CacheInvariant, PTL

\* A command starts without any of its writes (b0_cache.ml:170-176).
THEOREM CommandsStartClean == Spec => []MissLeavesNothing
<1>1. IInv => MissLeavesNothing
  BY DEF IInv, Missing, MissLeavesNothing
<1>. QED
  BY <1>1, CacheInvariant, PTL

\* So a cache file is never written to once it is there.
THEOREM EntriesStay == Spec => EntriesImmutable
<1>. DEFINE Stay == ~ Meets({"put"}) /\ ~ setting.exdev =>
                      \A k \in DOMAIN entry \cap DOMAIN entry' : entry'[k] = entry[k]
<1>1. ASSUME IInv, [Next]_vars, ~ Meets({"put"}), ~ setting.exdev
      PROVE  \A k \in DOMAIN entry \cap DOMAIN entry' : entry'[k] = entry[k]
  <2>1. ASSUME UNCHANGED entry PROVE \A k \in DOMAIN entry \cap DOMAIN entry' : entry'[k] = entry[k]
    BY <2>1
  <2>2. ASSUME NEW o \in Op, state[o] = "running", NEW cs, DOMAIN cs \subseteq Written(o), WriteFiles(cs)
        PROVE  \A k \in DOMAIN entry : entry'[k] = entry[k]
    BY <1>1, <2>2, FilesWritten DEF IInv, Missing
  <2>3. ASSUME NEW o \in Op, RunOk(o) PROVE \A k \in DOMAIN entry : entry'[k] = entry[k]
    <3>1. PICK cs : cs = [f \in Written(o) |-> Output(f, ReadsNow(o))]
      OBVIOUS
    <3>. QED
      BY <2>2, <2>3, <3>1 DEF RunOk
  <2>4. ASSUME NEW o \in Op, RunFail(o) PROVE \A k \in DOMAIN entry : entry'[k] = entry[k]
    <3>1. PICK fs \in SUBSET Written(o) : WriteFiles([f \in fs |-> Bad])
      BY <2>4 DEF RunFail
    <3>2. PICK cs : cs = [f \in fs |-> Bad]
      OBVIOUS
    <3>. QED
      BY <2>2, <2>4, <3>1, <3>2 DEF RunFail
  <2>5. ASSUME Put PROVE \A k \in DOMAIN entry : entry'[k] = entry[k]
    BY <1>1, <2>5 DEF Put, Copies, EntryWith, IInv, Shape
  <2>6. ~ Torn
    BY <1>1 DEF Torn, IInv, Shape
  <2>7. ASSUME NEW k \in DOMAIN entry, Delete(k)
        PROVE  \A i \in DOMAIN entry \cap DOMAIN entry' : entry'[i] = entry[i]
    BY <2>7 DEF Delete
  <2>8. \/ UNCHANGED entry \/ Put \/ \E o \in Op : RunOk(o) \/ RunFail(o)
        \/ \E k \in DOMAIN entry : Delete(k)
    BY <1>1, <2>6 DEF Next, vars, Exec, AddOp, Get, GetMiss, GetFailure, GetEnd, PutFailure, PutEnd,
                      NewBuild, Edit
  <2>. QED
    BY <2>1, <2>3, <2>4, <2>5, <2>7, <2>8
<1>2. IInv /\ [Next]_vars => [Stay]_vars
  BY <1>1
<1>. QED
  BY <1>2, CacheInvariant, PTL DEF Spec, EntriesImmutable
-----------------------------------------------------------------------------
(* CacheTrim: the inductive invariant *)

Points == {"start", "unused", "unlink", "stat", "trim", "exit"}
Examination == [file : Bz!File, unused : BOOLEAN]

TrimShape ==
  /\ linked \subseteq cache /\ cache \subseteq Bz!File
  /\ opts \in [Proc -> Options \cup {Bz!NoOption}]
  /\ pc \in [Proc -> Points]
  /\ todo \in [Proc -> SUBSET Bz!File] /\ listed \in [Proc -> SUBSET Bz!File]
  /\ found \in [Proc -> SUBSET Examination]
  /\ current \in [Proc -> Int] /\ budget \in [Proc -> Nat]
  /\ alone \in [Proc -> BOOLEAN]

\* What p has still to visit, what it examined and what that weighs.
AtPoint(p) ==
  /\ pc[p] \in {"start", "trim", "exit"} => todo[p] = {}
  /\ pc[p] = "unlink" => todo[p] # {}
  /\ pc[p] \in {"start", "unused", "unlink", "exit"} => found[p] = {}
  /\ pc[p] \in {"start", "exit"} => ~ alone[p]
  /\ pc[p] \in {"unused", "unlink", "stat", "trim"} => opts[p] \in Options
  /\ pc[p] = "trim" => current[p] = Bz!Bytes(Bz!Files(found[p]))

\* A file p listed and that is there is not forgotten, nor counted twice.
Accounted(p) ==
  /\ \A r, t \in found[p] : r.file = t.file => r = t
  /\ \A r \in found[p] : r.file \notin todo[p]
  /\ pc[p] \in {"stat", "trim"} =>
       listed[p] \cap cache \subseteq Bz!Files(found[p]) \cup todo[p]

\* What stat would give for f.
StatNow(f) == [file |-> f, unused |-> f \notin linked]

\* If nothing misled p then what it examined is as it was, but for files that
\* come before all that is there.
Knows(p) ==
  alone[p] =>
    /\ cache \subseteq listed[p]
    /\ \A r \in found[p] :
         /\ r.file \in cache => r = StatNow(r.file)
         /\ r.file \notin cache => \A f \in cache : Bz!Before(r, StatNow(f))

TrimIInv == TrimShape /\ \A p \in Proc : AtPoint(p) /\ Accounted(p) /\ Knows(p)

-----------------------------------------------------------------------------
(* CacheTrim: the bytes of files *)

\* A directory has finitely many files.
LEMMA FilesAreFinite == IsFiniteSet(Bz!File)
<1>1. /\ Listing \in Seq(Bz!File) /\ Len(Listing) \in Nat
      /\ DOMAIN Listing = 1 .. Len(Listing)
  BY FilesAssumption, LenProperties DEF Bz!FilesOfCache
<1>2. Listing \in [1 .. Len(Listing) -> Bz!File]
  BY <1>1, SeqDef
<1>3. Listing \in Surjection(1 .. Len(Listing), Bz!File)
  BY <1>1, <1>2 DEF Surjection, Bz!File
<1>. QED
  BY <1>1, <1>3, FS_NatSurjection DEF ExistsSurjection

\* CacheTrim counts as FiniteSetTheorems does.
LEMMA SameCardinality == \A S : Bz!Cardinality(S) = Cardinality(S)
BY DEF Bz!Cardinality, Cardinality

\* A set of files has a size.
LEMMA BytesAreFinite ==
  ASSUME NEW fs \in SUBSET Bz!File
  PROVE  IsFiniteSet(Bz!BytesOf(fs)) /\ Bz!Bytes(fs) \in Nat
<1>1. PICK ofs : ofs = [f \in fs |-> {f} \X (1 .. Size[f])]
  OBVIOUS
<1>2. PICK parts : parts = {{f} \X (1 .. Size[f]) : f \in fs}
  OBVIOUS
<1>3. ofs \in Surjection(fs, parts)
  BY <1>1, <1>2 DEF Surjection
<1>4. IsFiniteSet(parts)
  BY <1>3, FilesAreFinite, FS_Subset, FS_Surjection
<1>5. ASSUME NEW f \in fs PROVE IsFiniteSet({f} \X (1 .. Size[f]))
  <2>1. Size[f] \in Nat
    BY FilesAssumption DEF Bz!FilesOfCache
  <2>2. IsFiniteSet({f})
    BY FS_Singleton
  <2>3. IsFiniteSet(1 .. Size[f])
    BY <2>1, FS_Interval
  <2>. QED
    BY <2>2, <2>3, FS_Product
<1>6. \A part \in parts : IsFiniteSet(part)
  BY <1>2, <1>5
<1>7. IsFiniteSet(Bz!BytesOf(fs))
  BY <1>2, <1>4, <1>6, FS_UNION DEF Bz!BytesOf
<1>. QED
  BY <1>7, FS_CardinalityType, SameCardinality DEF Bz!Bytes

\* More files, more bytes.
LEMMA BytesOfMore ==
  ASSUME NEW gs \in SUBSET Bz!File, NEW fs \in SUBSET gs
  PROVE  Bz!Bytes(fs) <= Bz!Bytes(gs)
<1>1. Bz!BytesOf(fs) \subseteq Bz!BytesOf(gs)
  BY DEF Bz!BytesOf
<1>. QED
  BY <1>1, BytesAreFinite, FS_Subset, SameCardinality DEF Bz!Bytes

\* A file that goes takes its bytes with it.
LEMMA BytesWithout ==
  ASSUME NEW fs \in SUBSET Bz!File, NEW f \in fs
  PROVE  Bz!Bytes(fs \ {f}) = Bz!Bytes(fs) - Size[f]
<1>1. PICK part : part = {f} \X (1 .. Size[f])
  OBVIOUS
<1>2. Size[f] \in Nat
  BY FilesAssumption DEF Bz!FilesOfCache
<1>3. Cardinality(part) = Size[f]
  <2>1. IsFiniteSet({f}) /\ Cardinality({f}) = 1
    BY FS_Singleton
  <2>2. IsFiniteSet(1 .. Size[f]) /\ Cardinality(1 .. Size[f]) = Size[f]
    BY <1>2, FS_Interval
  <2>3. Cardinality(part) = 1 * Size[f]
    BY <1>1, <2>1, <2>2, FS_Product
  <2>. QED
    BY <1>2, <2>3
<1>4. part \subseteq Bz!BytesOf(fs)
  BY <1>1 DEF Bz!BytesOf
<1>5. Bz!BytesOf(fs \ {f}) = Bz!BytesOf(fs) \ part
  BY <1>1 DEF Bz!BytesOf
<1>6. Bz!BytesOf(fs) \cap part = part
  BY <1>4
<1>7. Cardinality(Bz!BytesOf(fs) \ part) = Cardinality(Bz!BytesOf(fs)) - Cardinality(part)
  <2>1. IsFiniteSet(Bz!BytesOf(fs))
    BY BytesAreFinite
  <2>. QED
    BY <1>6, <2>1, FS_Difference
<1>. QED
  BY <1>3, <1>5, <1>7, SameCardinality DEF Bz!Bytes

\* The size to reach is a natural number.
LEMMA BudgetIsNat ==
  ASSUME NEW o \in Options, NEW total \in Nat
  PROVE  Bz!Budget(o, total) \in Nat
<1>1. o.pct \in 0 .. 100 /\ o.bytes \in Nat \cup {NoSize}
  BY LinesAssumption DEF Bz!CommandLines
<1>2. PICK n : n = (total * o.pct) \div 100
  OBVIOUS
<1>3. n \in Nat
  <2>1. total * o.pct \in Nat
    BY <1>1
  <2>2. PICK m \in Nat : m = total * o.pct
    BY <2>1
  <2>3. m \div 100 \in Nat
    BY <2>2
  <2>. QED
    BY <1>2, <2>2, <2>3
<1>4. Bz!PctSize(total, o.pct) \in {n, n - 1} /\ (n = 0 => Bz!PctSize(total, o.pct) = n)
  BY <1>2, <1>3 DEF Bz!PctSize
<1>5. Bz!PctSize(total, o.pct) \in Nat
  BY <1>3, <1>4
<1>. QED
  BY <1>1, <1>5 DEF Bz!Budget

-----------------------------------------------------------------------------
(* CacheTrim: which file is next *)

\* Natural numbers have a least one among them.
LEMMA Minimum ==
  ASSUME NEW T \in SUBSET Nat, T # {}
  PROVE  \E n \in T : \A m \in T : n <= m
<1>1. PICK n \in T : \A m \in T : <<m, n>> \notin OpToRel(<, Nat)
  BY NatLessThanWellFounded, WFMin
<1>2. \A m \in T : ~ (m < n)
  BY <1>1 DEF OpToRel
<1>. QED
  BY <1>2

\* A file has its place in the listing.
LEMMA IndexOfFile ==
  /\ \A f \in Bz!File : Bz!Index[f] \in 1 .. Len(Listing)
  /\ \A f, g \in Bz!File : Bz!Index[f] = Bz!Index[g] => f = g
<1>1. DOMAIN Listing = 1 .. Len(Listing)
  BY FilesAssumption, LenProperties DEF Bz!FilesOfCache
<1>2. \A f \in Bz!File : Bz!Index[f] \in DOMAIN Listing /\ Listing[Bz!Index[f]] = f
  BY DEF Bz!Index, Bz!File
<1>. QED
  BY <1>1, <1>2

\* The loops visit a file that is left to visit.
LEMMA FirstIsToVisit ==
  ASSUME NEW p, todo[p] \in SUBSET Bz!File, todo[p] # {}
  PROVE  Bz!First(p) \in todo[p]
<1>1. DOMAIN Listing = 1 .. Len(Listing) /\ Len(Listing) \in Nat
  BY FilesAssumption, LenProperties DEF Bz!FilesOfCache
<1>2. PICK T : T = {i \in DOMAIN Listing : Listing[i] \in todo[p]}
  OBVIOUS
<1>3. T \in SUBSET Nat /\ T # {}
  BY <1>1, <1>2 DEF Bz!File
<1>4. PICK n \in T : \A m \in T : n <= m
  BY <1>3, Minimum
<1>5. \A j \in 1 .. (n - 1) : Listing[j] \notin todo[p]
  BY <1>1, <1>2, <1>4
<1>6. \E i \in DOMAIN Listing :
        Listing[i] \in todo[p] /\ \A j \in 1 .. (i - 1) : Listing[j] \notin todo[p]
  BY <1>2, <1>4, <1>5
<1>. QED
  BY <1>6 DEF Bz!First

\* A file is no larger than the directory.
LEMMA SizeIsBounded == \A f \in Bz!File : Size[f] \in 0 .. Bz!Bytes(Bz!File)
<1>1. ASSUME NEW f \in Bz!File PROVE Size[f] \in 0 .. Bz!Bytes(Bz!File)
  <2>1. Size[f] \in Nat
    BY FilesAssumption DEF Bz!FilesOfCache
  <2>2. /\ Bz!Bytes(Bz!File \ {f}) = Bz!Bytes(Bz!File) - Size[f]
        /\ Bz!Bytes(Bz!File \ {f}) \in Nat /\ Bz!Bytes(Bz!File) \in Nat
    BY BytesWithout, BytesAreFinite
  <2>. QED
    BY <2>1, <2>2
<1>. QED
  BY <1>1

\* order_atime_size has a least element in what was examined: Coldest.
LEMMA ColdestIsLeast ==
  ASSUME NEW p, found[p] \in SUBSET Examination, found[p] # {},
         \A r, t \in found[p] : r.file = t.file => r = t
  PROVE  /\ Bz!Coldest(p) \in found[p]
         /\ \A t \in found[p] \ {Bz!Coldest(p)} : Bz!Before(Bz!Coldest(p), t)
<1>1. \A r \in found[p] : Bz!Age(r) \in Int /\ Bz!Age(r) + 1 \in Nat
  BY FilesAssumption DEF Examination, Bz!Age, Bz!FilesOfCache
<1>2. PICK r1 \in found[p] : \A t \in found[p] : Bz!Age(r1) <= Bz!Age(t)
  <2>1. PICK T : T = {Bz!Age(r) + 1 : r \in found[p]}
    OBVIOUS
  <2>2. T \in SUBSET Nat /\ T # {}
    BY <1>1, <2>1
  <2>3. PICK n \in T : \A m \in T : n <= m
    BY <2>2, Minimum
  <2>4. PICK r \in found[p] : n = Bz!Age(r) + 1
    BY <2>1
  <2>5. \A t \in found[p] : n <= Bz!Age(t) + 1
    BY <2>1, <2>3
  <2>. QED
    BY <1>1, <2>4, <2>5
<1>3. PICK R : R = {r \in found[p] : Bz!Age(r) = Bz!Age(r1)}
  OBVIOUS
<1>. PICK max \in Nat : max = Bz!Bytes(Bz!File)
  BY BytesAreFinite
<1>4. \A r \in R : Size[r.file] \in 0 .. max
  BY <1>3, SizeIsBounded DEF Examination
<1>5. PICK r2 \in R : \A t \in R : Size[r2.file] >= Size[t.file]
  <2>1. PICK T : T = {max - Size[r.file] : r \in R}
    OBVIOUS
  <2>2. T \in SUBSET Nat /\ T # {}
    BY <1>3, <1>4, <2>1
  <2>3. PICK n \in T : \A m \in T : n <= m
    BY <2>2, Minimum
  <2>4. PICK r \in R : n = max - Size[r.file]
    BY <2>1
  <2>5. \A t \in R : n <= max - Size[t.file]
    BY <2>1, <2>3
  <2>6. ASSUME NEW t \in R PROVE Size[r.file] >= Size[t.file]
    <3>1. Size[r.file] \in 0 .. max /\ Size[t.file] \in 0 .. max
      BY <1>4
    <3>2. max - Size[r.file] <= max - Size[t.file]
      BY <2>4, <2>5
    <3>3. PICK i \in 0 .. max, j \in 0 .. max : i = Size[r.file] /\ j = Size[t.file]
      BY <3>1
    <3>4. i >= j
      BY <3>2, <3>3
    <3>. QED
      BY <3>3, <3>4
  <2>. QED
    BY <2>6
<1>6. PICK Q : Q = {r \in R : Size[r.file] = Size[r2.file]}
  OBVIOUS
<1>7. Len(Listing) \in Nat /\ \A r \in Q : r.file \in Bz!File
  BY <1>3, <1>6, FilesAssumption, LenProperties DEF Bz!FilesOfCache, Examination
<1>8. \A r \in Q : Bz!Index[r.file] \in 1 .. Len(Listing)
  BY <1>7, IndexOfFile
<1>9. PICK r3 \in Q : \A t \in Q : Bz!Index[r3.file] >= Bz!Index[t.file]
  <2>1. PICK T : T = {Len(Listing) - Bz!Index[r.file] : r \in Q}
    OBVIOUS
  <2>2. T \in SUBSET Nat /\ T # {}
    BY <1>6, <1>7, <1>8, <2>1
  <2>3. PICK n \in T : \A m \in T : n <= m
    BY <2>2, Minimum
  <2>4. PICK r \in Q : n = Len(Listing) - Bz!Index[r.file]
    BY <2>1
  <2>5. \A t \in Q : n <= Len(Listing) - Bz!Index[t.file]
    BY <2>1, <2>3
  <2>. QED
    BY <1>7, <1>8, <2>4, <2>5
<1>10. ASSUME NEW t \in found[p] \ {r3} PROVE Bz!Before(r3, t)
  <2>1. r3 \in found[p] /\ Bz!Age(r3) = Bz!Age(r1) /\ r3 \in R
    BY <1>3, <1>6, <1>9
  <2>2. r3.file # t.file /\ r3.file \in Bz!File /\ t.file \in Bz!File
    BY <2>1 DEF Examination
  <2>3. CASE Bz!Age(t) # Bz!Age(r1)
    <3>1. Bz!Age(r3) < Bz!Age(t)
      BY <1>1, <1>2, <2>1, <2>3
    <3>. QED
      BY <3>1 DEF Bz!Before
  <2>4. CASE Bz!Age(t) = Bz!Age(r1) /\ Size[t.file] # Size[r2.file]
    <3>1. t \in R /\ Size[r3.file] = Size[r2.file]
      BY <1>3, <1>6, <1>9, <2>4
    <3>2. Size[t.file] \in 0 .. max /\ Size[r2.file] \in 0 .. max /\ Size[r2.file] >= Size[t.file]
      BY <1>4, <1>5, <3>1
    <3>3. PICK i \in 0 .. max, j \in 0 .. max : i = Size[t.file] /\ j = Size[r2.file]
      BY <3>2
    <3>4. j > i
      BY <2>4, <3>2, <3>3
    <3>5. Size[r3.file] > Size[t.file]
      BY <3>1, <3>3, <3>4
    <3>. QED
      BY <2>1, <2>4, <3>5 DEF Bz!Before
  <2>5. CASE Bz!Age(t) = Bz!Age(r1) /\ Size[t.file] = Size[r2.file]
    <3>1. t \in Q
      BY <1>3, <1>6, <2>5
    <3>2. Bz!Index[r3.file] # Bz!Index[t.file]
      BY <2>2, IndexOfFile
    <3>3. Bz!Index[r3.file] > Bz!Index[t.file]
      BY <1>7, <1>8, <1>9, <3>1, <3>2
    <3>4. Size[r3.file] = Size[t.file]
      BY <1>6, <1>9, <2>5
    <3>. QED
      BY <2>1, <2>5, <3>3, <3>4 DEF Bz!Before
  <2>. QED
    BY <2>3, <2>4, <2>5
<1>11. r3 \in found[p]
  BY <1>3, <1>6, <1>9
<1>. QED
  BY <1>10, <1>11 DEF Bz!Coldest

-----------------------------------------------------------------------------
(* CacheTrim: the steps *)

\* What a step of p leaves alone of q.
Untouched(q) ==
  /\ opts'[q] = opts[q] /\ pc'[q] = pc[q] /\ todo'[q] = todo[q] /\ found'[q] = found[q]
  /\ current'[q] = current[q] /\ budget'[q] = budget[q] /\ listed'[q] = listed[q]

\* Another run may delete files; those q counts come before all that stays.
LEMMA OthersStep ==
  ASSUME TrimIInv, NEW q \in Proc, Untouched(q),
         cache' \subseteq cache, linked' = linked \cap cache',
         alone'[q] => alone[q],
         alone'[q] => \A f \in cache \ cache' : \A g \in cache' :
                        Bz!Before(StatNow(f), StatNow(g))
  PROVE  AtPoint(q)' /\ Accounted(q)' /\ Knows(q)'
<1>1. AtPoint(q) /\ Accounted(q) /\ Knows(q)
  BY DEF TrimIInv
<1>2. AtPoint(q)'
  BY <1>1 DEF AtPoint, Untouched, TrimIInv, TrimShape
<1>3. Accounted(q)'
  BY <1>1 DEF Accounted, Untouched
<1>4. ASSUME alone'[q] PROVE Knows(q)'
  <2>1. \A f \in cache' : StatNow(f)' = StatNow(f)
    BY DEF StatNow
  <2>2. cache' \subseteq listed'[q]
    BY <1>1, <1>4 DEF Knows, Untouched
  <2>3. ASSUME NEW r \in found[q], r.file \in cache' PROVE r = StatNow(r.file)'
    BY <1>1, <1>4, <2>1, <2>3 DEF Knows
  <2>4. ASSUME NEW r \in found[q], r.file \notin cache', NEW f \in cache'
        PROVE  Bz!Before(r, StatNow(f)')
    <3>1. CASE r.file \in cache
      <4>1. r = StatNow(r.file)
        BY <1>1, <1>4, <3>1 DEF Knows
      <4>2. Bz!Before(StatNow(r.file), StatNow(f))
        BY <1>4, <2>4, <3>1
      <4>. QED
        BY <2>1, <4>1, <4>2
    <3>2. CASE r.file \notin cache
      <4>1. Bz!Before(r, StatNow(f))
        BY <1>1, <1>4, <3>2 DEF Knows
      <4>. QED
        BY <2>1, <4>1
    <3>. QED
      BY <3>1, <3>2
  <2>. QED
    BY <2>2, <2>3, <2>4 DEF Knows, Untouched
<1>5. Knows(q)'
  BY <1>4 DEF Knows
<1>. QED
  BY <1>2, <1>3, <1>5

\* A step of p that deletes nothing.
LEMMA OwnStep ==
  ASSUME TrimIInv, NEW p \in Proc, UNCHANGED <<cache, linked>>, TrimShape',
         \A q \in Proc \ {p} : Untouched(q) /\ alone'[q] = alone[q],
         AtPoint(p)', Accounted(p)', Knows(p)'
  PROVE  TrimIInv'
<1>1. ASSUME NEW q \in Proc \ {p} PROVE AtPoint(q)' /\ Accounted(q)' /\ Knows(q)'
  <2>1. linked' = linked \cap cache'
    BY DEF TrimIInv, TrimShape
  <2>. QED
    BY <1>1, <2>1, OthersStep
<1>. QED
  BY <1>1 DEF TrimIInv

\* A run starts to visit the files that are there.
LEMMA ListStep ==
  ASSUME TrimIInv, NEW p \in Proc, NEW next \in {"unused", "stat"}, NEW o \in Options,
         Bz!List(p, next), found[p] = {},
         opts' = [opts EXCEPT ![p] = o], UNCHANGED <<cache, linked, found, current, budget>>
  PROVE  TrimIInv'
<1>1. TrimShape
  BY DEF TrimIInv
<1>2. TrimShape'
  BY <1>1 DEF TrimShape, Bz!List, Points
<1>3. /\ pc'[p] = next /\ todo'[p] = cache /\ listed'[p] = cache /\ opts'[p] = o
      /\ found'[p] = {}
  BY <1>1 DEF TrimShape, Bz!List
<1>4. AtPoint(p)' /\ Accounted(p)' /\ Knows(p)'
  BY <1>3 DEF AtPoint, Accounted, Knows
<1>5. \A q \in Proc \ {p} : Untouched(q) /\ alone'[q] = alone[q]
  BY <1>1 DEF TrimShape, Bz!List, Untouched
<1>. QED
  BY <1>2, <1>4, <1>5, OwnStep

\* A run ends.
LEMMA ExitStep == ASSUME TrimIInv, NEW p \in Proc, Bz!Exit(p) PROVE TrimIInv'
<1>1. TrimShape
  BY DEF TrimIInv
<1>2. TrimShape'
  BY <1>1 DEF TrimShape, Bz!Exit, Bz!Goto, Points
<1>3. /\ pc'[p] = "exit" /\ todo'[p] = {} /\ found'[p] = {} /\ alone'[p] = FALSE
  BY <1>1 DEF TrimShape, Bz!Exit, Bz!Goto
<1>4. AtPoint(p)' /\ Accounted(p)' /\ Knows(p)'
  BY <1>3 DEF AtPoint, Accounted, Knows
<1>5. \A q \in Proc \ {p} : Untouched(q) /\ alone'[q] = alone[q]
  BY <1>1 DEF TrimShape, Bz!Exit, Bz!Goto, Untouched
<1>6. UNCHANGED <<cache, linked>>
  BY DEF Bz!Exit
<1>. QED
  BY <1>2, <1>4, <1>5, <1>6, OwnStep

\* delete_unused_files: a file is examined, then deleted.
LEMMA UnusedStep == ASSUME TrimIInv, NEW p \in Proc, Bz!Unused(p) PROVE TrimIInv'
<1>1. TrimShape /\ AtPoint(p) /\ Accounted(p) /\ Knows(p)
  BY DEF TrimIInv
<1>2. todo'[p] \in SUBSET Bz!File /\ pc'[p] \in {"unused", "unlink"}
  BY <1>1 DEF TrimShape, Bz!Unused, Bz!Visiting, Bz!Visited, Bz!Goto
<1>3. TrimShape'
  BY <1>1 DEF TrimShape, Bz!Unused, Bz!Visited, Bz!Goto, Points
<1>4. /\ found[p] = {} /\ UNCHANGED <<found, opts>>
      /\ pc'[p] = "unlink" => todo'[p] # {}
      /\ pc[p] = "unused"
  BY <1>1 DEF AtPoint, TrimShape, Bz!Unused, Bz!Visiting, Bz!Goto
<1>5. AtPoint(p)'
  BY <1>1, <1>2, <1>4 DEF AtPoint
<1>6. Accounted(p)' /\ Knows(p)'
  BY <1>1, <1>2, <1>4 DEF Accounted, Knows, Bz!Unused
<1>7. \A q \in Proc \ {p} : Untouched(q) /\ alone'[q] = alone[q]
  BY <1>1 DEF TrimShape, Bz!Unused, Bz!Visited, Bz!Goto, Untouched
<1>8. UNCHANGED <<cache, linked>>
  BY DEF Bz!Unused
<1>. QED
  BY <1>3, <1>5, <1>6, <1>7, <1>8, OwnStep

LEMMA UnlinkUnusedStep == ASSUME TrimIInv, NEW p \in Proc, Bz!UnlinkUnused(p) PROVE TrimIInv'
<1>1. TrimShape /\ AtPoint(p) /\ Accounted(p) /\ Knows(p) /\ found[p] = {}
  BY DEF TrimIInv, AtPoint, Bz!UnlinkUnused
<1>2. cache' \subseteq cache /\ linked' = linked \cap cache'
  BY <1>1 DEF TrimShape, Bz!UnlinkUnused, Bz!Without
<1>3. TrimShape'
  BY <1>1, <1>2 DEF TrimShape, Bz!UnlinkUnused, Bz!Visited, Bz!Goto, Points
<1>4. /\ found'[p] = {} /\ pc'[p] = "unused" /\ listed'[p] = listed[p] /\ opts'[p] = opts[p]
      /\ alone'[p] => alone[p]
  BY <1>1 DEF TrimShape, Bz!UnlinkUnused, Bz!Goto
<1>5. opts[p] \in Options
  BY <1>1 DEF AtPoint, Bz!UnlinkUnused
<1>6. AtPoint(p)' /\ Accounted(p)' /\ Knows(p)'
  BY <1>1, <1>2, <1>4, <1>5 DEF AtPoint, Accounted, Knows
<1>7. ASSUME NEW q \in Proc \ {p} PROVE AtPoint(q)' /\ Accounted(q)' /\ Knows(q)'
  <2>1. Untouched(q)
    BY <1>1 DEF TrimShape, Bz!UnlinkUnused, Bz!Visited, Bz!Goto, Untouched
  <2>2. alone'[q] => alone[q] /\ cache' = cache
    BY DEF Bz!UnlinkUnused
  <2>. QED
    BY <1>2, <2>1, <2>2, OthersStep
<1>. QED
  BY <1>3, <1>6, <1>7 DEF TrimIInv

LEMMA UnusedEndStep == ASSUME TrimIInv, NEW p \in Proc, Bz!UnusedEnd(p) PROVE TrimIInv'
<1>1. CASE Bz!Exit(p)
  BY <1>1, ExitStep
<1>2. CASE Bz!List(p, "stat") /\ UNCHANGED <<cache, linked, opts, found, current, budget>>
  <2>1. TrimShape /\ AtPoint(p) /\ pc[p] = "unused"
    BY DEF TrimIInv, Bz!UnusedEnd
  <2>2. opts[p] \in Options /\ found[p] = {}
    BY <2>1 DEF AtPoint
  <2>3. opts' = [opts EXCEPT ![p] = opts[p]]
    BY <1>2, <2>1 DEF TrimShape
  <2>. QED
    BY <1>2, <2>2, <2>3, ListStep
<1>. QED
  BY <1>1, <1>2 DEF Bz!UnusedEnd

\* sort_files_by_deletion: a file is examined, and at the end the loop of
\* delete_files starts with what they all weigh.
LEMMA StatStep == ASSUME TrimIInv, NEW p \in Proc, Bz!Stat(p) PROVE TrimIInv'
<1>1. TrimShape /\ AtPoint(p) /\ Accounted(p) /\ Knows(p)
  BY DEF TrimIInv
<1>2. PICK f : f = Bz!First(p)
  OBVIOUS
<1>3. f \in todo[p] /\ f \in cache /\ f \in Bz!File /\ pc[p] = "stat"
  BY <1>1, <1>2, FirstIsToVisit DEF TrimShape, Bz!Stat, Bz!Visiting
<1>4. /\ found' = [found EXCEPT ![p] = found[p] \cup {StatNow(f)}]
      /\ todo' = [todo EXCEPT ![p] = todo[p] \ {f}]
      /\ UNCHANGED <<cache, linked, opts, pc, current, budget, listed, alone>>
  BY <1>2 DEF Bz!Stat, Bz!Visited, StatNow
<1>5. StatNow(f) \in Examination /\ StatNow(f).file = f
  BY <1>3 DEF StatNow, Examination
<1>6. TrimShape'
  <2>1. found[p] \cup {StatNow(f)} \in SUBSET Examination
    BY <1>1, <1>5 DEF TrimShape
  <2>. QED
    BY <1>1, <1>4, <2>1 DEF TrimShape
<1>7. found'[p] = found[p] \cup {StatNow(f)} /\ todo'[p] = todo[p] \ {f}
  BY <1>1, <1>4 DEF TrimShape
<1>8. AtPoint(p)'
  BY <1>1, <1>3, <1>4 DEF AtPoint
<1>9. Accounted(p)'
  <2>1. \A r, t \in found'[p] : r.file = t.file => r = t
    BY <1>1, <1>3, <1>5, <1>7 DEF Accounted
  <2>2. \A r \in found'[p] : r.file \notin todo'[p]
    BY <1>1, <1>5, <1>7 DEF Accounted
  <2>3. listed[p] \cap cache \subseteq Bz!Files(found'[p]) \cup todo'[p]
    BY <1>1, <1>3, <1>5, <1>7 DEF Accounted, Bz!Files
  <2>. QED
    BY <1>4, <2>1, <2>2, <2>3 DEF Accounted
<1>10. Knows(p)'
  <2>1. StatNow(f) = StatNow(StatNow(f).file) /\ StatNow(f).file \in cache
    BY <1>3, <1>5
  <2>2. \A g : StatNow(g)' = StatNow(g)
    BY <1>4 DEF StatNow
  <2>. QED
    BY <1>1, <1>4, <1>7, <2>1, <2>2 DEF Knows
<1>11. \A q \in Proc \ {p} : Untouched(q) /\ alone'[q] = alone[q]
  BY <1>1, <1>4 DEF TrimShape, Untouched
<1>. QED
  BY <1>4, <1>6, <1>8, <1>9, <1>10, <1>11, OwnStep

\* What was examined are files.
LEMMA FilesOfExaminations ==
  ASSUME NEW R \in SUBSET Examination PROVE Bz!Files(R) \in SUBSET Bz!File
BY DEF Bz!Files, Examination

LEMMA StatEndStep == ASSUME TrimIInv, NEW p \in Proc, Bz!StatEnd(p) PROVE TrimIInv'
<1>1. TrimShape /\ AtPoint(p) /\ Accounted(p) /\ Knows(p) /\ pc[p] = "stat" /\ todo[p] = {}
  BY DEF TrimIInv, Bz!StatEnd
<1>2. PICK total : total = Bz!Bytes(Bz!Files(found[p]))
  OBVIOUS
<1>3. total \in Nat
  BY <1>1, <1>2, FilesOfExaminations, BytesAreFinite DEF TrimShape
<1>4. Bz!Budget(opts[p], total) \in Nat
  BY <1>1, <1>3, BudgetIsNat DEF AtPoint
<1>5. /\ current' = [current EXCEPT ![p] = total]
      /\ budget' = [budget EXCEPT ![p] = Bz!Budget(opts[p], total)]
      /\ pc' = [pc EXCEPT ![p] = "trim"]
      /\ UNCHANGED <<cache, linked, opts, todo, found, listed, alone>>
  BY <1>2 DEF Bz!StatEnd, Bz!Goto
<1>6. TrimShape'
  BY <1>1, <1>3, <1>4, <1>5 DEF TrimShape, Points
<1>7. pc'[p] = "trim" /\ current'[p] = total
  BY <1>1, <1>5 DEF TrimShape
<1>8. AtPoint(p)' /\ Accounted(p)'
  BY <1>1, <1>2, <1>5, <1>7 DEF AtPoint, Accounted
<1>9. Knows(p)'
  BY <1>1, <1>5 DEF Knows, StatNow
<1>10. \A q \in Proc \ {p} : Untouched(q) /\ alone'[q] = alone[q]
  BY <1>1, <1>5 DEF TrimShape, Untouched
<1>. QED
  BY <1>5, <1>6, <1>8, <1>9, <1>10, OwnStep

\* What p deletes next, if it is there and nothing misled p, is as p examined it
\* and comes before all else that is there.
LEMMA NextToGo ==
  ASSUME TrimIInv, NEW p \in Proc, pc[p] = "trim", found[p] # {}
  PROVE  /\ Bz!Coldest(p) \in found[p] /\ Bz!Coldest(p).file \in Bz!File
         /\ Bz!Files(found[p] \ {Bz!Coldest(p)}) = Bz!Files(found[p]) \ {Bz!Coldest(p).file}
         /\ alone[p] /\ Bz!Coldest(p).file \in cache =>
              /\ Bz!Coldest(p) = StatNow(Bz!Coldest(p).file)
              /\ \A g \in cache \ {Bz!Coldest(p).file} :
                   Bz!Before(Bz!Coldest(p), StatNow(g))
<1>1. TrimShape /\ AtPoint(p) /\ Accounted(p) /\ Knows(p)
  BY DEF TrimIInv
<1>2. PICK r : r = Bz!Coldest(p)
  OBVIOUS
<1>3. r \in found[p] /\ \A t \in found[p] \ {r} : Bz!Before(r, t)
  BY <1>1, <1>2, ColdestIsLeast DEF TrimShape, Accounted
<1>4. r.file \in Bz!File
  BY <1>1, <1>3 DEF TrimShape, Examination
<1>5. Bz!Files(found[p] \ {r}) = Bz!Files(found[p]) \ {r.file}
  BY <1>1, <1>3 DEF Bz!Files, Accounted
<1>6. ASSUME alone[p], r.file \in cache, NEW g \in cache \ {r.file}
      PROVE  Bz!Before(r, StatNow(g))
  <2>1. PICK t \in found[p] : t.file = g
    BY <1>1, <1>6 DEF Knows, Accounted, AtPoint, Bz!Files
  <2>2. t = StatNow(g)
    BY <1>1, <1>6, <2>1 DEF Knows
  <2>3. t # r
    BY <1>6, <2>1
  <2>. QED
    BY <1>3, <2>2, <2>3
<1>7. alone[p] /\ r.file \in cache => r = StatNow(r.file)
  BY <1>1, <1>3 DEF Knows
<1>. QED
  BY <1>2, <1>3, <1>4, <1>5, <1>6, <1>7

\* delete_files deletes a file.
LEMMA TrimStep == ASSUME TrimIInv, NEW p \in Proc, Bz!Trim(p) PROVE TrimIInv'
<1>1. TrimShape /\ AtPoint(p) /\ Accounted(p) /\ Knows(p) /\ pc[p] = "trim" /\ found[p] # {}
  BY DEF TrimIInv, Bz!Trim
<1>2. PICK r : r = Bz!Coldest(p)
  OBVIOUS
<1>3. /\ r \in found[p] /\ r.file \in Bz!File
      /\ Bz!Files(found[p] \ {r}) = Bz!Files(found[p]) \ {r.file}
      /\ alone[p] /\ r.file \in cache =>
           r = StatNow(r.file) /\ \A g \in cache \ {r.file} : Bz!Before(r, StatNow(g))
  BY <1>1, <1>2, NextToGo
<1>4. /\ cache' = cache \ {r.file} /\ linked' = linked \ {r.file}
      /\ found' = [found EXCEPT ![p] = found[p] \ {r}]
      /\ current' = [current EXCEPT ![p] = current[p] - Size[r.file]]
      /\ alone' = [q \in Proc |-> alone[q] /\ (alone[p] \/ cache' = cache)]
      /\ UNCHANGED <<opts, pc, todo, budget, listed>>
  BY <1>2 DEF Bz!Trim, Bz!Without, Bz!Misleads
<1>5. linked' = linked \cap cache' /\ cache' \subseteq cache
  BY <1>1, <1>4 DEF TrimShape
<1>6. TrimShape'
  <2>1. Size[r.file] \in Int /\ current[p] \in Int
    BY <1>1, <1>3, FilesAssumption DEF Bz!FilesOfCache, TrimShape
  <2>2. current[p] - Size[r.file] \in Int
    BY <2>1
  <2>3. current' \in [Proc -> Int] /\ found' \in [Proc -> SUBSET Examination]
    BY <1>1, <1>4, <2>2 DEF TrimShape
  <2>4. alone' \in [Proc -> BOOLEAN]
    BY <1>4
  <2>. QED
    BY <1>1, <1>4, <2>3, <2>4 DEF TrimShape
<1>7. found'[p] = found[p] \ {r} /\ current'[p] = current[p] - Size[r.file]
  BY <1>1, <1>4 DEF TrimShape
<1>8. AtPoint(p)'
  <2>1. r.file \in Bz!Files(found[p]) /\ Bz!Files(found[p]) \in SUBSET Bz!File
    BY <1>1, <1>3, FilesOfExaminations DEF TrimShape, Bz!Files
  <2>2. Bz!Bytes(Bz!Files(found[p]) \ {r.file}) = Bz!Bytes(Bz!Files(found[p])) - Size[r.file]
    BY <2>1, BytesWithout
  <2>3. current'[p] = Bz!Bytes(Bz!Files(found'[p]))
    BY <1>1, <1>3, <1>7, <2>2 DEF AtPoint
  <2>. QED
    BY <1>1, <1>4, <2>3 DEF AtPoint
<1>9. Accounted(p)'
  <2>1. \A t, u \in found'[p] : t.file = u.file => t = u
    BY <1>1, <1>7 DEF Accounted
  <2>2. \A t \in found'[p] : t.file \notin todo'[p]
    BY <1>1, <1>4, <1>7 DEF Accounted
  <2>3. listed'[p] \cap cache' \subseteq Bz!Files(found'[p]) \cup todo'[p]
    BY <1>1, <1>3, <1>4, <1>7 DEF Accounted
  <2>. QED
    BY <2>1, <2>2, <2>3 DEF Accounted
<1>10. ASSUME alone'[p] PROVE Knows(p)'
  <2>1. alone[p] /\ cache' \subseteq listed'[p]
    BY <1>1, <1>4, <1>10 DEF Knows
  <2>2. \A g \in cache' : StatNow(g)' = StatNow(g)
    BY <1>5 DEF StatNow
  <2>3. ASSUME NEW t \in found'[p]
        PROVE  /\ t.file \in cache' => t = StatNow(t.file)'
               /\ t.file \notin cache' => \A g \in cache' : Bz!Before(t, StatNow(g)')
    <3>1. t \in found[p] /\ t # r /\ t.file # r.file
      BY <1>1, <1>3, <1>7, <2>3 DEF Accounted
    <3>2. t.file \in cache' <=> t.file \in cache
      BY <1>4, <3>1
    <3>. QED
      BY <1>1, <1>5, <2>1, <2>2, <3>1, <3>2 DEF Knows
  <2>. QED
    BY <2>1, <2>3 DEF Knows
<1>11. ASSUME NEW q \in Proc \ {p} PROVE AtPoint(q)' /\ Accounted(q)' /\ Knows(q)'
  <2>1. Untouched(q)
    BY <1>1, <1>4 DEF TrimShape, Untouched
  <2>2. alone'[q] => alone[q] /\ (alone[p] \/ cache' = cache)
    BY <1>4
  <2>3. alone'[q] => \A f \in cache \ cache' : \A g \in cache' :
          Bz!Before(StatNow(f), StatNow(g))
    BY <1>3, <1>4, <2>2
  <2>. QED
    BY <1>5, <2>1, <2>2, <2>3, OthersStep
<1>12. Knows(p)'
  BY <1>10 DEF Knows
<1>. QED
  BY <1>6, <1>8, <1>9, <1>11, <1>12 DEF TrimIInv

\* A build puts a file in the cache, or links to one: nothing is known any more.
LEMMA BuildsStep ==
  ASSUME TrimIInv, NEW f \in Bz!File, Bz!Put(f) \/ Bz!Relink(f)
  PROVE  TrimIInv'
<1>1. TrimShape /\ \A p \in Proc : AtPoint(p) /\ Accounted(p)
  BY DEF TrimIInv
<1>2. /\ UNCHANGED <<opts, pc, todo, found, current, budget>>
      /\ alone' = [p \in Proc |-> FALSE]
  BY DEF Bz!Put, Bz!Relink, Bz!locals
<1>3. listed' \in [Proc -> SUBSET Bz!File]
  BY <1>1 DEF TrimShape, Bz!Put, Bz!Relink
<1>4. linked' \subseteq cache' /\ cache' \subseteq Bz!File
  BY <1>1 DEF TrimShape, Bz!Put, Bz!Relink
<1>5. TrimShape'
  BY <1>1, <1>2, <1>3, <1>4 DEF TrimShape
<1>6. ASSUME NEW p \in Proc PROVE AtPoint(p)' /\ Accounted(p)' /\ Knows(p)'
  <2>1. AtPoint(p)'
    BY <1>1, <1>2 DEF AtPoint
  <2>2. listed'[p] \cap cache' \subseteq listed[p] \cap cache
    BY <1>1 DEF TrimShape, Bz!Put, Bz!Relink
  <2>3. Accounted(p)'
    BY <1>1, <1>2, <2>2 DEF Accounted
  <2>4. Knows(p)'
    BY <1>2 DEF Knows
  <2>. QED
    BY <2>1, <2>3, <2>4
<1>. QED
  BY <1>5, <1>6 DEF TrimIInv

LEMMA InitTrimIInv == Bz!Init => TrimIInv
<1>. SUFFICES ASSUME Bz!Init PROVE TrimIInv
  OBVIOUS
<1>1. TrimShape
  BY DEF Bz!Init, TrimShape, Points
<1>2. ASSUME NEW p \in Proc PROVE AtPoint(p) /\ Accounted(p) /\ Knows(p)
  BY DEF Bz!Init, AtPoint, Accounted, Knows
<1>. QED
  BY <1>1, <1>2 DEF TrimIInv

LEMMA NextTrimIInv == TrimIInv /\ [Bz!Next]_bzsizeVars => TrimIInv'
<1>. SUFFICES ASSUME TrimIInv, [Bz!Next]_bzsizeVars PROVE TrimIInv'
  OBVIOUS
<1>1. ASSUME NEW p \in Proc, NEW o \in Options, Bz!Start(p, o) PROVE TrimIInv'
  <2>1. AtPoint(p) /\ pc[p] = "start"
    BY <1>1 DEF TrimIInv, Bz!Start
  <2>2. found[p] = {}
    BY <2>1 DEF AtPoint
  <2>. QED
    BY <1>1, <2>2, ListStep DEF Bz!Start
<1>2. ASSUME NEW p \in Proc, Bz!Unused(p) PROVE TrimIInv'
  BY <1>2, UnusedStep
<1>3. ASSUME NEW p \in Proc, Bz!UnlinkUnused(p) PROVE TrimIInv'
  BY <1>3, UnlinkUnusedStep
<1>4. ASSUME NEW p \in Proc, Bz!UnusedEnd(p) PROVE TrimIInv'
  BY <1>4, UnusedEndStep
<1>5. ASSUME NEW p \in Proc, Bz!Stat(p) PROVE TrimIInv'
  BY <1>5, StatStep
<1>6. ASSUME NEW p \in Proc, Bz!StatEnd(p) PROVE TrimIInv'
  BY <1>6, StatEndStep
<1>7. ASSUME NEW p \in Proc, Bz!Trim(p) PROVE TrimIInv'
  BY <1>7, TrimStep
<1>8. ASSUME NEW p \in Proc, Bz!TrimEnd(p) \/ Bz!Fail(p) PROVE TrimIInv'
  BY <1>8, ExitStep DEF Bz!TrimEnd, Bz!Fail
<1>9. ASSUME NEW f \in Bz!File, Bz!Put(f) \/ Bz!Relink(f) PROVE TrimIInv'
  BY <1>9, BuildsStep
<1>10. CASE UNCHANGED bzsizeVars
  BY <1>10 DEF bzsizeVars, TrimIInv, TrimShape, AtPoint, Accounted, Knows, StatNow
<1>. QED
  BY <1>1, <1>2, <1>3, <1>4, <1>5, <1>6, <1>7, <1>8, <1>9, <1>10 DEF Bz!Next

\* bzsize does nothing in the scene of a build.
LEMMA BzsizeSteps == [MCNext]_<<vars, scene, bzsizeVars>> => [Bz!Next]_bzsizeVars
BY DEF MCNext, BuildStep, BzsizeStep

\* Runs of bzsize keep their invariant, whatever builds and other runs do to
\* the cache directory in the meantime.
THEOREM TrimInvariant == MCSpec => []TrimIInv
<1>1. MCInit => TrimIInv
  BY InitTrimIInv DEF MCInit
<1>2. TrimIInv /\ [MCNext]_<<vars, scene, bzsizeVars>> => TrimIInv'
  BY BzsizeSteps, NextTrimIInv
<1>. QED
  BY <1>1, <1>2, PTL DEF MCSpec

\* A run that ends with success leaves of the files it listed what fits
\* (b0_cache.ml:256-272, b0.mli:2961-2963).
THEOREM TrimmedFits == MCSpec => TrimmedToBudget
<1>1. ASSUME TrimIInv, NEW p \in Proc, Bz!TrimEnd(p)
      PROVE  Bz!Bytes(listed[p] \cap cache) <= budget[p]
  <2>1. TrimShape /\ AtPoint(p) /\ Accounted(p) /\ pc[p] = "trim"
    BY <1>1 DEF TrimIInv, Bz!TrimEnd
  <2>2. listed[p] \cap cache \subseteq Bz!Files(found[p])
    BY <2>1 DEF Accounted, AtPoint
  <2>3. Bz!Files(found[p]) \in SUBSET Bz!File
    BY <2>1, FilesOfExaminations DEF TrimShape
  <2>4. /\ Bz!Bytes(listed[p] \cap cache) <= Bz!Bytes(Bz!Files(found[p]))
        /\ Bz!Bytes(listed[p] \cap cache) \in Nat /\ Bz!Bytes(Bz!Files(found[p])) \in Nat
    BY <2>2, <2>3, BytesOfMore, BytesAreFinite
  <2>5. budget[p] \in Nat /\ current[p] = Bz!Bytes(Bz!Files(found[p]))
    BY <2>1 DEF TrimShape, AtPoint
  <2>6. CASE current[p] <= budget[p]
    BY <2>4, <2>5, <2>6
  <2>7. CASE found[p] = {}
    <3>1. Bz!BytesOf(Bz!Files(found[p])) = {}
      BY <2>7 DEF Bz!BytesOf, Bz!Files
    <3>2. Bz!Bytes(Bz!Files(found[p])) = 0
      BY <3>1, FS_EmptySet, SameCardinality DEF Bz!Bytes
    <3>. QED
      BY <2>4, <2>5, <3>2
  <2>. QED
    BY <1>1, <2>6, <2>7 DEF Bz!TrimEnd
<1>2. TrimIInv => [\A p \in Proc : Bz!TrimEnd(p) =>
                     Bz!Bytes(listed[p] \cap cache) <= budget[p]]_bzsizeVars
  BY <1>1
<1>. QED
  BY <1>2, TrimInvariant, PTL DEF TrimmedToBudget, Bz!TrimmedToBudget, Bz!vars, bzsizeVars

\* A run that nothing misled deletes no file once the directory fits, and
\* deletes in the documented order (b0_cache.ml:236-254, b0.mli:2964-2967),
\* even if other runs delete the same files.
THEOREM TrimsByPolicy == MCSpec => DeletesByPolicy
<1>. DEFINE Policy(p, f) ==
       /\ Bz!Bytes(cache) > budget[p]
       /\ f \in linked => cache \subseteq linked /\ \A g \in cache : Atime[f] <= Atime[g]
       /\ f \notin linked => \A g \in cache \ linked : Size[f] >= Size[g]
<1>1. ASSUME TrimIInv, Bz!Next, NEW p \in Proc, NEW f \in Bz!File, Bz!Trimmed(p, f)
      PROVE  Policy(p, f)
  <2>1. /\ pc[p] = "trim" /\ alone[p] /\ found'[p] # found[p]
        /\ f \in cache /\ f \notin cache'
    BY <1>1 DEF Bz!Trimmed
  <2>2. TrimShape /\ AtPoint(p) /\ Accounted(p) /\ Knows(p)
    BY <1>1 DEF TrimIInv
  <2>3. Bz!Trim(p)
    <3>1. cache' # cache
      BY <2>1
    <3>2. \E q \in Proc : Bz!UnlinkUnused(q) \/ Bz!Trim(q)
      BY <1>1, <2>1 DEF Bz!Next, Bz!Start, Bz!Unused, Bz!UnusedEnd, Bz!Stat, Bz!StatEnd, Bz!TrimEnd,
                       Bz!Fail, Bz!Exit, Bz!Put, Bz!Relink
    <3>3. ASSUME NEW q \in Proc, Bz!UnlinkUnused(q) PROVE FALSE
      BY <2>1, <3>3 DEF Bz!UnlinkUnused
    <3>4. ASSUME NEW q \in Proc, q # p, Bz!Trim(q) PROVE FALSE
      BY <2>1, <2>2, <3>4 DEF Bz!Trim, TrimShape
    <3>. QED
      BY <3>2, <3>3, <3>4
  <2>4. PICK r : r = Bz!Coldest(p)
    OBVIOUS
  <2>5. found[p] # {} /\ current[p] > budget[p] /\ cache' = cache \ {r.file}
    BY <2>3, <2>4 DEF Bz!Trim, Bz!Without
  <2>6. r.file = f
    BY <2>1, <2>5
  <2>7. /\ r \in found[p] /\ r = StatNow(f)
        /\ \A g \in cache \ {f} : Bz!Before(StatNow(f), StatNow(g))
    BY <1>1, <2>1, <2>4, <2>5, <2>6, NextToGo
  <2>8. Bz!Bytes(cache) > budget[p]
    <3>1. ASSUME NEW t \in found[p], t.file \notin cache PROVE FALSE
      <4>1. Bz!Before(t, r)
        BY <2>1, <2>2, <2>7, <3>1 DEF Knows
      <4>2. Bz!Before(r, t)
        BY <2>1, <2>2, <2>4, <2>5, <2>6, <3>1, ColdestIsLeast DEF TrimShape, Accounted
      <4>3. t \in Examination /\ r \in Examination
        BY <2>2, <2>7, <3>1 DEF TrimShape
      <4>4. Bz!Age(r) \in Int /\ Bz!Age(t) \in Int /\ Size[r.file] \in Int /\ Size[t.file] \in Int
        BY <4>3, FilesAssumption DEF Examination, Bz!FilesOfCache, Bz!Age
      <4>5. Bz!Index[r.file] \in Int /\ Bz!Index[t.file] \in Int
        BY <4>3, IndexOfFile DEF Examination
      <4>. QED
        BY <4>1, <4>2, <4>4, <4>5 DEF Bz!Before
    <3>2. Bz!Files(found[p]) \in SUBSET cache /\ cache \in SUBSET Bz!File
      BY <2>2, <3>1 DEF Bz!Files, TrimShape
    <3>3. /\ Bz!Bytes(Bz!Files(found[p])) <= Bz!Bytes(cache)
          /\ Bz!Bytes(cache) \in Nat /\ Bz!Bytes(Bz!Files(found[p])) \in Nat
      BY <3>2, BytesOfMore, BytesAreFinite
    <3>. QED
      BY <2>1, <2>2, <2>5, <3>3 DEF AtPoint, TrimShape
  <2>9. ASSUME NEW g \in cache
        PROVE  /\ f \in linked => g \in linked /\ Atime[f] <= Atime[g]
               /\ f \notin linked /\ g \notin linked => Size[f] >= Size[g]
    <3>1. /\ Atime[f] \in Nat /\ Atime[g] \in Nat /\ Size[f] \in Nat /\ Size[g] \in Nat
      BY <2>1, <2>2, FilesAssumption DEF TrimShape, Bz!FilesOfCache
    <3>2. CASE f = g
      BY <3>1, <3>2
    <3>3. CASE f # g
      <4>1. Bz!Before(StatNow(f), StatNow(g))
        BY <2>7, <3>3
      <4>2. /\ StatNow(f).file = f /\ StatNow(g).file = g
            /\ StatNow(f).unused = (f \notin linked) /\ StatNow(g).unused = (g \notin linked)
        BY DEF StatNow
      <4>3. /\ Bz!Age(StatNow(f)) = IF f \in linked THEN Atime[f] ELSE -1
            /\ Bz!Age(StatNow(g)) = IF g \in linked THEN Atime[g] ELSE -1
        BY <4>2 DEF Bz!Age
      <4>4. \/ Bz!Age(StatNow(f)) < Bz!Age(StatNow(g))
            \/ Bz!Age(StatNow(f)) = Bz!Age(StatNow(g)) /\ Size[f] >= Size[g]
        BY <3>1, <4>1, <4>2 DEF Bz!Before
      <4>. QED
        BY <3>1, <4>3, <4>4
    <3>. QED
      BY <3>2, <3>3
  <2>. QED
    BY <2>8, <2>9
<1>2. TrimIInv /\ [Bz!Next]_bzsizeVars =>
        [\A p \in Proc : \A f \in Bz!File : Bz!Trimmed(p, f) => Policy(p, f)]_bzsizeVars
  BY <1>1
<1>3. TrimIInv /\ [MCNext]_<<vars, scene, bzsizeVars>> =>
        [\A p \in Proc : \A f \in Bz!File : Bz!Trimmed(p, f) => Policy(p, f)]_bzsizeVars
  BY <1>2, BzsizeSteps
<1>. QED
  BY <1>3, TrimInvariant, PTL DEF MCSpec, DeletesByPolicy, Bz!DeletesByPolicy, Bz!vars, bzsizeVars
=============================================================================
