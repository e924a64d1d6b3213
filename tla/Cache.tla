-------------------------------- MODULE Cache --------------------------------
(***************************************************************************)
(* src-lib/b0_cache.ml: the writes of spawn operations, hard linked to and *)
(* from a cache directory that outlives the builds.  A cache file is named *)
(* by the stamp of its operation (the command and what it reads) and by    *)
(* the path written.                                                       *)
(*                                                                         *)
(* The two loops over the writes of an operation are followed one file per *)
(* step: other programs act between two of them (bzsize deletes cache      *)
(* files, the user edits sources or interrupts the build).  A file of the  *)
(* build directory either is a hard link to a cache file or has data of    *)
(* its own.  Commands are deterministic and write what they declare; one   *)
(* that fails may leave its writes in any state.  Stamps do not collide.   *)
(* A build is interrupted with the command it runs, as from a terminal: no *)
(* command outlives the program that spawned it.                           *)
(***************************************************************************)
EXTENDS Sequences, Functions

CONSTANTS
  Op,       \* spawn operations
  Reads,    \* Op -> the files it reads
  Writes,   \* Op -> the files it writes, in path order
  Source,   \* the files no operation writes
  Content,  \* what a source file may contain
  Bad,      \* what a failed or interrupted writer leaves
  Setting,  \* where the cache is and what happens to it: [exdev, faults]
  None

Written(o) == Range(Writes[o])
File == Source \cup UNION {Written(o) : o \in Op}

ASSUME WritesOfOps ==
  \A o \in Op : /\ Writes[o] \in Seq(Written(o)) /\ IsInjective(Writes[o])
                /\ Written(o) \cap Source = {} /\ Reads[o] \subseteq File
                /\ \A p \in Op \ {o} : Written(o) \cap Written(p) = {}
ASSUME ConstantsOfCache ==
  /\ Bad \notin Content
  /\ Setting \subseteq
       [exdev : BOOLEAN, faults : SUBSET {"crash", "evict", "edit", "put", "torn"}]

VARIABLES
  setting,  \* the setting: whether link(2) gives EXDEV, and the faults met
  entry,    \* the cache directory: key -> content
  out,      \* File -> no file, a link to a cache file, or data of its own
  stamps,   \* file_stamps of the cache: the content that was hashed, by file
  stamp,    \* Op -> its stamp, once it was computed
  copying,  \* copying of the cache
  state,    \* Op -> "todo", "running", "exited", "failed", "Executed" or "Cached"
  loop,     \* the loop in progress, "get" or "put", or "idle"
  cur,      \* its operation
  left,     \* the writes it has still to visit
  undo      \* the undo list of put_writes_from_cache

vars == <<setting, entry, out, stamps, stamp, copying, state, loop, cur, left, undo>>
locals == <<loop, cur, left, undo>>

NoFile == [at |-> "none"]
Link(k) == [at |-> "cache", key |-> k]
Data(c) == [at |-> "disk", data |-> c]

Exists(f) == out[f] # NoFile
ContentOf(f) == IF out[f].at = "cache" THEN entry[out[f].key] ELSE out[f].data

\* What a successful run of o writes to f, given what it reads.
Output(f, reads) == [file |-> f, reads |-> reads]
ReadsNow(o) == [r \in Reads[o] |-> ContentOf(r)]

\* Mutant: what the operation reads is not in the key.
KeyNoReads(s, f) ==
  [stamp |-> [op |-> s.op, reads |-> [r \in Reads[s.op] |-> None]], file |-> f]

\* op_write_key
Key(s, f) == [stamp |-> s, file |-> f]
KeyOf(o, f) == Key(stamp[o], f)

FreshDir(src) == [f \in File |-> IF f \in Source THEN Data(src[f]) ELSE NoFile]

Init ==
  /\ setting \in Setting
  /\ entry = << >>
  /\ \E src \in [Source -> Content] : out = FreshDir(src)
  /\ stamps = << >>
  /\ stamp = [o \in Op |-> None]
  /\ copying = FALSE
  /\ state = [o \in Op |-> "todo"]
  /\ loop = "idle" /\ cur = None /\ left = <<>> /\ undo = {}

-----------------------------------------------------------------------------
(* Helpers *)

\* _file_stamp and file_stamp: a file is hashed once per build.
Memoise(fs) ==
  stamps' = [f \in DOMAIN stamps \cup fs |->
               IF f \in DOMAIN stamps THEN stamps[f] ELSE ContentOf(f)]

\* The cache directory once c is written to the file of k.
EntryWith(k, c) == [i \in DOMAIN entry \cup {k} |-> IF i = k THEN c ELSE entry[i]]

Idle == loop' = "idle" /\ cur' = None /\ left' = <<>> /\ undo' = {}
Set(o, s) == state' = [state EXCEPT ![o] = s]

\* All that o reads is ready (see Guard).
Ready(o) ==
  \A r \in Reads[o] \ Source :
    \E p \in Op : r \in Written(p) /\ state[p] \in {"Executed", "Cached"}

-----------------------------------------------------------------------------
(* put_writes_from_cache *)

\* exec_spawn: the stamp is set and the loop entered; without writes there is
\* nothing to revive.
Exec(o) ==
  /\ loop = "idle"
  /\ state[o] = "todo" /\ Ready(o)
  /\ Memoise(Reads[o])
  /\ stamp' = [stamp EXCEPT ![o] = [op |-> o, reads |-> [r \in Reads[o] |-> stamps'[r]]]]
  /\ \/ /\ Writes[o] = <<>>
        /\ Set(o, "running")
        /\ UNCHANGED locals
     \/ /\ Writes[o] # <<>>
        /\ loop' = "get" /\ cur' = o /\ left' = Writes[o] /\ undo' = {}
        /\ UNCHANGED state
  /\ UNCHANGED <<setting, entry, out, copying>>

Getting == loop = "get" /\ left # <<>>

\* put copies once link(2) gave EXDEV.
Copies == copying \/ setting.exdev

\* put fails, but for ENOENT and EXDEV: a link does if the destination exists.
PutFails(exists) == "put" \in setting.faults \/ (exists /\ ~ Copies)

\* put: the file is linked from the cache, or copied.
Get ==
  /\ Getting
  /\ LET f == Head(left) k == KeyOf(cur, f)
     IN /\ k \in DOMAIN entry
        /\ \/ /\ Copies
              /\ out' = [out EXCEPT ![f] = Data(entry[k])]
              /\ copying' = TRUE
           \/ /\ ~ Copies
              /\ ~ Exists(f)
              /\ out' = [out EXCEPT ![f] = Link(k)]
              /\ copying' = FALSE
        /\ undo' = undo \cup {f}
  /\ left' = Tail(left)
  /\ UNCHANGED <<setting, entry, stamps, stamp, state, loop, cur>>

\* Mutant: the links stay.
GetMissNoUndo ==
  /\ Getting
  /\ KeyOf(cur, Head(left)) \notin DOMAIN entry
  /\ Set(cur, "running")
  /\ Idle
  /\ UNCHANGED <<setting, entry, out, stamps, stamp, copying>>

\* ENOENT: the files that were linked are removed, the operation is executed.
GetMiss ==
  /\ Getting
  /\ KeyOf(cur, Head(left)) \notin DOMAIN entry
  /\ out' = [f \in File |-> IF f \in undo THEN NoFile ELSE out[f]]
  /\ Set(cur, "running")
  /\ Idle
  /\ UNCHANGED <<setting, entry, stamps, stamp, copying>>

\* Mutant: the error is taken for a revived operation.
GetFailureCached ==
  /\ Getting
  /\ PutFails(Exists(Head(left)))
  /\ Set(cur, "Cached")
  /\ Idle
  /\ UNCHANGED <<setting, entry, out, stamps, stamp, copying>>

\* Any other error escapes from the loop: exec logs it and answers false.
GetFailure ==
  /\ Getting
  /\ PutFails(Exists(Head(left)))
  /\ Set(cur, "running")
  /\ Idle
  /\ UNCHANGED <<setting, entry, out, stamps, stamp, copying>>

\* The operation is Cached; finish_cached_op registers its writes.
GetEnd ==
  /\ loop = "get" /\ left = <<>>
  /\ Set(cur, "Cached")
  /\ Memoise(Written(cur))
  /\ Idle
  /\ UNCHANGED <<setting, entry, out, stamp, copying>>

-----------------------------------------------------------------------------
(* The command *)

\* It opens the files it writes, and truncates those that are there: through
\* a link it writes to the cache file.
WriteFiles(cs) ==
  LET linked == {f \in DOMAIN cs : out[f].at = "cache"}
  IN /\ entry' = [k \in DOMAIN entry |->
                    IF \E f \in linked : out[f].key = k
                    THEN cs[CHOOSE f \in linked : out[f].key = k] ELSE entry[k]]
     /\ out' = [f \in File |-> IF f \in DOMAIN cs \ linked THEN Data(cs[f]) ELSE out[f]]

RunOk(o) ==
  /\ state[o] = "running"
  /\ WriteFiles([f \in Written(o) |-> Output(f, ReadsNow(o))])
  /\ Set(o, "exited")
  /\ UNCHANGED <<setting, stamps, stamp, copying, loop, cur, left, undo>>

RunFail(o) ==
  /\ state[o] = "running"
  /\ \E fs \in SUBSET Written(o) : WriteFiles([f \in fs |-> Bad])
  /\ Set(o, "failed")
  /\ UNCHANGED <<setting, stamps, stamp, copying, loop, cur, left, undo>>

-----------------------------------------------------------------------------
(* finish_spawn registers the writes, then add_op puts them in the cache *)

\* Mutant: failed operations are cached too.
AddFailedOp(o) ==
  /\ loop = "idle"
  /\ state[o] = "exited" \/ (state[o] = "failed" /\ \A f \in Written(o) : Exists(f))
  /\ Memoise(Written(o))
  /\ loop' = "put" /\ cur' = o /\ left' = Writes[o]
  /\ UNCHANGED <<setting, entry, out, stamp, copying, state, undo>>

AddOp(o) ==
  /\ loop = "idle"
  /\ state[o] = "exited"
  /\ Memoise(Written(o))
  /\ loop' = "put" /\ cur' = o /\ left' = Writes[o]
  /\ UNCHANGED <<setting, entry, out, stamp, copying, state, undo>>

Putting == loop = "put" /\ left # <<>>

\* put: the cache gets a link to the file, or a copy of it.
Put ==
  /\ Putting
  /\ LET f == Head(left) k == KeyOf(cur, f)
     IN /\ \/ Copies
           \/ k \notin DOMAIN entry
        /\ entry' = EntryWith(k, ContentOf(f))
        /\ out' = IF Copies THEN out ELSE [out EXCEPT ![f] = Link(k)]
  /\ copying' = Copies
  /\ left' = Tail(left)
  /\ UNCHANGED <<setting, stamps, stamp, state, loop, cur, undo>>

\* Any error (EEXIST if the key is there) ends the loop.
PutFailure ==
  /\ Putting
  /\ PutFails(KeyOf(cur, Head(left)) \in DOMAIN entry)
  /\ Set(cur, "Executed")
  /\ Idle
  /\ UNCHANGED <<setting, entry, out, stamps, stamp, copying>>

PutEnd ==
  /\ loop = "put" /\ left = <<>>
  /\ Set(cur, "Executed")
  /\ Idle
  /\ UNCHANGED <<setting, entry, out, stamps, stamp, copying>>

-----------------------------------------------------------------------------
(* The environment *)

\* Mutant: the memoised stamps outlive the build.
NewBuildOldStamps ==
  /\ loop = "idle" \/ "crash" \in setting.faults
  /\ \E src \in [Source -> Content] : out' = FreshDir(src)
  /\ stamp' = [o \in Op |-> None]
  /\ copying' = FALSE
  /\ state' = [o \in Op |-> "todo"]
  /\ Idle
  /\ UNCHANGED <<setting, entry, stamps>>

\* Another build with a new cache handle: the build directories of the units
\* are trashed when units start; the sources may have changed.  If the one before
\* was interrupted, its command was too.
NewBuild ==
  /\ loop = "idle" \/ "crash" \in setting.faults
  /\ \E src \in [Source -> Content] : out' = FreshDir(src)
  /\ stamps' = << >>
  /\ stamp' = [o \in Op |-> None]
  /\ copying' = FALSE
  /\ state' = [o \in Op |-> "todo"]
  /\ Idle
  /\ UNCHANGED <<setting, entry>>

\* The program dies in a copy to the cache: File.write has renamed its file
\* before what it wrote is flushed (b0_os.ml:272-303).
Torn ==
  /\ "torn" \in setting.faults
  /\ Putting /\ copying
  /\ \E src \in [Source -> Content] : out' = FreshDir(src)
  /\ entry' = EntryWith(KeyOf(cur, Head(left)), Bad)
  /\ stamps' = << >>
  /\ stamp' = [o \in Op |-> None]
  /\ copying' = FALSE
  /\ state' = [o \in Op |-> "todo"]
  /\ Idle
  /\ setting' = setting

\* delete_unused_files and delete_files unlink a cache file, any time.
Delete(k) ==
  /\ "evict" \in setting.faults
  /\ entry' = [i \in DOMAIN entry \ {k} |-> entry[i]]
  /\ out' = [f \in File |-> IF out[f] = Link(k) THEN Data(entry[k]) ELSE out[f]]
  /\ UNCHANGED <<setting, stamps, stamp, copying, state>>
  /\ UNCHANGED locals

\* The user saves a source file during the build.
Edit(f, c) ==
  /\ "edit" \in setting.faults
  /\ out' = [out EXCEPT ![f] = Data(c)]
  /\ UNCHANGED <<setting, entry, stamps, stamp, copying, state>>
  /\ UNCHANGED locals

-----------------------------------------------------------------------------
Next ==
  \/ \E o \in Op : Exec(o) \/ RunOk(o) \/ RunFail(o) \/ AddOp(o)
  \/ Get \/ GetMiss \/ GetFailure \/ GetEnd
  \/ Put \/ PutFailure \/ PutEnd
  \/ NewBuild \/ Torn
  \/ \E k \in DOMAIN entry : Delete(k)
  \/ \E f \in Source, c \in Content : Edit(f, c)

Spec == Init /\ [][Next]_vars

-----------------------------------------------------------------------------
(* Properties *)

Meets(fs) == setting.faults \cap fs # {}

TypeOK ==
  /\ setting \in Setting
  /\ \A k \in DOMAIN entry : k.stamp.op \in Op /\ k.file \in Written(k.stamp.op)
  /\ DOMAIN out = File
  /\ \A f \in File : out[f].at = "cache" => out[f].key \in DOMAIN entry /\ out[f].key.file = f
  /\ \A f \in Source : out[f].at = "disk" /\ out[f].data \in Content
  /\ DOMAIN stamps \subseteq File
  /\ copying \in BOOLEAN
  /\ state \in [Op -> {"todo", "running", "exited", "failed", "Executed", "Cached"}]
  /\ loop \in {"idle", "get", "put"}
  /\ loop # "idle" => cur \in Op /\ Range(left) \subseteq Written(cur)
  /\ undo \subseteq File

\* "[Cached] the operation is successful and has been executed from the cache"
\* (b0.mli:3372): its writes are what a run of it would write.
CachedIsSuccessful ==
  \A o \in Op : state[o] = "Cached" =>
    \A f \in Written(o) : Exists(f) /\ ContentOf(f) = Output(f, ReadsNow(o))

\* It is, whatever builds were interrupted and cache files deleted before, if
\* the sources do not change during a build and link(2) and write(2) work.
RevivedIsSuccessful == ~ Meets({"edit", "put", "torn"}) => CachedIsSuccessful

\* An operation is Cached only if each of its writes came from the cache, as
\* long as the cache has it: an error midway is never taken for a success.
CachedIsRevived ==
  \A o \in Op : state[o] = "Cached" =>
    \A f \in Written(o) :
      /\ Exists(f)
      /\ KeyOf(o, f) \in DOMAIN entry => ContentOf(f) = entry[KeyOf(o, f)]

\* Under the same conditions a cache file holds what a successful run with the
\* stamped reads writes: it never depends on how a build ended.
CacheSound ==
  ~ Meets({"edit", "put", "torn"}) =>
    \A k \in DOMAIN entry : entry[k] = Output(k.file, k.stamp.reads)

\* A command starts without files that are links to the cache, if link(2)
\* fails with ENOENT, EXDEV or EEXIST only.
MissLeavesNothing ==
  ~ Meets({"put"}) =>
    \A o \in Op : state[o] = "running" => \A f \in Written(o) : ~ Exists(f)

\* Nor is a cache file then written to through such a link.
EntriesImmutable ==
  [][~ Meets({"put"}) /\ ~ setting.exdev =>
       \A k \in DOMAIN entry \cap DOMAIN entry' : entry'[k] = entry[k]]_vars

\* "outputs from previous builds are kept in the cache" (b0.mli:4038): when an
\* operation was executed with success, its writes are in the cache.
RunIsCached ==
  \A o \in Op : state[o] = "Executed" => \A f \in Written(o) : KeyOf(o, f) \in DOMAIN entry
=============================================================================
