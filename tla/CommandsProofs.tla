--------------------------- MODULE CommandsProofs ---------------------------
(***************************************************************************)
(* Proofs about the commands that write files, for any processes, versions *)
(* and number of edits and creations: files are whole, the instance that   *)
(* is executed is current, and what a command on a variant reports is      *)
(* done.                                                                   *)
(***************************************************************************)
EXTENDS MCCommands, SequenceTheorems, TLAPS

-----------------------------------------------------------------------------
(* The invariant of the files *)

Paths == IF scene = "driver" THEN D!Paths ELSE V!Paths
Versions == [src : Version, libs : Version]
Content == {Absent, Torn} \cup {Whole(x) : x \in Versions \cup [src : Version] \cup Nat}

\* The places of the commands and of a write, and the files.
Names ==
  {"idle", "exit", "write", "none", "open", "rename", "close",
   "hash", "check", "compile", "run", "link", "stamp", "stamped", "exec", "src", "bin",
   "create", "mkdir", "conf", "created", "reset", "wasreset", "delete", "deleted",
   "scheme", "b", "index", "outcome"}

AWrite == [path : Names, val : Content, at : Names, ok : Names, err : Names]
AFile == [val : Content, by : Proc \cup {NoProc}]

FileTypes ==
  /\ pc \in [Proc -> Names]
  /\ io \in [Proc -> AWrite]
  /\ files \in [Paths -> AFile]
  /\ dir \in BOOLEAN /\ trouble \in BOOLEAN
  /\ tmps \in [Proc -> BOOLEAN]
  /\ calm \in [Proc -> BOOLEAN]

Writing(p, path) == pc[p] = "write" /\ io[p].path = path
Closing(p, path) == Writing(p, path) /\ io[p].at = "close"

\* What a write in progress is about.
Writes ==
  \A p \in Proc : pc[p] = "write" =>
    /\ io[p].path \in Paths /\ io[p].val \notin {Absent, Torn}
    /\ io[p].at \in {"open", "rename", "close"}
    /\ "write" \notin {io[p].ok, io[p].err}

\* A torn file has an owner that will close it: a write between the rename and
\* the close, or a compiler.
TornAreOpen ==
  ~ trouble => \A path \in Paths : files[path].val = Torn =>
    \E p \in Proc : /\ files[path].by = p
                    /\ Closing(p, path) \/ (pc[p] = "link" /\ path = "bin")

TmpsAreOpen == ~ trouble => \A p \in Proc : tmps[p] => At(p, "rename")

Busy(p) == pc[p] \notin {"idle", "exit"}

\* calm tells that a command is alone.
Alone == \A p \in Proc : calm[p] /\ Busy(p) => \A q \in Proc \ {p} : ~ Busy(q)

FilesInv == FileTypes /\ Writes /\ TornAreOpen /\ TmpsAreOpen /\ Alone

\* Nobody replaces the file that a command writes alone.
Owned(p) == \A path \in Paths : Closing(p, path) => files[path].by = p

-----------------------------------------------------------------------------
(* The setup of an instance *)

DriverTypes ==
  /\ now \in Versions
  /\ seen \in [Proc -> SUBSET Versions]
  /\ \A p \in Proc : \A v, w \in seen[p] : v = w
  /\ \A p \in Proc : pc[p] = "idle" => seen[p] = {}
  /\ hashed \in [Proc -> BOOLEAN] /\ stamped \in BOOLEAN
  /\ files["src"].val \in {Absent, Torn} \cup {Whole(x) : x \in [src : Version]}
  /\ \A p \in Proc : pc[p] = "write" =>
       /\ io[p].err = "exit"
       /\ \/ /\ io[p].path = "src" /\ io[p].ok = "run"
             /\ \E v \in seen[p] : io[p].val = Whole([src |-> v.src])
          \/ /\ io[p].path = "stamp" /\ io[p].ok = "stamped"
             /\ \E v \in seen[p] : io[p].val = Whole(v)

Compiling(p) == pc[p] \in {"link", "stamp", "stamped"} \/ Writing(p, "stamp")

\* What was compiled is not stamped before its setup ends.
NotStampedYet == \A p \in Proc : Compiling(p) => ~ stamped

\* A stamp tells what the instance is made of, if it is of the last compilation.
StampMatches ==
  stamped => \A x \in Versions : files["stamp"].val = Whole(x) => files["bin"].val = Whole(x)

Is(p, path) == \E v \in seen[p] : files[path].val = Whole(v)

\* What a setup that is alone has done already.
Setup(p) ==
  /\ pc[p] # "hash" => \A v \in seen[p] : v.libs = now.libs
  /\ pc[p] \in {"run", "link"} => \E v \in seen[p] : files["src"].val = Whole([src |-> v.src])
  /\ pc[p] \in {"stamp", "stamped"} \/ Writing(p, "stamp") => Is(p, "bin")
  /\ pc[p] = "stamped" => Is(p, "stamp")
  /\ pc[p] = "exec" /\ (stamped \/ ~ hashed[p]) => \A v \in seen[p] : files["bin"].val = Whole(v)
  /\ Owned(p)

DriverInv ==
  /\ DriverTypes /\ NotStampedYet /\ StampMatches
  /\ \A p \in Proc : calm[p] /\ Busy(p) => Setup(p)

-----------------------------------------------------------------------------
(* The commands on a variant *)

VariantTypes ==
  /\ creates \in Nat
  /\ which \in [Proc -> [n : Nat, preset : BOOLEAN]]
  /\ left \in [Proc -> Seq(Paths \ {"scheme"})]
  /\ clean \in BOOLEAN
  /\ \A p \in Proc : pc[p] = "write" =>
       /\ io[p].val = Whole(which[p].n) /\ io[p].err = "exit"
       /\ \/ io[p].path = "scheme" /\ io[p].ok = "conf"
          \/ io[p].path = "conf" /\ io[p].ok = "created"

OfBuilds == {"b", "index", "outcome"}

\* After a complete deletion there is nothing without a scheme.
Cleaned ==
  clean => /\ \A p \in Proc : pc[p] # "delete"
           /\ ~ Exists("scheme") => \A path \in OfBuilds : ~ Exists(path)

\* What a command that is alone has done already.
Command(p) ==
  /\ pc[p] \in {"mkdir", "write", "conf", "created"} /\ clean => \A path \in OfBuilds : ~ Exists(path)
  /\ pc[p] \in {"conf", "created"} \/ Writing(p, "conf") => files["scheme"].val = Whole(which[p].n)
  /\ pc[p] = "created" /\ which[p].preset => files["conf"].val = Whole(which[p].n)
  /\ pc[p] = "reset" =>
       /\ Exists("scheme")
       /\ \A path \in Paths \ {"scheme"} : Exists(path) => \E i \in DOMAIN left[p] : left[p][i] = path
  /\ pc[p] = "wasreset" => \A path \in Paths : Exists(path) <=> path = "scheme"
  /\ pc[p] = "deleted" => ~ dir /\ \A path \in Paths : ~ Exists(path)
  /\ Owned(p)

VariantInv ==
  /\ VariantTypes /\ Cleaned
  /\ \A p \in Proc : calm[p] /\ Busy(p) => Command(p)

IInv ==
  /\ FilesInv
  /\ scene = "driver" => DriverInv
  /\ scene = "variant" => VariantInv

-----------------------------------------------------------------------------
(* What the files hold *)

LEMMA Contents ==
  /\ Torn # Absent
  /\ \A x : Whole(x) # Torn /\ Whole(x) # Absent /\ Whole(x)[2] = x
  /\ \A x, y : Whole(x) = Whole(y) => x = y
<1>1. Torn # Absent
  BY DEF Torn, Absent
<1>2. \A x : Whole(x)[1] = "whole" /\ Whole(x)[2] = x /\ Len(Whole(x)) = 2
  BY DEF Whole
<1>3. Len(Torn) = 1 /\ Len(Absent) = 1
  BY DEF Torn, Absent
<1> QED BY <1>1, <1>2, <1>3

LEMMA ContentRange ==
  /\ Absent \in Content /\ Torn \in Content
  /\ \A x \in Versions \cup [src : Version] \cup Nat : Whole(x) \in Content
BY DEF Content

\* The instances of FileWrite in the commands have the same contents.
LEMMA SameContents ==
  /\ D!Absent = Absent /\ V!Absent = Absent /\ D!Torn = Torn /\ V!Torn = Torn
  /\ \A x : D!Whole(x) = Whole(x) /\ V!Whole(x) = Whole(x)
BY DEF D!Absent, V!Absent, Absent, D!Torn, V!Torn, Torn, D!Whole, V!Whole, Whole

LEMMA SameWrites == ASSUME NEW p
                    PROVE  /\ D!Write(p) <=> Write(p)
                           /\ V!Write(p) <=> Write(p)
                           /\ D!Kill(p) <=> Kill(p)
                           /\ V!Kill(p) <=> Kill(p)
<1>1. D!Write(p) <=> Write(p)
  BY DEF D!Write, D!Output, D!Rename, D!Close, D!At, D!Continue, D!Return, D!Goto, D!NoWrite,
         D!File, D!Torn, D!Absent, D!NoProc,
         Write, Output, Rename, Close, At, Continue, Return, Goto, NoWrite, File, Torn, Absent, NoProc
<1>2. V!Write(p) <=> Write(p)
  BY DEF V!Write, V!Output, V!Rename, V!Close, V!At, V!Continue, V!Return, V!Goto, V!NoWrite,
         V!File, V!Torn, V!Absent, V!NoProc,
         Write, Output, Rename, Close, At, Continue, Return, Goto, NoWrite, File, Torn, Absent, NoProc
<1>3. D!Kill(p) <=> Kill(p)
  BY DEF D!Kill, D!Return, D!Goto, D!NoWrite, D!Absent, D!NoProc,
         Kill, Return, Goto, NoWrite, Absent, NoProc
<1>4. V!Kill(p) <=> Kill(p)
  BY DEF V!Kill, V!Return, V!Goto, V!NoWrite, V!Absent, V!NoProc,
         Kill, Return, Goto, NoWrite, Absent, NoProc
<1> QED BY <1>1, <1>2, <1>3, <1>4

LEMMA RecordRange ==
  /\ NoWrite \in AWrite
  /\ \A w \in AWrite : \A l \in Names : [w EXCEPT !.at = l] \in AWrite
  /\ \A val \in Content : \A by \in Proc \cup {NoProc} : File(val, by) \in AFile
  /\ \A f \in AFile : [f EXCEPT !.by = NoProc] \in AFile /\ [f EXCEPT !.by = NoProc].val = f.val
  /\ \A w \in AWrite : w.val \in Content /\ {w.path, w.at, w.ok, w.err} \subseteq Names
<1>1. NoWrite \in AWrite
  <2>1. Absent \in Content
    BY ContentRange
  <2>2. "none" \in Names /\ "exit" \in Names
    BY DEF Names
  <2> QED BY <2>1, <2>2 DEF NoWrite, AWrite
<1>2. \A w \in AWrite : \A l \in Names : [w EXCEPT !.at = l] \in AWrite
  BY DEF AWrite
<1>3. \A val \in Content : \A by \in Proc \cup {NoProc} : File(val, by) \in AFile
  BY DEF AFile, File
<1>4. \A f \in AFile : [f EXCEPT !.by = NoProc] \in AFile /\ [f EXCEPT !.by = NoProc].val = f.val
  BY DEF AFile
<1>5. \A w \in AWrite : w.val \in Content /\ {w.path, w.at, w.ok, w.err} \subseteq Names
  BY DEF AWrite
<1> QED BY <1>1, <1>2, <1>3, <1>4, <1>5

\* What the steps of FileWrite do to where the processes are.
LEMMA GotoStep == ASSUME pc \in [Proc -> Names], NEW p \in Proc, NEW l \in Names, Goto(p, l)
                  PROVE  /\ pc' \in [Proc -> Names] /\ pc'[p] = l
                         /\ \A q \in Proc \ {p} : pc'[q] = pc[q]
BY DEF Goto

LEMMA ContinueStep == ASSUME io \in [Proc -> AWrite], NEW p \in Proc, NEW l \in Names, Continue(p, l)
                      PROVE  /\ io' \in [Proc -> AWrite] /\ pc' = pc
                             /\ io'[p].at = l /\ io'[p].path = io[p].path /\ io'[p].val = io[p].val
                             /\ io'[p].ok = io[p].ok /\ io'[p].err = io[p].err
                             /\ \A q \in Proc \ {p} : io'[q] = io[q]
<1>1. io[p] \in AWrite
  OBVIOUS
<1>2. PICK w \in AWrite : w = [io[p] EXCEPT !.at = l]
  BY <1>1, RecordRange
<1>3. io' = [io EXCEPT ![p] = w] /\ pc' = pc
  BY <1>2 DEF Continue
<1>4. /\ w.at = l /\ w.path = io[p].path /\ w.val = io[p].val
      /\ w.ok = io[p].ok /\ w.err = io[p].err
  BY <1>1, <1>2 DEF AWrite
<1> QED BY <1>3, <1>4

LEMMA ReturnStep == ASSUME pc \in [Proc -> Names], io \in [Proc -> AWrite],
                           NEW p \in Proc, NEW l \in Names, Return(p, l)
                    PROVE  /\ pc' \in [Proc -> Names] /\ pc'[p] = l
                           /\ \A q \in Proc \ {p} : pc'[q] = pc[q] /\ io'[q] = io[q]
                           /\ io' \in [Proc -> AWrite]
BY GotoStep, RecordRange DEF Return

LEMMA BeginStep == ASSUME pc \in [Proc -> Names], io \in [Proc -> AWrite],
                          NEW p \in Proc, NEW path \in Names, NEW val \in Content,
                          NEW ok \in Names, NEW err \in Names, BeginWrite(p, path, val, ok, err)
                   PROVE  /\ pc' \in [Proc -> Names] /\ io' \in [Proc -> AWrite] /\ pc'[p] = "write"
                          /\ \A q \in Proc \ {p} : pc'[q] = pc[q] /\ io'[q] = io[q]
                          /\ io'[p].path = path /\ io'[p].val = val /\ io'[p].at = "open"
                          /\ io'[p].ok = ok /\ io'[p].err = err
<1>0. "open" \in Names /\ "write" \in Names
  BY DEF Names
<1>1. PICK w \in AWrite : w = [path |-> path, val |-> val, at |-> "open", ok |-> ok, err |-> err]
  BY <1>0 DEF AWrite
<1>2. Goto(p, "write") /\ io' = [io EXCEPT ![p] = w]
  BY <1>1 DEF BeginWrite
<1>3. w.path = path /\ w.val = val /\ w.at = "open" /\ w.ok = ok /\ w.err = err
  BY <1>1
<1>4. /\ pc' \in [Proc -> Names] /\ pc'[p] = "write"
      /\ \A q \in Proc \ {p} : pc'[q] = pc[q]
  BY <1>0, <1>2, GotoStep
<1>5. io' \in [Proc -> AWrite] /\ io'[p] = w /\ \A q \in Proc \ {p} : io'[q] = io[q]
  BY <1>1, <1>2
<1> QED BY <1>3, <1>4, <1>5

LEMMA SamePaths == ASSUME UNCHANGED scene PROVE Paths' = Paths
BY DEF Paths, D!Paths, V!Paths

-----------------------------------------------------------------------------
(* The steps of a write keep the invariant of the files *)

\* Nobody becomes busy: who was alone still is.
LEMMA AloneKept == ASSUME Alone, UNCHANGED calm, \A q \in Proc : Busy(q)' => Busy(q)
                   PROVE  Alone'
BY DEF Alone

\* What a process does with its own write: the other processes see the file only.
Moves(p) ==
  /\ pc' \in [Proc -> Names] /\ io' \in [Proc -> AWrite]
  /\ \A q \in Proc \ {p} : pc'[q] = pc[q] /\ io'[q] = io[q]

Continues(p, l) ==
  /\ pc'[p] = pc[p] /\ io'[p].at = l
  /\ io'[p].path = io[p].path /\ io'[p].val = io[p].val
  /\ io'[p].ok = io[p].ok /\ io'[p].err = io[p].err

Puts(path, f) ==
  f \in AFile /\ files' \in [Paths -> AFile]
  /\ files'[path] = f /\ \A x \in Paths \ {path} : files'[x] = files[x]

LEMMA OutputStep == ASSUME FilesInv, NEW p \in Proc, Output(p)
                    PROVE  /\ At(p, "open") /\ Moves(p)
                           /\ UNCHANGED <<files, dir, trouble>> /\ tmps' \in [Proc -> BOOLEAN]
                           /\ \A q \in Proc \ {p} : tmps'[q] = tmps[q]
                           /\ \/ Continues(p, "rename")
                              \/ pc'[p] = io[p].err /\ tmps' = tmps
<1>0. pc \in [Proc -> Names] /\ io \in [Proc -> AWrite] /\ io[p].err \in Names
  BY RecordRange DEF FilesInv, FileTypes
<1>1. CASE dir /\ Continue(p, "rename") /\ tmps' = [tmps EXCEPT ![p] = TRUE]
  <2>0. "rename" \in Names /\ Continue(p, "rename")
    BY <1>1 DEF Names
  <2>1. Moves(p) /\ Continues(p, "rename")
    BY <1>0, <2>0, ContinueStep DEF Moves, Continues
  <2> QED BY <1>1, <2>1 DEF Output, FilesInv, FileTypes
<1>2. CASE Return(p, io[p].err) /\ UNCHANGED tmps
  <2>1. Moves(p) /\ pc'[p] = io[p].err
    BY <1>0, <1>2, ReturnStep DEF Moves
  <2> QED BY <1>2, <2>1 DEF Output, FilesInv, FileTypes
<1> QED BY <1>1, <1>2 DEF Output

LEMMA RenameStep == ASSUME FilesInv, NEW p \in Proc, Rename(p)
                    PROVE  /\ At(p, "rename") /\ Moves(p)
                           /\ UNCHANGED <<dir, trouble>> /\ tmps' \in [Proc -> BOOLEAN]
                           /\ ~ tmps'[p] /\ \A q \in Proc \ {p} : tmps'[q] = tmps[q]
                           /\ \/ Continues(p, "close") /\ Puts(io[p].path, File(Torn, p))
                              \/ pc'[p] = io[p].err /\ files' = files
<1>0. pc \in [Proc -> Names] /\ io \in [Proc -> AWrite] /\ io[p].err \in Names
  BY RecordRange DEF FilesInv, FileTypes
<1>1. /\ At(p, "rename") /\ UNCHANGED <<dir, trouble>> /\ tmps' = [tmps EXCEPT ![p] = FALSE]
      /\ tmps \in [Proc -> BOOLEAN]
  BY DEF Rename, FilesInv, FileTypes
<1>2. CASE Continue(p, "close") /\ files' = [files EXCEPT ![io[p].path] = File(Torn, p)]
  <2>0. "close" \in Names /\ Continue(p, "close")
    BY <1>2 DEF Names
  <2>1. Moves(p) /\ Continues(p, "close")
    BY <1>0, <2>0, ContinueStep DEF Moves, Continues
  <2>2. /\ io[p].path \in Paths /\ files \in [Paths -> AFile]
        /\ File(Torn, p) \in AFile
    BY <1>1, RecordRange, ContentRange DEF At, FilesInv, Writes, FileTypes
  <2>3. Puts(io[p].path, File(Torn, p))
    BY <1>2, <2>2 DEF Puts
  <2> QED BY <1>1, <2>1, <2>3
<1>3. CASE Return(p, io[p].err) /\ UNCHANGED files
  <2>1. Moves(p) /\ pc'[p] = io[p].err
    BY <1>0, <1>3, ReturnStep DEF Moves
  <2> QED BY <1>1, <1>3, <2>1
<1> QED BY <1>1, <1>2, <1>3 DEF Rename

LEMMA CloseStep == ASSUME FilesInv, NEW p \in Proc, Close(p)
                   PROVE  /\ At(p, "close") /\ Moves(p) /\ UNCHANGED <<dir, tmps>>
                          /\ \/ /\ pc'[p] = io[p].ok /\ trouble' = trouble
                                /\ IF files[io[p].path].by = p
                                   THEN Puts(io[p].path, File(io[p].val, NoProc)) ELSE files' = files
                             \/ /\ pc'[p] = io[p].err /\ trouble' = TRUE
                                /\ \E f \in AFile : f.val = files[io[p].path].val /\ Puts(io[p].path, f)
<1>0. pc \in [Proc -> Names] /\ io \in [Proc -> AWrite] /\ io[p].err \in Names /\ io[p].ok \in Names
  BY RecordRange DEF FilesInv, FileTypes
<1>1. At(p, "close") /\ UNCHANGED <<dir, tmps>>
  BY DEF Close
<1>2. io[p].path \in Paths /\ files \in [Paths -> AFile] /\ io[p].val \in Content
  BY <1>0, <1>1, RecordRange DEF At, FilesInv, Writes, FileTypes
<1>3. /\ File(io[p].val, NoProc) \in AFile /\ files[io[p].path] \in AFile
      /\ [files[io[p].path] EXCEPT !.by = NoProc] \in AFile
      /\ [files[io[p].path] EXCEPT !.by = NoProc].val = files[io[p].path].val
  BY <1>2, RecordRange
<1>4. CASE /\ files' = IF files[io[p].path].by = p
                       THEN [files EXCEPT ![io[p].path] = File(io[p].val, NoProc)] ELSE files
           /\ Return(p, io[p].ok) /\ UNCHANGED trouble
  <2>1. Moves(p) /\ pc'[p] = io[p].ok
    BY <1>0, <1>4, ReturnStep DEF Moves
  <2>2. IF files[io[p].path].by = p THEN Puts(io[p].path, File(io[p].val, NoProc)) ELSE files' = files
    BY <1>2, <1>3, <1>4 DEF Puts
  <2> QED BY <1>1, <1>4, <2>1, <2>2
<1>5. CASE /\ files' = IF files[io[p].path].by = p
                       THEN [files EXCEPT ![io[p].path].by = NoProc] ELSE files
           /\ Return(p, io[p].err) /\ trouble' = TRUE
  <2>1. Moves(p) /\ pc'[p] = io[p].err
    BY <1>0, <1>5, ReturnStep DEF Moves
  <2>2. PICK f \in AFile : /\ f.val = files[io[p].path].val
                           /\ files' = [files EXCEPT ![io[p].path] = f]
    <3>1. CASE files[io[p].path].by = p
      BY <3>1, <1>3, <1>5
    <3>2. CASE files[io[p].path].by # p
      <4>1. files' = [files EXCEPT ![io[p].path] = files[io[p].path]]
        BY <3>2, <1>2, <1>5
      <4> QED BY <4>1, <1>3
    <3> QED BY <3>1, <3>2
  <2>3. Puts(io[p].path, f)
    BY <1>2, <2>2 DEF Puts
  <2> QED BY <1>1, <1>5, <2>1, <2>2, <2>3
<1> QED BY <1>1, <1>4, <1>5 DEF Close

LEMMA KillStep == ASSUME FilesInv, NEW p \in Proc, Kill(p)
                  PROVE  /\ Busy(p) /\ Moves(p) /\ pc'[p] = "exit" /\ trouble' = TRUE
                         /\ UNCHANGED <<dir, tmps>> /\ files' \in [Paths -> AFile]
                         /\ \A path \in Paths : files'[path].val = files[path].val
<1>0. pc \in [Proc -> Names] /\ io \in [Proc -> AWrite]
  BY DEF FilesInv, FileTypes
<1>1. Moves(p) /\ pc'[p] = "exit"
  <2>1. "exit" \in Names /\ Return(p, "exit")
    BY DEF Kill, Names
  <2> QED BY <1>0, <2>1, ReturnStep DEF Moves
<1>2. files \in [Paths -> AFile]
  BY DEF FilesInv, FileTypes
<1>3. /\ files' = [path \in Paths |->
             IF files[path].by = p THEN [files[path] EXCEPT !.by = NoProc] ELSE files[path]]
      /\ trouble' = TRUE /\ UNCHANGED <<dir, tmps>> /\ Busy(p)
  BY <1>2 DEF Kill, Busy
<1>4. \A path \in Paths : files'[path] \in AFile /\ files'[path].val = files[path].val
  BY <1>2, <1>3, RecordRange
<1> QED BY <1>1, <1>3, <1>4

LEMMA OutputFiles == ASSUME FilesInv, UNCHANGED <<scene, calm>>, NEW p \in Proc, Output(p)
                     PROVE  FilesInv'
<1>0. Paths' = Paths
  BY SamePaths
<1>1. /\ At(p, "open") /\ Moves(p)
      /\ UNCHANGED <<files, dir, trouble>> /\ tmps' \in [Proc -> BOOLEAN]
      /\ \A q \in Proc \ {p} : tmps'[q] = tmps[q]
      /\ \/ Continues(p, "rename")
         \/ pc'[p] = io[p].err /\ tmps' = tmps
  BY OutputStep
<1>2. FileTypes'
  BY <1>0, <1>1 DEF FilesInv, FileTypes, Moves
<1>3. Writes'
  BY <1>0, <1>1 DEF FilesInv, Writes, At, Moves, Continues
<1>4. TornAreOpen'
  BY <1>0, <1>1 DEF FilesInv, TornAreOpen, Closing, Writing, At, Moves
<1>5. TmpsAreOpen'
  BY <1>1 DEF FilesInv, TmpsAreOpen, At, Moves, Continues
<1>6. Alone'
  BY <1>1, AloneKept DEF FilesInv, Busy, At, Moves
<1> QED BY <1>2, <1>3, <1>4, <1>5, <1>6 DEF FilesInv

LEMMA RenameFiles == ASSUME FilesInv, UNCHANGED <<scene, calm>>, NEW p \in Proc, Rename(p)
                     PROVE  FilesInv'
<1>0. Paths' = Paths
  BY SamePaths
<1>1. /\ At(p, "rename") /\ Moves(p)
      /\ UNCHANGED <<dir, trouble>> /\ tmps' \in [Proc -> BOOLEAN]
      /\ ~ tmps'[p] /\ \A q \in Proc \ {p} : tmps'[q] = tmps[q]
      /\ \/ Continues(p, "close") /\ Puts(io[p].path, File(Torn, p))
         \/ pc'[p] = io[p].err /\ files' = files
  BY RenameStep
<1>2. FileTypes'
  BY <1>0, <1>1 DEF FilesInv, FileTypes, Moves, Puts
<1>3. Writes'
  BY <1>0, <1>1 DEF FilesInv, Writes, At, Moves, Continues
<1>4. TornAreOpen'
  <2>1. CASE Continues(p, "close") /\ Puts(io[p].path, File(Torn, p))
    <3>1. /\ files'[io[p].path].by = p /\ pc'[p] = "write"
          /\ io'[p].path = io[p].path /\ io'[p].at = "close"
      BY <1>1, <2>1 DEF Puts, File, Continues, At
    <3>2. SUFFICES ASSUME ~ trouble', NEW path \in Paths, files'[path].val = Torn
                   PROVE  \E q \in Proc : /\ files'[path].by = q
                                          /\ Closing(q, path)' \/ (pc'[q] = "link" /\ path = "bin")
      BY <1>0 DEF TornAreOpen
    <3>3. CASE path = io[p].path
      BY <3>1, <3>3, <1>0 DEF Closing, Writing, Continues
    <3>4. CASE path # io[p].path
      <4>1. files'[path] = files[path]
        BY <2>1, <3>2, <3>4 DEF Puts
      <4>2. PICK q \in Proc : /\ files[path].by = q
                              /\ Closing(q, path) \/ (pc[q] = "link" /\ path = "bin")
        BY <1>1, <3>2, <4>1 DEF FilesInv, TornAreOpen
      <4>3. q # p
        BY <1>1, <3>4, <4>2 DEF Closing, Writing, At
      <4> QED BY <1>1, <4>1, <4>2, <4>3 DEF Moves, Closing, Writing
    <3> QED BY <3>3, <3>4
  <2>2. CASE pc'[p] = io[p].err /\ files' = files
    BY <1>0, <1>1, <2>2 DEF FilesInv, TornAreOpen, Closing, Writing, At, Moves
  <2> QED BY <1>1, <2>1, <2>2
<1>5. TmpsAreOpen'
  BY <1>1 DEF FilesInv, TmpsAreOpen, At, Moves
<1>6. Alone'
  BY <1>1, AloneKept DEF FilesInv, Busy, At, Moves
<1> QED BY <1>2, <1>3, <1>4, <1>5, <1>6 DEF FilesInv

LEMMA CloseFiles == ASSUME FilesInv, UNCHANGED <<scene, calm>>, NEW p \in Proc, Close(p)
                    PROVE  FilesInv'
<1>0. Paths' = Paths
  BY SamePaths
<1>1. /\ At(p, "close") /\ Moves(p) /\ UNCHANGED <<dir, tmps>>
      /\ \/ /\ pc'[p] = io[p].ok /\ trouble' = trouble
            /\ IF files[io[p].path].by = p
               THEN Puts(io[p].path, File(io[p].val, NoProc)) ELSE files' = files
         \/ /\ pc'[p] = io[p].err /\ trouble' = TRUE
            /\ \E f \in AFile : f.val = files[io[p].path].val /\ Puts(io[p].path, f)
  BY CloseStep
<1>2. FileTypes'
  BY <1>0, <1>1 DEF FilesInv, FileTypes, Moves, Puts
<1>3. Writes'
  BY <1>0, <1>1 DEF FilesInv, Writes, At, Moves
<1>4. TornAreOpen'
  <2>1. SUFFICES ASSUME ~ trouble', NEW path \in Paths, files'[path].val = Torn
                 PROVE  \E q \in Proc : /\ files'[path].by = q
                                        /\ Closing(q, path)' \/ (pc'[q] = "link" /\ path = "bin")
    BY <1>0 DEF TornAreOpen
  <2>2. /\ ~ trouble
        /\ IF files[io[p].path].by = p
           THEN Puts(io[p].path, File(io[p].val, NoProc)) ELSE files' = files
    BY <1>1, <2>1
  <2>3. io[p].val # Torn /\ io[p].path \in Paths
    BY <1>1 DEF FilesInv, Writes, At
  <2>4. files'[path] = files[path]
    BY <2>1, <2>2, <2>3 DEF Puts, File
  <2>5. PICK q \in Proc : /\ files[path].by = q
                          /\ Closing(q, path) \/ (pc[q] = "link" /\ path = "bin")
    BY <2>1, <2>2, <2>4 DEF FilesInv, TornAreOpen
  <2>6. q # p
    <3>1. SUFFICES ASSUME q = p PROVE FALSE
      OBVIOUS
    <3>2. io[p].path = path
      BY <1>1, <2>5, <3>1 DEF Closing, Writing, At
    <3> QED BY <2>1, <2>2, <2>3, <2>5, <3>1, <3>2 DEF Puts, File
  <2> QED BY <1>1, <2>4, <2>5, <2>6 DEF Moves, Closing, Writing
<1>5. TmpsAreOpen'
  BY <1>1 DEF FilesInv, TmpsAreOpen, At, Moves
<1>6. Alone'
  BY <1>1, AloneKept DEF FilesInv, Busy, At, Moves
<1> QED BY <1>2, <1>3, <1>4, <1>5, <1>6 DEF FilesInv

LEMMA KillFiles == ASSUME FilesInv, UNCHANGED <<scene, calm>>, NEW p \in Proc, Kill(p)
                   PROVE  FilesInv'
<1>0. Paths' = Paths
  BY SamePaths
<1>1. /\ Busy(p) /\ Moves(p) /\ pc'[p] = "exit" /\ trouble' = TRUE
      /\ UNCHANGED <<dir, tmps>> /\ files' \in [Paths -> AFile]
  BY KillStep
<1>2. FileTypes'
  BY <1>0, <1>1 DEF FilesInv, FileTypes, Moves
<1>3. Writes'
  BY <1>0, <1>1 DEF FilesInv, Writes, Moves
<1>4. TornAreOpen' /\ TmpsAreOpen'
  BY <1>1 DEF TornAreOpen, TmpsAreOpen
<1>5. Alone'
  BY <1>1, AloneKept DEF FilesInv, Busy, Moves
<1> QED BY <1>2, <1>3, <1>4, <1>5 DEF FilesInv

-----------------------------------------------------------------------------
(* The steps of the commands keep the invariant of the files *)

\* No file is torn by the step, and the one of a compiler that ends is not torn.
NothingTorn(p) ==
  \A path \in Paths : \/ files'[path] = files[path] /\ ~ (pc[p] = "link" /\ path = "bin")
                      \/ files'[path].val # Torn

LEMMA GoFiles == ASSUME FilesInv, UNCHANGED <<scene, io, trouble>>,
                        NEW p \in Proc, NEW l \in Names \ {"write"}, Goto(p, l), pc[p] # "write",
                        files' \in [Paths -> AFile], dir' \in BOOLEAN, NothingTorn(p),
                        tmps' \in [Proc -> BOOLEAN], \A q \in Proc : tmps'[q] => tmps[q],
                        calm' \in [Proc -> BOOLEAN], Alone'
                 PROVE  FilesInv'
<1>0. Paths' = Paths
  BY SamePaths
<1>1. /\ pc' \in [Proc -> Names] /\ pc'[p] = l
      /\ \A q \in Proc \ {p} : pc'[q] = pc[q]
  BY GotoStep DEF FilesInv, FileTypes
<1>2. FileTypes'
  BY <1>0, <1>1 DEF FilesInv, FileTypes
<1>3. Writes'
  BY <1>0, <1>1 DEF FilesInv, Writes
<1>4. TornAreOpen'
  <2>1. SUFFICES ASSUME ~ trouble', NEW path \in Paths, files'[path].val = Torn
                 PROVE  \E q \in Proc : /\ files'[path].by = q
                                        /\ Closing(q, path)' \/ (pc'[q] = "link" /\ path = "bin")
    BY <1>0 DEF TornAreOpen
  <2>2. files'[path] = files[path] /\ ~ (pc[p] = "link" /\ path = "bin")
    BY <2>1 DEF NothingTorn
  <2>3. PICK q \in Proc : /\ files[path].by = q
                          /\ Closing(q, path) \/ (pc[q] = "link" /\ path = "bin")
    BY <2>1, <2>2 DEF FilesInv, TornAreOpen
  <2>4. q # p
    BY <2>2, <2>3 DEF Closing, Writing
  <2> QED BY <1>1, <2>2, <2>3, <2>4 DEF Closing, Writing
<1>5. TmpsAreOpen'
  BY <1>1 DEF FilesInv, TmpsAreOpen, At
<1> QED BY <1>2, <1>3, <1>4, <1>5 DEF FilesInv

LEMMA BeginFiles == ASSUME FilesInv, UNCHANGED <<scene, files, tmps, trouble, calm>>, dir' \in BOOLEAN,
                           NEW p \in Proc, Busy(p), pc[p] \notin {"write", "link"},
                           NEW path \in Paths \cap Names, NEW val \in Content \ {Absent, Torn},
                           NEW ok \in Names \ {"write"}, NEW err \in Names \ {"write"},
                           BeginWrite(p, path, val, ok, err)
                    PROVE  FilesInv'
<1>0. Paths' = Paths
  BY SamePaths
<1>1. /\ pc' \in [Proc -> Names] /\ io' \in [Proc -> AWrite] /\ pc'[p] = "write"
      /\ \A q \in Proc \ {p} : pc'[q] = pc[q] /\ io'[q] = io[q]
      /\ io'[p].path = path /\ io'[p].val = val /\ io'[p].at = "open"
      /\ io'[p].ok = ok /\ io'[p].err = err
  BY BeginStep DEF FilesInv, FileTypes
<1>2. FileTypes'
  BY <1>0, <1>1 DEF FilesInv, FileTypes
<1>3. Writes'
  BY <1>0, <1>1 DEF FilesInv, Writes
<1>4. TornAreOpen'
  BY <1>0, <1>1 DEF FilesInv, TornAreOpen, Closing, Writing
<1>5. TmpsAreOpen'
  BY <1>1 DEF FilesInv, TmpsAreOpen, At
<1>6. Alone'
  BY <1>1, AloneKept DEF FilesInv, Busy
<1> QED BY <1>2, <1>3, <1>4, <1>5, <1>6 DEF FilesInv

\* A command that begins: it is calm if it is alone, the others no longer are.
LEMMA AloneAtStart == ASSUME FileTypes, NEW p \in Proc, pc[p] = "idle", NEW l \in Names, Goto(p, l),
                             calm' = [q \in Proc |-> IF q = p THEN \A r \in Proc \ {p} : ~ Busy(r)
                                                              ELSE calm[q] /\ ~ Busy(q)]
                      PROVE  /\ Alone' /\ calm' \in [Proc -> BOOLEAN]
                             /\ \A q \in Proc \ {p} : ~ (calm'[q] /\ Busy(q)')
<1>1. /\ pc' \in [Proc -> Names] /\ pc'[p] = l
      /\ \A q \in Proc \ {p} : pc'[q] = pc[q]
  BY GotoStep DEF FileTypes
<1>2. /\ calm'[p] => \A r \in Proc \ {p} : ~ Busy(r)
      /\ \A q \in Proc \ {p} : calm'[q] => ~ Busy(q)
  OBVIOUS
<1>3. calm' \in [Proc -> BOOLEAN]
  <2>1. \A q \in Proc : calm[q] \in BOOLEAN
    BY DEF FileTypes
  <2> QED BY <2>1
<1>4. \A q \in Proc \ {p} : ~ (calm'[q] /\ Busy(q)')
  BY <1>1, <1>2 DEF Busy
<1> QED BY <1>1, <1>2, <1>3, <1>4 DEF Alone, Busy

-----------------------------------------------------------------------------
(* The steps of a setup *)

InDriver == FilesInv /\ DriverInv /\ scene = "driver"

LEMMA DriverPaths == ASSUME scene = "driver" PROVE Paths = {"src", "bin", "stamp"}
BY DEF Paths, D!Paths

\* The setup of the process that moves is the only one that is alone.
LEMMA TheActor == ASSUME Alone, UNCHANGED calm, NEW p \in Proc, Busy(p),
                         \A q \in Proc \ {p} : pc'[q] = pc[q],
                         calm[p] /\ Busy(p)' => Setup(p)'
                  PROVE  \A q \in Proc : (calm[q] /\ Busy(q) => Setup(q))'
BY DEF Alone, Busy

\* A setup that goes on, without a change of files, or ends.
LEMMA GoDriver == ASSUME InDriver, UNCHANGED <<scene, io, files, now, seen, hashed, stamped>>,
                         NEW p \in Proc, Busy(p), pc[p] # "write",
                         NEW l \in {"check", "compile", "exec", "exit"}, Goto(p, l)
                  PROVE  DriverTypes' /\ NotStampedYet' /\ StampMatches'
<1>1. /\ pc' \in [Proc -> Names] /\ pc'[p] = l
      /\ \A q \in Proc \ {p} : pc'[q] = pc[q]
  BY GotoStep DEF InDriver, FilesInv, FileTypes, Names
<1>2. DriverTypes'
  BY <1>1 DEF InDriver, DriverInv, DriverTypes, Versions
<1>3. NotStampedYet'
  BY <1>1 DEF InDriver, DriverInv, NotStampedYet, Compiling, Writing
<1>4. StampMatches'
  BY DEF InDriver, DriverInv, StampMatches, Versions
<1> QED BY <1>2, <1>3, <1>4

LEMMA StartDriver == ASSUME InDriver, UNCHANGED scene, NEW p \in Proc, D!Start(p)
                     PROVE  FilesInv' /\ DriverInv'
<1>1. /\ pc[p] = "idle" /\ UNCHANGED <<io, files, dir, tmps, trouble, now, edits, hashed, stamped>>
      /\ calm' = [q \in Proc |-> IF q = p THEN \A r \in Proc \ {p} : ~ Busy(r)
                                          ELSE calm[q] /\ ~ Busy(q)]
  BY DEF D!Start, D!InSetup, Busy
<1>2. PICK l \in {"hash", "exec"} :
        /\ Goto(p, l)
        /\ IF l = "hash" THEN seen' = [seen EXCEPT ![p] = {now}] ELSE seen' = seen
  BY DEF D!Start, D!Goto, Goto
<1>3. /\ pc' \in [Proc -> Names] /\ pc'[p] = l
      /\ \A q \in Proc \ {p} : pc'[q] = pc[q]
  BY <1>2, GotoStep DEF InDriver, FilesInv, FileTypes, Names
<1>4. /\ Alone' /\ calm' \in [Proc -> BOOLEAN]
      /\ \A q \in Proc \ {p} : ~ (calm'[q] /\ Busy(q)')
  <2>1. l \in Names
    BY <1>3
  <2> QED BY <1>1, <1>2, <2>1, AloneAtStart DEF InDriver, FilesInv
<1>5. FilesInv'
  <2>1. NothingTorn(p) /\ l \in Names \ {"write"}
    BY <1>1, <1>3 DEF NothingTorn, Names
  <2> QED BY <1>1, <1>2, <1>4, <2>1, GoFiles DEF InDriver, FilesInv, FileTypes
<1>6. DriverTypes'
  <2>1. seen' \in [Proc -> SUBSET Versions] /\ seen[p] = {}
    BY <1>1, <1>2 DEF InDriver, DriverInv, DriverTypes
  <2>2. \A q \in Proc : \A v, w \in seen'[q] : v = w
    BY <1>2 DEF InDriver, DriverInv, DriverTypes
  <2>3. \A q \in Proc : pc'[q] = "idle" => seen'[q] = {}
    BY <1>2, <1>3 DEF InDriver, DriverInv, DriverTypes
  <2>4. \A q \in Proc : pc'[q] = "write" => pc[q] = "write" /\ seen'[q] = seen[q]
    BY <1>2, <1>3 DEF InDriver, DriverInv, DriverTypes
  <2> QED BY <1>1, <2>1, <2>2, <2>3, <2>4 DEF InDriver, DriverInv, DriverTypes, Versions
<1>7. NotStampedYet' /\ StampMatches'
  BY <1>1, <1>3 DEF InDriver, DriverInv, NotStampedYet, Compiling, Writing, StampMatches, Versions
<1>8. Setup(p)'
  <2>1. l = "exec" => seen'[p] = {}
    BY <1>1, <1>2 DEF InDriver, DriverInv, DriverTypes
  <2> QED BY <1>2, <1>3, <2>1 DEF Setup, Owned, Closing, Writing
<1> QED BY <1>4, <1>5, <1>6, <1>7, <1>8 DEF DriverInv

LEMMA ActionStampDriver == ASSUME InDriver, UNCHANGED scene, NEW p \in Proc, D!ActionStamp(p)
                           PROVE  FilesInv' /\ DriverInv'
<1>1. /\ pc[p] = "hash" /\ Goto(p, "check")
      /\ seen' = [seen EXCEPT ![p] = {[v EXCEPT !.libs = now.libs] : v \in seen[p]}]
      /\ UNCHANGED <<io, files, dir, tmps, trouble, now, edits, calm, stamped>>
  BY DEF D!ActionStamp, D!Goto, Goto
<1>2. PICK h \in BOOLEAN : hashed' = [hashed EXCEPT ![p] = h]
  BY DEF D!ActionStamp
<1>3. /\ pc' \in [Proc -> Names] /\ pc'[p] = "check"
      /\ \A q \in Proc \ {p} : pc'[q] = pc[q]
  BY <1>1, GotoStep DEF InDriver, FilesInv, FileTypes, Names
<1>4. FilesInv'
  <2>1. NothingTorn(p) /\ "check" \in Names \ {"write"}
    BY <1>1 DEF NothingTorn, Names
  <2>2. Alone'
    BY <1>1, <1>3, AloneKept DEF InDriver, FilesInv, Busy
  <2> QED BY <1>1, <2>1, <2>2, GoFiles DEF InDriver, FilesInv, FileTypes
<1>5. \A v \in seen'[p] : v \in Versions /\ v.libs = now.libs
  BY <1>1 DEF InDriver, DriverInv, DriverTypes, Versions
<1>6. \A q \in Proc \ {p} : seen'[q] = seen[q]
  BY <1>1 DEF InDriver, DriverInv, DriverTypes
<1>7. DriverTypes'
  <2>1. seen' \in [Proc -> SUBSET Versions]
    BY <1>1, <1>5 DEF InDriver, DriverInv, DriverTypes
  <2>2. \A q \in Proc : \A v, w \in seen'[q] : v = w
    BY <1>1 DEF InDriver, DriverInv, DriverTypes
  <2>3. \A q \in Proc : pc'[q] \in {"idle", "write"} => q # p /\ pc'[q] = pc[q]
    BY <1>3
  <2>4. hashed' \in [Proc -> BOOLEAN]
    BY <1>2 DEF InDriver, DriverInv, DriverTypes
  <2> QED BY <1>1, <1>6, <2>1, <2>2, <2>3, <2>4 DEF InDriver, DriverInv, DriverTypes, Versions
<1>8. NotStampedYet' /\ StampMatches'
  BY <1>1, <1>3 DEF InDriver, DriverInv, NotStampedYet, Compiling, Writing, StampMatches, Versions
<1>9. \A q \in Proc : (calm[q] /\ Busy(q) => Setup(q))'
  <2>1. Setup(p)'
    BY <1>1, <1>3, <1>5 DEF Setup, Owned, Closing, Writing
  <2> QED BY <1>1, <1>3, <2>1, TheActor DEF InDriver, FilesInv, Busy
<1> QED BY <1>4, <1>7, <1>8, <1>9 DEF DriverInv

LEMMA CheckDriver == ASSUME InDriver, UNCHANGED scene, NEW p \in Proc, D!Check(p)
                     PROVE  FilesInv' /\ DriverInv'
<1>1. /\ pc[p] = "check"
      /\ UNCHANGED <<io, files, dir, tmps, trouble, now, edits, seen, hashed, calm, stamped>>
  BY DEF D!Check, D!driverVars
<1>2. PICK l \in {"exec", "compile"} :
        /\ Goto(p, l)
        /\ l = "exec" => hashed[p] /\ \E v \in seen[p] : files["stamp"].val = Whole(v)
  BY SameContents DEF D!Check, D!Goto, Goto
<1>3. /\ pc' \in [Proc -> Names] /\ pc'[p] = l
      /\ \A q \in Proc \ {p} : pc'[q] = pc[q]
  BY <1>2, GotoStep DEF InDriver, FilesInv, FileTypes, Names
<1>4. FilesInv'
  <2>1. NothingTorn(p) /\ l \in Names \ {"write"}
    BY <1>1 DEF NothingTorn, Names
  <2>2. Alone'
    BY <1>1, <1>3, AloneKept DEF InDriver, FilesInv, Busy
  <2> QED BY <1>1, <1>2, <2>1, <2>2, GoFiles DEF InDriver, FilesInv, FileTypes
<1>5. DriverTypes' /\ NotStampedYet' /\ StampMatches'
  BY <1>1, <1>2, GoDriver DEF Busy
<1>6. ASSUME calm[p] PROVE Setup(p)'
  <2>1. \A v \in seen[p] : v.libs = now.libs
    BY <1>1, <1>6 DEF InDriver, DriverInv, Busy, Setup
  <2>2. l = "exec" /\ (stamped \/ ~ hashed[p]) => \A v \in seen[p] : files["bin"].val = Whole(v)
    BY <1>2 DEF InDriver, DriverInv, DriverTypes, StampMatches
  <2> QED BY <1>1, <1>2, <1>3, <2>1, <2>2 DEF Setup, Owned, Closing, Writing
<1>7. \A q \in Proc : (calm[q] /\ Busy(q) => Setup(q))'
  BY <1>1, <1>3, <1>6, TheActor DEF InDriver, FilesInv, Busy
<1> QED BY <1>4, <1>5, <1>7 DEF DriverInv

\* A setup that ends with an error or a signal has nothing to be right about.
LEMMA EndsSetup == ASSUME NEW p \in Proc, pc'[p] = "exit" PROVE ~ Busy(p)'
BY DEF Busy

LEMMA CompileDriver == ASSUME InDriver, UNCHANGED scene, NEW p \in Proc, D!Compile(p)
                       PROVE  FilesInv' /\ DriverInv'
<1>1. /\ pc[p] = "compile" /\ Busy(p)
      /\ UNCHANGED <<files, tmps, trouble, now, edits, seen, hashed, calm, stamped>>
  BY DEF D!Compile, D!driverVars, Busy
<1>2. CASE dir' = TRUE /\ \E v \in seen[p] : D!BeginWrite(p, "src", D!Whole([src |-> v.src]), "run", "exit")
  <2>1. PICK v \in seen[p] : BeginWrite(p, "src", Whole([src |-> v.src]), "run", "exit")
    BY <1>2, SameContents DEF D!BeginWrite, BeginWrite, D!Goto, Goto
  <2>2. /\ "src" \in Paths \cap Names /\ "run" \in Names \ {"write"} /\ "exit" \in Names \ {"write"}
    BY DriverPaths DEF InDriver, Names
  <2>3. /\ v \in Versions /\ [src |-> v.src] \in [src : Version]
        /\ Whole([src |-> v.src]) \in Content \ {Absent, Torn}
    <3>1. v \in Versions /\ [src |-> v.src] \in [src : Version]
      BY DEF InDriver, DriverInv, DriverTypes, Versions
    <3> QED BY <3>1, Contents, ContentRange
  <2>4. FilesInv'
    BY <1>1, <1>2, <2>1, <2>2, <2>3, BeginFiles DEF InDriver
  <2>5. /\ pc' \in [Proc -> Names] /\ io' \in [Proc -> AWrite] /\ pc'[p] = "write"
        /\ \A q \in Proc \ {p} : pc'[q] = pc[q] /\ io'[q] = io[q]
        /\ io'[p].path = "src" /\ io'[p].val = Whole([src |-> v.src]) /\ io'[p].at = "open"
        /\ io'[p].ok = "run" /\ io'[p].err = "exit"
    BY <2>1, <2>2, <2>3, BeginStep DEF InDriver, FilesInv, FileTypes
  <2>6. DriverTypes'
    BY <1>1, <2>5 DEF InDriver, DriverInv, DriverTypes, Versions
  <2>7. NotStampedYet' /\ StampMatches'
    BY <1>1, <2>5 DEF InDriver, DriverInv, NotStampedYet, Compiling, Writing, StampMatches, Versions
  <2>8. ASSUME calm[p] PROVE Setup(p)'
    BY <1>1, <2>5, <2>8 DEF InDriver, DriverInv, Setup, Owned, Closing, Writing
  <2>9. \A q \in Proc : (calm[q] /\ Busy(q) => Setup(q))'
    BY <1>1, <2>5, <2>8, TheActor DEF InDriver, FilesInv
  <2> QED BY <2>4, <2>6, <2>7, <2>9 DEF DriverInv
<1>3. CASE Goto(p, "exit") /\ UNCHANGED <<io, dir>>
  <2>1. /\ pc' \in [Proc -> Names] /\ pc'[p] = "exit"
        /\ \A q \in Proc \ {p} : pc'[q] = pc[q]
    BY <1>3, GotoStep DEF InDriver, FilesInv, FileTypes, Names
  <2>2. FilesInv'
    <3>1. NothingTorn(p) /\ "exit" \in Names \ {"write"}
      BY <1>1 DEF NothingTorn, Names
    <3>2. Alone'
      BY <1>1, <2>1, AloneKept DEF InDriver, FilesInv, Busy
    <3> QED BY <1>1, <1>3, <3>1, <3>2, GoFiles DEF InDriver, FilesInv, FileTypes
  <2>3. DriverTypes' /\ NotStampedYet' /\ StampMatches'
    BY <1>1, <1>3, GoDriver
  <2>4. \A q \in Proc : (calm[q] /\ Busy(q) => Setup(q))'
    BY <1>1, <2>1, EndsSetup, TheActor DEF InDriver, FilesInv
  <2> QED BY <2>2, <2>3, <2>4 DEF DriverInv
<1> QED BY <1>2, <1>3 DEF D!Compile, D!Goto, Goto

LEMMA RunCompilerDriver == ASSUME InDriver, UNCHANGED scene, NEW p \in Proc, D!RunCompiler(p)
                           PROVE  FilesInv' /\ DriverInv'
<1>0. Paths = {"src", "bin", "stamp"} /\ Paths' = Paths
  BY DriverPaths, SamePaths DEF InDriver
<1>1. /\ pc[p] = "run" /\ Busy(p)
      /\ UNCHANGED <<io, dir, tmps, trouble, now, edits, seen, hashed, calm>>
  BY DEF D!RunCompiler, Busy
<1>2. PICK l \in {"exit", "link"} :
        /\ Goto(p, l)
        /\ \/ l = "exit" /\ UNCHANGED <<files, stamped>>
           \/ l = "exit" /\ files' = [files EXCEPT !["bin"] = NoFile] /\ stamped' = FALSE
           \/ l = "link" /\ files' = [files EXCEPT !["bin"] = File(Torn, p)] /\ stamped' = FALSE
  BY DEF D!RunCompiler, D!Goto, Goto, D!NoFile, NoFile, D!File, File, D!Absent, Absent, D!Torn, Torn,
         D!NoProc, NoProc
<1>3. /\ pc' \in [Proc -> Names] /\ pc'[p] = l
      /\ \A q \in Proc \ {p} : pc'[q] = pc[q]
  BY <1>2, GotoStep DEF InDriver, FilesInv, FileTypes, Names
<1>4. Alone'
  BY <1>1, <1>3, AloneKept DEF InDriver, FilesInv, Busy
<1>5. NoFile \in AFile /\ File(Torn, p) \in AFile /\ NoFile.val # Torn
  BY RecordRange, ContentRange, Contents DEF NoFile, File, NoProc
<1>6. /\ files \in [Paths -> AFile] /\ files' \in [Paths -> AFile]
      /\ \A path \in Paths \ {"bin"} : files'[path] = files[path]
  BY <1>0, <1>2, <1>5 DEF InDriver, FilesInv, FileTypes
<1>7. FilesInv'
  <2>1. CASE l = "exit"
    <3>1. NothingTorn(p) /\ l \in Names \ {"write"}
      BY <1>1, <1>2, <1>5, <1>6, <2>1 DEF NothingTorn, Names
    <3> QED BY <1>1, <1>2, <1>4, <1>6, <3>1, GoFiles DEF InDriver, FilesInv, FileTypes
  <2>2. CASE l = "link"
    <3>1. files'["bin"] = File(Torn, p) /\ files'["bin"].by = p
      BY <1>0, <1>2, <1>6, <2>2 DEF File
    <3>2. FileTypes'
      BY <1>0, <1>1, <1>3, <1>6 DEF InDriver, FilesInv, FileTypes
    <3>3. Writes'
      BY <1>0, <1>1, <1>3, <2>2 DEF InDriver, FilesInv, Writes
    <3>4. TornAreOpen'
      BY <1>0, <1>1, <1>3, <1>6, <2>2, <3>1 DEF InDriver, FilesInv, TornAreOpen, Closing, Writing
    <3>5. TmpsAreOpen'
      BY <1>1, <1>3 DEF InDriver, FilesInv, TmpsAreOpen, At
    <3> QED BY <1>4, <3>2, <3>3, <3>4, <3>5 DEF FilesInv
  <2> QED BY <2>1, <2>2
<1>8. DriverTypes'
  <2>1. stamped' \in BOOLEAN
    BY <1>2 DEF InDriver, DriverInv, DriverTypes
  <2>2. files'["src"] = files["src"]
    BY <1>0, <1>6
  <2>3. \A q \in Proc : pc'[q] \in {"idle", "write"} => pc'[q] = pc[q]
    BY <1>2, <1>3
  <2> QED BY <1>1, <2>1, <2>2, <2>3 DEF InDriver, DriverInv, DriverTypes, Versions
<1>9. NotStampedYet'
  BY <1>1, <1>2, <1>3 DEF InDriver, DriverInv, NotStampedYet, Compiling, Writing
<1>10. StampMatches'
  BY <1>2 DEF InDriver, DriverInv, StampMatches, Versions
<1>11. \A q \in Proc : (calm[q] /\ Busy(q) => Setup(q))'
  <2>1. ASSUME calm[p], l = "link" PROVE Setup(p)'
    BY <1>0, <1>1, <1>3, <1>6, <2>1 DEF InDriver, DriverInv, Setup, Owned, Closing, Writing
  <2> QED BY <1>1, <1>2, <1>3, <2>1, EndsSetup, TheActor DEF InDriver, FilesInv
<1> QED BY <1>7, <1>8, <1>9, <1>10, <1>11 DEF DriverInv

LEMMA LinkDriver == ASSUME InDriver, UNCHANGED scene, NEW p \in Proc, D!Link(p)
                    PROVE  FilesInv' /\ DriverInv'
<1>0. Paths = {"src", "bin", "stamp"} /\ Paths' = Paths
  BY DriverPaths, SamePaths DEF InDriver
<1>1. /\ pc[p] = "link" /\ Busy(p)
      /\ UNCHANGED <<io, dir, tmps, trouble, now, edits, seen, hashed, calm, stamped>>
  BY DEF D!Link, D!driverVars, Busy
<1>2. PICK f \in AFile : /\ files' = [files EXCEPT !["bin"] = f] /\ f.val # Torn
                         /\ \/ Goto(p, "exit")
                            \/ /\ Goto(p, "stamp")
                               /\ files["src"].val \notin {Absent, Torn}
                               /\ f.val = Whole([src |-> files["src"].val[2].src, libs |-> now.libs])
  <2>1. CASE files["src"].val \in {Absent, Torn}
    <3>1. files' = [files EXCEPT !["bin"] = NoFile] /\ Goto(p, "exit")
      BY <2>1 DEF D!Link, D!Goto, Goto, D!NoFile, NoFile, D!File, File, D!Absent, Absent, D!Torn, Torn,
                  D!NoProc, NoProc
    <3>2. NoFile \in AFile /\ NoFile.val # Torn
      BY RecordRange, ContentRange, Contents DEF NoFile, File, NoProc
    <3> QED BY <3>1, <3>2
  <2>2. CASE files["src"].val \notin {Absent, Torn}
    <3>1. PICK x \in Versions : x = [src |-> files["src"].val[2].src, libs |-> now.libs]
      <4>1. PICK y \in [src : Version] : files["src"].val = Whole(y)
        BY <2>2 DEF InDriver, DriverInv, DriverTypes
      <4>2. files["src"].val[2] = y
        BY <4>1, Contents
      <4> QED BY <4>2 DEF InDriver, DriverInv, DriverTypes, Versions
    <3>2. files' = [files EXCEPT !["bin"] = File(Whole(x), NoProc)] /\ Goto(p, "stamp")
      BY <2>2, <3>1 DEF D!Link, D!Goto, Goto, D!File, File, D!Absent, Absent, D!Torn, Torn,
                        D!NoProc, NoProc, D!Whole, Whole
    <3>3. Whole(x) \in Content /\ Whole(x) # Torn
      BY Contents, ContentRange
    <3>4. File(Whole(x), NoProc) \in AFile /\ File(Whole(x), NoProc).val = Whole(x)
      BY <3>3, RecordRange DEF File
    <3> QED BY <2>2, <3>1, <3>2, <3>3, <3>4
  <2> QED BY <2>1, <2>2
<1>3. /\ files \in [Paths -> AFile] /\ files' \in [Paths -> AFile]
      /\ files'["bin"] = f
      /\ \A path \in Paths \ {"bin"} : files'[path] = files[path]
  BY <1>0, <1>2 DEF InDriver, FilesInv, FileTypes
<1>4. PICK l \in {"exit", "stamp"} :
        /\ Goto(p, l)
        /\ l = "stamp" => /\ files["src"].val \notin {Absent, Torn}
                          /\ f.val = Whole([src |-> files["src"].val[2].src, libs |-> now.libs])
  BY <1>2
<1>5. /\ pc' \in [Proc -> Names] /\ pc'[p] = l
      /\ \A q \in Proc \ {p} : pc'[q] = pc[q]
  BY <1>4, GotoStep DEF InDriver, FilesInv, FileTypes, Names
<1>6. FilesInv'
  <2>1. Alone'
    BY <1>1, <1>5, AloneKept DEF InDriver, FilesInv, Busy
  <2>2. NothingTorn(p) /\ l \in Names \ {"write"}
    BY <1>2, <1>3 DEF NothingTorn, Names
  <2> QED BY <1>1, <1>3, <1>4, <2>1, <2>2, GoFiles DEF InDriver, FilesInv, FileTypes
<1>7. DriverTypes'
  BY <1>0, <1>1, <1>3, <1>5 DEF InDriver, DriverInv, DriverTypes, Versions
<1>8. ~ stamped
  BY <1>1 DEF InDriver, DriverInv, NotStampedYet, Compiling
<1>9. NotStampedYet' /\ StampMatches'
  BY <1>1, <1>8 DEF NotStampedYet, StampMatches
<1>10. \A q \in Proc : (calm[q] /\ Busy(q) => Setup(q))'
  <2>1. ASSUME calm[p], l = "stamp" PROVE Setup(p)'
    <3>1. Setup(p)
      BY <1>1, <2>1 DEF InDriver, DriverInv
    <3>2. PICK v \in seen[p] : files["src"].val = Whole([src |-> v.src])
      BY <1>1, <3>1 DEF Setup
    <3>3. v \in Versions /\ v.libs = now.libs
      BY <1>1, <3>1 DEF Setup, InDriver, DriverInv, DriverTypes
    <3>4. files["src"].val[2] = [src |-> v.src]
      BY <3>2, Contents
    <3>5. v = [src |-> files["src"].val[2].src, libs |-> now.libs]
      BY <3>3, <3>4 DEF Versions
    <3>6. files'["bin"].val = Whole(v)
      BY <1>3, <1>4, <2>1, <3>5
    <3> QED BY <1>1, <1>5, <2>1, <3>1, <3>6 DEF Setup, Is, Owned, Closing, Writing
  <2> QED BY <1>1, <1>5, <2>1, EndsSetup, TheActor DEF InDriver, FilesInv
<1> QED BY <1>6, <1>7, <1>9, <1>10 DEF DriverInv

LEMMA WriteStampDriver == ASSUME InDriver, UNCHANGED scene, NEW p \in Proc, D!WriteStamp(p)
                          PROVE  FilesInv' /\ DriverInv'
<1>1. /\ pc[p] = "stamp" /\ Busy(p)
      /\ UNCHANGED <<files, dir, tmps, trouble, now, edits, seen, hashed, calm, stamped>>
  BY DEF D!WriteStamp, D!driverVars, Busy
<1>2. CASE hashed[p] /\ \E v \in seen[p] : D!BeginWrite(p, "stamp", D!Whole(v), "stamped", "exit")
  <2>1. PICK v \in seen[p] : BeginWrite(p, "stamp", Whole(v), "stamped", "exit")
    BY <1>2, SameContents DEF D!BeginWrite, BeginWrite, D!Goto, Goto
  <2>2. /\ "stamp" \in Paths \cap Names /\ "stamped" \in Names \ {"write"}
        /\ "exit" \in Names \ {"write"}
    BY DriverPaths DEF InDriver, Names
  <2>3. v \in Versions /\ Whole(v) \in Content \ {Absent, Torn}
    BY Contents, ContentRange DEF InDriver, DriverInv, DriverTypes
  <2>4. FilesInv'
    <3>1. dir' \in BOOLEAN
      BY <1>1 DEF InDriver, FilesInv, FileTypes
    <3> QED BY <1>1, <2>1, <2>2, <2>3, <3>1, BeginFiles DEF InDriver
  <2>5. /\ pc' \in [Proc -> Names] /\ io' \in [Proc -> AWrite] /\ pc'[p] = "write"
        /\ \A q \in Proc \ {p} : pc'[q] = pc[q] /\ io'[q] = io[q]
        /\ io'[p].path = "stamp" /\ io'[p].val = Whole(v) /\ io'[p].at = "open"
        /\ io'[p].ok = "stamped" /\ io'[p].err = "exit"
    BY <2>1, <2>2, <2>3, BeginStep DEF InDriver, FilesInv, FileTypes
  <2>6. DriverTypes'
    BY <1>1, <2>5 DEF InDriver, DriverInv, DriverTypes, Versions
  <2>7. NotStampedYet' /\ StampMatches'
    BY <1>1, <2>5 DEF InDriver, DriverInv, NotStampedYet, Compiling, Writing, StampMatches, Versions
  <2>8. ASSUME calm[p] PROVE Setup(p)'
    BY <1>1, <2>5, <2>8 DEF InDriver, DriverInv, Setup, Is, Owned, Closing, Writing
  <2>9. \A q \in Proc : (calm[q] /\ Busy(q) => Setup(q))'
    BY <1>1, <2>5, <2>8, TheActor DEF InDriver, FilesInv
  <2> QED BY <2>4, <2>6, <2>7, <2>9 DEF DriverInv
<1>3. CASE ~ hashed[p] /\ Goto(p, "exec") /\ UNCHANGED io
  <2>1. /\ pc' \in [Proc -> Names] /\ pc'[p] = "exec"
        /\ \A q \in Proc \ {p} : pc'[q] = pc[q]
    BY <1>3, GotoStep DEF InDriver, FilesInv, FileTypes, Names
  <2>2. FilesInv'
    <3>1. NothingTorn(p) /\ "exec" \in Names \ {"write"}
      BY <1>1 DEF NothingTorn, Names
    <3>2. Alone'
      BY <1>1, <2>1, AloneKept DEF InDriver, FilesInv, Busy
    <3> QED BY <1>1, <1>3, <3>1, <3>2, GoFiles DEF InDriver, FilesInv, FileTypes
  <2>3. DriverTypes' /\ NotStampedYet' /\ StampMatches'
    BY <1>1, <1>3, GoDriver
  <2>4. ASSUME calm[p] PROVE Setup(p)'
    <3>1. Setup(p)
      BY <1>1, <2>4 DEF InDriver, DriverInv
    <3>2. \A v \in seen[p] : files["bin"].val = Whole(v)
      BY <1>1, <3>1 DEF Setup, Is, InDriver, DriverInv, DriverTypes
    <3> QED BY <1>1, <2>1, <3>1, <3>2 DEF Setup, Owned, Closing, Writing
  <2>5. \A q \in Proc : (calm[q] /\ Busy(q) => Setup(q))'
    BY <1>1, <2>1, <2>4, TheActor DEF InDriver, FilesInv
  <2> QED BY <2>2, <2>3, <2>5 DEF DriverInv
<1> QED BY <1>2, <1>3 DEF D!WriteStamp, D!Goto, Goto

LEMMA StampedDriver == ASSUME InDriver, UNCHANGED scene, NEW p \in Proc, D!Stamped(p)
                       PROVE  FilesInv' /\ DriverInv'
<1>1. /\ pc[p] = "stamped" /\ Busy(p) /\ Goto(p, "exec") /\ stamped' = (stamped \/ calm[p])
      /\ UNCHANGED <<io, files, dir, tmps, trouble, now, edits, seen, hashed, calm>>
  BY DEF D!Stamped, D!Goto, Goto, Busy
<1>2. /\ pc' \in [Proc -> Names] /\ pc'[p] = "exec"
      /\ \A q \in Proc \ {p} : pc'[q] = pc[q]
  BY <1>1, GotoStep DEF InDriver, FilesInv, FileTypes, Names
<1>3. FilesInv'
  <2>1. NothingTorn(p) /\ "exec" \in Names \ {"write"}
    BY <1>1 DEF NothingTorn, Names
  <2>2. Alone'
    BY <1>1, <1>2, AloneKept DEF InDriver, FilesInv, Busy
  <2> QED BY <1>1, <2>1, <2>2, GoFiles DEF InDriver, FilesInv, FileTypes
<1>4. DriverTypes'
  <2>1. stamped' \in BOOLEAN
    BY <1>1 DEF InDriver, DriverInv, DriverTypes, FilesInv, FileTypes
  <2> QED BY <1>1, <1>2, <2>1 DEF InDriver, DriverInv, DriverTypes, Versions
<1>5. ~ stamped
  BY <1>1 DEF InDriver, DriverInv, NotStampedYet, Compiling
<1>6. ASSUME calm[p] PROVE Setup(p) /\ \A v \in seen[p] : files["bin"].val = Whole(v)
  BY <1>1, <1>6 DEF InDriver, DriverInv, DriverTypes, Setup, Is
<1>7. NotStampedYet'
  <2>1. calm[p] => \A q \in Proc \ {p} : ~ Busy(q)
    BY <1>1 DEF InDriver, FilesInv, Alone
  <2> QED BY <1>1, <1>2, <1>5, <2>1 DEF NotStampedYet, Compiling, Writing, Busy
<1>8. StampMatches'
  <2>1. ASSUME calm[p], NEW x \in Versions, files["stamp"].val = Whole(x)
        PROVE  files["bin"].val = Whole(x)
    <3>1. PICK v \in seen[p] : files["stamp"].val = Whole(v)
      BY <1>1, <1>6, <2>1 DEF Setup, Is
    <3>2. v = x
      BY <2>1, <3>1, Contents
    <3> QED BY <1>6, <2>1, <3>2
  <2> QED BY <1>1, <1>5, <2>1 DEF StampMatches, Versions
<1>9. ASSUME calm[p] PROVE Setup(p)'
  BY <1>1, <1>2, <1>6, <1>9 DEF Setup, Owned, Closing, Writing
<1>10. \A q \in Proc : (calm[q] /\ Busy(q) => Setup(q))'
  BY <1>1, <1>2, <1>9, TheActor DEF InDriver, FilesInv
<1> QED BY <1>3, <1>4, <1>7, <1>8, <1>10 DEF DriverInv

LEMMA ExitDriver == ASSUME InDriver, UNCHANGED scene, NEW p \in Proc, D!Exit(p)
                    PROVE  FilesInv' /\ DriverInv'
<1>1. /\ pc[p] \in {"exec", "exit"} /\ Goto(p, "idle")
      /\ seen' = [seen EXCEPT ![p] = {}] /\ hashed' = [hashed EXCEPT ![p] = FALSE]
      /\ calm' = [calm EXCEPT ![p] = TRUE]
      /\ UNCHANGED <<io, files, dir, tmps, trouble, now, edits, stamped>>
  BY DEF D!Exit, D!Goto, Goto
<1>2. /\ pc' \in [Proc -> Names] /\ pc'[p] = "idle"
      /\ \A q \in Proc \ {p} : pc'[q] = pc[q]
  BY <1>1, GotoStep DEF InDriver, FilesInv, FileTypes, Names
<1>3. /\ calm' \in [Proc -> BOOLEAN]
      /\ \A q \in Proc : calm'[q] /\ Busy(q)' => q # p /\ calm[q] /\ Busy(q)
  BY <1>1, <1>2 DEF InDriver, FilesInv, FileTypes, Busy
<1>4. FilesInv'
  <2>1. NothingTorn(p) /\ "idle" \in Names \ {"write"}
    BY <1>1 DEF NothingTorn, Names
  <2>2. Alone'
    BY <1>2, <1>3 DEF InDriver, FilesInv, Alone, Busy
  <2> QED BY <1>1, <1>3, <2>1, <2>2, GoFiles DEF InDriver, FilesInv, FileTypes
<1>5. /\ seen' \in [Proc -> SUBSET Versions] /\ seen'[p] = {}
      /\ hashed' \in [Proc -> BOOLEAN]
      /\ \A q \in Proc \ {p} : seen'[q] = seen[q] /\ hashed'[q] = hashed[q]
  BY <1>1 DEF InDriver, DriverInv, DriverTypes
<1>6. DriverTypes'
  <2>1. \A q \in Proc : pc'[q] = "write" => q # p /\ pc[q] = "write"
    BY <1>2
  <2>2. \A q \in Proc : pc'[q] = "idle" => seen'[q] = {}
    BY <1>2, <1>5 DEF InDriver, DriverInv, DriverTypes
  <2>3. \A q \in Proc : \A v, w \in seen'[q] : v = w
    BY <1>5 DEF InDriver, DriverInv, DriverTypes
  <2> QED BY <1>1, <1>5, <2>1, <2>2, <2>3 DEF InDriver, DriverInv, DriverTypes, Versions
<1>7. NotStampedYet' /\ StampMatches'
  BY <1>1, <1>2 DEF InDriver, DriverInv, NotStampedYet, Compiling, Writing, StampMatches, Versions
<1>8. \A q \in Proc : (calm[q] /\ Busy(q) => Setup(q))'
  BY <1>1, <1>2, <1>3, <1>5 DEF InDriver, DriverInv, Setup, Is, Owned, Closing, Writing, Paths, D!Paths
<1> QED BY <1>4, <1>6, <1>7, <1>8 DEF DriverInv

\* The user edits sources or libraries.
LEMMA EditsDriver == ASSUME InDriver, UNCHANGED scene, D!EditSource \/ D!EditLibs
                     PROVE  FilesInv' /\ DriverInv'
<1>0. Paths' = Paths
  BY SamePaths
<1>1. UNCHANGED <<pc, io, files, dir, tmps, trouble, seen, hashed, stamped>>
  BY DEF D!EditSource, D!EditLibs
<1>2. now' \in Versions
  BY DEF InDriver, DriverInv, DriverTypes, Versions, D!EditSource, D!EditLibs
<1>3. /\ calm' \in [Proc -> BOOLEAN]
      /\ \A q \in Proc : calm'[q] /\ Busy(q) => calm[q] /\ now'.libs = now.libs
  <2>1. CASE D!EditSource
    BY <2>1 DEF D!EditSource, InDriver, FilesInv, FileTypes, DriverInv, DriverTypes, Versions
  <2>2. CASE D!EditLibs
    <3>1. \A q \in Proc : calm[q] \in BOOLEAN
      BY DEF InDriver, FilesInv, FileTypes
    <3>2. calm' = [q \in Proc |-> calm[q] /\ ~ Busy(q)]
      BY <2>2 DEF D!EditLibs, D!InSetup, Busy
    <3> QED BY <3>1, <3>2
  <2> QED BY <2>1, <2>2
<1>4. FilesInv'
  <2>1. FileTypes' /\ Writes' /\ TornAreOpen' /\ TmpsAreOpen'
    BY <1>0, <1>1, <1>3 DEF InDriver, FilesInv, FileTypes, Writes, TornAreOpen, TmpsAreOpen,
                            Closing, Writing, At
  <2>2. Alone'
    BY <1>1, <1>3 DEF InDriver, FilesInv, Alone, Busy
  <2> QED BY <2>1, <2>2 DEF FilesInv
<1>5. DriverTypes'
  BY <1>1, <1>2 DEF InDriver, DriverInv, DriverTypes, Versions
<1>6. NotStampedYet' /\ StampMatches'
  BY <1>1 DEF InDriver, DriverInv, NotStampedYet, Compiling, Writing, StampMatches, Versions
<1>7. \A q \in Proc : (calm[q] /\ Busy(q) => Setup(q))'
  BY <1>0, <1>1, <1>3 DEF InDriver, DriverInv, Setup, Is, Owned, Closing, Writing, Busy
<1> QED BY <1>4, <1>5, <1>6, <1>7 DEF DriverInv

\* A write of a setup: of the sources, or of the stamp.
LEMMA DriverWrites == ASSUME InDriver, NEW p \in Proc, pc[p] = "write"
                      PROVE  /\ io[p].err = "exit" /\ Busy(p)
                             /\ io[p].path \in {"src", "stamp"}
                             /\ io[p].path = "stamp" => ~ stamped
BY DEF InDriver, DriverInv, DriverTypes, NotStampedYet, Compiling, Writing, Busy

LEMMA OutputDriver == ASSUME InDriver, NEW p \in Proc, Output(p),
                             UNCHANGED <<scene, now, edits, seen, hashed, calm, stamped>>
                      PROVE  DriverInv'
<1>1. /\ At(p, "open") /\ Moves(p) /\ files' = files
      /\ Continues(p, "rename") \/ pc'[p] = io[p].err
  BY OutputStep DEF InDriver
<1>2. io[p].err = "exit" /\ Busy(p) /\ pc[p] = "write"
  BY <1>1, DriverWrites DEF At
<1>3. DriverTypes'
  BY <1>1, <1>2 DEF InDriver, DriverInv, DriverTypes, Versions, Moves, Continues
<1>4. NotStampedYet' /\ StampMatches'
  BY <1>1, <1>2 DEF InDriver, DriverInv, NotStampedYet, Compiling, Writing, StampMatches, Versions,
                    Moves, Continues
<1>5. \A q \in Proc : (calm[q] /\ Busy(q) => Setup(q))'
  <2>1. CASE Continues(p, "rename")
    <3>1. ASSUME calm[p] PROVE Setup(p)'
      BY <1>1, <1>2, <2>1, <3>1
         DEF InDriver, DriverInv, Setup, Is, Owned, Closing, Writing, Continues
    <3> QED BY <1>1, <1>2, <3>1, TheActor DEF InDriver, FilesInv, Moves
  <2>2. CASE pc'[p] = io[p].err
    BY <1>1, <1>2, <2>2, EndsSetup, TheActor DEF InDriver, FilesInv, Moves
  <2> QED BY <1>1, <2>1, <2>2
<1> QED BY <1>3, <1>4, <1>5 DEF DriverInv

LEMMA RenameDriver == ASSUME InDriver, NEW p \in Proc, Rename(p),
                             UNCHANGED <<scene, now, edits, seen, hashed, calm, stamped>>
                      PROVE  DriverInv'
<1>0. Paths = {"src", "bin", "stamp"} /\ Paths' = Paths
  BY DriverPaths, SamePaths DEF InDriver
<1>1. /\ At(p, "rename") /\ Moves(p)
      /\ \/ Continues(p, "close") /\ Puts(io[p].path, File(Torn, p))
         \/ pc'[p] = io[p].err /\ files' = files
  BY RenameStep DEF InDriver
<1>2. /\ io[p].err = "exit" /\ Busy(p) /\ pc[p] = "write"
      /\ io[p].path \in {"src", "stamp"} /\ (io[p].path = "stamp" => ~ stamped)
  BY <1>1, DriverWrites DEF At
<1>3. /\ \A path \in Paths : files'[path] = files[path] \/ (path = io[p].path /\ files'[path].val = Torn)
  BY <1>1 DEF Puts, File
<1>4. DriverTypes'
  <2>1. files'["src"].val \in {Absent, Torn} \cup {Whole(x) : x \in [src : Version]}
    BY <1>0, <1>3 DEF InDriver, DriverInv, DriverTypes
  <2> QED BY <1>1, <1>2, <2>1 DEF InDriver, DriverInv, DriverTypes, Versions, Moves, Continues
<1>5. NotStampedYet'
  BY <1>1, <1>2 DEF InDriver, DriverInv, NotStampedYet, Compiling, Writing, Moves, Continues
<1>6. StampMatches'
  <2>1. stamped => files'["stamp"] = files["stamp"] /\ files'["bin"] = files["bin"]
    BY <1>0, <1>2, <1>3
  <2> QED BY <2>1 DEF InDriver, DriverInv, StampMatches, Versions
<1>7. \A q \in Proc : (calm[q] /\ Busy(q) => Setup(q))'
  <2>1. CASE Continues(p, "close") /\ Puts(io[p].path, File(Torn, p))
    <3>1. ASSUME calm[p] PROVE Setup(p)'
      <4>1. files'["bin"] = files["bin"]
        BY <1>0, <1>2, <2>1 DEF Puts
      <4>2. Owned(p)'
        BY <1>0, <2>1 DEF Owned, Closing, Writing, Continues, Puts, File
      <4> QED BY <1>1, <1>2, <2>1, <3>1, <4>1, <4>2
              DEF InDriver, DriverInv, Setup, Is, Writing, Continues
    <3> QED BY <1>1, <1>2, <3>1, TheActor DEF InDriver, FilesInv, Moves
  <2>2. CASE pc'[p] = io[p].err
    BY <1>1, <1>2, <2>2, EndsSetup, TheActor DEF InDriver, FilesInv, Moves
  <2> QED BY <1>1, <2>1, <2>2
<1> QED BY <1>4, <1>5, <1>6, <1>7 DEF DriverInv

LEMMA CloseDriver == ASSUME InDriver, NEW p \in Proc, Close(p),
                            UNCHANGED <<scene, now, edits, seen, hashed, calm, stamped>>
                     PROVE  DriverInv'
<1>0. Paths = {"src", "bin", "stamp"} /\ Paths' = Paths
  BY DriverPaths, SamePaths DEF InDriver
<1>1. /\ At(p, "close") /\ Moves(p)
      /\ \/ /\ pc'[p] = io[p].ok
            /\ IF files[io[p].path].by = p
               THEN Puts(io[p].path, File(io[p].val, NoProc)) ELSE files' = files
         \/ /\ pc'[p] = io[p].err
            /\ \E f \in AFile : f.val = files[io[p].path].val /\ Puts(io[p].path, f)
  BY CloseStep DEF InDriver
<1>2. /\ io[p].err = "exit" /\ Busy(p) /\ pc[p] = "write"
      /\ io[p].path \in {"src", "stamp"} /\ (io[p].path = "stamp" => ~ stamped)
  BY <1>1, DriverWrites DEF At
<1>3. PICK v \in seen[p] : \/ /\ io[p].path = "src" /\ io[p].ok = "run"
                              /\ io[p].val = Whole([src |-> v.src])
                           \/ /\ io[p].path = "stamp" /\ io[p].ok = "stamped"
                              /\ io[p].val = Whole(v)
  BY <1>2 DEF InDriver, DriverInv, DriverTypes
<1>4. v \in Versions /\ [src |-> v.src] \in [src : Version]
  BY DEF InDriver, DriverInv, DriverTypes, Versions
<1>5. \A path \in Paths : \/ files'[path].val = files[path].val
                          \/ path = io[p].path /\ files'[path].val = io[p].val
  BY <1>1 DEF Puts, File
<1>6. DriverTypes'
  <2>1. files'["src"].val \in {Absent, Torn} \cup {Whole(x) : x \in [src : Version]}
    <3>1. CASE files'["src"].val = files["src"].val
      BY <3>1 DEF InDriver, DriverInv, DriverTypes
    <3>2. CASE files'["src"].val # files["src"].val
      BY <1>0, <1>3, <1>4, <1>5, <3>2
    <3> QED BY <3>1, <3>2
  <2>2. pc'[p] \in {"run", "stamped", "exit"}
    BY <1>1, <1>2, <1>3
  <2>3. \A q \in Proc : pc'[q] \in {"idle", "write"} => pc'[q] = pc[q] /\ io'[q] = io[q]
    BY <1>1, <2>2 DEF Moves
  <2> QED BY <2>1, <2>3 DEF InDriver, DriverInv, DriverTypes, Versions
<1>7. NotStampedYet'
  BY <1>1, <1>2, <1>3 DEF InDriver, DriverInv, NotStampedYet, Compiling, Writing, Moves
<1>8. StampMatches'
  <2>1. stamped => files'["stamp"].val = files["stamp"].val /\ files'["bin"].val = files["bin"].val
    BY <1>0, <1>2, <1>5
  <2> QED BY <2>1 DEF InDriver, DriverInv, StampMatches, Versions
<1>9. \A q \in Proc : (calm[q] /\ Busy(q) => Setup(q))'
  <2>1. CASE /\ pc'[p] = io[p].ok
             /\ IF files[io[p].path].by = p
                THEN Puts(io[p].path, File(io[p].val, NoProc)) ELSE files' = files
    <3>1. ASSUME calm[p] PROVE Setup(p)'
      <4>1. Setup(p)
        BY <1>2, <3>1 DEF InDriver, DriverInv
      <4>2. files[io[p].path].by = p
        BY <1>0, <1>1, <1>2, <4>1 DEF Setup, Owned, Closing, Writing, At
      <4>3. files'[io[p].path].val = io[p].val
        BY <2>1, <4>2 DEF Puts, File
      <4>4. files'["bin"].val = files["bin"].val
        BY <1>0, <1>2, <1>5
      <4> QED BY <1>2, <1>3, <2>1, <4>1, <4>3, <4>4 DEF Setup, Is, Owned, Closing, Writing
    <3> QED BY <1>1, <1>2, <3>1, TheActor DEF InDriver, FilesInv, Moves
  <2>2. CASE pc'[p] = io[p].err
    BY <1>1, <1>2, <2>2, EndsSetup, TheActor DEF InDriver, FilesInv, Moves
  <2> QED BY <1>1, <2>1, <2>2
<1> QED BY <1>6, <1>7, <1>8, <1>9 DEF DriverInv

LEMMA KillDriver == ASSUME InDriver, NEW p \in Proc, Kill(p),
                           UNCHANGED <<scene, now, edits, seen, hashed, calm, stamped>>
                    PROVE  DriverInv'
<1>0. Paths = {"src", "bin", "stamp"} /\ Paths' = Paths
  BY DriverPaths, SamePaths DEF InDriver
<1>1. /\ Busy(p) /\ Moves(p) /\ pc'[p] = "exit"
      /\ \A path \in Paths : files'[path].val = files[path].val
  BY KillStep DEF InDriver
<1>2. /\ files'["src"].val = files["src"].val /\ files'["bin"].val = files["bin"].val
      /\ files'["stamp"].val = files["stamp"].val
  BY <1>0, <1>1
<1>3. DriverTypes'
  BY <1>1, <1>2 DEF InDriver, DriverInv, DriverTypes, Versions, Moves
<1>4. NotStampedYet' /\ StampMatches'
  BY <1>1, <1>2 DEF InDriver, DriverInv, NotStampedYet, Compiling, Writing, StampMatches, Versions, Moves
<1>5. \A q \in Proc : (calm[q] /\ Busy(q) => Setup(q))'
  BY <1>1, EndsSetup, TheActor DEF InDriver, FilesInv, Moves
<1> QED BY <1>3, <1>4, <1>5 DEF DriverInv

LEMMA WriteFiles == ASSUME FilesInv, UNCHANGED <<scene, calm>>, NEW p \in Proc, Write(p) \/ Kill(p)
                    PROVE  FilesInv'
BY OutputFiles, RenameFiles, CloseFiles, KillFiles DEF Write

LEMMA DriverStepKeeps == ASSUME InDriver, DriverStep PROVE FilesInv' /\ DriverInv'
<1>1. UNCHANGED scene /\ D!NextDriver
  BY DEF DriverStep
<1>2. CASE D!EditSource \/ D!EditLibs
  BY <1>1, <1>2, EditsDriver
<1>3. ASSUME NEW p \in Proc, D!Write(p) \/ D!Kill(p), UNCHANGED D!driverVars
      PROVE  FilesInv' /\ DriverInv'
  <2>1. /\ Write(p) \/ Kill(p)
        /\ UNCHANGED <<scene, now, edits, seen, hashed, calm, stamped>>
    BY <1>1, <1>3, SameWrites DEF D!driverVars
  <2>2. FilesInv'
    BY <2>1, WriteFiles DEF InDriver
  <2>3. DriverInv'
    BY <2>1, OutputDriver, RenameDriver, CloseDriver, KillDriver DEF Write
  <2> QED BY <2>2, <2>3
<1>4. ASSUME NEW p \in Proc, D!Start(p) \/ D!ActionStamp(p) \/ D!Check(p) \/ D!Compile(p)
      PROVE  FilesInv' /\ DriverInv'
  BY <1>1, <1>4, StartDriver, ActionStampDriver, CheckDriver, CompileDriver
<1>5. ASSUME NEW p \in Proc,
             D!RunCompiler(p) \/ D!Link(p) \/ D!WriteStamp(p) \/ D!Stamped(p) \/ D!Exit(p)
      PROVE  FilesInv' /\ DriverInv'
  BY <1>1, <1>5, RunCompilerDriver, LinkDriver, WriteStampDriver, StampedDriver, ExitDriver
<1> QED BY <1>1, <1>2, <1>3, <1>4, <1>5 DEF D!NextDriver

-----------------------------------------------------------------------------
(* The steps of the commands on a variant *)

InVariant == FilesInv /\ VariantInv /\ scene = "variant"

LEMMA VariantPaths == ASSUME scene = "variant"
                      PROVE Paths = {"scheme", "conf", "b", "index", "outcome"} /\ Paths = V!Paths
BY DEF Paths, V!Paths

LEMMA TheCommand == ASSUME Alone, UNCHANGED calm, NEW p \in Proc, Busy(p),
                           \A q \in Proc \ {p} : pc'[q] = pc[q],
                           calm[p] /\ Busy(p)' => Command(p)'
                    PROVE  \A q \in Proc : (calm[q] /\ Busy(q) => Command(q))'
BY DEF Alone, Busy

\* A command goes on, with its own fields and the files as they were.
LEMMA GoVariant == ASSUME InVariant, UNCHANGED <<scene, io, files, creates, which, left, clean>>,
                          NEW p \in Proc, pc[p] # "write",
                          NEW l \in Names \ {"write", "delete"}, Goto(p, l)
                   PROVE  VariantTypes' /\ Cleaned'
<1>0. Paths' = Paths
  BY SamePaths
<1>1. /\ pc' \in [Proc -> Names] /\ pc'[p] = l
      /\ \A q \in Proc \ {p} : pc'[q] = pc[q]
  BY GotoStep DEF InVariant, FilesInv, FileTypes
<1>2. VariantTypes'
  BY <1>0, <1>1 DEF InVariant, VariantInv, VariantTypes
<1>3. Cleaned'
  BY <1>1 DEF InVariant, VariantInv, Cleaned, Exists
<1> QED BY <1>2, <1>3

\* Begin, as the other module names it.
LEMMA BeginVariant == ASSUME FilesInv, NEW p \in Proc, NEW l \in Names, V!Begin(p, l)
                      PROVE  /\ pc[p] = "idle" /\ Goto(p, l)
                             /\ pc' \in [Proc -> Names] /\ pc'[p] = l
                             /\ \A q \in Proc \ {p} : pc'[q] = pc[q]
                             /\ Alone' /\ calm' \in [Proc -> BOOLEAN]
                             /\ \A q \in Proc \ {p} : ~ (calm'[q] /\ Busy(q)')
                             /\ calm'[p] => \A q \in Proc \ {p} : ~ Busy(q)
<1>1. /\ pc[p] = "idle" /\ Goto(p, l)
      /\ calm' = [q \in Proc |-> IF q = p THEN \A r \in Proc \ {p} : ~ Busy(r)
                                          ELSE calm[q] /\ ~ Busy(q)]
  BY DEF V!Begin, V!Busy, Busy, V!Goto, Goto
<1>2. FileTypes
  BY DEF FilesInv
<1>3. /\ pc' \in [Proc -> Names] /\ pc'[p] = l
      /\ \A q \in Proc \ {p} : pc'[q] = pc[q]
  BY <1>1, <1>2, GotoStep DEF FileTypes
<1>4. /\ Alone' /\ calm' \in [Proc -> BOOLEAN]
      /\ \A q \in Proc \ {p} : ~ (calm'[q] /\ Busy(q)')
  BY <1>1, <1>2, AloneAtStart
<1>5. calm'[p] => \A q \in Proc \ {p} : ~ Busy(q)
  BY <1>1
<1> QED BY <1>1, <1>3, <1>4, <1>5

LEMMA CreateVariant == ASSUME InVariant, UNCHANGED scene, NEW p \in Proc, V!Create(p)
                       PROVE  FilesInv' /\ VariantInv'
<1>0. Paths' = Paths
  BY SamePaths
<1>1. /\ V!Begin(p, "create") /\ "create" \in Names
      /\ creates' = creates + 1 /\ UNCHANGED <<io, files, dir, tmps, trouble, left, clean>>
  BY DEF V!Create, V!SameFiles, Names
<1>2. PICK preset \in BOOLEAN : which' = [which EXCEPT ![p] = [n |-> creates + 1, preset |-> preset]]
  BY DEF V!Create
<1>3. /\ pc[p] = "idle" /\ Goto(p, "create")
      /\ pc' \in [Proc -> Names] /\ pc'[p] = "create"
      /\ \A q \in Proc \ {p} : pc'[q] = pc[q]
      /\ Alone' /\ calm' \in [Proc -> BOOLEAN]
      /\ \A q \in Proc \ {p} : ~ (calm'[q] /\ Busy(q)')
  BY <1>1, BeginVariant DEF InVariant
<1>4. FilesInv'
  <2>1. NothingTorn(p) /\ "create" \in Names \ {"write"}
    BY <1>1, <1>3 DEF NothingTorn
  <2> QED BY <1>1, <1>3, <2>1, GoFiles DEF InVariant, FilesInv, FileTypes
<1>5. VariantTypes'
  <2>1. creates \in Nat /\ creates' \in Nat
    BY <1>1 DEF InVariant, VariantInv, VariantTypes
  <2>2. which' \in [Proc -> [n : Nat, preset : BOOLEAN]] /\ \A q \in Proc \ {p} : which'[q] = which[q]
    BY <1>1, <1>2, <2>1 DEF InVariant, VariantInv, VariantTypes
  <2>3. \A q \in Proc : pc'[q] = "write" => q # p /\ pc[q] = "write"
    BY <1>3
  <2> QED BY <1>0, <1>1, <2>1, <2>2, <2>3 DEF InVariant, VariantInv, VariantTypes
<1>6. Cleaned'
  BY <1>1, <1>3 DEF InVariant, VariantInv, Cleaned, Exists
<1>7. Command(p)'
  BY <1>3 DEF Command, Owned, Closing, Writing
<1> QED BY <1>3, <1>4, <1>5, <1>6, <1>7 DEF VariantInv

\* A step of a command that leaves files and fields: FilesInv and the rest.
LEMMA GoesOn == ASSUME InVariant, UNCHANGED <<scene, io, files, dir, tmps, trouble>>,
                       UNCHANGED <<creates, which, left, calm, clean>>,
                       NEW p \in Proc, Busy(p), pc[p] # "write",
                       NEW l \in Names \ {"write", "delete"}, Goto(p, l),
                       calm[p] /\ Busy(p)' => Command(p)'
                PROVE  FilesInv' /\ VariantInv'
<1>1. /\ pc' \in [Proc -> Names] /\ pc'[p] = l
      /\ \A q \in Proc \ {p} : pc'[q] = pc[q]
  BY GotoStep DEF InVariant, FilesInv, FileTypes
<1>2. FilesInv'
  <2>0. CASE pc[p] = "link" /\ "bin" \in Paths
    BY <2>0, VariantPaths DEF InVariant
  <2>1. CASE ~ (pc[p] = "link" /\ "bin" \in Paths)
    <3>1. NothingTorn(p)
      BY <2>1 DEF NothingTorn
    <3>2. Alone'
      BY <1>1, AloneKept DEF InVariant, FilesInv, Busy
    <3> QED BY <3>1, <3>2, GoFiles DEF InVariant, FilesInv, FileTypes
  <2> QED BY <2>0, <2>1
<1>3. VariantTypes' /\ Cleaned'
  BY GoVariant
<1>4. \A q \in Proc : (calm[q] /\ Busy(q) => Command(q))'
  BY <1>1, TheCommand DEF InVariant, FilesInv
<1> QED BY <1>2, <1>3, <1>4 DEF VariantInv

LEMMA CreateExistsVariant == ASSUME InVariant, UNCHANGED scene, NEW p \in Proc, V!CreateExists(p)
                             PROVE  FilesInv' /\ VariantInv'
<1>1. /\ pc[p] = "create" /\ Busy(p)
      /\ UNCHANGED <<io, files, dir, tmps, trouble>>
      /\ UNCHANGED <<creates, which, left, calm, clean>>
  BY DEF V!CreateExists, V!SameFiles, V!variantVars, Busy
<1>2. PICK l \in {"exit", "mkdir"} : Goto(p, l) /\ (l = "mkdir" => ~ Exists("scheme"))
  BY SameContents DEF V!CreateExists, V!Goto, Goto, V!VariantExists, V!Exists, Exists
<1>3. pc'[p] = l /\ l \in Names \ {"write", "delete"}
  BY <1>2, GotoStep DEF InVariant, FilesInv, FileTypes, Names
<1>4. calm[p] /\ Busy(p)' => Command(p)'
  BY <1>1, <1>2, <1>3 DEF Busy, Command, Owned, Closing, Writing, InVariant, VariantInv, Cleaned, Exists
<1> QED BY <1>1, <1>2, <1>3, <1>4, GoesOn

\* A write that begins: of the scheme, or of the configuration.
LEMMA BeginsWrite == ASSUME InVariant, UNCHANGED <<scene, files, tmps, trouble>>,
                            UNCHANGED <<creates, which, left, calm, clean>>,
                            dir' \in BOOLEAN, NEW p \in Proc, pc[p] \in {"mkdir", "conf"},
                            NEW path, NEW ok,
                            \/ path = "scheme" /\ ok = "conf" /\ pc[p] = "mkdir"
                            \/ path = "conf" /\ ok = "created" /\ pc[p] = "conf",
                            BeginWrite(p, path, Whole(which[p].n), ok, "exit")
                     PROVE  FilesInv' /\ VariantInv'
<1>0. Paths' = Paths /\ Paths = {"scheme", "conf", "b", "index", "outcome"}
  BY SamePaths, VariantPaths DEF InVariant
<1>1. path \in Paths \cap Names /\ ok \in Names \ {"write"} /\ "exit" \in Names \ {"write"}
  BY <1>0 DEF Names
<1>2. Busy(p) /\ pc[p] \notin {"write", "link"}
  BY DEF Busy
<1>3. Whole(which[p].n) \in Content \ {Absent, Torn}
  <2>1. which[p].n \in Nat
    BY DEF InVariant, VariantInv, VariantTypes
  <2> QED BY <2>1, Contents, ContentRange
<1>4. FilesInv'
  BY <1>1, <1>2, <1>3, BeginFiles DEF InVariant
<1>5. /\ pc' \in [Proc -> Names] /\ io' \in [Proc -> AWrite] /\ pc'[p] = "write"
      /\ \A q \in Proc \ {p} : pc'[q] = pc[q] /\ io'[q] = io[q]
      /\ io'[p].path = path /\ io'[p].val = Whole(which[p].n) /\ io'[p].at = "open"
      /\ io'[p].ok = ok /\ io'[p].err = "exit"
  BY <1>1, <1>3, BeginStep DEF InVariant, FilesInv, FileTypes
<1>6. VariantTypes'
  BY <1>0, <1>5 DEF InVariant, VariantInv, VariantTypes
<1>7. Cleaned'
  BY <1>5 DEF InVariant, VariantInv, Cleaned, Exists
<1>8. ASSUME calm[p] PROVE Command(p)'
  <2>1. Command(p)
    BY <1>2, <1>8 DEF InVariant, VariantInv
  <2> QED BY <1>5, <2>1 DEF Command, Owned, Closing, Writing, Exists
<1>9. \A q \in Proc : (calm[q] /\ Busy(q) => Command(q))'
  BY <1>2, <1>5, <1>8, TheCommand DEF InVariant, FilesInv
<1> QED BY <1>4, <1>6, <1>7, <1>9 DEF VariantInv

LEMMA MkdirVariant == ASSUME InVariant, UNCHANGED scene, NEW p \in Proc, V!Mkdir(p)
                      PROVE  FilesInv' /\ VariantInv'
<1>1. /\ pc[p] = "mkdir" /\ Busy(p) /\ UNCHANGED <<files, tmps, trouble>>
      /\ UNCHANGED <<creates, which, left, calm, clean>>
  BY DEF V!Mkdir, V!variantVars, Busy
<1>2. CASE dir' = TRUE /\ V!BeginWrite(p, "scheme", V!Whole(which[p].n), "conf", "exit")
  <2>1. BeginWrite(p, "scheme", Whole(which[p].n), "conf", "exit")
    BY <1>2, SameContents DEF V!BeginWrite, BeginWrite, V!Goto, Goto
  <2> QED BY <1>1, <1>2, <2>1, BeginsWrite
<1>3. CASE Goto(p, "exit") /\ UNCHANGED <<io, dir>>
  <2>1. "exit" \in Names \ {"write", "delete"}
    BY DEF Names
  <2>2. ~ Busy(p)'
    BY <1>3, GotoStep, <2>1 DEF Busy, InVariant, FilesInv, FileTypes
  <2> QED BY <1>1, <1>3, <2>1, <2>2, GoesOn
<1> QED BY <1>2, <1>3 DEF V!Mkdir, V!Goto, Goto

LEMMA InitConfVariant == ASSUME InVariant, UNCHANGED scene, NEW p \in Proc, V!InitConf(p)
                         PROVE  FilesInv' /\ VariantInv'
<1>1. /\ pc[p] = "conf" /\ Busy(p) /\ UNCHANGED <<files, dir, tmps, trouble>>
      /\ UNCHANGED <<creates, which, left, calm, clean>>
  BY DEF V!InitConf, V!variantVars, Busy
<1>2. CASE V!BeginWrite(p, "conf", V!Whole(which[p].n), "created", "exit")
  <2>1. BeginWrite(p, "conf", Whole(which[p].n), "created", "exit")
    BY <1>2, SameContents DEF V!BeginWrite, BeginWrite, V!Goto, Goto
  <2>2. dir' \in BOOLEAN
    BY <1>1 DEF InVariant, FilesInv, FileTypes
  <2> QED BY <1>1, <2>1, <2>2, BeginsWrite
<1>3. ASSUME NEW l \in {"exit", "created"}, Goto(p, l), UNCHANGED io, l = "created" => ~ which[p].preset
      PROVE  FilesInv' /\ VariantInv'
  <2>1. l \in Names \ {"write", "delete"}
    BY DEF Names
  <2>2. pc'[p] = l
    BY <1>3, GotoStep, <2>1 DEF InVariant, FilesInv, FileTypes
  <2>3. calm[p] /\ Busy(p)' => Command(p)'
    <3>1. calm[p] => Command(p)
      BY <1>1 DEF InVariant, VariantInv
    <3> QED BY <1>1, <1>3, <2>2, <3>1 DEF Command, Owned, Closing, Writing, Exists, Busy
  <2> QED BY <1>1, <1>3, <2>1, <2>3, GoesOn
<1>4. \/ V!BeginWrite(p, "conf", V!Whole(which[p].n), "created", "exit")
      \/ \E l \in {"exit", "created"} : Goto(p, l) /\ UNCHANGED io /\ (l = "created" => ~ which[p].preset)
  BY DEF V!InitConf, V!Goto, Goto
<1> QED BY <1>2, <1>3, <1>4

LEMMA BuildInVariant == ASSUME InVariant, UNCHANGED scene, NEW p \in Proc, V!BuildIn(p)
                        PROVE  FilesInv' /\ VariantInv'
<1>0. Paths = {"scheme", "conf", "b", "index", "outcome"} /\ Paths = V!Paths /\ Paths' = Paths
  BY VariantPaths, SamePaths DEF InVariant
<1>1. V!Begin(p, "idle") /\ "idle" \in Names /\ UNCHANGED <<io, dir, tmps, trouble>>
      /\ UNCHANGED <<creates, which, left, clean>>
  BY DEF V!BuildIn, Names
<1>2. /\ pc[p] = "idle" /\ Goto(p, "idle")
      /\ pc' \in [Proc -> Names] /\ pc'[p] = "idle"
      /\ \A q \in Proc \ {p} : pc'[q] = pc[q]
      /\ Alone' /\ calm' \in [Proc -> BOOLEAN]
      /\ \A q \in Proc \ {p} : ~ (calm'[q] /\ Busy(q)')
  BY <1>1, BeginVariant DEF InVariant
<1>3. files["scheme"].val \notin {Absent, Torn}
  BY SameContents DEF V!BuildIn, V!Found
<1>4. PICK f \in AFile : /\ f.val = files["scheme"].val
                         /\ files' = [path \in Paths |-> IF path \in OfBuilds THEN f ELSE files[path]]
  <2>1. files["scheme"].val \in Content
    BY <1>0 DEF InVariant, FilesInv, FileTypes, AFile
  <2>2. File(files["scheme"].val, NoProc) \in AFile
    BY <2>1, RecordRange
  <2>3. File(files["scheme"].val, NoProc).val = files["scheme"].val
    BY DEF File
  <2> QED BY <1>0, <2>2, <2>3 DEF V!BuildIn, V!File, File, V!NoProc, NoProc, OfBuilds
<1>5. /\ files' \in [Paths -> AFile] /\ files'["scheme"] = files["scheme"]
      /\ \A path \in Paths : files'[path] = files[path] \/ files'[path].val \notin {Absent, Torn}
  BY <1>0, <1>3, <1>4 DEF InVariant, FilesInv, FileTypes, OfBuilds
<1>6. FilesInv'
  <2>1. NothingTorn(p) /\ "idle" \in Names \ {"write"}
    BY <1>1, <1>2, <1>5 DEF NothingTorn
  <2> QED BY <1>1, <1>2, <1>5, <2>1, GoFiles DEF InVariant, FilesInv, FileTypes
<1>7. VariantTypes'
  BY <1>0, <1>1, <1>2 DEF InVariant, VariantInv, VariantTypes
<1>8. Cleaned'
  BY <1>1, <1>2, <1>3, <1>5 DEF InVariant, VariantInv, Cleaned, Exists
<1> QED BY <1>2, <1>6, <1>7, <1>8 DEF VariantInv, Busy

LEMMA ResetVariant == ASSUME InVariant, UNCHANGED scene, NEW p \in Proc, V!Reset(p)
                      PROVE  FilesInv' /\ VariantInv'
<1>0. Paths = {"scheme", "conf", "b", "index", "outcome"} /\ Paths = V!Paths /\ Paths' = Paths
  BY VariantPaths, SamePaths DEF InVariant
<1>1. /\ V!Begin(p, "reset") /\ "reset" \in Names /\ Exists("scheme")
      /\ left' = [left EXCEPT ![p] = <<"b", "conf", "index", "outcome">>]
      /\ UNCHANGED <<io, files, dir, tmps, trouble, creates, which, clean>>
  BY SameContents DEF V!Reset, V!SameFiles, V!VariantExists, V!Exists, Exists, V!Parts, Names
<1>2. /\ pc[p] = "idle" /\ Goto(p, "reset")
      /\ pc' \in [Proc -> Names] /\ pc'[p] = "reset"
      /\ \A q \in Proc \ {p} : pc'[q] = pc[q]
      /\ Alone' /\ calm' \in [Proc -> BOOLEAN]
      /\ \A q \in Proc \ {p} : ~ (calm'[q] /\ Busy(q)')
  BY <1>1, BeginVariant DEF InVariant
<1>3. FilesInv'
  <2>1. NothingTorn(p) /\ "reset" \in Names \ {"write"}
    BY <1>1, <1>2 DEF NothingTorn
  <2> QED BY <1>1, <1>2, <2>1, GoFiles DEF InVariant, FilesInv, FileTypes
<1>4. PICK parts \in Seq(Paths \ {"scheme"}) :
        /\ parts = <<"b", "conf", "index", "outcome">>
        /\ \A path \in Paths \ {"scheme"} : \E i \in DOMAIN parts : parts[i] = path
  <2>1. <<"b", "conf", "index", "outcome">> \in Seq(Paths \ {"scheme"})
    BY <1>0
  <2>2. \A path \in Paths \ {"scheme"} :
          \E i \in DOMAIN <<"b", "conf", "index", "outcome">> :
            <<"b", "conf", "index", "outcome">>[i] = path
    BY <1>0
  <2> QED BY <2>1, <2>2
<1>5. left' \in [Proc -> Seq(Paths \ {"scheme"})] /\ left'[p] = parts
  BY <1>1, <1>4 DEF InVariant, VariantInv, VariantTypes
<1>6. VariantTypes'
  BY <1>0, <1>1, <1>2, <1>5 DEF InVariant, VariantInv, VariantTypes
<1>7. Cleaned'
  BY <1>1, <1>2 DEF InVariant, VariantInv, Cleaned, Exists
<1>8. Command(p)'
  BY <1>0, <1>1, <1>2, <1>4, <1>5 DEF Command, Owned, Closing, Writing, Exists
<1> QED BY <1>2, <1>3, <1>6, <1>7, <1>8 DEF VariantInv

LEMMA ResetPartVariant == ASSUME InVariant, UNCHANGED scene, NEW p \in Proc, V!ResetPart(p)
                          PROVE  FilesInv' /\ VariantInv'
<1>0. Paths = {"scheme", "conf", "b", "index", "outcome"} /\ Paths = V!Paths /\ Paths' = Paths
  BY VariantPaths, SamePaths DEF InVariant
<1>1. /\ pc[p] = "reset" /\ Busy(p) /\ left[p] # <<>>
      /\ UNCHANGED <<io, dir, tmps, trouble, creates, which, calm, clean>>
  BY DEF V!ResetPart, Busy
<1>2. CASE Goto(p, "exit") /\ UNCHANGED <<files, left>>
  <2>1. "exit" \in Names \ {"write", "delete"}
    BY DEF Names
  <2>2. ~ Busy(p)'
    BY <1>2, GotoStep, <2>1 DEF Busy, InVariant, FilesInv, FileTypes
  <2> QED BY <1>1, <1>2, <2>1, <2>2, GoesOn
<1>3. CASE /\ files' = [files EXCEPT ![Head(left[p])] = NoFile]
           /\ left' = [left EXCEPT ![p] = Tail(@)] /\ UNCHANGED pc
  <2>0. left[p] \in Seq(Paths \ {"scheme"})
    BY DEF InVariant, VariantInv, VariantTypes
  <2>1. PICK part \in Paths \ {"scheme"} : part = Head(left[p])
    BY <1>1, <2>0
  <2>2. PICK rest \in Seq(Paths \ {"scheme"}) : rest = Tail(left[p])
    BY <1>1, <2>0, HeadTailProperties
  <2>3. \A i \in DOMAIN left[p] : left[p][i] = part \/ \E j \in DOMAIN rest : rest[j] = left[p][i]
    <3>1. SUFFICES ASSUME NEW i \in DOMAIN left[p], i # 1
                   PROVE  \E j \in DOMAIN rest : rest[j] = left[p][i]
      BY <1>1, <2>0, <2>1
    <3>2. i - 1 \in DOMAIN rest /\ rest[i - 1] = left[p][i]
      BY <1>1, <2>0, <2>2, <3>1
    <3> QED BY <3>2
  <2>4. /\ left' \in [Proc -> Seq(Paths \ {"scheme"})] /\ left'[p] = rest
        /\ \A q \in Proc \ {p} : left'[q] = left[q]
    BY <1>3, <2>2 DEF InVariant, VariantInv, VariantTypes
  <2>5. NoFile \in AFile /\ NoFile.val = Absent
    BY RecordRange, ContentRange DEF NoFile, File, NoProc
  <2>6. /\ files' \in [Paths -> AFile] /\ files'[part].val = Absent
        /\ \A path \in Paths \ {part} : files'[path] = files[path]
    BY <1>3, <2>1, <2>5 DEF InVariant, FilesInv, FileTypes
  <2>7. FilesInv'
    <3>1. FileTypes' /\ Writes' /\ TmpsAreOpen'
      BY <1>0, <1>1, <1>3, <2>6 DEF InVariant, FilesInv, FileTypes, Writes, TmpsAreOpen, At
    <3>2. TornAreOpen'
      BY <1>0, <1>1, <1>3, <2>6, Contents DEF InVariant, FilesInv, TornAreOpen, Closing, Writing
    <3>3. Alone'
      BY <1>1, <1>3, AloneKept DEF InVariant, FilesInv, Busy
    <3> QED BY <3>1, <3>2, <3>3 DEF FilesInv
  <2>8. VariantTypes'
    BY <1>0, <1>1, <1>3, <2>4 DEF InVariant, VariantInv, VariantTypes
  <2>9. Cleaned'
    BY <1>0, <1>1, <1>3, <2>6 DEF InVariant, VariantInv, Cleaned, Exists, OfBuilds
  <2>10. ASSUME calm[p] PROVE Command(p)'
    <3>1. Command(p)
      BY <1>1, <2>10 DEF InVariant, VariantInv
    <3>2. ASSUME NEW path \in Paths \ {"scheme"}, files'[path].val # Absent
          PROVE  \E j \in DOMAIN rest : rest[j] = path
      <4>1. path # part /\ Exists(path)
        BY <2>6, <3>2 DEF Exists
      <4>2. PICK i \in DOMAIN left[p] : left[p][i] = path
        BY <1>1, <3>1, <4>1 DEF Command
      <4> QED BY <2>3, <4>1, <4>2
    <3> QED BY <1>0, <1>1, <1>3, <2>4, <2>6, <3>1, <3>2
            DEF Command, Owned, Closing, Writing, Exists
  <2>11. \A q \in Proc : (calm[q] /\ Busy(q) => Command(q))'
    BY <1>1, <1>3, <2>10, TheCommand DEF InVariant, FilesInv
  <2> QED BY <2>7, <2>8, <2>9, <2>11 DEF VariantInv
<1> QED BY <1>2, <1>3 DEF V!ResetPart, V!Goto, Goto, V!NoFile, NoFile, V!File, File, V!NoProc, NoProc,
                          V!Absent, Absent

LEMMA ResetEndVariant == ASSUME InVariant, UNCHANGED scene, NEW p \in Proc, V!ResetEnd(p)
                         PROVE  FilesInv' /\ VariantInv'
<1>1. /\ pc[p] = "reset" /\ Busy(p) /\ left[p] = <<>> /\ Goto(p, "wasreset")
      /\ UNCHANGED <<io, files, dir, tmps, trouble>>
      /\ UNCHANGED <<creates, which, left, calm, clean>>
  BY DEF V!ResetEnd, V!SameFiles, V!variantVars, V!Goto, Goto, Busy
<1>2. "wasreset" \in Names \ {"write", "delete"}
  BY DEF Names
<1>3. pc'[p] = "wasreset"
  BY <1>1, <1>2, GotoStep DEF InVariant, FilesInv, FileTypes
<1>4. Paths = {"scheme", "conf", "b", "index", "outcome"} /\ Paths' = Paths
  BY VariantPaths, SamePaths DEF InVariant
<1>5. calm[p] => Command(p)'
  <2>1. ASSUME calm[p] PROVE \A path \in Paths : Exists(path) <=> path = "scheme"
    <3>1. Command(p)
      BY <1>1, <2>1 DEF InVariant, VariantInv
    <3>2. ~ \E i \in DOMAIN left[p] : TRUE
      BY <1>1
    <3> QED BY <1>1, <3>1, <3>2 DEF Command
  <2> QED BY <1>1, <1>3, <1>4, <2>1 DEF Command, Owned, Closing, Writing, Exists
<1> QED BY <1>1, <1>2, <1>5, GoesOn

LEMMA DeleteVariant == ASSUME InVariant, UNCHANGED scene, NEW p \in Proc, V!Delete(p)
                       PROVE  FilesInv' /\ VariantInv'
<1>0. Paths' = Paths
  BY SamePaths
<1>1. /\ V!Begin(p, "delete") /\ "delete" \in Names /\ clean' = FALSE
      /\ UNCHANGED <<io, files, dir, tmps, trouble, creates, which, left>>
  BY DEF V!Delete, V!SameFiles, Names
<1>2. /\ pc[p] = "idle" /\ Goto(p, "delete")
      /\ pc' \in [Proc -> Names] /\ pc'[p] = "delete"
      /\ \A q \in Proc \ {p} : pc'[q] = pc[q]
      /\ Alone' /\ calm' \in [Proc -> BOOLEAN]
      /\ \A q \in Proc \ {p} : ~ (calm'[q] /\ Busy(q)')
  BY <1>1, BeginVariant DEF InVariant
<1>3. FilesInv'
  <2>1. NothingTorn(p) /\ "delete" \in Names \ {"write"}
    BY <1>1, <1>2 DEF NothingTorn
  <2> QED BY <1>1, <1>2, <2>1, GoFiles DEF InVariant, FilesInv, FileTypes
<1>4. VariantTypes'
  BY <1>0, <1>1, <1>2 DEF InVariant, VariantInv, VariantTypes
<1>5. Cleaned'
  BY <1>1 DEF Cleaned
<1>6. Command(p)'
  BY <1>1, <1>2 DEF Command, Owned, Closing, Writing
<1> QED BY <1>2, <1>3, <1>4, <1>5, <1>6 DEF VariantInv

LEMMA DeleteEntryVariant == ASSUME InVariant, UNCHANGED scene, NEW p \in Proc, V!DeleteEntry(p)
                            PROVE  FilesInv' /\ VariantInv'
<1>0. Paths = {"scheme", "conf", "b", "index", "outcome"} /\ Paths = V!Paths /\ Paths' = Paths
  BY VariantPaths, SamePaths DEF InVariant
<1>1. /\ pc[p] = "delete" /\ Busy(p) /\ ~ clean
      /\ UNCHANGED <<io, dir, trouble, creates, which, left, calm, clean>>
  BY DEF V!DeleteEntry, V!variantVars, Busy, InVariant, VariantInv, Cleaned
<1>2. CASE Goto(p, "exit") /\ UNCHANGED <<files, tmps>>
  <2>1. "exit" \in Names \ {"write", "delete"}
    BY DEF Names
  <2>2. ~ Busy(p)'
    BY <1>2, GotoStep, <2>1 DEF Busy, InVariant, FilesInv, FileTypes
  <2> QED BY <1>1, <1>2, <2>1, <2>2, GoesOn
<1>3. ASSUME UNCHANGED pc, files' \in [Paths -> AFile], tmps' \in [Proc -> BOOLEAN],
             \A path \in Paths : files'[path] = files[path] \/ files'[path].val = Absent,
             \A q \in Proc : tmps'[q] => tmps[q]
      PROVE  FilesInv' /\ VariantInv'
  <2>1. FilesInv'
    <3>1. FileTypes' /\ Writes' /\ TmpsAreOpen'
      BY <1>0, <1>1, <1>3 DEF InVariant, FilesInv, FileTypes, Writes, TmpsAreOpen, At
    <3>2. TornAreOpen'
      BY <1>0, <1>1, <1>3, Contents DEF InVariant, FilesInv, TornAreOpen, Closing, Writing
    <3>3. Alone'
      BY <1>1, <1>3, AloneKept DEF InVariant, FilesInv, Busy
    <3> QED BY <3>1, <3>2, <3>3 DEF FilesInv
  <2>2. VariantTypes'
    BY <1>0, <1>1, <1>3 DEF InVariant, VariantInv, VariantTypes
  <2>3. Cleaned'
    BY <1>1 DEF Cleaned
  <2>4. Command(p)'
    BY <1>1, <1>3 DEF Command, Owned, Closing, Writing
  <2>5. \A q \in Proc : (calm[q] /\ Busy(q) => Command(q))'
    BY <1>1, <1>3, <2>4, TheCommand DEF InVariant, FilesInv
  <2> QED BY <2>1, <2>2, <2>3, <2>5 DEF VariantInv
<1>4. ASSUME NEW path \in Paths, files' = [files EXCEPT ![path] = NoFile], UNCHANGED <<pc, tmps>>
      PROVE  FilesInv' /\ VariantInv'
  <2>1. NoFile \in AFile /\ NoFile.val = Absent
    BY RecordRange, ContentRange DEF NoFile, File, NoProc
  <2>2. /\ files' \in [Paths -> AFile]
        /\ \A x \in Paths : files'[x] = files[x] \/ files'[x].val = Absent
    BY <1>4, <2>1 DEF InVariant, FilesInv, FileTypes
  <2>3. tmps' \in [Proc -> BOOLEAN]
    BY <1>4 DEF InVariant, FilesInv, FileTypes
  <2> QED BY <1>3, <1>4, <2>2, <2>3
<1>5. ASSUME NEW q \in Proc, tmps' = [tmps EXCEPT ![q] = FALSE], UNCHANGED <<pc, files>>
      PROVE  FilesInv' /\ VariantInv'
  <2>1. /\ tmps' \in [Proc -> BOOLEAN] /\ \A r \in Proc : tmps'[r] => tmps[r]
        /\ files' \in [Paths -> AFile]
    BY <1>5 DEF InVariant, FilesInv, FileTypes
  <2> QED BY <1>3, <1>5, <2>1
<1>6. \/ Goto(p, "exit") /\ UNCHANGED <<files, tmps>>
      \/ \E path \in Paths : files' = [files EXCEPT ![path] = NoFile] /\ UNCHANGED <<pc, tmps>>
      \/ \E q \in Proc : tmps' = [tmps EXCEPT ![q] = FALSE] /\ UNCHANGED <<pc, files>>
  BY <1>0 DEF V!DeleteEntry, V!Goto, Goto, V!NoFile, NoFile, V!File, File, V!NoProc, NoProc,
              V!Absent, Absent
<1> QED BY <1>2, <1>4, <1>5, <1>6

LEMMA DeleteEndVariant == ASSUME InVariant, UNCHANGED scene, NEW p \in Proc, V!DeleteEnd(p)
                          PROVE  FilesInv' /\ VariantInv'
<1>0. Paths = {"scheme", "conf", "b", "index", "outcome"} /\ Paths = V!Paths /\ Paths' = Paths
  BY VariantPaths, SamePaths DEF InVariant
<1>1. /\ pc[p] = "delete" /\ Busy(p) /\ Goto(p, "deleted") /\ dir' = FALSE /\ clean' = calm[p]
      /\ \A path \in Paths : ~ Exists(path)
      /\ UNCHANGED <<io, files, tmps, trouble, creates, which, left, calm>>
  BY <1>0, SameContents DEF V!DeleteEnd, V!Goto, Goto, V!Exists, Exists, Busy
<1>2. /\ pc' \in [Proc -> Names] /\ pc'[p] = "deleted"
      /\ \A q \in Proc \ {p} : pc'[q] = pc[q]
  BY <1>1, GotoStep DEF InVariant, FilesInv, FileTypes, Names
<1>3. FilesInv'
  <2>1. NothingTorn(p) /\ "deleted" \in Names \ {"write"}
    BY <1>1 DEF NothingTorn, Names
  <2>2. Alone'
    BY <1>1, <1>2, AloneKept DEF InVariant, FilesInv, Busy
  <2> QED BY <1>1, <2>1, <2>2, GoFiles DEF InVariant, FilesInv, FileTypes
<1>4. VariantTypes'
  <2>1. clean' \in BOOLEAN
    BY <1>1 DEF InVariant, FilesInv, FileTypes
  <2> QED BY <1>0, <1>1, <1>2, <2>1 DEF InVariant, VariantInv, VariantTypes
<1>5. Cleaned'
  <2>1. calm[p] => \A q \in Proc \ {p} : ~ Busy(q)
    BY <1>1 DEF InVariant, FilesInv, Alone
  <2> QED BY <1>0, <1>1, <1>2, <2>1 DEF Cleaned, Busy, Exists, OfBuilds
<1>6. Command(p)'
  BY <1>0, <1>1, <1>2 DEF Command, Owned, Closing, Writing, Exists
<1>7. \A q \in Proc : (calm[q] /\ Busy(q) => Command(q))'
  BY <1>1, <1>2, <1>6, TheCommand DEF InVariant, FilesInv
<1> QED BY <1>3, <1>4, <1>5, <1>7 DEF VariantInv

LEMMA ExitVariant == ASSUME InVariant, UNCHANGED scene, NEW p \in Proc, V!Exit(p)
                     PROVE  FilesInv' /\ VariantInv'
<1>0. Paths = {"scheme", "conf", "b", "index", "outcome"} /\ Paths = V!Paths /\ Paths' = Paths
  BY VariantPaths, SamePaths DEF InVariant
<1>1. /\ pc[p] \in {"created", "wasreset", "deleted", "exit"} /\ Goto(p, "idle")
      /\ which' = [which EXCEPT ![p] = [n |-> 0, preset |-> FALSE]]
      /\ left' = [left EXCEPT ![p] = <<>>] /\ calm' = [calm EXCEPT ![p] = TRUE]
      /\ UNCHANGED <<io, files, dir, tmps, trouble, creates, clean>>
  BY DEF V!Exit, V!SameFiles, V!Goto, Goto
<1>2. /\ pc' \in [Proc -> Names] /\ pc'[p] = "idle"
      /\ \A q \in Proc \ {p} : pc'[q] = pc[q]
  BY <1>1, GotoStep DEF InVariant, FilesInv, FileTypes, Names
<1>3. /\ calm' \in [Proc -> BOOLEAN]
      /\ \A q \in Proc : calm'[q] /\ Busy(q)' => q # p /\ calm[q] /\ Busy(q)
  BY <1>1, <1>2 DEF InVariant, FilesInv, FileTypes, Busy
<1>4. FilesInv'
  <2>1. NothingTorn(p) /\ "idle" \in Names \ {"write"}
    BY <1>1 DEF NothingTorn, Names
  <2>2. Alone'
    BY <1>2, <1>3 DEF InVariant, FilesInv, Alone, Busy
  <2> QED BY <1>1, <1>3, <2>1, <2>2, GoFiles DEF InVariant, FilesInv, FileTypes
<1>5. /\ which' \in [Proc -> [n : Nat, preset : BOOLEAN]]
      /\ \A q \in Proc \ {p} : which'[q] = which[q] /\ left'[q] = left[q]
  BY <1>1 DEF InVariant, VariantInv, VariantTypes
<1>6. left' \in [Proc -> Seq(Paths \ {"scheme"})]
  BY <1>1 DEF InVariant, VariantInv, VariantTypes
<1>7. VariantTypes'
  <2>1. \A q \in Proc : pc'[q] = "write" => q # p /\ pc[q] = "write"
    BY <1>2
  <2> QED BY <1>0, <1>1, <1>5, <1>6, <2>1 DEF InVariant, VariantInv, VariantTypes
<1>8. Cleaned'
  BY <1>1, <1>2 DEF InVariant, VariantInv, Cleaned, Exists
<1>9. \A q \in Proc : (calm[q] /\ Busy(q) => Command(q))'
  <2>1. SUFFICES ASSUME NEW q \in Proc, calm'[q], Busy(q)' PROVE Command(q)'
    OBVIOUS
  <2>2. q # p /\ Command(q)
    BY <1>3, <2>1 DEF InVariant, VariantInv
  <2>3. pc'[q] = pc[q] /\ which'[q] = which[q] /\ left'[q] = left[q]
    BY <1>2, <1>5, <2>2
  <2> QED BY <1>0, <1>1, <2>2, <2>3 DEF Command, Owned, Closing, Writing, Exists
<1> QED BY <1>4, <1>7, <1>8, <1>9 DEF VariantInv

-----------------------------------------------------------------------------
(* The steps of a write in a command on a variant *)

LEMMA VariantWrites == ASSUME InVariant, NEW p \in Proc, pc[p] = "write"
                       PROVE  /\ io[p].err = "exit" /\ Busy(p) /\ io[p].val = Whole(which[p].n)
                              /\ \/ io[p].path = "scheme" /\ io[p].ok = "conf"
                                 \/ io[p].path = "conf" /\ io[p].ok = "created"
BY DEF InVariant, VariantInv, VariantTypes, Busy

SameCommand == UNCHANGED <<scene, creates, which, left, calm, clean>>

\* What a write may do to the files: the one it is of is there afterwards, if
\* it is changed at all.
LEMMA WriteKeepsTypes == ASSUME InVariant, SameCommand, NEW p \in Proc, pc[p] = "write", Moves(p),
                                \/ Continues(p, "rename") \/ Continues(p, "close")
                                \/ pc'[p] \in {"exit", "conf", "created"},
                                \A path \in Paths : \/ files'[path].val = files[path].val
                                                    \/ path = io[p].path /\ files'[path].val # Absent
                         PROVE  VariantTypes' /\ Cleaned'
<1>0. Paths = {"scheme", "conf", "b", "index", "outcome"} /\ Paths' = Paths
  BY VariantPaths, SamePaths DEF InVariant, SameCommand
<1>1. VariantTypes'
  <2>1. \A q \in Proc : pc'[q] = "write" =>
          /\ pc[q] = "write" /\ io'[q].val = io[q].val /\ io'[q].err = io[q].err
          /\ io'[q].path = io[q].path /\ io'[q].ok = io[q].ok
    BY DEF Moves, Continues
  <2>2. \A q \in Proc : pc'[q] = "write" =>
          /\ io'[q].val = Whole(which'[q].n) /\ io'[q].err = "exit"
          /\ \/ io'[q].path = "scheme" /\ io'[q].ok = "conf"
             \/ io'[q].path = "conf" /\ io'[q].ok = "created"
    BY <2>1, VariantWrites DEF SameCommand
  <2>3. UNCHANGED <<creates, which, left, clean>>
    BY DEF SameCommand
  <2> QED BY <1>0, <2>2, <2>3 DEF InVariant, VariantInv, VariantTypes
<1>2. \A path \in OfBuilds : files'[path].val = files[path].val
  BY <1>0, VariantWrites DEF OfBuilds
<1>3. files'["scheme"].val = Absent => files["scheme"].val = Absent
  BY <1>0
<1>4. \A q \in Proc : pc'[q] = "delete" => pc[q] = "delete"
  BY DEF Moves, Continues
<1> QED BY <1>1, <1>2, <1>3, <1>4 DEF InVariant, VariantInv, Cleaned, SameCommand, Exists

LEMMA OutputVariant == ASSUME InVariant, SameCommand, NEW p \in Proc, Output(p) PROVE VariantInv'
<1>1. /\ At(p, "open") /\ Moves(p) /\ files' = files
      /\ Continues(p, "rename") \/ pc'[p] = io[p].err
  BY OutputStep DEF InVariant
<1>2. io[p].err = "exit" /\ Busy(p) /\ pc[p] = "write"
  BY <1>1, VariantWrites DEF At
<1>3. VariantTypes' /\ Cleaned'
  BY <1>1, <1>2, WriteKeepsTypes
<1>4. \A q \in Proc : (calm[q] /\ Busy(q) => Command(q))'
  <2>1. CASE Continues(p, "rename")
    <3>1. ASSUME calm[p] PROVE Command(p)'
      BY <1>1, <1>2, <2>1, <3>1
         DEF InVariant, VariantInv, Command, Owned, Closing, Writing, Continues, Exists, SameCommand
    <3> QED BY <1>1, <1>2, <3>1, TheCommand DEF InVariant, FilesInv, Moves, SameCommand
  <2>2. CASE pc'[p] = io[p].err
    BY <1>1, <1>2, <2>2, EndsSetup, TheCommand DEF InVariant, FilesInv, Moves, SameCommand
  <2> QED BY <1>1, <2>1, <2>2
<1> QED BY <1>3, <1>4 DEF VariantInv

LEMMA RenameVariant == ASSUME InVariant, SameCommand, NEW p \in Proc, Rename(p) PROVE VariantInv'
<1>0. Paths = {"scheme", "conf", "b", "index", "outcome"} /\ Paths' = Paths
  BY VariantPaths, SamePaths DEF InVariant, SameCommand
<1>1. /\ At(p, "rename") /\ Moves(p)
      /\ \/ Continues(p, "close") /\ Puts(io[p].path, File(Torn, p))
         \/ pc'[p] = io[p].err /\ files' = files
  BY RenameStep DEF InVariant
<1>2. io[p].err = "exit" /\ Busy(p) /\ pc[p] = "write" /\ io[p].path \in {"scheme", "conf"}
  BY <1>1, VariantWrites DEF At
<1>3. \A path \in Paths : \/ files'[path].val = files[path].val
                          \/ path = io[p].path /\ files'[path].val # Absent
  BY <1>1, Contents DEF Puts, File
<1>4. VariantTypes' /\ Cleaned'
  BY <1>1, <1>2, <1>3, WriteKeepsTypes
<1>5. \A q \in Proc : (calm[q] /\ Busy(q) => Command(q))'
  <2>1. CASE Continues(p, "close") /\ Puts(io[p].path, File(Torn, p))
    <3>1. ASSUME calm[p] PROVE Command(p)'
      <4>1. Command(p)
        BY <1>2, <3>1 DEF InVariant, VariantInv
      <4>2. Owned(p)'
        BY <1>0, <2>1 DEF Owned, Closing, Writing, Continues, Puts, File
      <4>3. \A path \in OfBuilds : files'[path] = files[path]
        BY <1>0, <1>2, <2>1 DEF Puts, OfBuilds
      <4>4. Writing(p, "conf") => files'["scheme"] = files["scheme"]
        BY <1>0, <2>1 DEF Puts, Writing
      <4> QED BY <1>2, <2>1, <4>1, <4>2, <4>3, <4>4
              DEF Command, Writing, Continues, Exists, SameCommand
    <3> QED BY <1>1, <1>2, <3>1, TheCommand DEF InVariant, FilesInv, Moves, SameCommand
  <2>2. CASE pc'[p] = io[p].err
    BY <1>1, <1>2, <2>2, EndsSetup, TheCommand DEF InVariant, FilesInv, Moves, SameCommand
  <2> QED BY <1>1, <2>1, <2>2
<1> QED BY <1>4, <1>5 DEF VariantInv

LEMMA CloseVariant == ASSUME InVariant, SameCommand, NEW p \in Proc, Close(p) PROVE VariantInv'
<1>0. Paths = {"scheme", "conf", "b", "index", "outcome"} /\ Paths' = Paths
  BY VariantPaths, SamePaths DEF InVariant, SameCommand
<1>1. /\ At(p, "close") /\ Moves(p)
      /\ \/ /\ pc'[p] = io[p].ok
            /\ IF files[io[p].path].by = p
               THEN Puts(io[p].path, File(io[p].val, NoProc)) ELSE files' = files
         \/ /\ pc'[p] = io[p].err
            /\ \E f \in AFile : f.val = files[io[p].path].val /\ Puts(io[p].path, f)
  BY CloseStep DEF InVariant
<1>2. /\ io[p].err = "exit" /\ Busy(p) /\ pc[p] = "write" /\ io[p].val = Whole(which[p].n)
      /\ \/ io[p].path = "scheme" /\ io[p].ok = "conf"
         \/ io[p].path = "conf" /\ io[p].ok = "created"
  BY <1>1, VariantWrites DEF At
<1>3. \A path \in Paths : \/ files'[path].val = files[path].val
                          \/ path = io[p].path /\ files'[path].val # Absent
  BY <1>1, <1>2, Contents DEF Puts, File
<1>4. VariantTypes' /\ Cleaned'
  BY <1>1, <1>2, <1>3, WriteKeepsTypes
<1>5. \A q \in Proc : (calm[q] /\ Busy(q) => Command(q))'
  <2>1. CASE /\ pc'[p] = io[p].ok
             /\ IF files[io[p].path].by = p
                THEN Puts(io[p].path, File(io[p].val, NoProc)) ELSE files' = files
    <3>1. ASSUME calm[p] PROVE Command(p)'
      <4>1. Command(p)
        BY <1>2, <3>1 DEF InVariant, VariantInv
      <4>2. files[io[p].path].by = p
        BY <1>0, <1>1, <1>2, <4>1 DEF Command, Owned, Closing, Writing, At
      <4>3. /\ files'[io[p].path].val = Whole(which[p].n)
            /\ \A path \in Paths \ {io[p].path} : files'[path] = files[path]
        BY <1>2, <2>1, <4>2 DEF Puts, File
      <4>4. \A path \in OfBuilds : files'[path] = files[path]
        BY <1>0, <1>2, <4>3 DEF OfBuilds
      <4>5. Writing(p, "conf") => files'["scheme"] = files["scheme"]
        BY <1>0, <4>3 DEF Writing
      <4> QED BY <1>0, <1>2, <2>1, <4>1, <4>3, <4>4, <4>5
              DEF Command, Writing, Closing, Owned, Exists, SameCommand
    <3> QED BY <1>1, <1>2, <3>1, TheCommand DEF InVariant, FilesInv, Moves, SameCommand
  <2>2. CASE pc'[p] = io[p].err
    BY <1>1, <1>2, <2>2, EndsSetup, TheCommand DEF InVariant, FilesInv, Moves, SameCommand
  <2> QED BY <1>1, <2>1, <2>2
<1> QED BY <1>4, <1>5 DEF VariantInv

LEMMA KillVariant == ASSUME InVariant, SameCommand, NEW p \in Proc, Kill(p) PROVE VariantInv'
<1>0. Paths = {"scheme", "conf", "b", "index", "outcome"} /\ Paths' = Paths
  BY VariantPaths, SamePaths DEF InVariant, SameCommand
<1>1. /\ Busy(p) /\ Moves(p) /\ pc'[p] = "exit"
      /\ \A path \in Paths : files'[path].val = files[path].val
  BY KillStep DEF InVariant
<1>2. VariantTypes'
  BY <1>0, <1>1 DEF InVariant, VariantInv, VariantTypes, Moves, SameCommand
<1>3. Cleaned'
  BY <1>0, <1>1 DEF InVariant, VariantInv, Cleaned, Exists, OfBuilds, Moves, SameCommand
<1>4. \A q \in Proc : (calm[q] /\ Busy(q) => Command(q))'
  BY <1>1, EndsSetup, TheCommand DEF InVariant, FilesInv, Moves, SameCommand
<1> QED BY <1>2, <1>3, <1>4 DEF VariantInv

LEMMA VariantStepKeeps == ASSUME InVariant, VariantStep PROVE FilesInv' /\ VariantInv'
<1>1. UNCHANGED scene /\ V!NextVariant
  BY DEF VariantStep
<1>2. ASSUME NEW p \in Proc, V!Write(p) \/ V!Kill(p), UNCHANGED V!variantVars
      PROVE  FilesInv' /\ VariantInv'
  <2>1. (Write(p) \/ Kill(p)) /\ SameCommand
    BY <1>1, <1>2, SameWrites DEF V!variantVars, SameCommand
  <2>2. FilesInv'
    BY <2>1, WriteFiles DEF InVariant, SameCommand
  <2>3. VariantInv'
    BY <2>1, OutputVariant, RenameVariant, CloseVariant, KillVariant DEF Write
  <2> QED BY <2>2, <2>3
<1>3. ASSUME NEW p \in Proc,
             V!Create(p) \/ V!CreateExists(p) \/ V!Mkdir(p) \/ V!InitConf(p) \/ V!BuildIn(p)
      PROVE  FilesInv' /\ VariantInv'
  BY <1>1, <1>3, CreateVariant, CreateExistsVariant, MkdirVariant, InitConfVariant, BuildInVariant
<1>4. ASSUME NEW p \in Proc, V!Reset(p) \/ V!ResetPart(p) \/ V!ResetEnd(p)
      PROVE  FilesInv' /\ VariantInv'
  BY <1>1, <1>4, ResetVariant, ResetPartVariant, ResetEndVariant
<1>5. ASSUME NEW p \in Proc, V!Delete(p) \/ V!DeleteEntry(p) \/ V!DeleteEnd(p) \/ V!Exit(p)
      PROVE  FilesInv' /\ VariantInv'
  BY <1>1, <1>5, DeleteVariant, DeleteEntryVariant, DeleteEndVariant, ExitVariant
<1> QED BY <1>1, <1>2, <1>3, <1>4, <1>5 DEF V!NextVariant

-----------------------------------------------------------------------------
(* The theorems *)

LEMMA CommandsInit == Init => IInv
<1> SUFFICES ASSUME Init PROVE IInv
  OBVIOUS
<1>1. /\ pc = [p \in Proc |-> "idle"] /\ io = [p \in Proc |-> NoWrite]
      /\ files = [path \in Paths |-> NoFile] /\ dir = FALSE
      /\ tmps = [p \in Proc |-> FALSE] /\ trouble = FALSE
  BY DEF Init, InitFiles, Paths
<1>2. NoFile \in AFile /\ NoFile.val = Absent
  BY RecordRange, ContentRange DEF NoFile, File, NoProc
<1>3. FilesInv
  <2>1. pc \in [Proc -> Names]
    BY <1>1 DEF Names
  <2>2. calm \in [Proc -> BOOLEAN]
    BY DEF Init, D!InitDriver
  <2>3. FileTypes
    BY <1>1, <1>2, <2>1, <2>2, RecordRange DEF FileTypes
  <2>4. Writes /\ TmpsAreOpen /\ Alone
    BY <1>1 DEF Writes, TmpsAreOpen, Alone, Busy
  <2>5. TornAreOpen
    BY <1>1, <1>2, Contents DEF TornAreOpen
  <2> QED BY <2>3, <2>4, <2>5 DEF FilesInv
<1>4. ASSUME scene = "driver" PROVE DriverInv
  <2>1. files["src"].val = Absent /\ files["stamp"].val = Absent
    BY <1>1, <1>2, <1>4, DriverPaths
  <2>2. now \in Versions /\ seen = [p \in Proc |-> {}] /\ hashed = [p \in Proc |-> FALSE] /\ stamped = TRUE
    BY DEF Init, D!InitDriver, Versions
  <2>3. DriverTypes
    BY <1>1, <2>1, <2>2 DEF DriverTypes
  <2>4. NotStampedYet /\ \A p \in Proc : ~ Busy(p)
    BY <1>1 DEF NotStampedYet, Compiling, Writing, Busy
  <2>5. StampMatches
    BY <2>1, Contents DEF StampMatches
  <2> QED BY <2>3, <2>4, <2>5 DEF DriverInv
<1>5. ASSUME scene = "variant" PROVE VariantInv
  <2>1. \A path \in Paths : files[path].val = Absent
    BY <1>1, <1>2
  <2>2. /\ creates = 0 /\ which = [p \in Proc |-> [n |-> 0, preset |-> FALSE]]
        /\ left = [p \in Proc |-> <<>>] /\ clean = TRUE
    BY DEF Init, V!InitVariant
  <2>3. VariantTypes
    BY <1>1, <2>2 DEF VariantTypes
  <2>4. Cleaned
    BY <1>1, <1>5, <2>1, VariantPaths DEF Cleaned, Exists, OfBuilds
  <2>5. \A p \in Proc : ~ Busy(p)
    BY <1>1 DEF Busy
  <2> QED BY <2>3, <2>4, <2>5 DEF VariantInv
<1> QED BY <1>3, <1>4, <1>5 DEF IInv

LEMMA CommandsStutter == ASSUME IInv, UNCHANGED vars PROVE IInv'
<1>1. /\ UNCHANGED <<pc, io, files, dir, tmps, trouble, scene, calm>>
      /\ UNCHANGED <<now, edits, seen, hashed, stamped, creates, which, left, clean>>
  BY DEF vars, fileVars
<1>2. Paths' = Paths
  BY <1>1, SamePaths
<1>3. FilesInv'
  BY <1>1, <1>2 DEF IInv, FilesInv, FileTypes, Writes, TornAreOpen, TmpsAreOpen, Alone, Closing, Writing,
                    At, Busy
<1>4. scene = "driver" => DriverInv'
  BY <1>1, <1>2 DEF IInv, DriverInv, DriverTypes, Versions, NotStampedYet, StampMatches, Compiling, Writing,
                    Closing, Setup, Is, Owned, Busy
<1>5. scene = "variant" => VariantInv'
  BY <1>1, <1>2 DEF IInv, VariantInv, VariantTypes, Cleaned, Command, Writing, Closing, Owned, Busy, Exists
<1> QED BY <1>1, <1>3, <1>4, <1>5 DEF IInv

LEMMA CommandsNext == IInv /\ [Next]_vars => IInv'
<1> SUFFICES ASSUME IInv, [Next]_vars PROVE IInv'
  OBVIOUS
<1>1. CASE DriverStep
  <2>1. InDriver /\ scene' = "driver"
    BY <1>1 DEF DriverStep, InDriver, IInv
  <2>2. FilesInv' /\ DriverInv'
    BY <1>1, <2>1, DriverStepKeeps
  <2> QED BY <2>1, <2>2 DEF IInv
<1>2. CASE VariantStep
  <2>1. InVariant /\ scene' = "variant"
    BY <1>2 DEF VariantStep, InVariant, IInv
  <2>2. FilesInv' /\ VariantInv'
    BY <1>2, <2>1, VariantStepKeeps
  <2> QED BY <2>1, <2>2 DEF IInv
<1>3. CASE UNCHANGED vars
  BY <1>3, CommandsStutter
<1> QED BY <1>1, <1>2, <1>3 DEF Next

\* The invariant of the commands that write files (b0_os.ml, b0d_driver.ml,
\* b0_variant.ml).
THEOREM CommandsInvariant == Spec => []IInv
BY CommandsInit, CommandsNext, PTL DEF Spec

\* File.write: without a kill or a close that fails, a file is torn only while
\* a write of it, or a compiler, is at work, and no temporary file is left.
THEOREM FilesAreWhole == Spec => []WritesAreWhole
<1>1. IInv => WritesAreWhole
  <2> SUFFICES ASSUME IInv, ~ trouble
               PROVE  /\ \A p \in Proc : tmps[p] => pc[p] = "write"
                      /\ \A path \in DOMAIN files :
                           files[path].val = Torn => \E p \in Proc : files[path].by = p /\ pc[p] # "exit"
    BY DEF WritesAreWhole
  <2>1. DOMAIN files = Paths
    BY DEF IInv, FilesInv, FileTypes
  <2>2. \A p \in Proc : tmps[p] => pc[p] = "write"
    BY DEF IInv, FilesInv, TmpsAreOpen, At
  <2> QED BY <2>1, <2>2 DEF IInv, FilesInv, TornAreOpen, Closing, Writing
<1> QED BY <1>1, CommandsInvariant, PTL

\* instance_setup: what is executed is of the descriptions that were read.
THEOREM ExecutesTheCurrent == Spec => []InstanceIsCurrent
<1>1. IInv => InstanceIsCurrent
  <2> SUFFICES ASSUME IInv, scene = "driver", NEW p \in Proc,
                      pc[p] = "exec", calm[p], stamped \/ ~ hashed[p]
               PROVE  \A v \in seen[p] : files["bin"].val = Whole(v)
    BY SameContents DEF InstanceIsCurrent, D!InstanceIsCurrent
  <2> QED BY DEF IInv, DriverInv, Busy, Setup
<1> QED BY <1>1, CommandsInvariant, PTL

\* create, reset and delete: what a command that was alone reports is done.
THEOREM ReportsAreTrue == Spec => []CommandsAreWhole
<1>1. IInv => CommandsAreWhole
  <2> SUFFICES ASSUME IInv, scene = "variant" PROVE V!CommandsAreWhole
    BY DEF CommandsAreWhole
  <2>0. Paths = {"scheme", "conf", "b", "index", "outcome"} /\ Paths = V!Paths
    BY VariantPaths
  <2>1. ASSUME NEW p \in Proc, calm[p], pc[p] \in {"created", "wasreset", "deleted"}
        PROVE  Command(p)
    BY <2>1 DEF IInv, VariantInv, Busy
  <2>2. \A path \in Paths : V!Exists(path) <=> Exists(path)
    BY SameContents DEF V!Exists, Exists
  <2>3. \A x : V!Whole(x) = Whole(x)
    BY SameContents
  <2>4. Paths \ {"scheme", "conf"} = OfBuilds
    BY <2>0 DEF OfBuilds
  <2>5. ASSUME NEW p \in Proc, calm[p], pc[p] = "created"
        PROVE  /\ files["scheme"].val = Whole(which[p].n)
               /\ which[p].preset => files["conf"].val = Whole(which[p].n)
               /\ clean => \A path \in Paths \ {"scheme", "conf"} : ~ Exists(path)
    BY <2>1, <2>4, <2>5 DEF Command
  <2>6. ASSUME NEW p \in Proc, calm[p], pc[p] = "wasreset"
        PROVE  \A path \in Paths : Exists(path) <=> path = "scheme"
    BY <2>1, <2>6 DEF Command
  <2>7. ASSUME NEW p \in Proc, calm[p], pc[p] = "deleted"
        PROVE  ~ dir /\ \A path \in Paths : ~ Exists(path)
    BY <2>1, <2>7 DEF Command
  <2> QED BY <2>0, <2>2, <2>3, <2>5, <2>6, <2>7 DEF V!CommandsAreWhole
<1> QED BY <1>1, CommandsInvariant, PTL
=============================================================================
