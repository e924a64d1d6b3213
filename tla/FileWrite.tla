----------------------------- MODULE FileWrite -----------------------------
(***************************************************************************)
(* src-std/b0_os.ml, File.write, as the commands of b0 use it: the content *)
(* goes to a temporary file through a channel, which is renamed and then   *)
(* closed.  What the channel has in its buffer is in the file only when it *)
(* is closed: until then the file is torn.                                 *)
(*                                                                         *)
(* A process of b0 does one thing at a time: pc says which, io is the      *)
(* write it is in, if pc is "write".  The module gives the steps of the    *)
(* write to the modules of the commands.                                   *)
(***************************************************************************)
EXTENDS Naturals, FiniteSets

CONSTANT Proc  \* the processes of b0 that run, or ran, on one project

VARIABLES
  pc,       \* Proc -> where the command is, "exit" at its end, "idle" before
  io,       \* Proc -> [path, val, at, ok, err]: the write, and where it returns
  files,    \* path -> [val, by]: the content, and who has it open for writing
  dir,      \* the directory of the files exists
  tmps,     \* Proc -> it left a temporary file
  trouble   \* a process was killed, or a close failed

fileVars == <<pc, io, files, dir, tmps, trouble>>

NoProc == "nobody"
Absent == <<"absent">>
Torn == <<"torn">>
Whole(x) == <<"whole", x>>
File(val, by) == [val |-> val, by |-> by]
NoFile == File(Absent, NoProc)
Exists(path) == files[path].val # Absent

NoWrite == [path |-> "none", val |-> Absent, at |-> "none", ok |-> "exit", err |-> "exit"]

InitFiles(Paths) ==
  /\ pc = [p \in Proc |-> "idle"]
  /\ io = [p \in Proc |-> NoWrite]
  /\ files = [path \in Paths |-> NoFile]
  /\ dir = FALSE
  /\ tmps = [p \in Proc |-> FALSE]
  /\ trouble = FALSE

Goto(p, l) == pc' = [pc EXCEPT ![p] = l]

\* File.write path val, in an action of a command.  It goes on at ok or err.
BeginWrite(p, path, val, ok, err) ==
  /\ Goto(p, "write")
  /\ io' = [io EXCEPT ![p] = [path |-> path, val |-> val, at |-> "open", ok |-> ok, err |-> err]]

At(p, l) == pc[p] = "write" /\ io[p].at = l
Continue(p, l) == io' = [io EXCEPT ![p].at = l] /\ UNCHANGED pc
Return(p, l) == Goto(p, l) /\ io' = [io EXCEPT ![p] = NoWrite]

\* open_tmp: the name is random and the file is new.  Then the output, the
\* buffer may be flushed on the way.  An exception closes and deletes the file.
Output(p) ==
  /\ At(p, "open")
  /\ \/ dir /\ Continue(p, "rename") /\ tmps' = [tmps EXCEPT ![p] = TRUE]
     \/ Return(p, io[p].err) /\ UNCHANGED tmps
  /\ UNCHANGED <<files, dir, trouble>>

\* Mutant: the temporary file of a failed write is left.
RenameKeepsTmp(p) ==
  /\ At(p, "rename")
  /\ \/ /\ dir /\ tmps[p] /\ Continue(p, "close")
        /\ files' = [files EXCEPT ![io[p].path] = File(Torn, p)]
        /\ tmps' = [tmps EXCEPT ![p] = FALSE]
     \/ Return(p, io[p].err) /\ UNCHANGED <<files, tmps>>
  /\ UNCHANGED <<dir, trouble>>

\* The temporary file takes the name, its content is still in the buffer.  If
\* that fails it is closed and deleted.
Rename(p) ==
  /\ At(p, "rename")
  /\ \/ /\ dir /\ tmps[p] /\ Continue(p, "close")
        /\ files' = [files EXCEPT ![io[p].path] = File(Torn, p)]
     \/ Return(p, io[p].err) /\ UNCHANGED files
  /\ tmps' = [tmps EXCEPT ![p] = FALSE]
  /\ UNCHANGED <<dir, trouble>>

\* close_out flushes what is left, to the file that was opened: another process
\* may have put another one in its place.  If that fails the write is an error,
\* the name has the short file.
Close(p) ==
  LET path == io[p].path
      mine == files[path].by = p
  IN  /\ At(p, "close")
      /\ \/ /\ files' = IF mine THEN [files EXCEPT ![path] = File(io[p].val, NoProc)] ELSE files
            /\ Return(p, io[p].ok) /\ UNCHANGED trouble
         \/ /\ files' = IF mine THEN [files EXCEPT ![path].by = NoProc] ELSE files
            /\ Return(p, io[p].err) /\ trouble' = TRUE
      /\ UNCHANGED <<dir, tmps>>

\* A signal ends the process and the one it waits for (the compiler), as from a
\* terminal: at_exit is not run, the buffers are lost.
Kill(p) ==
  /\ pc[p] \notin {"idle", "exit"}
  /\ Return(p, "exit")
  /\ files' = [path \in DOMAIN files |->
                 IF files[path].by = p THEN [files[path] EXCEPT !.by = NoProc] ELSE files[path]]
  /\ trouble' = TRUE
  /\ UNCHANGED <<dir, tmps>>

Write(p) == Output(p) \/ Rename(p) \/ Close(p)

-----------------------------------------------------------------------------
(* Properties *)

\* As long as nothing is killed and no close fails, errors leave whole files and
\* no temporary ones: a file is torn only while the write of it is in progress.
WritesAreWhole ==
  ~ trouble =>
    /\ \A p \in Proc : tmps[p] => pc[p] = "write"
    /\ \A path \in DOMAIN files :
         files[path].val = Torn => \E p \in Proc : files[path].by = p /\ pc[p] # "exit"
=============================================================================
