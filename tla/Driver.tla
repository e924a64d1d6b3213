------------------------------- MODULE Driver -------------------------------
(***************************************************************************)
(* src-driver/b0d_driver.ml, instance_setup, and the compilation of        *)
(* b0d_driver_compile.ml: the descriptions of a project are compiled to a  *)
(* program, the instance, and a stamp of all that it is made of is written *)
(* beside it.  Each run of b0 compares the stamp and executes the instance.*)
(*                                                                         *)
(* A version of the sources stands for the text of the descriptions, and   *)
(* one of the libraries for them and the compiler: both may be edited, and *)
(* the edits undone, while b0 runs.  The stamp of two versions is them.    *)
(***************************************************************************)
EXTENDS FileWrite

CONSTANTS
  Version,   \* the versions of sources and libraries
  MaxEdits   \* bound on the edits

VARIABLES
  now,      \* [src, libs]: the versions now
  edits,
  seen,     \* Proc -> the versions its setup works with, none outside of one
  hashed,   \* Proc -> they have a stamp
  calm,     \* Proc -> no other setup and no edit of libraries since then
  stamped   \* what was last compiled was stamped, by a setup that was calm

driverVars == <<now, edits, seen, hashed, calm, stamped>>

Paths == {"src", "bin", "stamp"}
InSetup(p) == pc[p] \notin {"idle", "exit"}

InitDriver ==
  /\ now \in {[src |-> v, libs |-> v] : v \in Version} /\ edits = 0
  /\ seen = [p \in Proc |-> {}]
  /\ hashed = [p \in Proc |-> FALSE]
  /\ calm = [p \in Proc |-> TRUE]
  /\ stamped = TRUE

\* action: the descriptions are read.  With --trust there is nothing to do.
Start(p) ==
  /\ pc[p] = "idle"
  /\ \/ Goto(p, "hash") /\ seen' = [seen EXCEPT ![p] = {now}]
     \/ Goto(p, "exec") /\ UNCHANGED seen
  /\ calm' = [q \in Proc |->
                IF q = p THEN \A r \in Proc \ {p} : ~ InSetup(r) ELSE calm[q] /\ ~ InSetup(q)]
  /\ UNCHANGED <<io, files, dir, tmps, trouble, now, edits, hashed, stamped>>

\* action_stamp: the libraries and the compiler are hashed, or one cannot be.
ActionStamp(p) ==
  /\ pc[p] = "hash"
  /\ seen' = [seen EXCEPT ![p] = {[v EXCEPT !.libs = now.libs] : v \in seen[p]}]
  /\ \E h \in BOOLEAN : hashed' = [hashed EXCEPT ![p] = h]
  /\ Goto(p, "check")
  /\ UNCHANGED <<io, files, dir, tmps, trouble, now, edits, calm, stamped>>

\* Mutant: a stamp is enough, whatever it is of.
CheckPresent(p) ==
  /\ pc[p] = "check"
  /\ \/ Exists("bin") /\ hashed[p] /\ Exists("stamp") /\ Goto(p, "exec")
     \/ Goto(p, "compile")
  /\ UNCHANGED <<io, files, dir, tmps, trouble, driverVars>>

\* The instance exists and its stamp can be read and is the one of this setup;
\* otherwise, or with --force, the instance is compiled.
Check(p) ==
  /\ pc[p] = "check"
  /\ \/ /\ Exists("bin") /\ hashed[p]
        /\ \E v \in seen[p] : files["stamp"].val = Whole(v)
        /\ Goto(p, "exec")
     \/ Goto(p, "compile")
  /\ UNCHANGED <<io, files, dir, tmps, trouble, driverVars>>

\* compile: the sources are written to the driver directory.
Compile(p) ==
  /\ pc[p] = "compile"
  /\ \/ /\ dir' = TRUE
        /\ \E v \in seen[p] : BeginWrite(p, "src", Whole([src |-> v.src]), "run", "exit")
     \/ Goto(p, "exit") /\ UNCHANGED <<io, dir>>
  /\ UNCHANGED <<files, tmps, trouble, driverVars>>

\* The compiler fails, early or on linking, or writes the instance.
RunCompiler(p) ==
  /\ pc[p] = "run"
  /\ \/ Goto(p, "exit") /\ UNCHANGED <<files, stamped>>
     \/ /\ Goto(p, "exit") /\ files' = [files EXCEPT !["bin"] = NoFile]
        /\ stamped' = FALSE
     \/ /\ files["src"].val \notin {Absent, Torn}
        /\ Goto(p, "link") /\ files' = [files EXCEPT !["bin"] = File(Torn, p)]
        /\ stamped' = FALSE
  /\ UNCHANGED <<io, dir, tmps, trouble, now, edits, seen, hashed, calm>>

\* The instance is linked, of the sources and libraries that are there now.
Link(p) ==
  /\ pc[p] = "link"
  /\ IF files["src"].val \in {Absent, Torn}
     THEN files' = [files EXCEPT !["bin"] = NoFile] /\ Goto(p, "exit")
     ELSE /\ files' = [files EXCEPT !["bin"] =
                         File(Whole([src |-> files["src"].val[2].src, libs |-> now.libs]), NoProc)]
          /\ Goto(p, "stamp")
  /\ UNCHANGED <<io, dir, tmps, trouble, driverVars>>

\* write_stamp.  Without a stamp the old one stays where it is.
WriteStamp(p) ==
  /\ pc[p] = "stamp"
  /\ \/ ~ hashed[p] /\ Goto(p, "exec") /\ UNCHANGED io
     \/ hashed[p] /\ \E v \in seen[p] : BeginWrite(p, "stamp", Whole(v), "stamped", "exit")
  /\ UNCHANGED <<files, dir, tmps, trouble, driverVars>>

Stamped(p) ==
  /\ pc[p] = "stamped"
  /\ Goto(p, "exec")
  /\ stamped' = (stamped \/ calm[p])
  /\ UNCHANGED <<io, files, dir, tmps, trouble, now, edits, seen, hashed, calm>>

\* execv replaces the process.  An error, or a signal, ends it too.
Exit(p) ==
  /\ pc[p] \in {"exec", "exit"}
  /\ Goto(p, "idle")
  /\ seen' = [seen EXCEPT ![p] = {}]
  /\ hashed' = [hashed EXCEPT ![p] = FALSE]
  /\ calm' = [calm EXCEPT ![p] = TRUE]
  /\ UNCHANGED <<io, files, dir, tmps, trouble, now, edits, stamped>>

\* The user edits sources, or updates or edits libraries.
EditSource ==
  /\ edits < MaxEdits
  /\ \E v \in Version \ {now.src} : now' = [now EXCEPT !.src = v]
  /\ edits' = edits + 1
  /\ UNCHANGED <<pc, io, files, dir, tmps, trouble, seen, hashed, calm, stamped>>

EditLibs ==
  /\ edits < MaxEdits
  /\ \E v \in Version \ {now.libs} : now' = [now EXCEPT !.libs = v]
  /\ edits' = edits + 1
  /\ calm' = [p \in Proc |-> calm[p] /\ ~ InSetup(p)]
  /\ UNCHANGED <<pc, io, files, dir, tmps, trouble, seen, hashed, stamped>>

NextDriver ==
  \/ EditSource \/ EditLibs
  \/ \E p \in Proc :
       \/ (Write(p) \/ Kill(p)) /\ UNCHANGED driverVars
       \/ Start(p) \/ ActionStamp(p) \/ Check(p) \/ Compile(p)
       \/ RunCompiler(p) \/ Link(p) \/ WriteStamp(p) \/ Stamped(p) \/ Exit(p)

-----------------------------------------------------------------------------
(* Properties *)

\* What is executed is what the setup was made for, if the last compilation was
\* stamped and no other setup or edit of a library fell into this setup or that
\* one: after kills, errors of any step, hashes that failed, --force and edits
\* of the sources that are undone.
InstanceIsCurrent ==
  \A p \in Proc :
    (pc[p] = "exec" /\ calm[p] /\ (stamped \/ ~ hashed[p]))
      => \A v \in seen[p] : files["bin"].val = Whole(v)

\* action_stamp is "a validity stamp for the driver compilation action"
\* (b0d_driver_compile.mli:25): an instance that is accepted is the current one.
StampIsValid ==
  \A p \in Proc : (pc[p] = "exec" /\ calm[p]) => \A v \in seen[p] : files["bin"].val = Whole(v)
=============================================================================
