------------------------------ MODULE Variant ------------------------------
(***************************************************************************)
(* src-lib/b0_variant.ml: a variant is a directory with a scheme file, a   *)
(* configuration and what builds leave in it.  b0 creates, resets and      *)
(* deletes it, file after file; several processes may do so at a time.     *)
(*                                                                         *)
(* One variant: those of other names have other directories.  A file of it *)
(* holds the creation it belongs to.                                       *)
(***************************************************************************)
EXTENDS FileWrite, Sequences

CONSTANT MaxCreates  \* bound on the creations

VARIABLES
  creates,  \* the creations so far
  which,    \* Proc -> the creation it is, or the preset it has none of
  left,     \* Proc -> what a reset has left to delete, in order
  calm,     \* Proc -> no other command since it began
  clean     \* the last deletion was complete, and calm

variantVars == <<creates, which, left, calm, clean>>

Paths == {"scheme", "conf", "b", "index", "outcome"}
Parts == <<"b", "conf", "index", "outcome">>

InitVariant ==
  /\ creates = 0
  /\ which = [p \in Proc |-> [n |-> 0, preset |-> FALSE]]
  /\ left = [p \in Proc |-> <<>>]
  /\ calm = [p \in Proc |-> TRUE]
  /\ clean = TRUE

\* The scheme file is what tells a variant from a directory; find gives one
\* whose scheme is known.
VariantExists == Exists("scheme")
Found == dir /\ files["scheme"].val \notin {Absent, Torn}

Busy(p) == pc[p] \notin {"idle", "exit"}
Begin(p, l) ==
  /\ pc[p] = "idle"
  /\ Goto(p, l)
  /\ calm' = [q \in Proc |-> IF q = p THEN \A r \in Proc \ {p} : ~ Busy(r) ELSE calm[q] /\ ~ Busy(q)]

SameFiles == UNCHANGED <<io, files, dir, tmps, trouble>>

\* create: with the preset of a direct scheme that has one, or without.
Create(p) ==
  /\ creates < MaxCreates
  /\ Begin(p, "create")
  /\ creates' = creates + 1
  /\ \E preset \in BOOLEAN : which' = [which EXCEPT ![p] = [n |-> creates + 1, preset |-> preset]]
  /\ SameFiles /\ UNCHANGED <<left, clean>>

\* "Cannot create, it already exists", or an error of the test.
CreateExists(p) ==
  /\ pc[p] = "create"
  /\ \/ Goto(p, "exit")
     \/ ~ VariantExists /\ Goto(p, "mkdir")
  /\ SameFiles /\ UNCHANGED variantVars

\* The directory may be there: a proxy build, or what was left of another one.
Mkdir(p) ==
  /\ pc[p] = "mkdir"
  /\ \/ dir' = TRUE /\ BeginWrite(p, "scheme", Whole(which[p].n), "conf", "exit")
     \/ Goto(p, "exit") /\ UNCHANGED <<io, dir>>
  /\ UNCHANGED <<files, tmps, trouble, variantVars>>

\* init_conf: an error of the environment or of save is one of create.
InitConf(p) ==
  /\ pc[p] = "conf"
  /\ IF which[p].preset
     THEN \/ BeginWrite(p, "conf", Whole(which[p].n), "created", "exit")
          \/ Goto(p, "exit") /\ UNCHANGED io
     ELSE Goto(p, "created") /\ UNCHANGED io
  /\ UNCHANGED <<files, dir, tmps, trouble, variantVars>>

\* A build in the variant.
BuildIn(p) ==
  /\ Begin(p, "idle") /\ Found
  /\ files' = [path \in Paths |->
                 IF path \in {"b", "index", "outcome"}
                 THEN File(files["scheme"].val, NoProc) ELSE files[path]]
  /\ UNCHANGED <<io, dir, tmps, trouble, creates, which, left, clean>>

\* Mutant: the outcome is kept.
ResetKeepsOutcome(p) ==
  /\ dir /\ VariantExists
  /\ Begin(p, "reset")
  /\ left' = [left EXCEPT ![p] = SubSeq(Parts, 1, 3)]
  /\ SameFiles /\ UNCHANGED <<creates, which, clean>>

\* reset, of a variant whose scheme is known or not: the parts in this order,
\* one step each.
Reset(p) ==
  /\ dir /\ VariantExists
  /\ Begin(p, "reset")
  /\ left' = [left EXCEPT ![p] = Parts]
  /\ SameFiles /\ UNCHANGED <<creates, which, clean>>

ResetPart(p) ==
  /\ pc[p] = "reset" /\ left[p] # <<>>
  /\ \/ /\ files' = [files EXCEPT ![Head(left[p])] = NoFile]
        /\ left' = [left EXCEPT ![p] = Tail(@)]
        /\ UNCHANGED pc
     \/ Goto(p, "exit") /\ UNCHANGED <<files, left>>
  /\ UNCHANGED <<io, dir, tmps, trouble, creates, which, calm, clean>>

ResetEnd(p) ==
  /\ pc[p] = "reset" /\ left[p] = <<>>
  /\ Goto(p, "wasreset")
  /\ SameFiles /\ UNCHANGED variantVars

\* delete: of a variant, its scheme known or not.
Delete(p) ==
  /\ dir /\ VariantExists
  /\ Begin(p, "delete")
  /\ clean' = FALSE
  /\ SameFiles /\ UNCHANGED <<creates, which, left>>

\* Dir.delete ~contents:true: the directory is read again until it is empty.
DeleteEntry(p) ==
  /\ pc[p] = "delete"
  /\ \/ /\ \E path \in Paths : Exists(path) /\ files' = [files EXCEPT ![path] = NoFile]
        /\ UNCHANGED <<pc, tmps>>
     \/ /\ \E q \in Proc : tmps[q] /\ tmps' = [tmps EXCEPT ![q] = FALSE]
        /\ UNCHANGED <<pc, files>>
     \/ Goto(p, "exit") /\ UNCHANGED <<files, tmps>>
  /\ UNCHANGED <<io, dir, trouble, variantVars>>

DeleteEnd(p) ==
  /\ pc[p] = "delete"
  /\ (\A path \in Paths : ~ Exists(path)) /\ (\A q \in Proc : ~ tmps[q])
  /\ dir' = FALSE /\ clean' = calm[p] /\ Goto(p, "deleted")
  /\ UNCHANGED <<io, files, tmps, trouble, creates, which, left, calm>>

\* The command reports, or ends with an error or a signal.
Exit(p) ==
  /\ pc[p] \in {"created", "wasreset", "deleted", "exit"}
  /\ Goto(p, "idle")
  /\ which' = [which EXCEPT ![p] = [n |-> 0, preset |-> FALSE]]
  /\ left' = [left EXCEPT ![p] = <<>>]
  /\ calm' = [calm EXCEPT ![p] = TRUE]
  /\ SameFiles /\ UNCHANGED <<creates, clean>>

NextVariant ==
  \E p \in Proc :
    \/ (Write(p) \/ Kill(p)) /\ UNCHANGED variantVars
    \/ Create(p) \/ CreateExists(p) \/ Mkdir(p) \/ InitConf(p) \/ BuildIn(p)
    \/ Reset(p) \/ ResetPart(p) \/ ResetEnd(p)
    \/ Delete(p) \/ DeleteEntry(p) \/ DeleteEnd(p) \/ Exit(p)

-----------------------------------------------------------------------------
(* Properties *)

\* A command that reports success, with no other one at work, has done all of
\* it: what is created has its scheme and preset and nothing of a variant that
\* was deleted before, if that deletion was not interrupted; what is reset has
\* its scheme only; of what is deleted nothing is left.
CommandsAreWhole ==
  \A p \in Proc : calm[p] =>
    /\ pc[p] = "created" =>
         /\ files["scheme"].val = Whole(which[p].n)
         /\ which[p].preset => files["conf"].val = Whole(which[p].n)
         /\ clean => \A path \in Paths \ {"scheme", "conf"} : ~ Exists(path)
    /\ pc[p] = "wasreset" => \A path \in Paths : Exists(path) <=> path = "scheme"
    /\ pc[p] = "deleted" => ~ dir /\ \A path \in Paths : ~ Exists(path)
=============================================================================
