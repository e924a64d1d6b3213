----------------------------- MODULE MCCommands -----------------------------
(***************************************************************************)
(* The commands of b0 that write files: the setup of an instance (Driver)  *)
(* and those on a variant (Variant), on the same file system interface.    *)
(* They are in different directories: a behaviour has one or the other.    *)
(***************************************************************************)
EXTENDS FileWrite, Sequences, TLC

CONSTANTS Version, MaxEdits, MaxCreates, Scenes

VARIABLES scene,
          now, edits, seen, hashed, calm, stamped,
          creates, which, left, clean

D == INSTANCE Driver
V == INSTANCE Variant

Init ==
  /\ scene \in Scenes
  /\ InitFiles(IF scene = "driver" THEN D!Paths ELSE V!Paths)
  /\ D!InitDriver /\ V!InitVariant

DriverStep == scene = "driver" /\ D!NextDriver /\ UNCHANGED <<scene, creates, which, left, clean>>
VariantStep ==
  /\ scene = "variant"
  /\ V!NextVariant
  /\ UNCHANGED <<scene, now, edits, seen, hashed, stamped>>

Next == DriverStep \/ VariantStep
vars == <<fileVars, scene, now, edits, seen, hashed, calm, stamped, creates, which, left, clean>>
Spec == Init /\ [][Next]_vars


\* The instance executed is of the descriptions as they were read
\* (b0d_driver.ml, instance_setup).
InstanceIsCurrent == scene = "driver" => D!InstanceIsCurrent

\* A valid stamp is of the instance beside it (b0d_driver.ml:100).
StampIsValid == scene = "driver" => D!StampIsValid

\* A command on a variant that reports success has done all of it
\* (b0_variant.ml).
CommandsAreWhole == scene = "variant" => V!CommandsAreWhole

Symmetry == Permutations(Proc) \cup Permutations(Version)
=============================================================================
