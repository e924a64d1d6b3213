------------------------------ MODULE MCCache ------------------------------
(***************************************************************************)
(* The cache of a build: an operation with two writes, and one that reads  *)
(* the first of them.  Or a cache directory (CacheTrim): two runs of       *)
(* bzsize on up to three files.  A behaviour has one or the other, for in  *)
(* the first bzsize is the action Delete and in the second a build is Put  *)
(* and Relink.                                                             *)
(***************************************************************************)
EXTENDS Cache, TLC

CONSTANTS a, b, s, x, y, z, Proc, NoSize, Listing, Size, Atime, Options, Scenes

VARIABLES scene, cache, linked, opts, pc, todo, found, current, budget, listed, alone

bzsizeVars == <<cache, linked, opts, pc, todo, found, current, budget, listed, alone>>

Bz == INSTANCE CacheTrim

ASSUME FilesAssumption == Bz!FilesOfCache
ASSUME LinesAssumption == Bz!CommandLines

ReadsOf == (a :> {s}) @@ (b :> {x})
WritesOf == (a :> <<x, y>>) @@ (b :> <<z>>)

Met(exdev, faults) == [exdev |-> exdev, faults |-> faults]

\* Builds that end anyhow, and each error midway, linking and copying.
Settings ==
  {Met(FALSE, {"crash", "evict"}), Met(TRUE, {"crash"}),
   Met(FALSE, {"edit"}), Met(FALSE, {"put"}), Met(TRUE, {"torn"})}

\* A build is interrupted; the cache can be linked to.
Interrupted == {Met(FALSE, {"crash"})}

\* Three files, two of the same size.
Names == <<x, y, z>>
Sizes == (x :> 1) @@ (y :> 3) @@ (z :> 3)
Atimes == (x :> 2) @@ (y :> 1) @@ (z :> 3)

Line(unused, pct, bytes) == [unused |-> unused, pct |-> pct, bytes |-> bytes]

\* bzsize -t, bzsize -u, and bzsize -u -p 80 -m 4.
CommandLinesTried ==
  {Line(FALSE, 50, NoSize), Line(TRUE, 100, NoSize), Line(TRUE, 80, 4)}

\* A directory of 29 bytes, and bzsize -m 1.
SmallNames == <<x, y>>
SmallSizes == (x :> 20) @@ (y :> 9)
AtMostOneMB == {Line(FALSE, 100, 1000000)}

-----------------------------------------------------------------------------
MCInit ==
  /\ scene \in Scenes
  /\ Init /\ Bz!Init
  /\ scene = "bzsize" => setting = Met(FALSE, {"edit"})

BuildStep == scene = "build" /\ Next /\ UNCHANGED <<scene, bzsizeVars>>
BzsizeStep == scene = "bzsize" /\ Bz!Next /\ UNCHANGED <<scene, vars>>

MCNext == BuildStep \/ BzsizeStep
MCSpec == MCInit /\ [][MCNext]_<<vars, scene, bzsizeVars>>

\* A run of bzsize that ends leaves what fits (b0_cache.ml:256-272).
TrimmedToBudget == Bz!TrimmedToBudget
\* It deletes in the documented order, and nothing that fits
\* (b0_cache.ml:236-254).
DeletesByPolicy == Bz!DeletesByPolicy
\* A directory within the size asked for loses nothing (b0_cache.ml:263).
NothingIfItFits == Bz!NothingIfItFits

Symmetry == Permutations(Content) \cup Permutations(Proc)
=============================================================================
