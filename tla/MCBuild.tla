------------------------------- MODULE MCBuild -------------------------------
(***************************************************************************)
(* Two units, one file and the operations a build of them may add: see the *)
(* README for the bounds of each configuration.                            *)
(***************************************************************************)
EXTENDS Build, TLC

CONSTANTS u1, u2, f1

Op(reads, writes, units, kont) ==
  [reads |-> reads, writes |-> writes, units |-> units, kont |-> kont]

\* A spawn that writes the file, one that reads it, a read and a mkdir (with a
\* continuation), and the awaiting of a unit.
Shapes ==
  {Op({}, {f1}, {}, FALSE), Op({f1}, {}, {}, FALSE), Op({f1}, {}, {}, TRUE),
   Op({}, {}, {}, TRUE), Op({}, {}, {u1}, TRUE)}

\* Without the file.
FewShapes == {Op({}, {}, {}, FALSE), Op({}, {}, {}, TRUE), Op({}, {}, {u1}, TRUE)}

Files(n) == [tools |-> {}, shapes |-> Shapes, ops |-> n, tmp_fails |-> FALSE]
Few(tools, n) == [tools |-> tools, shapes |-> FewShapes, ops |-> n, tmp_fails |-> FALSE]
TmpFailing(set) == [set EXCEPT !.tmp_fails = TRUE]

\* Three operations over the file; and two, with the first unit as a tool, and
\* when temporary files cannot always be opened.
Settings ==
  "files" :> Files(3) @@ "tool" :> Few({u1}, 2) @@ "tmp" :> TmpFailing(Files(2))
\* Three operations; and with the first unit as a tool.
Stopped == "few" :> Few({}, 3)
Twice == "tool" :> Few({u1}, 3)
=============================================================================
