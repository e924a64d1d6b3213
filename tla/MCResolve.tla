------------------------------ MODULE MCResolve ------------------------------
(***************************************************************************)
(* All the sets of N blocked operations over a few units and files.        *)
(***************************************************************************)
EXTENDS Resolve

\* An operation awaits a file, reads it and may read another one, and writes at
\* most one (it may be the same); or it awaits one unit (it may be its own).
AtMostOne(S) == {{}} \cup {{x} : x \in S}

ReadShapes ==
  {s \in [unit : Unit, reads : SUBSET File, files : {{f} : f \in File},
          units : {{}}, writes : AtMostOne(File)] :
     s.files \subseteq s.reads}
SyncShapes ==
  [unit : Unit, reads : {{}}, files : {{}}, units : {{u} : u \in Unit}, writes : {{}}]
Shapes == ReadShapes \cup SyncShapes
=============================================================================
