------------------------------ MODULE MCClone -------------------------------
(* Clone on small instances.                                               *)
EXTENDS Clone

\* The program may die once over the framework's clone.  A library's install
\* starts by removing what a death has left.
MCMaxCrashes == [k \in Kinds |-> IF k = "env" THEN 1 ELSE 0]
=============================================================================
