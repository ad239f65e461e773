----------------------------- MODULE MCHistory -----------------------------
(* History on small instances.                                             *)
EXTENDS History

\* Projects and links are only compared with one another.
Symmetric == Permutations(Projects) \cup Permutations(Links)
=============================================================================
