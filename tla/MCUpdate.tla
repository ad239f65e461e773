------------------------------ MODULE MCUpdate ------------------------------
(* Update on small instances.                                              *)
EXTENDS Update
=============================================================================
