----------------------------- MODULE MCContext -----------------------------
(* Context on small instances.                                             *)
EXTENDS Context
=============================================================================
