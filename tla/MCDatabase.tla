----------------------------- MODULE MCDatabase -----------------------------
(* Database on small instances.                                            *)
EXTENDS Database
=============================================================================
