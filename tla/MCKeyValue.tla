----------------------------- MODULE MCKeyValue -----------------------------
(* KeyValue with two keys and two values, one of them the empty string.    *)
EXTENDS KeyValue

\* The rows of the settings table.
KVRows == [key : Keys, value : Values]
=============================================================================
