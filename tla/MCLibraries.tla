---------------------------- MODULE MCLibraries -----------------------------
EXTENDS Libraries

CONSTANTS u1, u2, u3, u4

\* Five comments; the third is about the library of the first again.
MCUrlOf == <<u1, u2, u1, u3, u4>>

=============================================================================
