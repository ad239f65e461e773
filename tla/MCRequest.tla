----------------------------- MODULE MCRequest ------------------------------
EXTENDS Request

=============================================================================
