------------------------------ MODULE MCProbe ------------------------------
(* A small instance of Probe for TLC.                                      *)
EXTENDS Probe

CONSTANTS a1, a2

\* python-http produces, official-mcp consumes.
TwoAdapters == <<a1, a2>>
=============================================================================
