------------------------------ MODULE MCPilot ------------------------------
(* Small instances of Pilot for TLC.                                       *)
EXTENDS Pilot

CONSTANTS q1, q2, d1, d2, c1, c2

\* One request, repeated, rewritten and mixed with junk.
OneRequest == {<<q1, c1>>, <<q1, c2>>, <<q1, Junk>>}

\* Two requests, each with one body.
TwoRequests == {<<q1, c1>>, <<q2, c1>>}

Owners == [r \in Requests |-> IF r = q1 THEN d1 ELSE d2]

\* Every request expires at the second tick.
SoonExpired == [r \in Requests |-> 2]

\* Every request expires at the first tick.
ExpiredNext == [r \in Requests |-> 1]
=============================================================================
