----------------------------- MODULE MCDelivery -----------------------------
(* Small instances of Delivery for TLC.                                    *)
EXTENDS Delivery

CONSTANTS k1, k2, a1, r1, t1, t2

C(k, t) == [key |-> k, actor |-> a1, room |-> r1, text |-> t]

\* Two deliveries with the same text, and a caller that comes back to the
\* first key with other bytes.
MCCalls == {C(k1, t1), C(k2, t1), C(k1, t2)}

\* Two deliveries that are each repeated with the bytes they started with.
StableCalls == {C(k1, t1), C(k2, t2)}

\* The kill switch is on or off.
KillSwitch == {Components, {}}

\* Nothing closes the gate.
AlwaysOpen == {Components}
=============================================================================
