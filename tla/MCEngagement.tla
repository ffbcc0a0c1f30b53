---------------------------- MODULE MCEngagement ----------------------------
(* The two rooms of the configuration, in two scenes: rooms that are recreated *)
(* while one peer asks, over one tick, and two peers asking between polls over *)
(* the reply limits, a change of day and a campaign's end.  Every period of    *)
(* config/ is shortened to a few ticks, so that a run sees it pass.            *)
EXTENDS Engagement

CONSTANTS lobby, meta, p, q

TwoRooms == <<lobby, meta>>

VARIABLE scene

MCInit == scene \in {"rooms", "limits"} /\ Init

PostedBy(author) == \E r \in RoomSet : log'[r] = Append(log[r], author)

\* In the second scene the configuration changes at most once, and it is a
\* reply that fails to be sent.
MCNext ==
  /\ Next
  /\ scene = "rooms" => now' <= 1 /\ (records' # records => ~PostedBy(q))
  /\ scene = "limits" =>
       /\ records' # records => pc = "idle" /\ ~PostedBy(Noise)
       /\ faults' # faults => pc = "reply" /\ UNCHANGED gen
       /\ policy <= policy'
  /\ UNCHANGED scene

MCSpec == MCInit /\ [][MCNext]_<<vars, scene>> /\ WF_vars(Poll)
=============================================================================
