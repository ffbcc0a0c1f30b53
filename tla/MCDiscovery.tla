---------------------------- MODULE MCDiscovery ----------------------------
(* Two scenes, taken one at a time because the two sides of the module meet *)
(* only in the card, the clock and the crashes: the service room over       *)
(* several periods while the discovery room is silent, and the discovery    *)
(* room in the last ticks, with peers who post a query, another of the same *)
(* requester, one that reuses its identifier and an unsigned one.           *)
EXTENDS Discovery

CONSTANTS d, e,
  LastTicks   \* ticks the second scene takes

Query(did, id, body, expires, signed) ==
  [did |-> did, id |-> id, body |-> body, expires |-> expires, signed |-> signed]
FourQueries == <<Query(d, 1, 1, 35, TRUE), Query(d, 2, 1, 36, TRUE),
                 Query(d, 1, 2, 36, TRUE), Query(e, 1, 1, 36, FALSE)>>

VARIABLE scene

AtTheEnd == INSTANCE Discovery WITH Start <- Start + MaxTime - LastTicks,
                                    MaxTime <- LastTicks

MCInit == \/ scene = "presence" /\ Init
          \/ scene = "queries" /\ AtTheEnd!Init /\ presence.gen = 0

\* In the second scene peers post, and the room is reaped, while a poll is at
\* that room, where it can make a difference, no activation completes, and one
\* step at that room fails.
MCNext ==
  /\ Next
  /\ scene = "presence" => UNCHANGED boardVars
  /\ scene = "queries" =>
       /\ \/ UNCHANGED boardVars
          \/ pc = "read"
          \/ pc = "discovery" /\ board' = <<>>
       /\ pc' # "row" /\ faults' < MaxFaults
       /\ faults' # faults => pc \in {"read", "reread", "discovery"}
  /\ UNCHANGED scene

MCSpec == /\ MCInit /\ [][MCNext]_<<vars, scene>>
          /\ SF_vars(Poll) /\ WF_vars(RecordActivation) /\ SF_vars(Tick)
=============================================================================
