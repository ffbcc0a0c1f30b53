------------------------------- MODULE Outbox -------------------------------
(***************************************************************************)
(* What the outbound lane promises its callers and its readers, without    *)
(* senders, nonces, retries or a wire.  Each key has at most one message,  *)
(* chosen once.  A reader of the rooms sees at most one copy of it; the    *)
(* server may forget it, after which a delayed copy may show it once more. *)
(* A key is acknowledged only after its message has really been shown.     *)
(***************************************************************************)
CONSTANTS Keys, Bytes, None

VARIABLES
  bytes,    \* key -> the message chosen for it, or None
  visible,  \* keys whose message the rooms show now
  shown,    \* keys whose message the rooms have shown at some time
  acked     \* keys reported as delivered

outboxVars == <<bytes, visible, shown, acked>>

Init ==
  /\ bytes = [k \in Keys |-> None]
  /\ visible = {}
  /\ shown = {}
  /\ acked = {}

\* The message of a key is fixed, once and for all.
Choose(k) ==
  /\ bytes[k] = None
  /\ bytes'[k] \in Bytes
  /\ bytes' = [bytes EXCEPT ![k] = bytes'[k]]
  /\ UNCHANGED <<visible, shown, acked>>

\* The rooms start to show it; they do not show it twice.
Appear(k) ==
  /\ bytes[k] # None
  /\ k \notin visible
  /\ visible' = visible \cup {k}
  /\ shown' = shown \cup {k}
  /\ UNCHANGED <<bytes, acked>>

\* The server forgets some of what it holds.
Forget ==
  /\ visible' \subseteq visible
  /\ UNCHANGED <<bytes, shown, acked>>

\* The sender learns that the message was shown.
Acknowledge(k) ==
  /\ k \in shown
  /\ acked' = acked \cup {k}
  /\ UNCHANGED <<bytes, visible, shown>>

Next ==
  \/ \E k \in Keys : Choose(k) \/ Appear(k) \/ Acknowledge(k)
  \/ Forget

Spec == Init /\ [][Next]_outboxVars
=============================================================================
