------------------------------ MODULE Delivery ------------------------------
(***************************************************************************)
(* ReliableMessenger (src/rosetta/delivery.py): the crash-safe, at-most-   *)
(* once outbound lane of Rosetta.  A delivery key names one public message *)
(* (acknowledgement, result, offer, announcement ...).  The messenger asks *)
(* the signer for a nonce, stores the exact signed bytes, and only then    *)
(* posts them; every retry re-posts the stored bytes, and an outcome that  *)
(* is not known is settled by reading the room.                            *)
(*                                                                         *)
(* Each sender is a process with the state database open: the serving      *)
(* pilot, or a second "once" or "activate" command next to it (nothing     *)
(* locks them out of each other).  The only shared state is the table of   *)
(* deliveries, the signer's nonce lanes and the rooms of the server.       *)
(*                                                                         *)
(* The server (Technocore) is external: it is modelled from the vendored   *)
(* store and from what the client in src/rosetta expects of it.  There is  *)
(* one signing identity, so a record stands for its DID and signature.     *)
(***************************************************************************)
EXTENDS Integers, FiniteSets

CONSTANTS
  Senders,      \* processes that share the state database
  Keys,         \* delivery keys
  Actors,       \* actor labels a caller passes
  Rooms,        \* public rooms
  Texts,        \* canonical message bodies
  Calls,        \* the send_text calls the callers may make
  NoCall,       \* no call in progress
  NoRow,        \* no row in outbound_deliveries
  ReplayStatus, \* HTTP status of a refused nonce (400 in the vendored server)
  ViaEgress,    \* is the target reached through the egress sidecar?
  Gates,        \* the sets of components the operational gate may let through
  ReadLimit,    \* records a reconciling read returns (200)
  MaxNonce,     \* largest nonce the signer issues
  MaxSeq,       \* bound: records a room takes in one generation
  MaxGen,       \* bound: generations of a room
  MaxFlight     \* bound: requests on the wire at once

CallRecords == [key : Keys, actor : Actors, room : Rooms, text : Texts]

\* Faulty variant of ReconcileStatuses: a conflict is not reconciled.
ReconcileStatusesNoConflict == {403, 422}

\* The status codes after which send_text reads the room before giving up.
ReconcileStatuses == {403, 409, 422}

\* Statuses the server may answer a write with, whatever its nonce.
RefusalStatuses == {403, 503}

\* The components send_text and the signer client ask the gate for.
Components == {"public_writer", "signer"}

\* A row of the table outbound_deliveries.
Rows == [actor : Actors, room : Rooms, nonce : Nat, text : Texts,
         status : {"prepared", "confirmed"}, seq : Nat]

\* A signed message; its key is not part of the bytes, it is carried along to
\* state the properties.
Messages == [key : Keys, room : Rooms, nonce : Nat, text : Texts]

ASSUME CallsAssumption == Calls \subseteq CallRecords /\ NoCall \notin Calls
ASSUME NoRowAssumption == NoRow \notin Rows /\ NoRow \notin Messages
ASSUME BoundsAssumption ==
  /\ ReplayStatus \in {400, 409, 422}
  /\ ViaEgress \in BOOLEAN
  /\ Gates \subseteq SUBSET Components
  /\ ReadLimit \in Nat /\ MaxNonce \in Nat
  /\ MaxSeq \in Nat /\ MaxGen \in Nat /\ MaxFlight \in Nat

VARIABLES
  rows,     \* outbound_deliveries: key -> row or NoRow
  lane,     \* signer's nonce_scopes: room -> last nonce issued
  open,     \* components the operational gate lets through
  pc,       \* where each sender is inside send_text
  call,     \* its arguments
  nonce,    \* its local nonce, from the signer or from the row
  attempt,  \* its loop counter
  seq,      \* its local sequence, from the answer or from the read
  wire,     \* requests whose sender stopped waiting, still under way
  gen,      \* server: generation of each room
  last,     \* server: last sequence number of each room
  recs,     \* server: this identity's records that the room still holds
  landed    \* history: every record the server ever accepted

stored == <<rows, lane>>
local  == <<pc, call, nonce, attempt, seq>>
server == <<gen, last, recs, landed>>
vars   == <<rows, lane, open, pc, call, nonce, attempt, seq, wire,
            gen, last, recs, landed>>

Requests == [msg : Messages, copy : Nat]
Records  == [msg : Messages, gen : Nat, seq : Nat]

Places == {"idle", "sign", "signed", "post", "lost", "reconcile", "found",
           "done", "failed"}

TypeOK ==
  /\ rows \in [Keys -> Rows \cup {NoRow}]
  /\ lane \in [Rooms -> Nat]
  /\ open \subseteq Components
  /\ pc \in [Senders -> Places]
  /\ call \in [Senders -> Calls \cup {NoCall}]
  /\ nonce \in [Senders -> Nat]
  /\ attempt \in [Senders -> {0, 1}]
  /\ seq \in [Senders -> Nat]
  /\ wire \subseteq Requests
  /\ gen \in [Rooms -> Nat]
  /\ last \in [Rooms -> Nat]
  /\ recs \in [Rooms -> SUBSET Records]
  /\ landed \subseteq Records

Init ==
  /\ rows = [k \in Keys |-> NoRow]
  /\ lane = [r \in Rooms |-> 0]
  /\ open = Components
  /\ pc = [s \in Senders |-> "idle"]
  /\ call = [s \in Senders |-> NoCall]
  /\ nonce = [s \in Senders |-> 0]
  /\ attempt = [s \in Senders |-> 0]
  /\ seq = [s \in Senders |-> 0]
  /\ wire = {}
  /\ gen = [r \in Rooms |-> 0]
  /\ last = [r \in Rooms |-> 0]
  /\ recs = [r \in Rooms |-> {}]
  /\ landed = {}

-----------------------------------------------------------------------------
(* Leaving send_text, and the parts of the bytes.                          *)

\* An exception reaches the caller, or the process dies: locals are gone.
Leave(s, place) ==
  /\ pc' = [pc EXCEPT ![s] = place]
  /\ call' = [call EXCEPT ![s] = NoCall]
  /\ nonce' = [nonce EXCEPT ![s] = 0]
  /\ attempt' = [attempt EXCEPT ![s] = 0]
  /\ seq' = [seq EXCEPT ![s] = 0]

Raise(s) == Leave(s, "failed")

Go(s, place) == pc' = [pc EXCEPT ![s] = place]

\* The stored row carries exactly the arguments of the call.
SameBytes(row, c) ==
  row.actor = c.actor /\ row.room = c.room /\ row.text = c.text

Message(s) == [key |-> call[s].key, room |-> call[s].room,
               nonce |-> nonce[s], text |-> call[s].text]

-----------------------------------------------------------------------------
(* The server.  A signed write needs a nonce above the newest one of this  *)
(* DID that the room still holds; nonces rise along a room (NoncesRise),   *)
(* so the newest is the largest.                                           *)

\* Faulty variant of Fresh: the last nonce itself is let through again.
FreshOrEqual(m) == \A r \in recs[m.room] : r.msg.nonce <= m.nonce

Fresh(m) == \A r \in recs[m.room] : r.msg.nonce < m.nonce

Accept(m) ==
  LET rec == [msg |-> m, gen |-> gen[m.room], seq |-> last[m.room] + 1]
  IN  /\ Fresh(m)
      /\ last[m.room] < MaxSeq
      /\ last' = [last EXCEPT ![m.room] = @ + 1]
      /\ recs' = [recs EXCEPT ![m.room] = @ \cup {rec}]
      /\ landed' = landed \cup {rec}
      /\ UNCHANGED gen

\* What a read of the newest ReadLimit records shows of message m.
Matches(m) == {r \in recs[m.room] : /\ r.msg.nonce = m.nonce
                                    /\ r.msg.text = m.text
                                    /\ last[m.room] - ReadLimit < r.seq}

\* Other participants post: sequence numbers move, the read window with them.
PeerPost(r) ==
  /\ last[r] < MaxSeq
  /\ last' = [last EXCEPT ![r] = @ + 1]
  /\ UNCHANGED <<stored, open, local, wire, gen, recs, landed>>

\* The ring is compacted: records up to some sequence number are forgotten.
Compact(r) ==
  /\ \E n \in 1 .. MaxSeq :
       /\ n < last[r]
       /\ recs' = [recs EXCEPT ![r] = {q \in @ : q.seq > n}]
  /\ recs' # recs
  /\ UNCHANGED <<stored, open, local, wire, gen, last, landed>>

\* An idle room is reaped; the next record starts a new generation at 1.
Reap(r) ==
  /\ last[r] > 0
  /\ gen[r] < MaxGen
  /\ gen' = [gen EXCEPT ![r] = @ + 1]
  /\ last' = [last EXCEPT ![r] = 0]
  /\ recs' = [recs EXCEPT ![r] = {}]
  /\ UNCHANGED <<stored, open, local, wire, landed>>

\* A request whose sender gave up waiting still arrives ...
Arrive(q) ==
  /\ Accept(q.msg)
  /\ wire' = wire \ {q}
  /\ UNCHANGED <<stored, open, local>>

\* ... or is refused on arrival, or never arrives.
Vanish(q) ==
  /\ wire' = wire \ {q}
  /\ UNCHANGED <<stored, open, local, server>>

-----------------------------------------------------------------------------
(* send_text, up to the first post.                                        *)

AtRest(s) == pc[s] \in {"idle", "done", "failed"}

Begin(s, c, place, n) ==
  /\ pc' = [pc EXCEPT ![s] = place]
  /\ call' = [call EXCEPT ![s] = c]
  /\ nonce' = [nonce EXCEPT ![s] = n]
  /\ attempt' = [attempt EXCEPT ![s] = 0]
  /\ seq' = [seq EXCEPT ![s] = 0]
  /\ UNCHANGED <<stored, open, wire, server>>

\* Faulty variant of SendText: a confirmed delivery is not compared with the
\* arguments.
SendTextConfirmedAny(s, c) ==
  LET row == rows[c.key] IN
  /\ AtRest(s)
  /\ "public_writer" \in open
  /\ \/ row = NoRow /\ Begin(s, c, "sign", 0)
     \/ /\ row # NoRow
        /\ row.status = "confirmed" \/ SameBytes(row, c)
        /\ Begin(s, c, IF row.status = "confirmed" THEN "done" ELSE "post",
                 row.nonce)

\* gate.require, then the row that is already there decides.
SendText(s, c) ==
  LET row == rows[c.key] IN
  /\ AtRest(s)
  /\ \/ /\ "public_writer" \notin open \/ (row # NoRow /\ ~SameBytes(row, c))
        /\ Raise(s)
        /\ UNCHANGED <<stored, open, wire, server>>
     \/ /\ "public_writer" \in open
        /\ row = NoRow
        /\ Begin(s, c, "sign", 0)
     \/ /\ "public_writer" \in open
        /\ row # NoRow
        /\ SameBytes(row, c)
        /\ Begin(s, c, IF row.status = "confirmed" THEN "done" ELSE "post",
                 row.nonce)

\* Faulty variant of Sign: the bytes are posted without being stored.
SignAndPost(s) ==
  LET r == call[s].room IN
  /\ pc[s] = "sign"
  /\ lane[r] < MaxNonce
  /\ lane' = [lane EXCEPT ![r] = @ + 1]
  /\ nonce' = [nonce EXCEPT ![s] = lane[r] + 1]
  /\ Go(s, "post")
  /\ UNCHANGED <<rows, call, attempt, seq, open, wire, server>>

\* GuardedSigner and the nonce store: the lane of the room is bumped and
\* committed before the signature exists.
Sign(s) ==
  LET r == call[s].room IN
  /\ pc[s] = "sign"
  /\ \/ /\ "signer" \in open
        /\ lane[r] < MaxNonce
        /\ lane' = [lane EXCEPT ![r] = @ + 1]
        /\ nonce' = [nonce EXCEPT ![s] = lane[r] + 1]
        /\ Go(s, "signed")
        /\ UNCHANGED <<rows, call, attempt, seq>>
     \/ /\ "signer" \notin open \/ lane[r] >= MaxNonce
        /\ Raise(s)
        /\ UNCHANGED stored
  /\ UNCHANGED <<open, wire, server>>

\* Faulty variant of PrepareDelivery: INSERT OR REPLACE.
PrepareOrReplace(s) ==
  LET c == call[s] IN
  /\ pc[s] = "signed"
  /\ rows' = [rows EXCEPT ![c.key] =
       [actor |-> c.actor, room |-> c.room, nonce |-> nonce[s],
        text |-> c.text, status |-> "prepared", seq |-> 0]]
  /\ Go(s, "post")
  /\ UNCHANGED <<lane, call, nonce, attempt, seq, open, wire, server>>

\* The INSERT: delivery_key is the primary key, a second row is an error.
PrepareDelivery(s) ==
  LET c == call[s] IN
  /\ pc[s] = "signed"
  /\ \/ /\ rows[c.key] = NoRow
        /\ rows' = [rows EXCEPT ![c.key] =
             [actor |-> c.actor, room |-> c.room, nonce |-> nonce[s],
              text |-> c.text, status |-> "prepared", seq |-> 0]]
        /\ Go(s, "post")
        /\ UNCHANGED <<lane, call, nonce, attempt, seq>>
     \/ /\ rows[c.key] # NoRow
        /\ Raise(s)
        /\ UNCHANGED stored
  /\ UNCHANGED <<open, wire, server>>

-----------------------------------------------------------------------------
(* post_signed and its outcomes.                                           *)

\* The server accepts and the answer arrives.
PostAccepted(s) ==
  /\ pc[s] = "post"
  /\ Accept(Message(s))
  /\ seq' = [seq EXCEPT ![s] = last[call[s].room] + 1]
  /\ Go(s, "found")
  /\ UNCHANGED <<stored, open, call, nonce, attempt, wire>>

\* The server accepts, but the answer fails the client's validation (502).
PostAnswerRejected(s) ==
  /\ pc[s] = "post"
  /\ Accept(Message(s))
  /\ Raise(s)
  /\ UNCHANGED <<stored, open, wire>>

\* A refusal: some statuses are reconciled, all others reach the caller.
Refusal(s, status) ==
  /\ pc[s] = "post"
  /\ \/ /\ status \in ReconcileStatuses
        /\ Go(s, "reconcile")
        /\ UNCHANGED <<call, nonce, attempt, seq>>
     \/ /\ status \notin ReconcileStatuses
        /\ Raise(s)
  /\ UNCHANGED <<stored, open, wire, server>>

\* The nonce is not above the last one: the bytes, or later ones, are there.
PostReplayed(s) == Refusal(s, ReplayStatus) /\ ~Fresh(Message(s))

PostRefused(s) == \E status \in RefusalStatuses : Refusal(s, status)

\* Faulty variant of PostRateLimited: it retries for ever.
RateLimitedForever(s) ==
  /\ pc[s] = "post"
  /\ attempt' = [attempt EXCEPT ![s] = @ + 1]
  /\ UNCHANGED <<pc, call, nonce, seq, stored, open, wire, server>>

\* 429: one bounded retry when Retry-After is short, on the first attempt.
PostRateLimited(s) ==
  /\ pc[s] = "post"
  /\ \/ /\ attempt[s] = 0
        /\ attempt' = [attempt EXCEPT ![s] = 1]
        /\ UNCHANGED <<pc, call, nonce, seq>>
     \/ Raise(s)
  /\ UNCHANGED <<stored, open, wire, server>>

OnWire(m) ==
  \E n \in 1 .. MaxFlight :
    /\ \A q \in wire : q.copy # n
    /\ wire' = wire \cup {[msg |-> m, copy |-> n]}

\* The connection to the target is lost: httpx.RequestError.
PostLost(s) ==
  /\ pc[s] = "post"
  /\ OnWire(Message(s))
  /\ Go(s, "lost")
  /\ UNCHANGED <<stored, open, call, nonce, attempt, seq, server>>

\* The sidecar lost its own connection: it answers 502, an ordinary refusal.
PostLostBehindEgress(s) ==
  /\ ViaEgress
  /\ pc[s] = "post"
  /\ OnWire(Message(s))
  /\ Raise(s)
  /\ UNCHANGED <<stored, open, server>>

\* post_signed's own reading after a lost connection.  Not finding the
\* record, or failing to read, is an UncertainWrite.
ClientReconcile(s) ==
  /\ pc[s] = "lost"
  /\ \/ \E r \in Matches(Message(s)) :
          /\ seq' = [seq EXCEPT ![s] = r.seq]
          /\ Go(s, "found")
     \/ /\ Go(s, "reconcile")
        /\ UNCHANGED seq
  /\ UNCHANGED <<stored, open, call, nonce, attempt, wire, server>>

\* The messenger's reading after an UncertainWrite or a replay refusal.
ReconcileFound(s) ==
  /\ pc[s] = "reconcile"
  /\ \E r \in Matches(Message(s)) : seq' = [seq EXCEPT ![s] = r.seq]
  /\ Go(s, "found")
  /\ UNCHANGED <<stored, open, call, nonce, attempt, wire, server>>

\* The record is not shown, or the read itself fails.
ReconcileFailed(s) ==
  /\ pc[s] = "reconcile"
  /\ Raise(s)
  /\ UNCHANGED <<stored, open, wire, server>>

ConfirmDelivery(s) ==
  /\ pc[s] = "found"
  /\ rows' = [rows EXCEPT ![call[s].key].status = "confirmed",
                          ![call[s].key].seq = seq[s]]
  /\ Go(s, "done")
  /\ UNCHANGED <<lane, open, call, nonce, attempt, seq, wire, server>>

-----------------------------------------------------------------------------
(* Failures of the process, and the operational gate.                      *)

\* The process dies; a request it was waiting on may still be under way.
Crash(s) ==
  /\ pc[s] # "idle"
  /\ Leave(s, "idle")
  /\ \/ UNCHANGED wire
     \/ pc[s] = "post" /\ OnWire(Message(s))
  /\ UNCHANGED <<stored, open, server>>

\* Kill switch and component quarantine, set and lifted by others.
SetGate(components) ==
  /\ open # components
  /\ open' = components
  /\ UNCHANGED <<stored, local, wire, server>>

SenderStep(s) ==
  \/ \E c \in Calls : SendText(s, c)
  \/ Sign(s)
  \/ PrepareDelivery(s)
  \/ PostAccepted(s)
  \/ PostAnswerRejected(s)
  \/ PostReplayed(s)
  \/ PostRefused(s)
  \/ PostRateLimited(s)
  \/ PostLost(s)
  \/ PostLostBehindEgress(s)
  \/ ClientReconcile(s)
  \/ ReconcileFound(s)
  \/ ReconcileFailed(s)
  \/ ConfirmDelivery(s)

ServerStep ==
  \/ \E r \in Rooms : PeerPost(r) \/ Compact(r) \/ Reap(r)
  \/ \E q \in wire : Arrive(q) \/ Vanish(q)

Next ==
  \/ \E s \in Senders : SenderStep(s) \/ Crash(s)
  \/ ServerStep
  \/ \E components \in Gates : SetGate(components)

Spec == Init /\ [][Next]_vars

-----------------------------------------------------------------------------
(* Safety.                                                                 *)

OnBoard == UNION {recs[r] : r \in Rooms}

\* A record on the server or a request on the wire carries bytes that were
\* stored before the network could see them, and that every retry reused:
\* no key is ever signed a second time (delivery.py, "Persist the exact
\* signed bytes before the network can observe them").
PersistedFirst ==
  \A m \in {r.msg : r \in landed} \cup {q.msg : q \in wire} :
    /\ rows[m.key] # NoRow
    /\ rows[m.key].room = m.room
    /\ rows[m.key].nonce = m.nonce
    /\ rows[m.key].text = m.text

\* Whatever was lost, delayed, repeated or forgotten, the rooms never show
\* two records of one delivery; so the "duplicate_remote_delivery" error of
\* the reconciling read is never raised.
OneCopyPerDelivery ==
  \A a, b \in OnBoard : a.msg.key = b.msg.key => a = b

\* Two deliveries of one room, stored or still in a sender's memory, never
\* share a nonce: a reading by nonce cannot take one for the other.
NoncesDistinct ==
  /\ \A j, k \in Keys :
       /\ j # k /\ rows[j] # NoRow /\ rows[k] # NoRow
       /\ rows[j].room = rows[k].room
       => rows[j].nonce # rows[k].nonce
  /\ \A s \in Senders, k \in Keys :
       /\ pc[s] = "signed" /\ rows[k] # NoRow
       /\ rows[k].room = call[s].room
       => rows[k].nonce # nonce[s]

\* A row says confirmed only with the sequence number at which the server
\* accepted exactly its bytes, in some generation of the room.
ConfirmedLanded ==
  \A k \in Keys :
    rows[k] # NoRow /\ rows[k].status = "confirmed" =>
      \E r \in landed : r.msg.key = k /\ r.seq = rows[k].seq

\* send_text returns only when the caller's own bytes are confirmed: the
\* callers store results and move cursors on the strength of a return.
ReturnedDelivered ==
  \A s \in Senders :
    pc[s] = "done" =>
      LET row == rows[call[s].key] IN
      row # NoRow /\ SameBytes(row, call[s]) /\ row.status = "confirmed"

\* Along a room, later records carry larger nonces (the vendored store's
\* replay rule), also when old requests arrive late.
NoncesRise ==
  \A r \in Rooms : \A a, b \in recs[r] :
    a.seq < b.seq => a.msg.nonce < b.msg.nonce

-----------------------------------------------------------------------------
(* The inductive invariant behind the safety properties.                   *)

\* Places at which send_text holds the bytes of a stored row.
Holding == {"post", "lost", "reconcile", "found", "done"}

\* What a sender has in memory agrees with what is stored and what landed.
SenderAgrees(s) ==
  /\ pc[s] \in {"sign", "signed"} \cup Holding => call[s] \in Calls
  /\ pc[s] = "signed" => nonce[s] <= lane[call[s].room]
  /\ pc[s] \in Holding =>
       /\ rows[call[s].key] # NoRow
       /\ SameBytes(rows[call[s].key], call[s])
       /\ rows[call[s].key].nonce = nonce[s]
  /\ pc[s] = "found" =>
       \E r \in landed : r.msg.key = call[s].key /\ r.seq = seq[s]

SendersAgree == \A s \in Senders : SenderAgrees(s)

\* Two senders never hold the same fresh signature.
SignaturesDistinct ==
  \A s, t \in Senders :
    /\ s # t /\ pc[s] = "signed" /\ pc[t] = "signed"
    /\ call[s].room = call[t].room
    => nonce[s] # nonce[t]

\* The signer's lane is never behind a stored nonce.
LaneAhead ==
  \A k \in Keys : rows[k] # NoRow => rows[k].nonce <= lane[rows[k].room]

\* What a room holds landed there, below its last sequence number, under a
\* nonce of its own.
BoardSound ==
  \A r \in Rooms : \A a \in recs[r] :
    /\ a \in landed /\ a.msg.room = r /\ a.seq <= last[r]
    /\ \A b \in recs[r] : a.msg.nonce = b.msg.nonce => a = b

IndInv ==
  /\ TypeOK
  /\ SendersAgree
  /\ SignaturesDistinct
  /\ LaneAhead
  /\ BoardSound
  /\ PersistedFirst
  /\ NoncesDistinct
  /\ ConfirmedLanded
  /\ ReturnedDelivered
  /\ NoncesRise

-----------------------------------------------------------------------------
(* The promise: an outbox in which each key has one message, shown once.   *)

StoredMessage(k) ==
  [key |-> k, room |-> rows[k].room, nonce |-> rows[k].nonce,
   text |-> rows[k].text]

Chosen  == [k \in Keys |-> IF rows[k] = NoRow THEN NoRow ELSE StoredMessage(k)]
Visible == {k \in Keys : \E r \in OnBoard : r.msg.key = k}
EverShown == {k \in Keys : \E r \in landed : r.msg.key = k}
Acked   == {k \in Keys : rows[k] # NoRow /\ rows[k].status = "confirmed"}

Out == INSTANCE Outbox WITH
  Bytes <- Messages, None <- NoRow, bytes <- Chosen, visible <- Visible,
  shown <- EverShown, acked <- Acked

\* The messenger, its senders, the wire and the server together implement
\* the outbox: every step chooses, shows, forgets or acknowledges one
\* message, or changes nothing a caller or reader can see.
ImplementsOutbox == Out!Spec

-----------------------------------------------------------------------------
(* Liveness.                                                               *)

\* The steps of send_text that need no one else: an await that returns.
Proceed(s) == Sign(s) \/ PrepareDelivery(s) \/ ClientReconcile(s)
              \/ ReconcileFound(s) \/ ReconcileFailed(s)
              \/ ConfirmDelivery(s)
              \/ PostAccepted(s) \/ PostReplayed(s) \/ PostRefused(s)

\* Callers repeat an unfinished call (poll_once), the gate is reopened, and
\* faults are transient: a step that is tried again and again is not
\* interrupted every time.
Fairness ==
  /\ \A s \in Senders : WF_vars(Proceed(s))
  /\ WF_vars(SetGate(Components))
  /\ \A s \in Senders, c \in Calls :
       /\ SF_vars(SendText(s, c) /\ "public_writer" \in open)
       /\ SF_vars(PostReplayed(s) /\ call[s] = c)
       /\ SF_vars(ReconcileFound(s) /\ call[s] = c)
       /\ SF_vars(ConfirmDelivery(s) /\ call[s] = c)

FairSpec == Spec /\ Fairness

Shown(k) ==
  \E r \in OnBoard : r.msg.key = k /\ last[r.msg.room] - ReadLimit < r.seq

Confirmed(k) == rows[k] # NoRow /\ rows[k].status = "confirmed"

\* "Connection loss and duplicate/replay refusals trigger an exact
\* DID+nonce+text read reconciliation" (docs/DECISIONS.md, ADR-054): a
\* delivery that landed is confirmed sooner or later, as long as a read of
\* the room still shows it.
LandedIsConfirmed ==
  \A k \in Keys : Shown(k) ~> (Confirmed(k) \/ ~Shown(k))

=============================================================================
