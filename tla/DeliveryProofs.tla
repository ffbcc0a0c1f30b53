--------------------------- MODULE DeliveryProofs ---------------------------
(***************************************************************************)
(* Proofs about Delivery, for any number of senders, keys, rooms, nonces,  *)
(* generations and requests on the wire, and for every setting of the      *)
(* replay status and the egress sidecar.                                   *)
(***************************************************************************)
EXTENDS Delivery, TLAPS

\* What must be known of sender s, in the new state, for the invariant.
SenderOK(s) ==
  /\ pc[s] \in {"sign", "signed"} \cup Holding => call[s] \in Calls
  /\ pc[s] # "signed"
  /\ pc[s] \in Holding =>
       /\ rows[call[s].key] # NoRow
       /\ SameBytes(rows[call[s].key], call[s])
       /\ rows[call[s].key].nonce = nonce[s]
  /\ pc[s] = "found" =>
       \E r \in landed : r.msg.key = call[s].key /\ r.seq = seq[s]
  /\ pc[s] = "done" => rows[call[s].key].status = "confirmed"

\* Senders other than s are where they were.
OthersKeep(s) ==
  \A t \in Senders \ {s} :
    /\ pc'[t] = pc[t] /\ call'[t] = call[t] /\ nonce'[t] = nonce[t]
    /\ seq'[t] = seq[t]

\* The stored row of message m holds its bytes.
Stored(m) ==
  /\ rows[m.key] # NoRow
  /\ rows[m.key].room = m.room
  /\ rows[m.key].nonce = m.nonce
  /\ rows[m.key].text = m.text

\* Initially nothing is stored, sent or landed.
LEMMA InitIndInv == Init => IndInv
  BY NoRowAssumption DEF Init, IndInv, TypeOK, SendersAgree, SenderAgrees,
     SignaturesDistinct, LaneAhead, BoardSound, PersistedFirst, NoncesDistinct, ConfirmedLanded,
     ReturnedDelivered, NoncesRise, Places, Holding, Components

\* A step of one sender that leaves the stored state alone, and lets the
\* server at most accept, keeps the invariant if its own new place is sound.
LEMMA SenderStepKeeps ==
  ASSUME IndInv, NEW s \in Senders, OthersKeep(s), TypeOK',
         UNCHANGED <<rows, lane>>, landed \subseteq landed',
         SenderOK(s)', BoardSound', NoncesRise', PersistedFirst'
  PROVE  IndInv'
<1>1. SendersAgree'
  <2> SUFFICES ASSUME NEW t \in Senders
               PROVE  SenderAgrees(t)'
    BY DEF SendersAgree
  <2>1. CASE t = s
    BY <2>1 DEF SenderOK, SenderAgrees, SameBytes
  <2>2. CASE t # s
    BY <2>2 DEF IndInv, SendersAgree, SenderAgrees, OthersKeep, SameBytes
  <2> QED BY <2>1, <2>2
<1>2. SignaturesDistinct'
  BY DEF IndInv, SignaturesDistinct, OthersKeep, SenderOK
<1>3. LaneAhead'
  BY DEF IndInv, LaneAhead
<1>4. NoncesDistinct'
  BY DEF IndInv, NoncesDistinct, OthersKeep, SenderOK
<1>5. ConfirmedLanded'
  BY DEF IndInv, ConfirmedLanded
<1>6. ReturnedDelivered'
  BY DEF IndInv, ReturnedDelivered, OthersKeep, SenderOK, SameBytes, Holding
<1> QED BY <1>1, <1>2, <1>3, <1>4, <1>5, <1>6 DEF IndInv

\* The server's part does not change when the server does not.
LEMMA ServerKeeps ==
  ASSUME IndInv, UNCHANGED <<rows, server>>, wire' \subseteq wire
  PROVE  BoardSound' /\ NoncesRise' /\ PersistedFirst' /\ landed \subseteq landed'
  BY DEF IndInv, BoardSound, NoncesRise, PersistedFirst, server

\* Leaving send_text, by an exception or a crash.
LEMMA LeaveKeeps ==
  ASSUME IndInv, NEW s \in Senders, NEW p \in {"idle", "failed"}, Leave(s, p),
         UNCHANGED <<rows, lane, open>>, wire' \subseteq Requests,
         gen' \in [Rooms -> Nat], last' \in [Rooms -> Nat],
         recs' \in [Rooms -> SUBSET Records], landed' \subseteq Records,
         landed \subseteq landed', BoardSound', NoncesRise', PersistedFirst'
  PROVE  IndInv'
<1>1. TypeOK'
  BY DEF IndInv, TypeOK, Leave, Places
<1>2. OthersKeep(s)
  BY DEF OthersKeep, Leave, IndInv, TypeOK
<1>3. SenderOK(s)'
  BY DEF SenderOK, Leave, IndInv, TypeOK, Holding
<1> QED BY <1>1, <1>2, <1>3, SenderStepKeeps

\* The bytes a sender posts are those of the stored row.
LEMMA HeldIsStored ==
  ASSUME IndInv, NEW s \in Senders, pc[s] \in Holding
  PROVE  Message(s) \in Messages /\ Stored(Message(s)) /\ call[s] \in Calls
  BY CallsAssumption
     DEF IndInv, SendersAgree, SenderAgrees, TypeOK, Message, Messages, Stored, SameBytes,
         CallRecords, Holding

\* An accepted message keeps the rooms sound: the replay rule makes its
\* nonce the largest the room holds, whatever was forgotten before.
LEMMA AcceptKeeps ==
  ASSUME IndInv, NEW m \in Messages, Stored(m), Accept(m), UNCHANGED rows,
         wire' \subseteq wire
  PROVE  /\ gen' \in [Rooms -> Nat] /\ last' \in [Rooms -> Nat]
         /\ recs' \in [Rooms -> SUBSET Records] /\ landed' \subseteq Records
         /\ landed \subseteq landed'
         /\ BoardSound' /\ NoncesRise' /\ PersistedFirst'
         /\ \E r \in landed' : r.msg.key = m.key /\ r.seq = last[m.room] + 1
<1> DEFINE rec == [msg |-> m, gen |-> gen[m.room], seq |-> last[m.room] + 1]
<1>0. m.room \in Rooms /\ m.nonce \in Nat
  BY DEF Messages
<1>1. rec \in Records /\ rec.msg = m /\ rec.seq = last[m.room] + 1
  BY <1>0 DEF IndInv, TypeOK, Records
<1>2. /\ last' = [last EXCEPT ![m.room] = @ + 1]
      /\ recs' = [recs EXCEPT ![m.room] = @ \cup {rec}]
      /\ landed' = landed \cup {rec}
      /\ gen' = gen
      /\ \A r \in recs[m.room] : r.msg.nonce < m.nonce
  BY DEF Accept, Fresh
<1> HIDE DEF rec
<1>3. \A r \in Rooms : \A a \in recs[r] :
        a \in Records /\ a.msg.nonce \in Nat /\ a.seq \in Nat /\ a.seq <= last[r]
  BY DEF IndInv, TypeOK, BoardSound, Records, Messages
<1>4. /\ gen' \in [Rooms -> Nat] /\ last' \in [Rooms -> Nat]
      /\ recs' \in [Rooms -> SUBSET Records] /\ landed' \subseteq Records
      /\ landed \subseteq landed'
  BY <1>0, <1>1, <1>2 DEF IndInv, TypeOK
<1>5. \A r \in Rooms :
        /\ r # m.room => recs'[r] = recs[r] /\ last'[r] = last[r]
        /\ r = m.room => recs'[r] = recs[r] \cup {rec} /\ last'[r] = last[r] + 1
  BY <1>2 DEF IndInv, TypeOK
<1>6. BoardSound'
  <2> SUFFICES ASSUME NEW r \in Rooms, NEW a \in recs'[r]
               PROVE  /\ a \in landed' /\ a.msg.room = r /\ a.seq <= last'[r]
                      /\ \A b \in recs'[r] : a.msg.nonce = b.msg.nonce => a = b
    BY DEF BoardSound
  <2>1. CASE r # m.room
    BY <2>1, <1>2, <1>5 DEF IndInv, BoardSound
  <2>2. CASE r = m.room
    <3>1. last[r] \in Nat
      BY DEF IndInv, TypeOK
    <3>2. CASE a = rec
      BY <3>1, <3>2, <2>2, <1>0, <1>1, <1>2, <1>3, <1>5
    <3>3. CASE a \in recs[r]
      <4>1. a \in landed /\ a.msg.room = r /\ a.seq <= last[r]
        BY <3>3 DEF IndInv, BoardSound
      <4>2. a.seq <= last'[r]
        BY <4>1, <3>1, <3>3, <2>2, <1>3, <1>5
      <4>3. ASSUME NEW b \in recs'[r], a.msg.nonce = b.msg.nonce
            PROVE  a = b
        <5>1. CASE b = rec
          BY <4>3, <5>1, <3>3, <2>2, <1>0, <1>1, <1>2, <1>3
        <5>2. CASE b \in recs[r]
          BY <4>3, <5>2, <3>3 DEF IndInv, BoardSound
        <5> QED BY <5>1, <5>2, <2>2, <1>5
      <4> QED BY <4>1, <4>2, <4>3, <1>2
    <3> QED BY <3>2, <3>3, <2>2, <1>5
  <2> QED BY <2>1, <2>2
<1>7. NoncesRise'
  <2> SUFFICES ASSUME NEW r \in Rooms, NEW a \in recs'[r], NEW b \in recs'[r],
                      a.seq < b.seq
               PROVE  a.msg.nonce < b.msg.nonce
    BY DEF NoncesRise
  <2>1. CASE r # m.room
    BY <2>1, <1>5 DEF IndInv, NoncesRise
  <2>2. CASE r = m.room
    <3>1. last[r] \in Nat
      BY DEF IndInv, TypeOK
    <3>2. CASE a \in recs[r] /\ b \in recs[r]
      BY <3>2 DEF IndInv, NoncesRise
    <3>3. CASE a \in recs[r] /\ b = rec
      BY <3>3, <2>2, <1>1, <1>2
    <3>4. CASE a = rec
      BY <3>1, <3>4, <2>2, <1>1, <1>3, <1>5
    <3> QED BY <3>2, <3>3, <3>4, <2>2, <1>5
  <2> QED BY <2>1, <2>2
<1>8. PersistedFirst'
  BY <1>1, <1>2 DEF IndInv, PersistedFirst, Stored
<1>9. \E r \in landed' : r.msg.key = m.key /\ r.seq = last[m.room] + 1
  BY <1>1, <1>2
<1> QED BY <1>4, <1>6, <1>7, <1>8, <1>9

-----------------------------------------------------------------------------
(* One lemma per action.                                                   *)

(* A call of send_text that passes its early checks, or is refused by them,
   touches no row and no lane. *)
LEMMA SendTextKeeps ==
  ASSUME IndInv, NEW s \in Senders, NEW c \in Calls, SendText(s, c)
  PROVE  IndInv'
<1> DEFINE row == rows[c.key]
<1>0. c.key \in Keys
  BY CallsAssumption DEF CallRecords
<1>1. CASE Raise(s) /\ UNCHANGED <<stored, open, wire, server>>
  BY <1>1, ServerKeeps, LeaveKeeps DEF Raise, stored, server, IndInv, TypeOK
<1>2. CASE row = NoRow /\ Begin(s, c, "sign", 0)
  <2>1. TypeOK'
    BY <1>2 DEF IndInv, TypeOK, Begin, Places, stored, server
  <2>2. OthersKeep(s)
    BY <1>2 DEF OthersKeep, Begin, IndInv, TypeOK
  <2>3. SenderOK(s)'
    BY <1>2 DEF SenderOK, Begin, IndInv, TypeOK, Holding
  <2> QED BY <1>2, <2>1, <2>2, <2>3, ServerKeeps, SenderStepKeeps DEF Begin, stored
<1>3. CASE /\ row # NoRow
           /\ SameBytes(row, c)
           /\ Begin(s, c, IF row.status = "confirmed" THEN "done" ELSE "post",
                    row.nonce)
  <2>0. row \in Rows
    BY <1>0, <1>3 DEF IndInv, TypeOK
  <2>1. TypeOK'
    BY <1>3, <2>0 DEF IndInv, TypeOK, Begin, Places, stored, server, Rows
  <2>2. OthersKeep(s)
    BY <1>3 DEF OthersKeep, Begin, IndInv, TypeOK
  <2>3. /\ pc'[s] \in {"done", "post"} /\ call'[s] = c /\ nonce'[s] = row.nonce
        /\ rows' = rows
        /\ pc'[s] = "done" => row.status = "confirmed"
    BY <1>3 DEF Begin, IndInv, TypeOK, stored
  <2>4. SenderOK(s)'
    BY <1>3, <2>3 DEF SenderOK, Holding, SameBytes
  <2> QED BY <1>3, <2>1, <2>2, <2>4, ServerKeeps, SenderStepKeeps DEF Begin, stored
<1> QED BY <1>1, <1>2, <1>3 DEF SendText

\* Signing bumps the lane, so the new nonce is above every stored one and
\* above every signature another sender still holds.
LEMMA SignKeeps ==
  ASSUME IndInv, NEW s \in Senders, Sign(s)
  PROVE  IndInv'
<1> DEFINE r == call[s].room
<1>0. call[s] \in Calls /\ r \in Rooms /\ lane[r] \in Nat
  BY CallsAssumption DEF Sign, IndInv, SendersAgree, SenderAgrees, CallRecords, TypeOK
<1>1. CASE Raise(s) /\ UNCHANGED stored
  BY <1>1, ServerKeeps, LeaveKeeps
     DEF Sign, Raise, stored, server, IndInv, TypeOK
<1>2. CASE /\ lane' = [lane EXCEPT ![r] = @ + 1]
           /\ nonce' = [nonce EXCEPT ![s] = lane[r] + 1]
           /\ Go(s, "signed")
           /\ UNCHANGED <<rows, call, attempt, seq>>
  <2>1. UNCHANGED <<open, wire, server>>
    BY DEF Sign
  <2>2. TypeOK'
    BY <1>0, <1>2, <2>1 DEF IndInv, TypeOK, Go, Places, server
  <2>3. /\ pc'[s] = "signed" /\ nonce'[s] = lane[r] + 1
        /\ \A t \in Senders \ {s} : pc'[t] = pc[t] /\ nonce'[t] = nonce[t]
        /\ lane'[r] = lane[r] + 1
        /\ \A q \in Rooms \ {r} : lane'[q] = lane[q]
        /\ rows' = rows /\ call' = call /\ seq' = seq /\ landed' = landed
    BY <1>0, <1>2, <2>1 DEF IndInv, TypeOK, Go, server
  <2>4. SendersAgree'
    <3> SUFFICES ASSUME NEW t \in Senders
                 PROVE  SenderAgrees(t)'
      BY DEF SendersAgree
    <3>1. CASE t = s
      BY <3>1, <1>0, <2>3 DEF SenderAgrees, Holding
    <3>2. CASE t # s
      <4>1. pc[t] = "signed" => call[t].room \in Rooms
        BY CallsAssumption DEF IndInv, SendersAgree, SenderAgrees, CallRecords
      <4>2. nonce[t] \in Nat /\ \A q \in Rooms : lane[q] \in Nat
        BY DEF IndInv, TypeOK
      <4> QED BY <3>2, <4>1, <4>2, <1>0, <2>3 DEF IndInv, SendersAgree, SenderAgrees, SameBytes
    <3> QED BY <3>1, <3>2
  <2>5. SignaturesDistinct'
    <3> SUFFICES ASSUME NEW t \in Senders, NEW u \in Senders, t # u,
                        pc'[t] = "signed", pc'[u] = "signed",
                        call'[t].room = call'[u].room
                 PROVE  nonce'[t] # nonce'[u]
      BY DEF SignaturesDistinct
    <3>1. \A v \in Senders \ {s} : pc[v] = "signed" /\ call[v].room = r
                                    => nonce[v] \in Nat /\ nonce[v] <= lane[r]
      BY DEF IndInv, SendersAgree, SenderAgrees, TypeOK
    <3>2. CASE t = s \/ u = s
      BY <3>1, <3>2, <1>0, <2>3
    <3>3. CASE t # s /\ u # s
      BY <3>3, <2>3 DEF IndInv, SignaturesDistinct
    <3> QED BY <3>2, <3>3
  <2>6. \A k \in Keys : rows[k] # NoRow =>
          rows[k].room \in Rooms /\ rows[k].nonce \in Nat
    BY DEF IndInv, TypeOK, Rows
  <2>7. LaneAhead'
    <3> SUFFICES ASSUME NEW k \in Keys, rows[k] # NoRow
                 PROVE  rows[k].nonce <= lane'[rows[k].room]
      BY <2>3 DEF LaneAhead
    <3>1. rows[k].nonce <= lane[rows[k].room]
      BY DEF IndInv, LaneAhead
    <3> QED BY <3>1, <1>0, <2>3, <2>6 DEF IndInv, TypeOK
  <2>8. NoncesDistinct'
    <3>1. \A k \in Keys : rows[k] # NoRow /\ rows[k].room = r
                           => rows[k].nonce <= lane[r]
      BY DEF IndInv, LaneAhead
    <3> QED BY <3>1, <1>0, <2>3, <2>6 DEF IndInv, NoncesDistinct
  <2>9. ConfirmedLanded' /\ ReturnedDelivered'
    BY <2>3 DEF IndInv, ConfirmedLanded, ReturnedDelivered, SameBytes
  <2> QED BY <2>1, <2>2, <2>3, <2>4, <2>5, <2>7, <2>8, <2>9, ServerKeeps DEF IndInv
<1> QED BY <1>1, <1>2 DEF Sign

\* The INSERT stores the signature the sender alone holds, under a key that
\* had no row; the primary key turns a second insert into an exception.
LEMMA PrepareKeeps ==
  ASSUME IndInv, NEW s \in Senders, PrepareDelivery(s)
  PROVE  IndInv'
<1> DEFINE c == call[s]
           new == [actor |-> c.actor, room |-> c.room, nonce |-> nonce[s],
                   text |-> c.text, status |-> "prepared", seq |-> 0]
<1>0. /\ pc[s] = "signed" /\ c \in Calls /\ c.key \in Keys /\ c.room \in Rooms
      /\ nonce[s] \in Nat /\ nonce[s] <= lane[c.room]
  BY CallsAssumption DEF PrepareDelivery, IndInv, SendersAgree, SenderAgrees, CallRecords, TypeOK
<1>1. CASE Raise(s) /\ UNCHANGED stored
  BY <1>1, ServerKeeps, LeaveKeeps
     DEF PrepareDelivery, Raise, stored, server, IndInv, TypeOK
<1>2. CASE /\ rows[c.key] = NoRow
           /\ rows' = [rows EXCEPT ![c.key] = new]
           /\ Go(s, "post")
           /\ UNCHANGED <<lane, call, nonce, attempt, seq>>
  <2>1. UNCHANGED <<open, wire, server>>
    BY DEF PrepareDelivery
  <2>2. new \in Rows /\ new # NoRow
    BY <1>0, CallsAssumption, NoRowAssumption DEF Rows, CallRecords
  <2>3. TypeOK'
    BY <1>0, <1>2, <2>1, <2>2 DEF IndInv, TypeOK, Go, Places, server
  <2>4. /\ pc'[s] = "post"
        /\ \A t \in Senders \ {s} : pc'[t] = pc[t]
        /\ rows'[c.key] = new
        /\ \A k \in Keys \ {c.key} : rows'[k] = rows[k]
        /\ lane' = lane /\ call' = call /\ nonce' = nonce /\ seq' = seq
        /\ landed' = landed /\ wire' = wire /\ recs' = recs /\ last' = last
    BY <1>0, <1>2, <2>1 DEF IndInv, TypeOK, Go, server
  <2>5. new.actor = c.actor /\ new.room = c.room /\ new.nonce = nonce[s]
        /\ new.text = c.text /\ new.status = "prepared"
    OBVIOUS
  <2> HIDE DEF new
  <2>6. SendersAgree'
    <3> SUFFICES ASSUME NEW t \in Senders
                 PROVE  SenderAgrees(t)'
      BY DEF SendersAgree
    <3>1. CASE t = s
      BY <3>1, <1>0, <2>2, <2>4, <2>5 DEF SenderAgrees, SameBytes
    <3>2. CASE t # s
      <4>1. pc[t] \in Holding => call[t].key \in Keys \ {c.key}
        BY <1>2, CallsAssumption DEF IndInv, SendersAgree, SenderAgrees, CallRecords
      <4> QED BY <3>2, <4>1, <2>4 DEF IndInv, SendersAgree, SenderAgrees, SameBytes
    <3> QED BY <3>1, <3>2
  <2>7. SignaturesDistinct'
    BY <2>4 DEF IndInv, SignaturesDistinct
  <2>8. LaneAhead'
    BY <1>0, <2>4, <2>5 DEF IndInv, LaneAhead
  <2>9. NoncesDistinct'
    <3>1. ASSUME NEW j \in Keys, NEW k \in Keys, j # k,
                 rows'[j] # NoRow, rows'[k] # NoRow,
                 rows'[j].room = rows'[k].room
          PROVE  rows'[j].nonce # rows'[k].nonce
      <4>1. CASE j # c.key /\ k # c.key
        BY <3>1, <4>1, <2>4 DEF IndInv, NoncesDistinct
      <4>2. CASE j = c.key \/ k = c.key
        BY <3>1, <4>2, <1>0, <2>4, <2>5 DEF IndInv, NoncesDistinct
      <4> QED BY <4>1, <4>2
    <3>2. ASSUME NEW t \in Senders, NEW k \in Keys, pc'[t] = "signed",
                 rows'[k] # NoRow, rows'[k].room = call'[t].room
          PROVE  rows'[k].nonce # nonce'[t]
      <4>1. t # s /\ pc[t] = "signed"
        BY <3>2, <2>4
      <4>2. CASE k = c.key
        BY <3>2, <4>1, <4>2, <1>0, <2>4, <2>5 DEF IndInv, SignaturesDistinct
      <4>3. CASE k # c.key
        BY <3>2, <4>1, <4>3, <2>4 DEF IndInv, NoncesDistinct
      <4> QED BY <4>2, <4>3
    <3> QED BY <3>1, <3>2 DEF NoncesDistinct
  <2>10. ConfirmedLanded'
    BY <2>4, <2>5 DEF IndInv, ConfirmedLanded
  <2>11. ReturnedDelivered'
    <3> SUFFICES ASSUME NEW t \in Senders, pc'[t] = "done"
                 PROVE  /\ rows'[call[t].key] # NoRow
                        /\ SameBytes(rows'[call[t].key], call[t])
                        /\ rows'[call[t].key].status = "confirmed"
      BY <2>4 DEF ReturnedDelivered, SameBytes
    <3>1. t # s /\ pc[t] = "done"
      BY <2>4
    <3>2. call[t].key \in Keys \ {c.key}
      BY <3>1, <1>2, CallsAssumption
         DEF IndInv, SendersAgree, SenderAgrees, CallRecords, Holding
    <3> QED BY <3>1, <3>2, <2>4 DEF IndInv, ReturnedDelivered, SameBytes
  <2>12. PersistedFirst'
    <3>1. \A m \in {r.msg : r \in landed} \cup {q.msg : q \in wire} :
            m.key \in Keys \ {c.key}
      BY <1>2 DEF IndInv, PersistedFirst, TypeOK, Records, Requests, Messages
    <3> QED BY <3>1, <2>4 DEF IndInv, PersistedFirst
  <2>13. BoardSound' /\ NoncesRise'
    BY <2>4 DEF IndInv, BoardSound, NoncesRise
  <2> QED BY <2>3, <2>6, <2>7, <2>8, <2>9, <2>10, <2>11, <2>12, <2>13 DEF IndInv
<1> QED BY <1>1, <1>2 DEF PrepareDelivery

\* A request put on the wire carries stored bytes.
LEMMA OnWireKeeps ==
  ASSUME IndInv, NEW m \in Messages, Stored(m), OnWire(m),
         UNCHANGED <<rows, server>>
  PROVE  /\ wire' \subseteq Requests
         /\ BoardSound' /\ NoncesRise' /\ PersistedFirst' /\ landed \subseteq landed'
<1>1. PICK n \in 1 .. MaxFlight : wire' = wire \cup {[msg |-> m, copy |-> n]}
  BY DEF OnWire
<1>2. wire' \subseteq Requests
  BY <1>1, BoundsAssumption DEF IndInv, TypeOK, Requests
<1>3. PersistedFirst'
  BY <1>1 DEF IndInv, PersistedFirst, Stored, server
<1> QED BY <1>2, <1>3 DEF IndInv, BoardSound, NoncesRise, server

\* Every outcome of a post.
LEMMA PostKeeps ==
  ASSUME IndInv, NEW s \in Senders,
         \/ PostAccepted(s) \/ PostAnswerRejected(s) \/ PostReplayed(s)
         \/ PostRefused(s) \/ PostRateLimited(s) \/ PostLost(s)
         \/ PostLostBehindEgress(s)
  PROVE  IndInv'
<1>0. pc[s] = "post"
  BY DEF PostAccepted, PostAnswerRejected, PostReplayed, PostRefused, Refusal,
         PostRateLimited, PostLost, PostLostBehindEgress
<1>1. /\ Message(s) \in Messages /\ Stored(Message(s)) /\ call[s] \in Calls
      /\ Message(s).room = call[s].room /\ Message(s).key = call[s].key
      /\ call[s].room \in Rooms
      /\ rows[call[s].key] # NoRow
      /\ SameBytes(rows[call[s].key], call[s])
      /\ rows[call[s].key].nonce = nonce[s]
  BY <1>0, HeldIsStored, CallsAssumption
     DEF Holding, Message, CallRecords, IndInv, SendersAgree, SenderAgrees
<1>2. CASE PostAccepted(s)
  <2>1. Accept(Message(s)) /\ UNCHANGED <<rows, lane, open, call, nonce, attempt, wire>>
    BY <1>2 DEF PostAccepted, stored
  <2>2. /\ gen' \in [Rooms -> Nat] /\ last' \in [Rooms -> Nat]
        /\ recs' \in [Rooms -> SUBSET Records] /\ landed' \subseteq Records
        /\ landed \subseteq landed'
        /\ BoardSound' /\ NoncesRise' /\ PersistedFirst'
        /\ \E r \in landed' : r.msg.key = call[s].key /\ r.seq = last[call[s].room] + 1
    BY <1>1, <2>1, AcceptKeeps
  <2>3. /\ pc' = [pc EXCEPT ![s] = "found"]
        /\ seq' = [seq EXCEPT ![s] = last[call[s].room] + 1]
    BY <1>2 DEF PostAccepted, Go
  <2>4. TypeOK'
    BY <1>1, <2>1, <2>2, <2>3 DEF IndInv, TypeOK, Places
  <2>5. OthersKeep(s)
    BY <2>1, <2>3 DEF OthersKeep, IndInv, TypeOK
  <2>6. pc'[s] = "found" /\ seq'[s] = last[call[s].room] + 1
    BY <2>3 DEF IndInv, TypeOK
  <2>7. SenderOK(s)'
    BY <1>1, <2>1, <2>2, <2>6 DEF SenderOK, SameBytes
  <2> QED BY <2>1, <2>2, <2>4, <2>5, <2>7, SenderStepKeeps
<1>3. CASE PostAnswerRejected(s)
  <2>1. /\ Accept(Message(s)) /\ UNCHANGED <<rows, lane, open, wire>>
        /\ Leave(s, "failed")
    BY <1>3 DEF PostAnswerRejected, stored, Raise
  <2>2. /\ gen' \in [Rooms -> Nat] /\ last' \in [Rooms -> Nat]
        /\ recs' \in [Rooms -> SUBSET Records] /\ landed' \subseteq Records
        /\ landed \subseteq landed'
        /\ BoardSound' /\ NoncesRise' /\ PersistedFirst'
    BY <1>1, <2>1, AcceptKeeps
  <2> QED BY <2>1, <2>2, LeaveKeeps DEF IndInv, TypeOK
<1>4. CASE PostReplayed(s) \/ PostRefused(s) \/ PostRateLimited(s)
  <2>1. UNCHANGED <<rows, lane, open, wire, server>>
    BY <1>4 DEF PostReplayed, PostRefused, Refusal, PostRateLimited, stored
  <2>2. CASE Raise(s)
    BY <2>1, <2>2, ServerKeeps, LeaveKeeps DEF Raise, server, IndInv, TypeOK
  <2>3. CASE /\ pc' \in {pc, [pc EXCEPT ![s] = "reconcile"]}
             /\ attempt' \in {attempt, [attempt EXCEPT ![s] = 1]}
             /\ UNCHANGED <<call, nonce, seq>>
    <3>1. TypeOK'
      BY <2>1, <2>3 DEF IndInv, TypeOK, Places, server
    <3>2. OthersKeep(s)
      BY <2>3 DEF OthersKeep, IndInv, TypeOK
    <3>3. pc'[s] \in {"post", "reconcile"}
      BY <1>0, <2>3 DEF IndInv, TypeOK
    <3>4. SenderOK(s)'
      BY <1>1, <2>1, <2>3, <3>3 DEF SenderOK, SameBytes
    <3> QED BY <2>1, <3>1, <3>2, <3>4, ServerKeeps, SenderStepKeeps
  <2> QED BY <1>4, <2>2, <2>3
          DEF PostReplayed, PostRefused, Refusal, PostRateLimited, Go
<1>5. CASE PostLost(s)
  <2>1. UNCHANGED <<rows, lane, open, call, nonce, attempt, seq, server>>
    BY <1>5 DEF PostLost, stored
  <2>2. /\ wire' \subseteq Requests
        /\ BoardSound' /\ NoncesRise' /\ PersistedFirst' /\ landed \subseteq landed'
    BY <1>1, <1>5, <2>1, OnWireKeeps DEF PostLost
  <2>3. pc' = [pc EXCEPT ![s] = "lost"]
    BY <1>5 DEF PostLost, Go
  <2>4. TypeOK'
    BY <2>1, <2>2, <2>3 DEF IndInv, TypeOK, Places, server
  <2>5. OthersKeep(s) /\ pc'[s] = "lost"
    BY <2>1, <2>3 DEF OthersKeep, IndInv, TypeOK
  <2>6. SenderOK(s)'
    BY <1>1, <2>1, <2>5 DEF SenderOK, SameBytes
  <2> QED BY <2>1, <2>2, <2>4, <2>5, <2>6, SenderStepKeeps
<1>6. CASE PostLostBehindEgress(s)
  <2>1. UNCHANGED <<rows, lane, open, server>> /\ Leave(s, "failed")
    BY <1>6 DEF PostLostBehindEgress, stored, Raise
  <2>2. /\ wire' \subseteq Requests
        /\ BoardSound' /\ NoncesRise' /\ PersistedFirst' /\ landed \subseteq landed'
    BY <1>1, <1>6, <2>1, OnWireKeeps DEF PostLostBehindEgress
  <2> QED BY <2>1, <2>2, LeaveKeeps DEF IndInv, TypeOK, server
<1> QED BY <1>2, <1>3, <1>4, <1>5, <1>6

\* A reconciling read finds only the sender's own delivery: the nonce of a
\* room belongs to one key.
LEMMA MatchIsOwn ==
  ASSUME IndInv, NEW s \in Senders, pc[s] \in {"lost", "reconcile"},
         NEW r \in Matches(Message(s))
  PROVE  r \in landed /\ r.msg.key = call[s].key /\ r.seq \in Nat
<1>1. /\ Message(s) \in Messages /\ Stored(Message(s))
      /\ Message(s).key = call[s].key
  BY HeldIsStored DEF Holding, Message
<1>2. /\ r \in recs[Message(s).room] /\ r.msg.nonce = Message(s).nonce
      /\ Message(s).room \in Rooms /\ Message(s).key \in Keys
  BY <1>1 DEF Matches, Messages
<1>3. r \in landed /\ r.msg.room = Message(s).room
  BY <1>2 DEF IndInv, BoardSound
<1>4. Stored(r.msg) /\ r.msg.key \in Keys /\ r.seq \in Nat
  BY <1>3 DEF IndInv, PersistedFirst, Stored, TypeOK, Records, Messages
<1>5. r.msg.key = Message(s).key
  BY <1>1, <1>2, <1>3, <1>4 DEF IndInv, NoncesDistinct, Stored
<1> QED BY <1>1, <1>3, <1>4, <1>5

(* The read-only reconciliation after a rejected or ambiguous write changes
   only the sender's own frame. *)
LEMMA ReconcileKeeps ==
  ASSUME IndInv, NEW s \in Senders,
         ClientReconcile(s) \/ ReconcileFound(s) \/ ReconcileFailed(s)
  PROVE  IndInv'
<1>0. pc[s] \in {"lost", "reconcile"} /\ UNCHANGED <<rows, lane, open, wire, server>>
  BY DEF ClientReconcile, ReconcileFound, ReconcileFailed, stored
<1>1. /\ call[s] \in Calls
      /\ rows[call[s].key] # NoRow
      /\ SameBytes(rows[call[s].key], call[s])
      /\ rows[call[s].key].nonce = nonce[s]
  BY <1>0 DEF IndInv, SendersAgree, SenderAgrees, Holding
<1>2. CASE Raise(s)
  BY <1>0, <1>2, ServerKeeps, LeaveKeeps DEF Raise, server, IndInv, TypeOK
<1>3. CASE /\ pc' = [pc EXCEPT ![s] = "reconcile"]
           /\ UNCHANGED <<call, nonce, attempt, seq>>
  <2>1. TypeOK'
    BY <1>0, <1>3 DEF IndInv, TypeOK, Places, server
  <2>2. OthersKeep(s) /\ pc'[s] = "reconcile"
    BY <1>3 DEF OthersKeep, IndInv, TypeOK
  <2>3. SenderOK(s)'
    BY <1>0, <1>1, <1>3, <2>2 DEF SenderOK, SameBytes
  <2> QED BY <1>0, <2>1, <2>2, <2>3, ServerKeeps, SenderStepKeeps
<1>4. ASSUME NEW r \in Matches(Message(s)),
             seq' = [seq EXCEPT ![s] = r.seq],
             pc' = [pc EXCEPT ![s] = "found"],
             UNCHANGED <<call, nonce, attempt>>
      PROVE  IndInv'
  <2>1. r \in landed /\ r.msg.key = call[s].key /\ r.seq \in Nat
    BY <1>0, MatchIsOwn
  <2>2. TypeOK'
    BY <1>0, <1>4, <2>1 DEF IndInv, TypeOK, Places, server
  <2>3. OthersKeep(s) /\ pc'[s] = "found" /\ seq'[s] = r.seq
    BY <1>4 DEF OthersKeep, IndInv, TypeOK
  <2>4. SenderOK(s)'
    BY <1>0, <1>1, <1>4, <2>1, <2>3 DEF SenderOK, SameBytes, server
  <2> QED BY <1>0, <2>2, <2>3, <2>4, ServerKeeps, SenderStepKeeps
<1> QED BY <1>2, <1>3, <1>4
        DEF ClientReconcile, ReconcileFound, ReconcileFailed, Go

(* confirm_delivery marks a row confirmed only on the strength of a response
   that carries the server's id for that row's bytes. *)
LEMMA ConfirmKeeps ==
  ASSUME IndInv, NEW s \in Senders, ConfirmDelivery(s)
  PROVE  IndInv'
<1> DEFINE k == call[s].key
           old == rows[k]
           new == [old EXCEPT !.status = "confirmed", !.seq = seq[s]]
<1>0. /\ pc[s] = "found" /\ call[s] \in Calls /\ k \in Keys /\ old \in Rows
      /\ old # NoRow /\ SameBytes(old, call[s]) /\ old.nonce = nonce[s]
      /\ seq[s] \in Nat
      /\ \E r \in landed : r.msg.key = k /\ r.seq = seq[s]
  BY CallsAssumption
     DEF ConfirmDelivery, IndInv, SendersAgree, SenderAgrees, CallRecords, TypeOK, Holding
<1>1. /\ rows' = [rows EXCEPT ![k] = new]
      /\ pc' = [pc EXCEPT ![s] = "done"]
      /\ UNCHANGED <<lane, open, call, nonce, attempt, seq, wire, server>>
  BY <1>0 DEF ConfirmDelivery, Go, IndInv, TypeOK
<1>2. /\ new \in Rows /\ new # NoRow
      /\ new.actor = old.actor /\ new.room = old.room /\ new.text = old.text
      /\ new.nonce = old.nonce /\ new.status = "confirmed" /\ new.seq = seq[s]
  BY <1>0, NoRowAssumption DEF Rows
<1> HIDE DEF new
<1>3. TypeOK'
  BY <1>0, <1>1, <1>2 DEF IndInv, TypeOK, Places, server
<1>4. /\ pc'[s] = "done"
      /\ \A t \in Senders \ {s} : pc'[t] = pc[t]
      /\ rows'[k] = new
      /\ \A j \in Keys \ {k} : rows'[j] = rows[j]
      /\ lane' = lane /\ call' = call /\ nonce' = nonce /\ seq' = seq
      /\ landed' = landed /\ wire' = wire /\ recs' = recs /\ last' = last
  BY <1>0, <1>1 DEF IndInv, TypeOK, server
<1>5. \A j \in Keys :
        /\ rows'[j] = NoRow <=> rows[j] = NoRow
        /\ rows[j] # NoRow => /\ rows'[j].actor = rows[j].actor
                              /\ rows'[j].room = rows[j].room
                              /\ rows'[j].text = rows[j].text
                              /\ rows'[j].nonce = rows[j].nonce
                              /\ rows[j].status = "confirmed" =>
                                   rows'[j].status = "confirmed"
  BY <1>0, <1>2, <1>4
<1>6. SendersAgree'
  <2> SUFFICES ASSUME NEW t \in Senders
               PROVE  SenderAgrees(t)'
    BY DEF SendersAgree
  <2>1. pc[t] \in Holding => call[t].key \in Keys
    BY CallsAssumption DEF IndInv, SendersAgree, SenderAgrees, CallRecords
  <2>2. pc'[t] \in Holding => pc[t] \in Holding
    BY <1>0, <1>4 DEF Holding
  <2>3. CASE t = s
    BY <2>1, <2>2, <2>3, <1>0, <1>4, <1>5 DEF SenderAgrees, SameBytes
  <2>4. CASE t # s
    BY <2>1, <2>2, <2>4, <1>4, <1>5 DEF IndInv, SendersAgree, SenderAgrees, SameBytes
  <2> QED BY <2>3, <2>4
<1>7. SignaturesDistinct' /\ LaneAhead' /\ NoncesDistinct'
  BY <1>4, <1>5 DEF IndInv, SignaturesDistinct, LaneAhead, NoncesDistinct
<1>8. ConfirmedLanded'
  BY <1>0, <1>2, <1>4 DEF IndInv, ConfirmedLanded
<1>9. ReturnedDelivered'
  <2> SUFFICES ASSUME NEW t \in Senders, pc'[t] = "done"
               PROVE  /\ rows'[call[t].key] # NoRow
                      /\ SameBytes(rows'[call[t].key], call[t])
                      /\ rows'[call[t].key].status = "confirmed"
    BY <1>4 DEF ReturnedDelivered, SameBytes
  <2>1. CASE t = s
    BY <2>1, <1>0, <1>2, <1>4 DEF SameBytes
  <2>2. CASE t # s
    <3>1. pc[t] = "done" /\ call[t].key \in Keys
      BY <2>2, <1>4, CallsAssumption
         DEF IndInv, SendersAgree, SenderAgrees, CallRecords, Holding
    <3> QED BY <3>1, <1>5 DEF IndInv, ReturnedDelivered, SameBytes
  <2> QED BY <2>1, <2>2
<1>10. PersistedFirst'
  <2>1. \A m \in {r.msg : r \in landed} \cup {q.msg : q \in wire} : m.key \in Keys
    BY DEF IndInv, TypeOK, Records, Requests, Messages
  <2> QED BY <2>1, <1>4, <1>5 DEF IndInv, PersistedFirst
<1>11. BoardSound' /\ NoncesRise'
  BY <1>4 DEF IndInv, BoardSound, NoncesRise
<1> QED BY <1>3, <1>6, <1>7, <1>8, <1>9, <1>10, <1>11 DEF IndInv

(* A crash drops the sender's frame and leaves the durable rows to recovery. *)
LEMMA CrashKeeps ==
  ASSUME IndInv, NEW s \in Senders, Crash(s)
  PROVE  IndInv'
<1>0. UNCHANGED <<rows, lane, open, server>> /\ Leave(s, "idle")
  BY DEF Crash, stored
<1>1. CASE UNCHANGED wire
  BY <1>0, <1>1, ServerKeeps, LeaveKeeps DEF server, IndInv, TypeOK
<1>2. CASE pc[s] = "post" /\ OnWire(Message(s))
  <2>1. Message(s) \in Messages /\ Stored(Message(s))
    BY <1>2, HeldIsStored DEF Holding
  <2>2. /\ wire' \subseteq Requests
        /\ BoardSound' /\ NoncesRise' /\ PersistedFirst' /\ landed \subseteq landed'
    BY <1>0, <1>2, <2>1, OnWireKeeps
  <2> QED BY <1>0, <2>2, LeaveKeeps DEF IndInv, TypeOK, server
<1> QED BY <1>1, <1>2 DEF Crash

\* The rest of the invariant does not look at the rooms or the gate.
LEMMA EnvironmentKeeps ==
  ASSUME IndInv, UNCHANGED <<rows, lane, local>>, TypeOK',
         landed \subseteq landed', BoardSound', NoncesRise', PersistedFirst'
  PROVE  IndInv'
<1>1. SendersAgree'
  BY DEF IndInv, SendersAgree, SenderAgrees, local, SameBytes
<1>2. SignaturesDistinct' /\ LaneAhead' /\ NoncesDistinct'
  BY DEF IndInv, SignaturesDistinct, LaneAhead, NoncesDistinct, local
<1>3. ConfirmedLanded' /\ ReturnedDelivered'
  BY DEF IndInv, ConfirmedLanded, ReturnedDelivered, local, SameBytes
<1> QED BY <1>1, <1>2, <1>3 DEF IndInv

(* What the server does by itself (other peers' posts, a write that lands
   late, expiry, room re-creation) never invalidates a row. *)
LEMMA ServerStepKeeps ==
  ASSUME IndInv, ServerStep
  PROVE  IndInv'
<1>1. ASSUME NEW r \in Rooms, PeerPost(r) PROVE IndInv'
  <2>1. TypeOK'
    BY <1>1 DEF IndInv, TypeOK, PeerPost, stored, local
  <2>2. \A q \in Rooms : last[q] \in Nat /\ last'[q] \in {last[q], last[q] + 1}
    BY <1>1 DEF IndInv, TypeOK, PeerPost
  <2>3. \A q \in Rooms : \A a \in recs[q] : a.seq \in Nat
    BY DEF IndInv, TypeOK, Records
  <2>4. BoardSound'
    BY <1>1, <2>2, <2>3 DEF IndInv, BoardSound, PeerPost
  <2>5. NoncesRise' /\ PersistedFirst'
    BY <1>1 DEF IndInv, NoncesRise, PersistedFirst, PeerPost, stored
  <2> QED BY <1>1, <2>1, <2>4, <2>5, EnvironmentKeeps DEF PeerPost, stored, local
<1>2. ASSUME NEW r \in Rooms, Compact(r) \/ Reap(r) PROVE IndInv'
  <2>1. /\ UNCHANGED <<rows, lane, open, local, wire, landed>>
        /\ gen' \in [Rooms -> Nat] /\ last' \in [Rooms -> Nat]
        /\ recs' \in [Rooms -> SUBSET Records]
        /\ \A q \in Rooms : recs'[q] \subseteq recs[q]
        /\ \A q \in Rooms : recs'[q] = {} \/ last'[q] = last[q]
    BY <1>2 DEF IndInv, TypeOK, Compact, Reap, stored
  <2>2. TypeOK'
    BY <2>1 DEF IndInv, TypeOK, local
  <2>3. BoardSound' /\ NoncesRise'
    BY <2>1 DEF IndInv, BoardSound, NoncesRise
  <2>4. PersistedFirst'
    BY <2>1 DEF IndInv, PersistedFirst
  <2> QED BY <2>1, <2>2, <2>3, <2>4, EnvironmentKeeps
<1>3. ASSUME NEW q \in wire, Arrive(q) PROVE IndInv'
  <2>1. q.msg \in Messages /\ Stored(q.msg)
    BY DEF IndInv, TypeOK, PersistedFirst, Stored, Requests
  <2>2. UNCHANGED <<rows, lane, open, local>> /\ wire' \subseteq wire /\ Accept(q.msg)
    BY <1>3 DEF Arrive, stored
  <2>3. /\ gen' \in [Rooms -> Nat] /\ last' \in [Rooms -> Nat]
        /\ recs' \in [Rooms -> SUBSET Records] /\ landed' \subseteq Records
        /\ landed \subseteq landed'
        /\ BoardSound' /\ NoncesRise' /\ PersistedFirst'
    BY <2>1, <2>2, AcceptKeeps
  <2>4. TypeOK'
    BY <2>2, <2>3 DEF IndInv, TypeOK, local
  <2> QED BY <2>2, <2>3, <2>4, EnvironmentKeeps
<1>4. ASSUME NEW q \in wire, Vanish(q) PROVE IndInv'
  <2>1. UNCHANGED <<rows, lane, open, local, server>> /\ wire' \subseteq wire
    BY <1>4 DEF Vanish, stored
  <2>2. TypeOK'
    BY <2>1 DEF IndInv, TypeOK, local, server
  <2> QED BY <2>1, <2>2, ServerKeeps, EnvironmentKeeps
<1> QED BY <1>1, <1>2, <1>3, <1>4 DEF ServerStep

(* Enabling or disabling a component in the egress policy leaves the outbox
   alone. *)
LEMMA GateKeeps ==
  ASSUME IndInv, NEW components \in Gates, SetGate(components)
  PROVE  IndInv'
<1>1. UNCHANGED <<rows, lane, local, wire, server>> /\ open' \subseteq Components
  BY BoundsAssumption DEF SetGate, stored
<1>2. TypeOK'
  BY <1>1 DEF IndInv, TypeOK, local, server
<1> QED BY <1>1, <1>2, ServerKeeps, EnvironmentKeeps

\* Every step of the messenger, the server and the operator keeps IndInv.
LEMMA NextKeeps == IndInv /\ [Next]_vars => IndInv'
<1> SUFFICES ASSUME IndInv, [Next]_vars PROVE IndInv'
  OBVIOUS
<1>1. ASSUME NEW s \in Senders, SenderStep(s) PROVE IndInv'
  BY <1>1, SendTextKeeps, SignKeeps, PrepareKeeps, PostKeeps, ReconcileKeeps,
     ConfirmKeeps DEF SenderStep
<1>2. ASSUME NEW s \in Senders, Crash(s) PROVE IndInv'
  BY <1>2, CrashKeeps
<1>3. CASE ServerStep
  BY <1>3, ServerStepKeeps
<1>4. ASSUME NEW components \in Gates, SetGate(components) PROVE IndInv'
  BY <1>4, GateKeeps
<1>5. CASE UNCHANGED vars
  <2>1. TypeOK' /\ UNCHANGED <<rows, lane, local, wire, server>>
    BY <1>5 DEF IndInv, TypeOK, vars, local, server
  <2> QED BY <2>1, ServerKeeps, EnvironmentKeeps
<1> QED BY <1>1, <1>2, <1>3, <1>4, <1>5 DEF Next

-----------------------------------------------------------------------------
(* The theorems.                                                           *)

\* The invariant holds in every reachable state.
THEOREM IndInvAlways == Spec => []IndInv
  BY InitIndInv, NextKeeps, PTL DEF Spec

\* The rooms never show two records of one delivery: two records of a key
\* carry the nonce of its row, and a room holds each nonce once.
LEMMA IndInvOneCopy == IndInv => OneCopyPerDelivery
<1> SUFFICES ASSUME IndInv, NEW q \in Rooms, NEW r \in Rooms,
                    NEW a \in recs[q], NEW b \in recs[r],
                    a.msg.key = b.msg.key
             PROVE  a = b
  BY DEF OneCopyPerDelivery, OnBoard
<1>1. a \in landed /\ b \in landed /\ a.msg.room = q /\ b.msg.room = r
  BY DEF IndInv, BoardSound
<1>2. q = r /\ a.msg.nonce = b.msg.nonce
  BY <1>1 DEF IndInv, PersistedFirst
<1> QED BY <1>2 DEF IndInv, BoardSound

\* Bytes reach the network only after they are stored, and never change.
THEOREM PersistedFirstAlways == Spec => []PersistedFirst
  BY IndInvAlways, PTL DEF IndInv

\* At most one visible copy of each delivery, for any number of senders,
\* lost or late requests, crashes, compactions and reaped rooms.
THEOREM AtMostOneCopy == Spec => []OneCopyPerDelivery
  BY IndInvAlways, IndInvOneCopy, PTL

\* A confirmed row names a sequence number at which its bytes did land.
THEOREM ConfirmedLandedAlways == Spec => []ConfirmedLanded
  BY IndInvAlways, PTL DEF IndInv

\* A return from send_text means the caller's bytes are confirmed.
THEOREM ReturnedDeliveredAlways == Spec => []ReturnedDelivered
  BY IndInvAlways, PTL DEF IndInv

\* No two deliveries of a room share a nonce.
THEOREM NoncesDistinctAlways == Spec => []NoncesDistinct
  BY IndInvAlways, PTL DEF IndInv

\* How a step may change the table: it inserts one row where there was
\* none, or confirms one row and keeps its bytes.
LEMMA RowsStep ==
  ASSUME IndInv, [Next]_vars
  PROVE  \/ rows' = rows
         \/ \E s \in Senders : ConfirmDelivery(s)
         \/ \E s \in Senders : /\ PrepareDelivery(s)
                               /\ rows[call[s].key] = NoRow
                               /\ call[s] \in Calls
<1>1. ASSUME NEW s \in Senders, PrepareDelivery(s), rows' # rows
      PROVE  rows[call[s].key] = NoRow /\ call[s] \in Calls
  BY <1>1 DEF PrepareDelivery, stored, IndInv, SendersAgree, SenderAgrees
<1>2. ASSUME NEW s \in Senders, SenderStep(s), ~ConfirmDelivery(s), ~PrepareDelivery(s)
      PROVE  rows' = rows
  BY <1>2 DEF SenderStep, SendText, Begin, Sign, PostAccepted, PostAnswerRejected,
     PostReplayed, PostRefused, Refusal, PostRateLimited, PostLost,
     PostLostBehindEgress, ClientReconcile, ReconcileFound, ReconcileFailed, stored
<1>3. ASSUME NEW s \in Senders, Crash(s) PROVE rows' = rows
  BY <1>3 DEF Crash, stored
<1>4. CASE ServerStep
  BY <1>4 DEF ServerStep, PeerPost, Compact, Reap, Arrive, Vanish, stored
<1>5. ASSUME NEW components \in Gates, SetGate(components) PROVE rows' = rows
  BY <1>5 DEF SetGate, stored
<1>6. CASE UNCHANGED vars
  BY <1>6 DEF vars
<1> QED BY <1>1, <1>2, <1>3, <1>4, <1>5, <1>6 DEF Next

\* What confirming leaves alone.
LEMMA ConfirmRow ==
  ASSUME IndInv, NEW s \in Senders, ConfirmDelivery(s)
  PROVE  /\ call[s].key \in Keys /\ rows[call[s].key] # NoRow
         /\ rows' \in [Keys -> Rows \cup {NoRow}]
         /\ \A k \in Keys \ {call[s].key} : rows'[k] = rows[k]
         /\ LET k == call[s].key IN
            /\ rows'[k] # NoRow /\ rows'[k].status = "confirmed"
            /\ SameBytes(rows'[k], rows[k]) /\ rows'[k].nonce = rows[k].nonce
<1> DEFINE k == call[s].key
           new == [rows[k] EXCEPT !.status = "confirmed", !.seq = seq[s]]
<1>1. k \in Keys /\ rows[k] \in Rows /\ rows[k] # NoRow /\ seq[s] \in Nat
  BY CallsAssumption
     DEF ConfirmDelivery, IndInv, SendersAgree, SenderAgrees, CallRecords, TypeOK, Holding
<1>2. rows' = [rows EXCEPT ![k] = new]
  BY <1>1 DEF ConfirmDelivery, IndInv, TypeOK
<1>3. /\ new \in Rows /\ new # NoRow /\ new.status = "confirmed"
      /\ SameBytes(new, rows[k]) /\ new.nonce = rows[k].nonce
  BY <1>1, NoRowAssumption DEF Rows, SameBytes
<1> HIDE DEF new
<1>4. rows'[k] = new /\ \A j \in Keys \ {k} : rows'[j] = rows[j]
  BY <1>1, <1>2 DEF IndInv, TypeOK
<1>5. rows' \in [Keys -> Rows \cup {NoRow}]
  BY <1>1, <1>2, <1>3 DEF IndInv, TypeOK
<1> QED BY <1>1, <1>3, <1>4, <1>5

\* What inserting leaves alone.
LEMMA PrepareRow ==
  ASSUME IndInv, NEW s \in Senders, PrepareDelivery(s),
         rows[call[s].key] = NoRow, call[s] \in Calls
  PROVE  /\ call[s].key \in Keys
         /\ \A k \in Keys \ {call[s].key} : rows'[k] = rows[k]
         /\ LET k == call[s].key IN
            rows'[k] \in Rows /\ rows'[k] # NoRow /\ rows'[k].status = "prepared"
<1> DEFINE new == [actor |-> call[s].actor, room |-> call[s].room,
                   nonce |-> nonce[s], text |-> call[s].text,
                   status |-> "prepared", seq |-> 0]
<1>1. call[s].key \in Keys /\ new \in Rows /\ new # NoRow /\ new.status = "prepared"
  BY CallsAssumption, NoRowAssumption DEF CallRecords, Rows, IndInv, TypeOK
<1>2. rows' = [rows EXCEPT ![call[s].key] = new]
  BY DEF PrepareDelivery, stored
<1> HIDE DEF new
<1> QED BY <1>1, <1>2 DEF IndInv, TypeOK

-----------------------------------------------------------------------------
(* Refinement: Delivery implements Outbox.                                 *)

(* The empty delivery table maps to the empty outbox. *)
LEMMA InitRefines == Init => Out!Init
  BY NoRowAssumption
     DEF Init, Out!Init, Chosen, Visible, EverShown, Acked, OnBoard

\* An accepted message appears in the rooms, where it was not visible: the
\* copy already there would have had the same nonce.
LEMMA AcceptRefines ==
  ASSUME IndInv, NEW m \in Messages, Stored(m), Accept(m), UNCHANGED rows
  PROVE  Out!Next
<1> DEFINE rec == [msg |-> m, gen |-> gen[m.room], seq |-> last[m.room] + 1]
<1>0. m.key \in Keys /\ m.room \in Rooms /\ m.nonce \in Nat
  BY DEF Messages
<1>1. /\ recs' = [recs EXCEPT ![m.room] = @ \cup {rec}]
      /\ landed' = landed \cup {rec}
      /\ rec.msg = m
      /\ \A r \in recs[m.room] : r.msg.nonce < m.nonce
  BY DEF Accept, Fresh
<1> HIDE DEF rec
<1>2. Chosen[m.key] # NoRow
  <2>1. rows[m.key] # NoRow /\ rows[m.key] \in Rows
    BY <1>0 DEF Stored, IndInv, TypeOK
  <2>2. StoredMessage(m.key) \in Messages
    BY <1>0, <2>1 DEF StoredMessage, Messages, Rows
  <2>3. Chosen[m.key] = StoredMessage(m.key)
    BY <1>0, <2>1 DEF Chosen
  <2> QED BY <2>2, <2>3, NoRowAssumption
<1>3. m.key \notin Visible
  <2> SUFFICES ASSUME NEW q \in Rooms, NEW a \in recs[q], a.msg.key = m.key
               PROVE  FALSE
    BY DEF Visible, OnBoard
  <2>1. a \in landed /\ a.msg.room = q
    BY DEF IndInv, BoardSound
  <2>2. a.msg.room = m.room /\ a.msg.nonce = m.nonce
    BY <2>1 DEF IndInv, PersistedFirst, Stored
  <2> QED BY <2>1, <2>2, <1>0, <1>1
<1>4. EverShown' = EverShown \cup {m.key}
  BY <1>0, <1>1 DEF EverShown
<1>5. \A q \in Rooms :
        \A x : x \in recs'[q] <=> x \in recs[q] \/ (q = m.room /\ x = rec)
  BY <1>1 DEF IndInv, TypeOK
<1>6. Visible' = Visible \cup {m.key}
  <2>1. \A x : x \in OnBoard' <=> \E q \in Rooms : x \in recs'[q]
    BY DEF OnBoard
  <2>2. \A x : x \in OnBoard <=> \E q \in Rooms : x \in recs[q]
    BY DEF OnBoard
  <2>3. \A x : x \in OnBoard' <=> x \in OnBoard \/ x = rec
    BY <2>1, <2>2, <1>0, <1>5
  <2> QED BY <2>3, <1>0, <1>1 DEF Visible
<1>7. Chosen' = Chosen /\ Acked' = Acked
  BY DEF Chosen, Acked, StoredMessage
<1>8. Out!Appear(m.key)
  BY <1>2, <1>3, <1>4, <1>6, <1>7 DEF Out!Appear
<1> QED BY <1>0, <1>8 DEF Out!Next

\* A step that leaves rows, rooms and history alone shows nothing.
LEMMA HiddenStep ==
  ASSUME UNCHANGED <<rows, recs, landed>>
  PROVE  UNCHANGED Out!outboxVars
  BY DEF Out!outboxVars, Chosen, Visible, EverShown, Acked, OnBoard, StoredMessage

(* prepare_delivery's INSERT is the outbox's choice of bytes. *)
LEMMA PrepareRefines ==
  ASSUME IndInv, NEW s \in Senders, PrepareDelivery(s),
         rows[call[s].key] = NoRow, call[s] \in Calls
  PROVE  Out!Next
<1> DEFINE k == call[s].key
           new == [key |-> k, room |-> rows'[k].room, nonce |-> rows'[k].nonce,
                   text |-> rows'[k].text]
<1>1. /\ k \in Keys /\ \A j \in Keys \ {k} : rows'[j] = rows[j]
      /\ rows'[k] \in Rows /\ rows'[k] # NoRow /\ rows'[k].status = "prepared"
  BY PrepareRow
<1>2. UNCHANGED <<recs, landed>>
  BY DEF PrepareDelivery, server
<1>3. Chosen[k] = NoRow
  BY <1>1 DEF Chosen
<1>4. new \in Messages
  BY <1>1 DEF Messages, Rows
<1>5. Chosen'[k] = new
  BY <1>1 DEF Chosen, StoredMessage
<1>6. \A j \in Keys \ {k} : Chosen'[j] = Chosen[j]
  BY <1>1 DEF Chosen, StoredMessage
<1>7. Chosen' = [Chosen EXCEPT ![k] = Chosen'[k]]
  BY <1>1, <1>6 DEF Chosen
<1>8. Visible' = Visible /\ EverShown' = EverShown
  BY <1>2 DEF Visible, EverShown, OnBoard
<1>9. Acked' = Acked
  BY <1>1 DEF Acked
<1> QED BY <1>1, <1>3, <1>4, <1>5, <1>7, <1>8, <1>9 DEF Out!Next, Out!Choose

(* confirm_delivery's UPDATE is the outbox's acknowledgement. *)
LEMMA ConfirmRefines ==
  ASSUME IndInv, NEW s \in Senders, ConfirmDelivery(s)
  PROVE  Out!Next
<1> DEFINE k == call[s].key
<1>1. /\ k \in Keys /\ rows[k] # NoRow
      /\ \A j \in Keys \ {k} : rows'[j] = rows[j]
      /\ rows'[k] # NoRow /\ rows'[k].status = "confirmed"
      /\ SameBytes(rows'[k], rows[k]) /\ rows'[k].nonce = rows[k].nonce
  BY ConfirmRow
<1>2. UNCHANGED <<recs, landed>>
  BY DEF ConfirmDelivery, server
<1>3. k \in EverShown
  BY <1>1 DEF ConfirmDelivery, IndInv, SendersAgree, SenderAgrees, EverShown
<1>4. Chosen' = Chosen
  BY <1>1 DEF Chosen, StoredMessage, SameBytes
<1>5. Acked' = Acked \cup {k}
  BY <1>1 DEF Acked
<1>6. Visible' = Visible /\ EverShown' = EverShown
  BY <1>2 DEF Visible, EverShown, OnBoard
<1> QED BY <1>1, <1>3, <1>4, <1>5, <1>6 DEF Out!Next, Out!Acknowledge

\* Every step of Delivery is a step of Outbox, or invisible.
LEMMA StepRefines ==
  ASSUME IndInv, [Next]_vars
  PROVE  [Out!Next]_(Out!outboxVars)
<1>1. ASSUME NEW s \in Senders, PostAccepted(s) \/ PostAnswerRejected(s)
      PROVE  Out!Next
  <2>1. pc[s] = "post" /\ Accept(Message(s)) /\ UNCHANGED rows
    BY <1>1 DEF PostAccepted, PostAnswerRejected, stored
  <2>2. Message(s) \in Messages /\ Stored(Message(s))
    BY <2>1, HeldIsStored DEF Holding
  <2> QED BY <2>1, <2>2, AcceptRefines
<1>2. ASSUME NEW s \in Senders, SenderStep(s), ~PostAccepted(s),
             ~PostAnswerRejected(s)
      PROVE  UNCHANGED <<recs, landed>>
  BY <1>2 DEF SenderStep, SendText, Begin, Sign, PrepareDelivery, PostReplayed,
     PostRefused, Refusal, PostRateLimited, PostLost, PostLostBehindEgress,
     ClientReconcile, ReconcileFound, ReconcileFailed, ConfirmDelivery, server
<1>3. ASSUME NEW s \in Senders, SenderStep(s) PROVE [Out!Next]_(Out!outboxVars)
  BY <1>1, <1>2, <1>3, RowsStep, HiddenStep, PrepareRefines, ConfirmRefines
<1>4. ASSUME NEW q \in wire, Arrive(q) PROVE Out!Next
  <2>1. q.msg \in Messages /\ Stored(q.msg)
    BY DEF IndInv, TypeOK, PersistedFirst, Stored, Requests
  <2> QED BY <1>4, <2>1, AcceptRefines DEF Arrive, stored
<1>5. ASSUME NEW r \in Rooms, Compact(r) \/ Reap(r) PROVE Out!Next
  <2>1. UNCHANGED <<rows, landed>> /\ \A q \in Rooms : recs'[q] \subseteq recs[q]
    BY <1>5 DEF Compact, Reap, stored, IndInv, TypeOK
  <2>2. Visible' \subseteq Visible
    BY <2>1 DEF Visible, OnBoard
  <2>3. Chosen' = Chosen /\ EverShown' = EverShown /\ Acked' = Acked
    BY <2>1 DEF Chosen, EverShown, Acked, StoredMessage
  <2> QED BY <2>2, <2>3 DEF Out!Next, Out!Forget
<1>6. ASSUME \/ \E s \in Senders : Crash(s)
             \/ \E r \in Rooms : PeerPost(r)
             \/ \E q \in wire : Vanish(q)
             \/ \E components \in Gates : SetGate(components)
             \/ UNCHANGED vars
      PROVE  UNCHANGED Out!outboxVars
  <2>1. UNCHANGED <<rows, recs, landed>>
    BY <1>6 DEF Crash, PeerPost, Vanish, SetGate, vars, stored, server
  <2> QED BY <2>1, HiddenStep
<1> QED BY <1>3, <1>4, <1>5, <1>6 DEF Next, ServerStep

\* The messenger implements the at-most-once outbox, with any senders.
THEOREM DeliveryRefinesOutbox == Spec => ImplementsOutbox
<1>1. IndInv /\ [Next]_vars => [Out!Next]_(Out!outboxVars)
  BY StepRefines
<1> QED BY <1>1, InitRefines, IndInvAlways, PTL DEF Spec, ImplementsOutbox, Out!Spec

\* Type correctness.
THEOREM TypeCorrect == Spec => []TypeOK
  BY IndInvAlways, PTL DEF IndInv

=============================================================================
