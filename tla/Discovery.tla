------------------------------ MODULE Discovery ------------------------------
(* How the pilot stays discoverable: _maintain_service_presence (pilot.py)    *)
(* keeps a signed record in the service room, which the upstream reaps when   *)
(* it stays on one message or falls silent, and handle_discovery (service.py) *)
(* answers signed queries of the discovery room with one offer each.          *)
(* Between two polls the operator may run prepare, after which polls speak    *)
(* for a new service card, and activate, which announces it and then writes   *)
(* the presence row; either may stop half way, and be followed by polls.      *)
(*                                                                            *)
(* Messages go out through the delivery lane, taken here for what the module  *)
(* Delivery shows of it: a key keeps the bytes it was first used with, and    *)
(* shows at most one copy, whatever retries follow.  Time is counted in ticks *)
(* of a few hours; a poll takes no tick, and may fail or crash at each send.  *)
EXTENDS Integers, FiniteSets, Sequences

CONSTANTS
  Anchor,      \* PRESENCE_ANCHOR_AFTER
  Liveness,    \* PRESENCE_LIVENESS_AFTER
  SingleLife,  \* the upstream reaps a room on one message after that long
  IdleLife,    \* and any room after that much silence
  Queries,     \* what peers may post: a sequence of [did, id, body, expires, signed]
  ReadLimit,   \* records a read of the discovery room returns (100)
  OffersPerDay,\* per_did_limit of reserve_discovery_offer
  Day,         \* ticks in a day
  Start,       \* the clock at activation, far from the epoch
  MaxTime,     \* bound: ticks after Start
  MaxCards,    \* bound: service cards prepared one after the other
  MaxFaults,   \* bound: sends that fail and crashes
  MaxBoard,    \* bound: records of the discovery room in one generation
  MaxBoardGen  \* bound: generations of the discovery room

ASSUME TimingAssumption ==
  /\ Anchor \in Nat \ {0} /\ Liveness \in Nat \ {0} /\ Anchor <= Liveness
  /\ Day \in Nat \ {0}
  /\ SingleLife \in Nat /\ IdleLife \in Nat /\ OffersPerDay \in Nat \ {0}
  /\ Start \in Nat /\ MaxTime \in Nat /\ (Start + MaxTime) \div Liveness < Start \div Anchor
  /\ MaxCards \in Nat \ {0} /\ MaxFaults \in Nat
  /\ ReadLimit \in Nat \ {0} /\ MaxBoard \in Nat /\ MaxBoardGen \in Nat
ASSUME QueriesAssumption ==
  /\ Len(Queries) \in Nat
  /\ \A i \in 1..Len(Queries) :
       /\ DOMAIN Queries[i] = {"did", "id", "body", "expires", "signed"}
       /\ Queries[i].expires \in Nat /\ Queries[i].signed \in BOOLEAN

VARIABLES
  now,       \* the clock
  gen,       \* generation of the service room
  room,      \* Rosetta's records in it
  history,   \* every message Rosetta ever showed there
  answered,  \* the offers it showed, by key
  rows,      \* outbound deliveries of offers: key -> the card its bytes name
  presence,  \* the service_presence row
  card,      \* the service card in the spool
  board, boardGen,    \* the discovery room: indices of Queries
  cursor, cursorGen,  \* its room_cursors row
  offers,    \* discovery_offers
  pc,        \* where the poll, or an activation, is
  pending,   \* the presence row to be written
  batch,     \* the queries read and not handled yet
  from,      \* the sequence number of the first of them
  polled,    \* a poll completed in this tick
  faults,
  handled,   \* positions passed by the cursor -> why
  recorded,  \* keys of the liveness records whose presence row was written
  lag        \* ticks in which no poll completed, or by which an activation dated
             \* the presence row ahead of the newest record

shownVars     == <<gen, room, history>>
rowVars       == <<presence, pending, recorded>>
presenceVars  == <<shownVars, rowVars, card>>
boardVars     == <<board, boardGen>>
cursorVars    == <<cursor, cursorGen, handled>>
batchVars     == <<batch, from>>
offerVars     == <<offers, rows, answered>>
discoveryVars == <<boardVars, cursorVars, batchVars, offerVars>>
vars == <<now, presenceVars, discoveryVars, pc, polled, lag, faults>>

NoGen == -1  \* no generation was observed
Nothing == [kind |-> "none", slot |-> 0]
NoRow == [kind |-> "none", gen |-> NoGen, key |-> "none"]
NoPresence == [at |-> -1, gen |-> NoGen]

AnnouncementKey(c) == [kind |-> "announcement", gen |-> 0, slot |-> 0, card |-> c]
RecoveryKey(c) == [kind |-> "recovery", gen |-> gen, slot |-> 0, card |-> c]
\* Faulty variant: the key is new at every attempt.
PresenceKeyNow(s, c) ==
  [kind |-> "presence", gen |-> gen, slot |-> Cardinality(history), card |-> c]

PresenceKey(s, c) == [kind |-> "presence", gen |-> gen, slot |-> s, card |-> c]
OfferKey(q) == [did |-> Queries[q].did, id |-> Queries[q].id]

Landed(key) == \E m \in history : m.key = key

-----------------------------------------------------------------------------
(* One message to the service room through the delivery lane.  Its key names *)
(* the card, so its bytes are always those stored under the key.             *)

\* The call returns: the message shows, unless it did before.
Delivered(key, kind) ==
  LET m == [key |-> key, kind |-> kind, at |-> now, gen |-> gen] IN
  IF Landed(key) THEN UNCHANGED shownVars
  ELSE history' = history \cup {m} /\ room' = room \cup {m} /\ gen' = gen

\* The call raises, or the process dies in it or right after it.
Failed(key, kind) ==
  /\ faults < MaxFaults
  /\ faults' = faults + 1
  /\ Delivered(key, kind) \/ UNCHANGED shownVars

-----------------------------------------------------------------------------
\* Right after the first activation: the announcement is out and recorded, with
\* the generation if the room was read.
Init ==
  LET m == [key |-> AnnouncementKey(1), kind |-> "announcement", at |-> Start, gen |-> 0]
  IN
  /\ now = Start /\ gen = 0
  /\ room = {m} /\ history = {m}
  /\ \E g \in {NoGen, 0} : presence = [at |-> Start, gen |-> g]
  /\ card = 1 /\ offers = {} /\ rows = <<>> /\ answered = {}
  /\ board = <<>> /\ boardGen = 0
  /\ cursor = 0 /\ cursorGen = NoGen /\ handled = <<>>
  /\ pc = "idle" /\ pending = NoRow /\ batch = <<>> /\ from = 0
  /\ polled = FALSE /\ lag = 0 /\ faults = 0 /\ recorded = {}

(* Surroundings.                                                             *)

\* The pilot polls many times a tick; a tick no poll completes in is an outage.
Tick ==
  /\ pc = "idle" /\ now < Start + MaxTime
  /\ now' = now + 1
  /\ lag' = IF polled THEN lag ELSE lag + 1
  /\ polled' = FALSE
  /\ UNCHANGED <<presenceVars, discoveryVars, pc, faults>>

Newest == CHOOSE t \in {m.at : m \in room} : \A m \in room : m.at <= t

\* Upstream retention.
Reap ==
  /\ room # {}
  /\ now - Newest >= (IF Cardinality(room) = 1 THEN SingleLife ELSE IdleLife)
  /\ room' = {} /\ gen' = gen + 1
  /\ UNCHANGED <<now, history, rowVars, card, discoveryVars, pc, polled, lag, faults>>

\* A peer posts in the discovery room.
PeerPosts ==
  /\ Len(board) < MaxBoard
  /\ \E q \in 1..Len(Queries) : board' = Append(board, q)
  /\ UNCHANGED <<boardGen, now, presenceVars, cursorVars, batchVars, offerVars, pc,
                 polled, lag, faults>>

\* The discovery room is reaped and starts again.
ReapBoard ==
  /\ boardGen < MaxBoardGen /\ board # <<>>
  /\ board' = <<>> /\ boardGen' = boardGen + 1
  /\ UNCHANGED <<now, presenceVars, cursorVars, batchVars, offerVars, pc, polled, lag,
                 faults>>

-----------------------------------------------------------------------------
(* The operator's commands, run while no poll is.                             *)

\* prepare puts a new card into the spool, where every poll loads it.
PrepareCard ==
  /\ pc = "idle" /\ card < MaxCards
  /\ card' = card + 1
  /\ UNCHANGED <<now, shownVars, rowVars, discoveryVars, pc, polled, lag, faults>>

\* activate announces the card.  It may be repeated, and then shows nothing new.
\* The generation is known only if the delivery had to read the room.
Announce ==
  /\ pc = "idle"
  /\ \/ /\ Delivered(AnnouncementKey(card), "announcement")
        /\ \E g \in {NoGen, gen} :
             pending' = [kind |-> "announcement", gen |-> g, key |-> AnnouncementKey(card)]
        /\ pc' = "row"
        /\ UNCHANGED faults
     \/ /\ Failed(AnnouncementKey(card), "announcement")
        /\ UNCHANGED <<pc, pending>>
  /\ UNCHANGED <<now, presence, recorded, card, discoveryVars, polled, lag>>

Larger(a, b) == IF a < b THEN b ELSE a

\* record_service_presence: the row pending, as of now.
WriteRow ==
  /\ presence' = [at |-> now, gen |-> pending.gen]
  /\ recorded' = recorded \cup {k \in {pending.key} : pending.kind = "liveness"}
  /\ pending' = NoRow

\* activate goes on to the presence row.
RecordActivation ==
  /\ pc = "row"
  /\ WriteRow
  /\ lag' = IF room = {} THEN lag ELSE Larger(lag, now - Newest)
  /\ pc' = "idle"
  /\ UNCHANGED <<now, shownVars, card, discoveryVars, polled, faults>>

-----------------------------------------------------------------------------
(* _maintain_service_presence.                                               *)

Slot(period) == now \div period
\* Faulty variant: the liveness period for every room.
ThresholdLiveness == Liveness
Threshold == IF Cardinality(room) = 1 THEN Anchor ELSE Liveness

\* A row without a generation is taken to be of the room that is there.
RowGen == IF presence.gen = NoGen THEN gen ELSE presence.gen

\* What the room, the clock and the presence row call for.
Due ==
  IF room = {} THEN [kind |-> "recovery", slot |-> 0]
  ELSE IF presence = NoPresence \/ RowGen # gen
       THEN [kind |-> "anchor", slot |-> Slot(Anchor)]
  ELSE IF now - presence.at < Threshold THEN Nothing
  ELSE [kind |-> IF Cardinality(room) = 1 THEN "anchor" ELSE "liveness",
        slot |-> Slot(Threshold)]

\* Faulty variant: recovery reuses the launch announcement's key.
DueKeyOnce(d) == IF d.kind = "recovery" THEN AnnouncementKey(card)
                 ELSE PresenceKey(d.slot, card)

DueKey(d) == IF d.kind = "recovery" THEN RecoveryKey(card) ELSE PresenceKey(d.slot, card)

MaintainPresence ==
  /\ pc = "idle"
  /\ presence' = IF room = {} THEN presence ELSE [presence EXCEPT !.gen = RowGen]
  /\ \/ /\ Due = Nothing
        /\ pc' = "read"
        /\ UNCHANGED <<shownVars, pending, faults>>
     \/ /\ Due # Nothing
        /\ Delivered(DueKey(Due), Due.kind)
        /\ pending' = [kind |-> Due.kind, gen |-> gen, key |-> DueKey(Due)]
        /\ pc' = "record"
        /\ UNCHANGED faults
     \/ /\ Due # Nothing
        /\ Failed(DueKey(Due), Due.kind)
        /\ UNCHANGED <<pc, pending>>
  /\ UNCHANGED <<now, recorded, card, discoveryVars, polled, lag>>

RecordPresence ==
  /\ pc = "record"
  /\ WriteRow
  /\ pc' = "read"
  /\ UNCHANGED <<now, shownVars, card, discoveryVars, polled, lag, faults>>

-----------------------------------------------------------------------------
(* The discovery room: handle_discovery, then the cursor.                     *)

\* The newest ReadLimit records after the cursor, oldest first.
Read(since) ==
  LET skipped == Larger(since, Len(board) - ReadLimit) IN
  /\ batch' = SubSeq(board, skipped + 1, Len(board))
  /\ from' = skipped + 1
  /\ pc' = "discovery"

\* _read_generation_safe: a recreated room resets the cursor and is read again
\* from the start, by a second request.
ReadQueries ==
  /\ pc = "read"
  /\ cursorGen' = boardGen
  /\ IF cursorGen \notin {NoGen, boardGen}
     THEN /\ cursor' = 0 /\ handled' = <<>>
          /\ pc' = "reread"
          /\ UNCHANGED batchVars
     ELSE Read(cursor) /\ UNCHANGED <<cursor, handled>>
  /\ UNCHANGED <<now, presenceVars, boardVars, offerVars, polled, lag, faults>>

ReadAgain ==
  /\ pc = "reread"
  /\ Read(0)
  /\ UNCHANGED <<now, presenceVars, boardVars, cursorVars, offerVars, polled, lag,
                 faults>>

\* The query at hand.
AtHand == batch[1]

DayOf(t) == t \div Day

\* reserve_discovery_offer.
Reservation(q) ==
  LET x == Queries[q] IN
  IF \E o \in offers : o.did = x.did /\ o.id = x.id
  THEN IF \E o \in offers : o.did = x.did /\ o.id = x.id /\ o.body = x.body
       THEN "duplicate" ELSE "conflict"
  ELSE IF Cardinality({o \in offers : o.did = x.did /\ o.day = DayOf(now)}) >= OffersPerDay
       THEN "quota" ELSE "accepted"

Reserve(q) ==
  offers' = IF Reservation(q) = "accepted"
            THEN offers \cup {[did |-> Queries[q].did, id |-> Queries[q].id,
                               body |-> Queries[q].body, day |-> DayOf(now)]}
            ELSE offers

\* The offer goes out with the bytes first stored for it.
OfferSame(q) == OfferKey(q) \in DOMAIN rows => rows[OfferKey(q)] = card

StoreOffer(q) == rows' = [k \in DOMAIN rows \cup {OfferKey(q)} |->
                            IF k \in DOMAIN rows THEN rows[k] ELSE card]

\* Its send raises: stored, and perhaps shown.
OfferFails(q) ==
  /\ faults < MaxFaults
  /\ faults' = faults + 1
  /\ OfferSame(q) /\ StoreOffer(q)
  /\ answered' \in {answered, answered \cup {OfferKey(q)}}

\* advance_room_cursor for the record at hand, over those that were not read,
\* and on to the next one.
Advance(why) ==
  /\ cursor' = from
  /\ handled' = [i \in 1..from |-> IF i \in DOMAIN handled THEN handled[i]
                                  ELSE IF i = from THEN why ELSE "unread"]
  /\ from' = from + 1 /\ batch' = Tail(batch)
  /\ UNCHANGED cursorGen

\* A query that gets no offer.
SkipQuery ==
  LET q == AtHand IN
  /\ pc = "discovery" /\ batch # <<>>
  /\ \/ ~Queries[q].signed /\ Advance("unsigned")
     \/ Queries[q].signed /\ Queries[q].expires <= now /\ Advance("expired")
     \/ /\ Queries[q].signed /\ Queries[q].expires > now
        /\ Reservation(q) \in {"quota", "conflict"}
        /\ Advance(Reservation(q))
  /\ UNCHANGED <<now, presenceVars, boardVars, offerVars, pc, polled, lag, faults>>

\* Faulty variant: expiry is looked at only before a first reservation.
AnswerableLate(q) ==
  /\ pc = "discovery"
  /\ Queries[q].signed /\ (Queries[q].expires > now \/ Reservation(q) = "duplicate")
  /\ Reservation(q) \in {"accepted", "duplicate"}

Answerable(q) ==
  /\ pc = "discovery"
  /\ Queries[q].signed /\ Queries[q].expires > now
  /\ Reservation(q) \in {"accepted", "duplicate"}

SendOffer ==
  LET q == AtHand IN
  /\ batch # <<>> /\ Answerable(q)
  /\ Reserve(q)
  /\ OfferSame(q) /\ StoreOffer(q)
  /\ answered' = answered \cup {OfferKey(q)}
  /\ Advance("offered")
  /\ UNCHANGED <<now, presenceVars, boardVars, pc, polled, lag, faults>>

\* The poll is over, with what it had read.
Leave == pc' = "idle" /\ batch' = <<>> /\ from' = 0

\* Faulty variant: the cursor moves on although the send raised.
SendOfferFailsOn ==
  LET q == AtHand IN
  /\ batch # <<>> /\ Answerable(q)
  /\ Reserve(q)
  /\ OfferFails(q)
  /\ Advance("offered")
  /\ UNCHANGED <<now, presenceVars, boardVars, pc, polled, lag>>

\* The reservation stays; the poll is over and the cursor stays behind.
SendOfferFails ==
  LET q == AtHand IN
  /\ batch # <<>> /\ Answerable(q)
  /\ Reserve(q)
  /\ OfferFails(q)
  /\ Leave
  /\ UNCHANGED <<now, presenceVars, boardVars, cursorVars, polled, lag>>

\* The stored offer names an older card: send_text refuses the new bytes, and
\* the poll is over.
OfferConflict ==
  LET q == AtHand IN
  /\ batch # <<>> /\ Answerable(q)
  /\ ~OfferSame(q)
  /\ Leave
  /\ UNCHANGED <<now, presenceVars, boardVars, cursorVars, offerVars, polled, lag,
                 faults>>

EndPoll ==
  /\ pc = "discovery" /\ batch = <<>>
  /\ Leave
  /\ polled' = TRUE
  /\ UNCHANGED <<now, presenceVars, boardVars, cursorVars, offerVars, lag, faults>>

\* The process, a poll's or a command's, dies or cannot read the room.
Crash ==
  /\ pc # "idle" /\ faults < MaxFaults
  /\ Leave
  /\ pending' = NoRow /\ faults' = faults + 1
  /\ UNCHANGED <<now, shownVars, presence, recorded, card, boardVars, cursorVars,
                 offerVars, polled, lag>>

Poll == \/ MaintainPresence \/ RecordPresence \/ ReadQueries \/ ReadAgain
        \/ SkipQuery \/ SendOffer \/ OfferConflict \/ EndPoll

Next ==
  \/ Tick \/ Reap \/ PeerPosts \/ ReapBoard
  \/ PrepareCard \/ Announce \/ RecordActivation
  \/ MaintainPresence \/ RecordPresence
  \/ ReadQueries \/ ReadAgain
  \/ SkipQuery \/ SendOffer \/ SendOfferFails \/ OfferConflict
  \/ EndPoll \/ Crash

Spec == Init /\ [][Next]_vars

\* The pilot keeps polling between the operator's commands, a command that was
\* started ends, and time passes.
FairSpec == Spec /\ SF_vars(Poll) /\ WF_vars(RecordActivation) /\ SF_vars(Tick)

-----------------------------------------------------------------------------
(* Properties.                                                               *)

\* The sets the variables range over.
TypeOK ==
  /\ now \in Start..Start + MaxTime /\ gen \in Nat /\ card \in 1..MaxCards
  /\ room \subseteq history
  /\ presence.at \in Start..Start + MaxTime /\ presence.gen \in NoGen..gen
  /\ board \in Seq(1..Len(Queries)) /\ boardGen \in 0..MaxBoardGen
  /\ cursor \in 0..MaxBoard /\ cursorGen \in NoGen..boardGen /\ DOMAIN handled = 1..cursor
  /\ batch \in Seq(1..Len(Queries)) /\ from \in 0..MaxBoard + 1
  /\ pc \in {"idle", "row", "record", "read", "reread", "discovery"} /\ polled \in BOOLEAN
  /\ lag \in 0..MaxTime /\ faults \in 0..MaxFaults

\* The anchor and liveness cadence outruns the upstream's retention: the service
\* room, and with it the signed announcement, is reaped only if polls failed for
\* longer than one of the two margins, whatever sends fail or processes die in
\* between (PRESENCE_ANCHOR_AFTER, PRESENCE_LIVENESS_AFTER).  An activation that
\* shows nothing new but writes the presence row counts as polls missed since
\* the newest record.
StaysDiscoverable ==
  gen > 0 => lag >= SingleLife - Anchor \/ lag >= IdleLife - Liveness

\* A reaped service room is announced again.
AnnouncedAgain == (room = {}) ~> (room # {})

Beacons(kind) == {m \in history : m.kind = kind}

\* The liveness records of m's generation that are less than a period older.
CloseTo(m) ==
  {a \in Beacons("liveness") : a.gen = m.gen /\ m.at - a.at < Liveness}

\* Restarts and uncertain writes cannot multiply liveness records: a new one
\* comes a whole period after every record whose presence row was written, and
\* of those that were cut off before the row at most one of the same card is
\* closer (announce_presence keys them by generation, slot and card).
TwoPerPeriod ==
  [][\A m \in history' \ history : m.kind = "liveness" =>
       /\ \A a \in CloseTo(m) : a.key \notin recorded
       /\ \A a, b \in CloseTo(m) :
            a.key.card = m.key.card /\ b.key.card = m.key.card => a = b]_vars

\* In the generation it is of, the discovery cursor passes a signed, current
\* query only after its offer was shown, or because the requester's quota or
\* identifier is spent, or as one of a backlog longer than a read returns
\* (poll_once, _read_generation_safe).
CursorMeansHandled ==
  cursorGen = boardGen =>
    \A i \in 1..cursor :
      LET q == board[i] IN
      \/ handled[i] = "offered" /\ OfferKey(q) \in answered
      \/ handled[i] = "unsigned" /\ ~Queries[q].signed
      \/ handled[i] = "expired" /\ Queries[q].expires <= now
      \/ handled[i] \in {"quota", "conflict"} /\ \E o \in offers : o.did = Queries[q].did
      \/ handled[i] = "unread" /\ i + ReadLimit <= Len(board)

\* No query keeps the polls from their end for ever: one whose offer was stored
\* under a card that has been replaced since does so until it expires.  Once
\* peers stop posting, the cursor reaches the end of the room that is there.
DiscoveryDrains == <>[](cursorGen = boardGen /\ cursor = Len(board))
=============================================================================
