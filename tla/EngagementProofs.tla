-------------------------- MODULE EngagementProofs --------------------------
(* Proofs about the module Engagement: the limits on replies and on campaign *)
(* posts hold for every number of rooms, authors, records, policies and      *)
(* faults, and no reply goes to a record a checkpoint declared old.          *)
(*                                                                           *)
(* The limits are checked by the code against the rows that exist when a row *)
(* is added.  That they hold of all rows afterwards rests on two facts about *)
(* the tables: no row is younger than the clock, and a new row comes after   *)
(* all others in insertion order.                                            *)
EXTENDS Engagement, FiniteSetTheorems, SequenceTheorems, TLAPS

-----------------------------------------------------------------------------
(* The inductive invariant of the limits.                                    *)

Rows == replies \cup posts

\* The tables are finite, their rows are no younger than the clock, and the
\* next insertion number is larger than every number in use.
Tables ==
  /\ now \in Nat
  /\ IsFiniteSet(replies) /\ IsFiniteSet(posts)
  /\ \A x \in Rows : /\ x.at \in Nat /\ x.at <= now
                     /\ x.n \in Nat /\ x.n < Reservations

LimitInv == Tables /\ RepliesBounded /\ PostsBounded

\* What a reply reservation adds, where the limits allow one.
NewReply(r, rec) == [key |-> ReplyKey(r, rec), author |-> rec.author,
                     at |-> now, n |-> Reservations]

\* What a post reservation adds.
NewPost(r) == [key |-> PostKey(r), at |-> now, n |-> Reservations]

\* Adding a row to a finite table keeps it finite and makes it one larger.
LEMMA AddRow ==
  ASSUME NEW S, IsFiniteSet(S), NEW x, x \notin S
  PROVE  /\ IsFiniteSet(S \cup {x})
         /\ Cardinality(S) \in Nat /\ Cardinality(S \cup {x}) = Cardinality(S) + 1
  BY FS_AddElement, FS_CardinalityType

\* At the start both tables are empty.
LEMMA InitLimits == Init => LimitInv
  BY FS_EmptySet DEF Init, LimitInv, Tables, Rows, RepliesBounded, PostsBounded

\* The steps that touch neither table and let no time run backwards.
LEMMA QuietLimits ==
  ASSUME LimitInv, UNCHANGED <<replies, posts>>, now' \in Nat, now' >= now
  PROVE  LimitInv'
  <1>1. Reservations' = Reservations
    BY DEF Reservations
  <1>2. Tables'
    BY <1>1 DEF LimitInv, Tables, Rows
  <1>3. RepliesBounded' /\ PostsBounded'
    BY DEF LimitInv, RepliesBounded, PostsBounded
  <1> QED
    BY <1>2, <1>3 DEF LimitInv

\* reserve_engagement_reply: a row is added only where the day, the author and
\* the room allow it, and then every limit holds of the larger table.
LEMMA ReplyLimits ==
  ASSUME LimitInv, NEW r, NEW rec, ReplyDecision(r, rec) = "reserved",
         replies' = replies \cup {NewReply(r, rec)}, UNCHANGED <<now, posts>>
  PROVE  LimitInv'
  <1> DEFINE z == NewReply(r, rec)
             today == {y \in replies : y.at \div Day = now \div Day}
             sameDay(x) == {y \in replies : y.at \div Day = x.at \div Day}
  <1>1. /\ z.key.room = r /\ z.author = rec.author /\ z.at = now /\ z.n = Reservations
        /\ Reservations \in Nat
    BY FS_CardinalityType DEF NewReply, ReplyKey, LimitInv, Tables, Reservations
  <1>2. z \notin replies
    BY <1>1 DEF LimitInv, Tables, Rows
  <1>3. /\ IsFiniteSet(replies') /\ IsFiniteSet(posts')
        /\ Cardinality(replies') = Cardinality(replies) + 1
        /\ Reservations' = Reservations + 1
    <2> HIDE DEF z
    <2>1. /\ IsFiniteSet(replies \cup {z}) /\ Cardinality(replies) \in Nat
          /\ Cardinality(replies \cup {z}) = Cardinality(replies) + 1
      BY <1>2, AddRow DEF LimitInv, Tables
    <2>2. Cardinality(posts) \in Nat
      BY FS_CardinalityType DEF LimitInv, Tables
    <2> QED
      BY <2>1, <2>2 DEF LimitInv, Tables, Reservations, z
  <1>4. /\ ~(Cardinality(today) >= MaxReplies)
        /\ \A x \in replies : /\ x.author = rec.author => ~(x.at + AuthorGap >= now)
                              /\ x.key.room = r => ~(x.at + Cooldown >= now)
    BY DEF ReplyDecision
  <1> HIDE DEF z
  <1>5. Tables'
    <2> SUFFICES ASSUME NEW x \in Rows'
                 PROVE  /\ x.at \in Nat /\ x.at <= now
                        /\ x.n \in Nat /\ x.n < Reservations + 1
      BY <1>3 DEF LimitInv, Tables
    <2>1. CASE x \in Rows
      BY <2>1, <1>1 DEF LimitInv, Tables
    <2>2. CASE x = z
      BY <2>2, <1>1 DEF LimitInv, Tables
    <2> QED
      BY <2>1, <2>2 DEF Rows, z
  <1>6. ASSUME NEW x \in replies'
        PROVE  Cardinality({y \in replies' : y.at \div Day = x.at \div Day}) <= MaxReplies
    <2> DEFINE new == {y \in replies' : y.at \div Day = x.at \div Day}
    <2>1. CASE x.at \div Day = now \div Day
      <3>1. new = today \cup {z}
        BY <2>1, <1>1 DEF z
      <3>2. IsFiniteSet(today) /\ z \notin today
        BY <1>2, FS_Subset DEF LimitInv, Tables
      <3>3. Cardinality(new) = Cardinality(today) + 1 /\ Cardinality(today) \in Nat
        <4> HIDE DEF today, new
        <4> QED
          BY <3>1, <3>2, AddRow
      <3> QED
        BY <3>3, <1>4, EngagementAssumption
    <2>2. CASE x.at \div Day # now \div Day
      <3>1. x \in replies /\ new = sameDay(x)
        BY <2>2, <1>1 DEF z
      <3> QED
        BY <3>1 DEF LimitInv, RepliesBounded
    <2> QED
      BY <2>1, <2>2
  <1>7. ASSUME NEW x \in replies', NEW y \in replies', x.n < y.n
        PROVE  /\ x.author = y.author => y.at - x.at > AuthorGap
               /\ x.key.room = y.key.room => y.at - x.at > Cooldown
    <2>1. CASE y \in replies
      <3>1. x # z
        BY <2>1, <1>1, <1>7 DEF LimitInv, Tables, Rows
      <3> QED
        BY <2>1, <3>1, <1>7 DEF LimitInv, RepliesBounded, z
    <2>2. CASE y = z
      <3>1. x \in replies
        BY <2>2, <1>1, <1>7 DEF z
      <3>2. x.at \in Nat /\ now \in Nat
        BY <3>1 DEF LimitInv, Tables, Rows
      <3> QED
        BY <2>2, <3>1, <3>2, <1>1, <1>4, EngagementAssumption
    <2> QED
      BY <2>1, <2>2 DEF z
  <1>8. RepliesBounded'
    BY <1>6, <1>7 DEF RepliesBounded
  <1>9. PostsBounded'
    <2>1. ASSUME NEW y \in posts, NEW x \in posts \cup replies', x.n < y.n,
                 x.key.room = y.key.room
          PROVE  y.at - x.at >= MinInterval
      <3>1. x # z
        BY <2>1, <1>1 DEF LimitInv, Tables, Rows
      <3> QED
        BY <2>1, <3>1 DEF LimitInv, PostsBounded, z
    <2> QED
      BY <2>1 DEF LimitInv, PostsBounded
  <1> QED
    BY <1>5, <1>8, <1>9 DEF LimitInv

\* reserve_proactive_post: a row is added only where the day and the interval
\* since the room's replies and posts allow it.
LEMMA PostLimits ==
  ASSUME LimitInv, NEW r, PostDecision(r) = "reserved",
         posts' = posts \cup {NewPost(r)}, UNCHANGED <<now, replies>>
  PROVE  LimitInv'
  <1> DEFINE z == NewPost(r)
             today == {y \in posts : y.key.room = r /\ y.at \div Day = now \div Day}
             sameDay(x) == {y \in posts : /\ y.key.room = x.key.room
                                          /\ y.at \div Day = x.at \div Day}
  <1>1. /\ z.key.room = r /\ z.at = now /\ z.n = Reservations
        /\ Reservations \in Nat
    BY FS_CardinalityType DEF NewPost, PostKey, LimitInv, Tables, Reservations
  <1>2. z \notin posts
    BY <1>1 DEF LimitInv, Tables, Rows
  <1>3. /\ IsFiniteSet(replies') /\ IsFiniteSet(posts')
        /\ Reservations' = Reservations + 1
    <2> HIDE DEF z
    <2>1. /\ IsFiniteSet(posts \cup {z}) /\ Cardinality(posts) \in Nat
          /\ Cardinality(posts \cup {z}) = Cardinality(posts) + 1
      BY <1>2, AddRow DEF LimitInv, Tables
    <2>2. Cardinality(replies) \in Nat
      BY FS_CardinalityType DEF LimitInv, Tables
    <2> QED
      BY <2>1, <2>2 DEF LimitInv, Tables, Reservations, z
  <1>4. /\ ~(Cardinality(today) >= MaxPosts)
        /\ \A x \in posts \cup replies : x.key.room = r => ~(x.at + MinInterval > now)
    BY DEF PostDecision
  <1> HIDE DEF z
  <1>5. Tables'
    <2> SUFFICES ASSUME NEW x \in Rows'
                 PROVE  /\ x.at \in Nat /\ x.at <= now
                        /\ x.n \in Nat /\ x.n < Reservations + 1
      BY <1>3 DEF LimitInv, Tables
    <2>1. CASE x \in Rows
      BY <2>1, <1>1 DEF LimitInv, Tables
    <2>2. CASE x = z
      BY <2>2, <1>1 DEF LimitInv, Tables
    <2> QED
      BY <2>1, <2>2 DEF Rows, z
  <1>6. ASSUME NEW x \in posts'
        PROVE  Cardinality({y \in posts' : /\ y.key.room = x.key.room
                                           /\ y.at \div Day = x.at \div Day}) <= MaxPosts
    <2> DEFINE new == {y \in posts' : /\ y.key.room = x.key.room
                                      /\ y.at \div Day = x.at \div Day}
    <2>1. CASE x.key.room = r /\ x.at \div Day = now \div Day
      <3>1. new = today \cup {z}
        BY <2>1, <1>1 DEF z
      <3>2. IsFiniteSet(today) /\ z \notin today
        BY <1>2, FS_Subset DEF LimitInv, Tables
      <3>3. Cardinality(new) = Cardinality(today) + 1 /\ Cardinality(today) \in Nat
        <4> HIDE DEF today, new
        <4> QED
          BY <3>1, <3>2, AddRow
      <3> QED
        BY <3>3, <1>4, EngagementAssumption
    <2>2. CASE ~(x.key.room = r /\ x.at \div Day = now \div Day)
      <3>1. x \in posts /\ new = sameDay(x)
        BY <2>2, <1>1 DEF z
      <3> QED
        BY <3>1 DEF LimitInv, PostsBounded
    <2> QED
      BY <2>1, <2>2
  <1>7. ASSUME NEW y \in posts', NEW x \in posts' \cup replies, x.n < y.n,
               x.key.room = y.key.room
        PROVE  y.at - x.at >= MinInterval
    <2>1. CASE y \in posts
      <3>1. x # z
        BY <2>1, <1>1, <1>7 DEF LimitInv, Tables, Rows
      <3> QED
        BY <2>1, <3>1, <1>7 DEF LimitInv, PostsBounded, z
    <2>2. CASE y = z
      <3>1. x \in posts \cup replies
        BY <2>2, <1>1, <1>7 DEF z
      <3>2. x.at \in Nat /\ now \in Nat
        BY <3>1 DEF LimitInv, Tables, Rows
      <3> QED
        BY <2>2, <3>1, <3>2, <1>1, <1>4, <1>7, EngagementAssumption
    <2> QED
      BY <2>1, <2>2 DEF z
  <1>8. PostsBounded'
    BY <1>6, <1>7 DEF PostsBounded
  <1>9. RepliesBounded'
    BY DEF LimitInv, RepliesBounded
  <1> QED
    BY <1>5, <1>8, <1>9 DEF LimitInv

\* A record of the room is handled: the table of replies stays, or one
\* reservation is made.
LEMMA HandleLimits == LimitInv /\ HandleRecord => LimitInv'
  <1> SUFFICES ASSUME LimitInv, HandleRecord PROVE LimitInv'
    OBVIOUS
  <1> DEFINE r == Rooms[at]  rec == Head(batch)
  <1>1. /\ UNCHANGED <<now, posts>>
        /\ replies' = replies \/ ReserveReply(r, rec)
    BY DEF HandleRecord
  <1>2. CASE replies' = replies
    BY <1>1, <1>2, QuietLimits DEF LimitInv, Tables
  <1>3. CASE ReserveReply(r, rec) /\ replies' # replies
    <2>1. ReplyDecision(r, rec) = "reserved" /\ replies' = replies \cup {NewReply(r, rec)}
      BY <1>3 DEF ReserveReply, NewReply
    <2> HIDE DEF r, rec
    <2> QED
      BY <2>1, <1>1, ReplyLimits
  <1> QED
    BY <1>1, <1>2, <1>3

\* The campaign's turn in a room: the table of posts stays, or one reservation
\* is made.
LEMMA ProactiveLimits == LimitInv /\ Proactive => LimitInv'
  <1> SUFFICES ASSUME LimitInv, Proactive PROVE LimitInv'
    OBVIOUS
  <1> DEFINE r == Rooms[at]
  <1>1. /\ UNCHANGED <<now, replies>>
        /\ posts' = posts \/ ReservePost(r)
    BY DEF Proactive
  <1>2. CASE posts' = posts
    BY <1>1, <1>2, QuietLimits DEF LimitInv, Tables
  <1>3. CASE ReservePost(r) /\ posts' # posts
    <2>1. PostDecision(r) = "reserved" /\ posts' = posts \cup {NewPost(r)}
      BY <1>3 DEF ReservePost, NewPost
    <2> HIDE DEF r
    <2> QED
      BY <2>1, <1>1, PostLimits
  <1> QED
    BY <1>1, <1>2, <1>3

\* Every step keeps the limits.
LEMMA StepLimits == LimitInv /\ [Next]_vars => LimitInv'
  <1> SUFFICES ASSUME LimitInv, [Next]_vars PROVE LimitInv'
    OBVIOUS
  <1>1. CASE Tick
    BY <1>1, QuietLimits DEF Tick, storeVars, LimitInv, Tables
  <1>2. CASE HandleRecord
    BY <1>2, HandleLimits
  <1>3. CASE Proactive
    BY <1>3, ProactiveLimits
  <1>4. CASE \/ Reconfigure \/ ActivateEngagement \/ ActivateInterrupted
             \/ \E r \in RoomSet : Reap(r) \/ \E a \in Authors \cup {Noise} : PeerPost(r, a)
             \/ BeginPoll \/ ReadRoom \/ RoomDone \/ UNCHANGED vars
    <2>1. UNCHANGED <<now, replies, posts>>
      BY <1>4 DEF Reconfigure, ActivateEngagement, ActivateInterrupted, Reap, PeerPost,
                  BeginPoll, ReadRoom, RoomDone, vars, storeVars
    <2> QED
      BY <2>1, QuietLimits DEF LimitInv, Tables
  <1> QED
    BY <1>1, <1>2, <1>3, <1>4 DEF Next

\* The limits and the facts about the tables they rest on hold in every
\* reachable state.
THEOREM LimitInvAlways == Spec => []LimitInv
  BY InitLimits, StepLimits, PTL DEF Spec

\* Reply reservations keep the daily number, the author's gap and the room's
\* cooldown, over restarts, retries and policy changes
\* (reserve_engagement_reply).
THEOREM RepliesBoundedAlways == Spec => []RepliesBounded
  <1>1. LimitInv => RepliesBounded
    BY DEF LimitInv
  <1> QED
    BY <1>1, LimitInvAlways, PTL

\* Campaign posts keep the daily number in each room and their distance from
\* every earlier reply and post there, also across policies
\* (reserve_proactive_post).
THEOREM PostsBoundedAlways == Spec => []PostsBounded
  <1>1. LimitInv => PostsBounded
    BY DEF LimitInv
  <1> QED
    BY <1>1, LimitInvAlways, PTL

-----------------------------------------------------------------------------
(* No reply to a record that was declared old.                               *)

\* Rooms, checkpoints and the poll's place hold values of their kind.
Kinds ==
  /\ log \in [RoomSet -> Seq(Authors \cup {Noise})] /\ gen \in [RoomSet -> Nat]
  /\ checkpoint \in [RoomSet -> [seq : Nat, gen : Nat]]
  /\ at \in 1..Len(Rooms)

\* A record declared old is of a generation the room has had, lies in the room
\* if it is of the present one, and lies behind the checkpoint if that is of the
\* same generation.
OldBehind ==
  \A k \in stale :
    /\ k.room \in RoomSet /\ k.gen \in Nat /\ k.seq \in Nat
    /\ k.gen <= gen[k.room]
    /\ k.gen = gen[k.room] => k.seq <= Len(log[k.room])
    /\ k.gen = checkpoint[k.room].gen => k.seq <= checkpoint[k.room].seq

\* The records still to look at follow the room's checkpoint, one by one.
BatchAhead ==
  pc = "reply" =>
    /\ batch \in Seq([seq : Nat, author : Authors \cup {Noise}])
    /\ \A i \in 1..Len(batch) : batch[i].seq = checkpoint[Rooms[at]].seq + i

StaleInv == Kinds /\ OldBehind /\ BatchAhead

\* The room the poll is at is one of the rooms.
LEMMA RoomAt ==
  ASSUME Kinds
  PROVE  Rooms[at] \in RoomSet
  BY DEF Kinds, RoomSet

\* At the start nothing is declared old.
LEMMA InitStale == Init => StaleInv
  <1> SUFFICES ASSUME Init PROVE StaleInv
    OBVIOUS
  <1>1. 1 \in 1..Len(Rooms)
    BY EngagementAssumption
  <1>2. Kinds
    BY <1>1 DEF Init, Kinds
  <1> QED
    BY <1>2 DEF Init, StaleInv, OldBehind, BatchAhead

\* A room gets a record more: what is old stays behind the checkpoint.
LEMMA RoomGrows ==
  ASSUME StaleInv, NEW r \in RoomSet, NEW a \in Authors \cup {Noise},
         log' = [log EXCEPT ![r] = Append(@, a)], UNCHANGED <<gen, stale>>
  PROVE  /\ log' \in [RoomSet -> Seq(Authors \cup {Noise})]
         /\ \A s \in RoomSet : Len(log[s]) \in Nat /\ Len(log'[s]) \in Nat
                               /\ Len(log[s]) <= Len(log'[s])
  <1>1. log[r] \in Seq(Authors \cup {Noise})
    BY DEF StaleInv, Kinds
  <1>2. /\ Append(log[r], a) \in Seq(Authors \cup {Noise})
        /\ Len(Append(log[r], a)) = Len(log[r]) + 1 /\ Len(log[r]) \in Nat
    BY <1>1, AppendProperties, LenProperties
  <1>3. \A s \in RoomSet : log'[s] = IF s = r THEN Append(log[r], a) ELSE log[s]
    BY DEF StaleInv, Kinds
  <1>4. \A s \in RoomSet : Len(log[s]) \in Nat
    BY LenProperties DEF StaleInv, Kinds
  <1>5. log' \in [RoomSet -> Seq(Authors \cup {Noise})]
    BY <1>2 DEF StaleInv, Kinds
  <1> QED
    BY <1>2, <1>3, <1>4, <1>5

\* Showing a message is at most one record more in the room.
LEMMA ShowGrows ==
  ASSUME StaleInv, NEW key, Show(key, Rooms[at]) \/ UNCHANGED <<log, shown>>,
         UNCHANGED <<gen, stale>>
  PROVE  /\ log' \in [RoomSet -> Seq(Authors \cup {Noise})]
         /\ \A s \in RoomSet : Len(log[s]) \in Nat /\ Len(log'[s]) \in Nat
                               /\ Len(log[s]) <= Len(log'[s])
  <1>1. Rooms[at] \in RoomSet
    BY RoomAt DEF StaleInv
  <1>2. CASE UNCHANGED log
    BY <1>2, LenProperties DEF StaleInv, Kinds
  <1>3. CASE log' = [log EXCEPT ![Rooms[at]] = Append(@, Noise)]
    BY <1>1, <1>3, RoomGrows
  <1> QED
    BY <1>2, <1>3 DEF Show

\* A checkpoint set to the end of its room keeps the records declared old
\* behind it, the ones declared old with it included.
LEMMA SetToEnd ==
  ASSUME StaleInv, NEW S \in SUBSET RoomSet,
         checkpoint' = [r \in RoomSet |-> IF r \in S THEN [seq |-> Len(log[r]), gen |-> gen[r]]
                                          ELSE checkpoint[r]],
         stale' = stale \cup UNION {Old(r) : r \in S}, UNCHANGED <<log, gen>>
  PROVE  /\ checkpoint' \in [RoomSet -> [seq : Nat, gen : Nat]]
         /\ OldBehind'
  <1>1. \A r \in RoomSet : Len(log[r]) \in Nat /\ gen[r] \in Nat
    BY LenProperties DEF StaleInv, Kinds
  <1>2. checkpoint' \in [RoomSet -> [seq : Nat, gen : Nat]]
    BY <1>1 DEF StaleInv, Kinds
  <1>3. ASSUME NEW k \in stale'
        PROVE  /\ k.room \in RoomSet /\ k.gen \in Nat /\ k.seq \in Nat
               /\ k.gen <= gen[k.room]
               /\ k.gen = gen[k.room] => k.seq <= Len(log[k.room])
               /\ k.gen = checkpoint[k.room]'.gen => k.seq <= checkpoint[k.room]'.seq
    <2>1. CASE k \in stale
      BY <2>1, <1>1 DEF StaleInv, OldBehind
    <2>2. CASE k \notin stale
      <3>1. PICK r \in S : k \in Old(r)
        BY <2>2
      <3>2. PICK s \in 1..Len(log[r]) : k = [room |-> r, gen |-> gen[r], seq |-> s]
        BY <3>1 DEF Old
      <3>3. r \in RoomSet /\ checkpoint[r]' = [seq |-> Len(log[r]), gen |-> gen[r]]
        BY <3>1
      <3> QED
        BY <3>2, <3>3, <1>1
    <2> QED
      BY <2>1, <2>2
  <1>4. OldBehind'
    BY <1>3 DEF OldBehind
  <1> QED
    BY <1>2, <1>4

\* activate_engagement, whole or interrupted.
LEMMA ActivateStale ==
  ASSUME StaleInv, ActivateEngagement \/ ActivateInterrupted
  PROVE  StaleInv'
  <1>1. PICK S \in SUBSET RoomSet : SetCheckpoints(S)
    <2>1. CASE ActivateEngagement
      BY <2>1 DEF ActivateEngagement
    <2>2. CASE ActivateInterrupted
      <3>1. PICK k \in 0..Len(Rooms) : SetCheckpoints({Rooms[i] : i \in 1..k})
        BY <2>2 DEF ActivateInterrupted
      <3>2. {Rooms[i] : i \in 1..k} \subseteq RoomSet
        BY EngagementAssumption DEF RoomSet
      <3> QED
        BY <3>1, <3>2
    <2> QED
      BY <2>1, <2>2
  <1>2. UNCHANGED <<log, gen, at, pc, batch>> /\ pc = "idle"
    BY DEF ActivateEngagement, ActivateInterrupted, roomVars, pollVars
  <1>3. checkpoint' \in [RoomSet -> [seq : Nat, gen : Nat]] /\ OldBehind'
    BY <1>1, <1>2, SetToEnd DEF SetCheckpoints
  <1> QED
    BY <1>2, <1>3 DEF StaleInv, Kinds, BatchAhead

\* A peer's record.
LEMMA PeerPostStale ==
  ASSUME StaleInv, NEW r \in RoomSet, NEW a \in Authors \cup {Noise}, PeerPost(r, a)
  PROVE  StaleInv'
  <1>1. /\ log' \in [RoomSet -> Seq(Authors \cup {Noise})]
        /\ \A s \in RoomSet : Len(log[s]) \in Nat /\ Len(log'[s]) \in Nat
                              /\ Len(log[s]) <= Len(log'[s])
    BY RoomGrows DEF PeerPost
  <1>2. UNCHANGED <<gen, checkpoint, stale, pc, at, batch>>
    BY DEF PeerPost, storeVars, pollVars
  <1>3. OldBehind'
    BY <1>1, <1>2 DEF StaleInv, OldBehind
  <1> QED
    BY <1>1, <1>2, <1>3 DEF StaleInv, Kinds, BatchAhead

\* A recreated room: nothing old is of the new generation.
LEMMA ReapStale ==
  ASSUME StaleInv, NEW r \in RoomSet, Reap(r)
  PROVE  StaleInv'
  <1>1. UNCHANGED <<checkpoint, stale, pc, at, batch>>
    BY DEF Reap, storeVars, pollVars
  <1>2. /\ \A s \in RoomSet : /\ log'[s] = IF s = r THEN <<>> ELSE log[s]
                              /\ gen'[s] = IF s = r THEN gen[r] + 1 ELSE gen[s]
                              /\ gen[s] \in Nat
        /\ log' \in [RoomSet -> Seq(Authors \cup {Noise})] /\ gen' \in [RoomSet -> Nat]
    BY DEF Reap, StaleInv, Kinds
  <1>3. ASSUME NEW k \in stale
        PROVE  /\ k.room \in RoomSet /\ k.gen \in Nat /\ k.seq \in Nat
               /\ k.gen <= gen'[k.room]
               /\ k.gen = gen'[k.room] => k.seq <= Len(log'[k.room])
               /\ k.gen = checkpoint[k.room].gen => k.seq <= checkpoint[k.room].seq
    <2>1. /\ k.room \in RoomSet /\ k.gen \in Nat /\ k.seq \in Nat
          /\ k.gen <= gen[k.room]
          /\ k.gen = gen[k.room] => k.seq <= Len(log[k.room])
          /\ k.gen = checkpoint[k.room].gen => k.seq <= checkpoint[k.room].seq
      BY DEF StaleInv, OldBehind
    <2>2. CASE k.room = r
      BY <2>1, <2>2, <1>2
    <2>3. CASE k.room # r
      BY <2>1, <2>3, <1>2
    <2> QED
      BY <2>2, <2>3
  <1>4. OldBehind'
    BY <1>1, <1>3 DEF OldBehind
  <1> QED
    BY <1>1, <1>2, <1>4 DEF StaleInv, Kinds, BatchAhead

\* The next room in order is a room too.
LEMMA NextRoomPlace ==
  ASSUME Kinds, NextRoom
  PROVE  at' \in 1..Len(Rooms) /\ pc' # "reply"
  BY EngagementAssumption DEF Kinds, NextRoom

\* A function on the first n numbers is a sequence of length n.
LEMMA FunctionIsSeq ==
  ASSUME NEW S, NEW n \in Nat, NEW f \in [1..n -> S]
  PROVE  f \in Seq(S) /\ Len(f) = n
  OBVIOUS

\* A room is read: skipped, with its records declared old, or its new records
\* are taken in order.
LEMMA ReadStale ==
  ASSUME StaleInv, ReadRoom
  PROVE  StaleInv'
  <1> DEFINE r == Rooms[at]  cursor == checkpoint[r].seq
  <1>1. r \in RoomSet
    BY RoomAt DEF StaleInv
  <1>2. UNCHANGED <<log, gen>>
    BY DEF ReadRoom, roomVars
  <1>3. CASE Skipped(r)
    <2>1. /\ checkpoint' = [checkpoint EXCEPT ![r] = [seq |-> Len(log[r]), gen |-> gen[r]]]
          /\ stale' = stale \cup Old(r) /\ NextRoom
      BY <1>3 DEF ReadRoom
    <2>2. /\ checkpoint' = [s \in RoomSet |-> IF s \in {r}
                               THEN [seq |-> Len(log[s]), gen |-> gen[s]] ELSE checkpoint[s]]
          /\ stale' = stale \cup UNION {Old(s) : s \in {r}}
      BY <2>1, <1>1 DEF StaleInv, Kinds
    <2>3. checkpoint' \in [RoomSet -> [seq : Nat, gen : Nat]] /\ OldBehind'
      <3>1. {r} \in SUBSET RoomSet
        BY <1>1
      <3> HIDE DEF r
      <3> QED
        BY <2>2, <3>1, <1>2, SetToEnd
    <2>4. at' \in 1..Len(Rooms) /\ pc' # "reply"
      BY <2>1, NextRoomPlace DEF StaleInv
    <2> QED
      BY <2>3, <2>4, <1>2 DEF StaleInv, Kinds, BatchAhead
  <1>4. CASE ~Skipped(r)
    <2>1. /\ batch' = [i \in 1..(Len(log[r]) - cursor) |->
                         [seq |-> cursor + i, author |-> log[r][cursor + i]]]
          /\ UNCHANGED <<checkpoint, stale, at>>
      BY <1>4 DEF ReadRoom
    <2>2. cursor \in Nat /\ Len(log[r]) \in Nat /\ log[r] \in Seq(Authors \cup {Noise})
      BY <1>1, LenProperties DEF StaleInv, Kinds
    <2>3. /\ batch' \in Seq([seq : Nat, author : Authors \cup {Noise}])
          /\ \A i \in 1..Len(batch') : batch'[i].seq = cursor + i
      <3> DEFINE n == IF Len(log[r]) >= cursor THEN Len(log[r]) - cursor ELSE 0
      <3>1. n \in Nat /\ 1..(Len(log[r]) - cursor) = 1..n
        BY <2>2
      <3>2. \A i \in 1..n : /\ [seq |-> cursor + i, author |-> log[r][cursor + i]]
                                 \in [seq : Nat, author : Authors \cup {Noise}]
        <4> SUFFICES ASSUME NEW i \in 1..n PROVE log[r][cursor + i] \in Authors \cup {Noise}
          BY <2>2
        <4>1. cursor + i \in 1..Len(log[r])
          BY <2>2
        <4> QED
          BY <4>1, <2>2, ElementOfSeq
      <3>3. batch' \in [1..n -> [seq : Nat, author : Authors \cup {Noise}]]
        BY <2>1, <3>1, <3>2
      <3>4. batch' \in Seq([seq : Nat, author : Authors \cup {Noise}]) /\ Len(batch') = n
        <4> HIDE DEF n
        <4> QED
          BY <3>1, <3>3, FunctionIsSeq
      <3> QED
        BY <2>1, <3>1, <3>4
    <2> QED
      BY <2>1, <2>3, <1>2 DEF StaleInv, Kinds, OldBehind, BatchAhead
  <1> QED
    BY <1>3, <1>4

\* The first record of a batch comes right after the checkpoint.
LEMMA FirstOfBatch ==
  ASSUME StaleInv, pc = "reply", batch # <<>>
  PROVE  /\ Head(batch).seq = checkpoint[Rooms[at]].seq + 1
         /\ Tail(batch) \in Seq([seq : Nat, author : Authors \cup {Noise}])
         /\ \A i \in 1..Len(Tail(batch)) :
              Tail(batch)[i].seq = checkpoint[Rooms[at]].seq + 1 + i
  <1> DEFINE R == [seq : Nat, author : Authors \cup {Noise}]
  <1>1. batch \in Seq(R) /\ Len(batch) \in Nat /\ Len(batch) # 0
    BY LenProperties, EmptySeq DEF StaleInv, BatchAhead
  <1>2. /\ Head(batch) = batch[1] /\ Tail(batch) \in Seq(R)
        /\ Len(Tail(batch)) = Len(batch) - 1
        /\ \A i \in 1..Len(Tail(batch)) : Tail(batch)[i] = batch[i + 1]
    <2> HIDE DEF R
    <2> QED
      BY <1>1, HeadTailProperties
  <1>3. checkpoint[Rooms[at]].seq \in Nat
    BY RoomAt DEF StaleInv, Kinds
  <1>4. \A i \in 1..Len(batch) : batch[i].seq = checkpoint[Rooms[at]].seq + i
    BY DEF StaleInv, BatchAhead
  <1>5. ASSUME NEW i \in 1..Len(Tail(batch))
        PROVE  Tail(batch)[i].seq = checkpoint[Rooms[at]].seq + 1 + i
    <2>1. i + 1 \in 1..Len(batch) /\ Tail(batch)[i] = batch[i + 1]
      BY <1>1, <1>2
    <2>2. batch[i + 1].seq = checkpoint[Rooms[at]].seq + (i + 1)
      BY <2>1, <1>4
    <2>3. i \in Nat
      BY <1>1, <1>2
    <2> QED
      BY <2>1, <2>2, <2>3, <1>3
  <1>6. Head(batch).seq = checkpoint[Rooms[at]].seq + 1
    BY <1>1, <1>2, <1>4
  <1> QED
    BY <1>2, <1>5, <1>6

\* A record is handled, or the poll ends in it.
LEMMA HandleStale ==
  ASSUME StaleInv, HandleRecord
  PROVE  StaleInv'
  <1> DEFINE r == Rooms[at]  rec == Head(batch)
  <1>1. r \in RoomSet
    BY RoomAt DEF StaleInv
  <1>2. /\ UNCHANGED <<gen, stale>> /\ pc = "reply" /\ batch # <<>>
        /\ Show(ReplyKey(r, rec), r) \/ UNCHANGED <<log, shown>>
        /\ Handled(r, rec) \/ (EndPoll /\ UNCHANGED checkpoint)
    BY DEF HandleRecord
  <1>3. /\ log' \in [RoomSet -> Seq(Authors \cup {Noise})]
        /\ \A s \in RoomSet : Len(log[s]) \in Nat /\ Len(log'[s]) \in Nat
                              /\ Len(log[s]) <= Len(log'[s])
    <2>1. PICK key : key = ReplyKey(r, rec)
      OBVIOUS
    <2> QED
      BY <1>2, <2>1, ShowGrows
  <1>4. CASE Handled(r, rec)
    <2>1. /\ rec.seq = checkpoint[r].seq + 1 /\ checkpoint[r].seq \in Nat
      BY <1>1, <1>2, FirstOfBatch DEF StaleInv, Kinds
    <2>2. /\ checkpoint' = [checkpoint EXCEPT ![r].seq = rec.seq]
          /\ batch' = Tail(batch) /\ UNCHANGED <<pc, at>>
      BY <1>4 DEF Handled
    <2>3. /\ checkpoint' \in [RoomSet -> [seq : Nat, gen : Nat]]
          /\ checkpoint'[r].seq = checkpoint[r].seq + 1 /\ checkpoint'[r].gen = checkpoint[r].gen
          /\ \A s \in RoomSet \ {r} : checkpoint'[s] = checkpoint[s]
      <3>1. checkpoint[r] \in [seq : Nat, gen : Nat]
        BY <1>1 DEF StaleInv, Kinds
      <3>2. checkpoint' = [checkpoint EXCEPT ![r] = [checkpoint[r] EXCEPT !.seq = rec.seq]]
        BY <2>2
      <3>3. /\ [checkpoint[r] EXCEPT !.seq = rec.seq] \in [seq : Nat, gen : Nat]
            /\ [checkpoint[r] EXCEPT !.seq = rec.seq].seq = rec.seq
            /\ [checkpoint[r] EXCEPT !.seq = rec.seq].gen = checkpoint[r].gen
        BY <3>1, <2>1
      <3> QED
        BY <3>2, <3>3, <2>1, <1>1 DEF StaleInv, Kinds
    <2>4. OldBehind'
      <3> SUFFICES ASSUME NEW k \in stale
                   PROVE  /\ k.room \in RoomSet /\ k.gen \in Nat /\ k.seq \in Nat
                          /\ k.gen <= gen[k.room]
                          /\ k.gen = gen[k.room] => k.seq <= Len(log'[k.room])
                          /\ k.gen = checkpoint'[k.room].gen
                               => k.seq <= checkpoint'[k.room].seq
        BY <1>2 DEF OldBehind
      <3>1. /\ k.room \in RoomSet /\ k.gen \in Nat /\ k.seq \in Nat
            /\ k.gen <= gen[k.room]
            /\ k.gen = gen[k.room] => k.seq <= Len(log[k.room])
            /\ k.gen = checkpoint[k.room].gen => k.seq <= checkpoint[k.room].seq
        BY DEF StaleInv, OldBehind
      <3>2. k.gen = gen[k.room] => k.seq <= Len(log'[k.room])
        BY <3>1, <1>3
      <3>3. k.gen = checkpoint'[k.room].gen => k.seq <= checkpoint'[k.room].seq
        BY <3>1, <2>1, <2>3
      <3> QED
        BY <3>1, <3>2, <3>3
    <2>5. BatchAhead'
      <3>1. /\ Tail(batch) \in Seq([seq : Nat, author : Authors \cup {Noise}])
            /\ \A i \in 1..Len(Tail(batch)) : Tail(batch)[i].seq = checkpoint[r].seq + 1 + i
        BY <1>2, FirstOfBatch
      <3> QED
        BY <3>1, <2>2, <2>3 DEF BatchAhead
    <2> QED
      BY <2>2, <2>3, <2>4, <2>5, <1>2, <1>3 DEF StaleInv, Kinds
  <1>5. CASE EndPoll /\ UNCHANGED checkpoint
    <2>1. pc' = "idle" /\ at' = 1 /\ 1 \in 1..Len(Rooms)
      BY <1>5, EngagementAssumption DEF EndPoll
    <2>2. OldBehind'
      BY <1>2, <1>3, <1>5 DEF StaleInv, OldBehind
    <2> QED
      BY <2>1, <2>2, <1>2, <1>3, <1>5 DEF StaleInv, Kinds, BatchAhead
  <1> QED
    BY <1>2, <1>4, <1>5

\* A campaign post: at most one record more in the room.
LEMMA ProactiveStale ==
  ASSUME StaleInv, Proactive
  PROVE  StaleInv'
  <1> DEFINE r == Rooms[at]
  <1>1. /\ UNCHANGED <<gen, stale, checkpoint>> /\ pc = "proactive"
        /\ Show(PostKey(r), r) \/ UNCHANGED <<log, shown>>
        /\ NextPost \/ EndPoll
    BY DEF Proactive
  <1>2. /\ log' \in [RoomSet -> Seq(Authors \cup {Noise})]
        /\ \A s \in RoomSet : Len(log[s]) \in Nat /\ Len(log'[s]) \in Nat
                              /\ Len(log[s]) <= Len(log'[s])
    <2>1. PICK key : key = PostKey(r)
      OBVIOUS
    <2> QED
      BY <1>1, <2>1, ShowGrows
  <1>3. at' \in 1..Len(Rooms) /\ pc' # "reply"
    BY <1>1, EngagementAssumption DEF NextPost, EndPoll, StaleInv, Kinds
  <1>4. OldBehind'
    BY <1>1, <1>2 DEF StaleInv, OldBehind
  <1> QED
    BY <1>1, <1>2, <1>3, <1>4 DEF StaleInv, Kinds, BatchAhead

\* Every step keeps what is old behind the checkpoints.
LEMMA StepStale == StaleInv /\ [Next]_vars => StaleInv'
  <1> SUFFICES ASSUME StaleInv, [Next]_vars PROVE StaleInv'
    OBVIOUS
  <1>1. CASE Tick \/ Reconfigure \/ BeginPoll \/ RoomDone \/ UNCHANGED vars
    <2>1. UNCHANGED <<log, gen, checkpoint, stale>>
      BY <1>1 DEF Tick, Reconfigure, BeginPoll, RoomDone, vars, roomVars, storeVars
    <2>2. CASE Tick \/ Reconfigure \/ UNCHANGED vars
      <3>1. UNCHANGED <<pc, at, batch>>
        BY <2>2 DEF Tick, Reconfigure, vars, pollVars
      <3> QED
        BY <2>1, <3>1 DEF StaleInv, Kinds, OldBehind, BatchAhead
    <2>3. CASE BeginPoll \/ RoomDone
      <3>1. at' \in 1..Len(Rooms) /\ pc' # "reply"
        BY <2>3, EngagementAssumption, NextRoomPlace DEF BeginPoll, RoomDone, StaleInv
      <3> QED
        BY <2>1, <3>1 DEF StaleInv, Kinds, OldBehind, BatchAhead
    <2> QED
      BY <1>1, <2>2, <2>3
  <1>2. CASE ActivateEngagement \/ ActivateInterrupted
    BY <1>2, ActivateStale
  <1>3. CASE \E r \in RoomSet : Reap(r) \/ \E a \in Authors \cup {Noise} : PeerPost(r, a)
    BY <1>3, ReapStale, PeerPostStale
  <1>4. CASE ReadRoom
    BY <1>4, ReadStale
  <1>5. CASE HandleRecord
    BY <1>5, HandleStale
  <1>6. CASE Proactive
    BY <1>6, ProactiveStale
  <1> QED
    BY <1>1, <1>2, <1>3, <1>4, <1>5, <1>6 DEF Next

\* A reply reserved in a step answers a record beyond the room's checkpoint.
LEMMA ReplyFresh ==
  ASSUME StaleInv, [Next]_vars, NEW x \in replies' \ replies
  PROVE  x.key \notin stale
  <1>1. HandleRecord
    BY DEF Next, vars, Tick, Reconfigure, ActivateEngagement, ActivateInterrupted, Reap,
           PeerPost, BeginPoll, ReadRoom, RoomDone, Proactive, storeVars
  <1> DEFINE r == Rooms[at]  rec == Head(batch)
  <1>2. pc = "reply" /\ batch # <<>> /\ x.key = ReplyKey(r, rec)
    BY <1>1 DEF HandleRecord, ReserveReply
  <1>3. /\ x.key.room = r /\ x.key.gen = checkpoint[r].gen
        /\ x.key.seq = checkpoint[r].seq + 1 /\ checkpoint[r].seq \in Nat
    BY <1>2, FirstOfBatch, RoomAt DEF ReplyKey, StaleInv, Kinds
  <1> QED
    BY <1>3 DEF StaleInv, OldBehind

\* The checkpoints stay ahead of the records declared old in every reachable
\* state.
THEOREM StaleInvAlways == Spec => []StaleInv
  BY InitStale, StepStale, PTL DEF Spec

\* No step reserves a reply to a record that was in the room before its
\* checkpoint was last set: at activation, when the room was found recreated,
\* or when the backlog was too large (activate_engagement, _poll_engagement).
THEOREM NoStaleReplyAlways == Spec => NoStaleReply
  <1>1. StaleInv /\ [Next]_vars => [\A x \in replies' \ replies : x.key \notin stale]_vars
    BY ReplyFresh
  <1> QED
    BY <1>1, StaleInvAlways, PTL DEF Spec, NoStaleReply
=============================================================================
