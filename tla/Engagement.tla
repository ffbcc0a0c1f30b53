------------------------------ MODULE Engagement ------------------------------
(* Bounded participation in common rooms (pilot.py, engagement.py and the      *)
(* reservations of persistence.py): each poll answers fresh signed questions   *)
(* with a fixed reply, at most so many a day, and then posts the fixed message *)
(* of the current campaign slot.                                               *)
(*                                                                             *)
(* Every message is reserved in the state database and then sent through the   *)
(* delivery lane, taken here for what the module Delivery shows of it: one     *)
(* copy per key, whatever retries follow.  A send may fail, or the process may *)
(* die in it, with the message shown or not; the poll is then over.  Time is   *)
(* counted in ticks of two hours and passes between polls.                     *)
EXTENDS Naturals, Sequences, FiniteSets

CONSTANTS
  Rooms,         \* the reviewed rooms, in configured order
  Authors,       \* peers who ask questions
  Noise,         \* the author of a record classify ignores
  ReadLimit,     \* records per read, and the backlog that is too large
  Day, AuthorGap, Cooldown, MaxReplies,                  \* reply limits
  SlotLength, Campaign, MinInterval, MaxPosts,           \* campaign limits
  MaxTime,       \* bound: ticks
  MaxRecords,    \* bound: records peers post, over all rooms
  MaxFaults,     \* bound: rooms recreated, failed sends and crashes
  MaxPolicies    \* bound: engagement policies configured

ASSUME EngagementAssumption ==
  /\ Len(Rooms) \in Nat \ {0}
  /\ Noise \notin Authors
  /\ ReadLimit \in Nat \ {0} /\ Day \in Nat \ {0}
  /\ SlotLength \in Nat \ {0} /\ MinInterval \in Nat \ {0}
  /\ AuthorGap \in Nat /\ Cooldown \in Nat /\ MaxReplies \in Nat
  /\ Campaign \in Nat /\ MaxPosts \in Nat
  /\ MaxTime \in Nat /\ MaxRecords \in Nat /\ MaxFaults \in Nat
  /\ MaxPolicies \in Nat \ {0}

RoomSet == {Rooms[i] : i \in 1..Len(Rooms)}

VARIABLES
  now,        \* the clock
  log, gen,   \* room -> authors of its records, by sequence; its generation
  checkpoint, \* engagement_cursors
  replies,    \* engagement_replies
  posts,      \* engagement_proactive_posts
  shown,      \* delivery keys whose message showed in a room
  policy,     \* the policy the configuration amounts to
  approved,   \* engagement-activation.json: policy and activated_at
  pc, at, batch, \* the poll: phase, room, records still to look at
  records, faults,
  stale       \* records that were there before a checkpoint was (re)set

roomVars == <<log, gen>>
storeVars == <<checkpoint, replies, posts>>
pollVars == <<pc, at, batch>>
boundVars == <<records, faults>>
vars == <<now, roomVars, storeVars, shown, policy, approved, pollVars, boundVars, stale>>

-----------------------------------------------------------------------------
(* Sending.                                                                   *)

\* The message shows in the room, unless it did before.
Show(key, room) ==
  IF key \in shown THEN UNCHANGED <<shown, log>>
  ELSE /\ shown' = shown \cup {key}
       /\ log' = [log EXCEPT ![room] = Append(@, Noise)]

Fault == faults < MaxFaults /\ faults' = faults + 1
EndPoll == pc' = "idle" /\ at' = 1 /\ batch' = <<>>

\* The records a checkpoint set to the end of a room declares old.
Old(r) == {[room |-> r, gen |-> gen[r], seq |-> s] : s \in 1..Len(log[r])}

-----------------------------------------------------------------------------
Init ==
  /\ now = 0
  /\ log = [r \in RoomSet |-> <<>>] /\ gen = [r \in RoomSet |-> 0]
  /\ checkpoint = [r \in RoomSet |-> [seq |-> 0, gen |-> 0]]
  /\ replies = {} /\ posts = {} /\ shown = {}
  /\ policy = 1 /\ approved = [policy |-> 0, at |-> 0]
  /\ pc = "idle" /\ at = 1 /\ batch = <<>>
  /\ records = 0 /\ faults = 0
  /\ stale = {}

(* Surroundings.                                                              *)

Tick ==
  /\ pc = "idle" /\ now < MaxTime
  /\ now' = now + 1
  /\ UNCHANGED <<roomVars, storeVars, shown, policy, approved, pollVars, boundVars, stale>>

PeerPost(r, author) ==
  /\ records < MaxRecords
  /\ records' = records + 1
  /\ log' = [log EXCEPT ![r] = Append(@, author)]
  /\ UNCHANGED <<now, gen, storeVars, shown, policy, approved, pollVars, faults, stale>>

\* Upstream retention recreates a room.
Reap(r) ==
  /\ Fault
  /\ log' = [log EXCEPT ![r] = <<>>] /\ gen' = [gen EXCEPT ![r] = @ + 1]
  /\ UNCHANGED <<now, storeVars, shown, policy, approved, pollVars, records, stale>>

\* The operator changes the configuration, or changes it back; until the policy
\* is approved every poll raises engagement_not_approved.
Reconfigure ==
  /\ pc = "idle"
  /\ policy' \in 1..MaxPolicies \ {policy}
  /\ UNCHANGED <<now, roomVars, storeVars, shown, approved, pollVars, boundVars, stale>>

\* activate_engagement: the checkpoints move to the rooms' ends, then the
\* activation is written.  Approving the approved policy again changes nothing.
\* Faulty variant: an activation keeps the checkpoints of a room already followed.
SetCheckpointsOnce(S) ==
  /\ checkpoint' = [r \in RoomSet |-> IF r \in S /\ checkpoint[r].seq = 0
                                      THEN [seq |-> Len(log[r]), gen |-> gen[r]]
                                      ELSE checkpoint[r]]
  /\ stale' = stale \cup UNION {Old(r) : r \in S}

SetCheckpoints(S) ==
  /\ checkpoint' = [r \in RoomSet |-> IF r \in S THEN [seq |-> Len(log[r]), gen |-> gen[r]]
                                      ELSE checkpoint[r]]
  /\ stale' = stale \cup UNION {Old(r) : r \in S}

ActivateEngagement ==
  /\ pc = "idle" /\ approved.policy # policy
  /\ SetCheckpoints(RoomSet)
  /\ approved' = [policy |-> policy, at |-> now]
  /\ UNCHANGED <<now, roomVars, replies, posts, shown, policy, pollVars, boundVars>>

\* A read fails, or the command dies: the rooms before it have been moved.
ActivateInterrupted ==
  /\ pc = "idle" /\ approved.policy # policy /\ Fault
  /\ \E k \in 0..Len(Rooms) : SetCheckpoints({Rooms[i] : i \in 1..k})
  /\ UNCHANGED <<now, roomVars, replies, posts, shown, policy, approved, pollVars, records>>

-----------------------------------------------------------------------------
(* _poll_engagement.                                                          *)

BeginPoll ==
  /\ pc = "idle" /\ approved.policy = policy
  /\ pc' = "read" /\ at' = 1
  /\ UNCHANGED <<now, roomVars, storeVars, shown, policy, approved, batch, boundVars, stale>>

NextRoom ==
  IF at < Len(Rooms) THEN pc' = "read" /\ at' = at + 1
  ELSE pc' = "proactive" /\ at' = 1

\* A recreated room or a large backlog is not a fresh conversation.
Skipped(r) ==
  \/ gen[r] # checkpoint[r].gen
  \/ Len(log[r]) > checkpoint[r].seq + ReadLimit

ReadRoom ==
  LET r == Rooms[at]  cursor == checkpoint[r].seq IN
  /\ pc = "read"
  /\ \/ /\ Skipped(r)
        /\ checkpoint' = [checkpoint EXCEPT ![r] = [seq |-> Len(log[r]), gen |-> gen[r]]]
        /\ stale' = stale \cup Old(r)
        /\ NextRoom
        /\ UNCHANGED batch
     \/ /\ ~Skipped(r)
        /\ batch' = [i \in 1..(Len(log[r]) - cursor) |->
                       [seq |-> cursor + i, author |-> log[r][cursor + i]]]
        /\ pc' = "reply"
        /\ UNCHANGED <<checkpoint, stale, at>>
  /\ UNCHANGED <<now, roomVars, replies, posts, shown, policy, approved, boundVars>>

RoomDone ==
  /\ pc = "reply" /\ batch = <<>>
  /\ NextRoom
  /\ UNCHANGED <<now, roomVars, storeVars, shown, policy, approved, batch, boundVars, stale>>

\* The reply the record would get.  Its key names the record.
ReplyKey(r, rec) == [room |-> r, gen |-> checkpoint[r].gen, seq |-> rec.seq]

\* Faulty variant: the room's cooldown is not asked for.
ReplyDecisionNoCooldown(r, rec) ==
  IF \E x \in replies : x.key = ReplyKey(r, rec) THEN "existing"
  ELSE IF \/ Cardinality({x \in replies : x.at \div Day = now \div Day}) >= MaxReplies
          \/ \E x \in replies : x.author = rec.author /\ x.at + AuthorGap >= now
       THEN "quota" ELSE "reserved"

\* reserve_engagement_reply.
ReplyDecision(r, rec) ==
  IF \E x \in replies : x.key = ReplyKey(r, rec) THEN "existing"
  ELSE IF \/ Cardinality({x \in replies : x.at \div Day = now \div Day}) >= MaxReplies
          \/ \E x \in replies : x.author = rec.author /\ x.at + AuthorGap >= now
          \/ \E x \in replies : x.key.room = r /\ x.at + Cooldown >= now
       THEN "quota" ELSE "reserved"

\* Insertion order over both tables.
Reservations == Cardinality(replies) + Cardinality(posts)

ReserveReply(r, rec) ==
  replies' = IF ReplyDecision(r, rec) = "reserved"
             THEN replies \cup {[key |-> ReplyKey(r, rec), author |-> rec.author,
                                 at |-> now, n |-> Reservations]}
             ELSE replies


Handled(r, rec) ==
  /\ checkpoint' = [checkpoint EXCEPT ![r].seq = rec.seq]
  /\ batch' = Tail(batch)
  /\ UNCHANGED <<pc, at, faults>>

\* One record: not a question, out of quota, answered, or a failed answer,
\* which leaves the checkpoint where it was.
HandleRecord ==
  LET r == Rooms[at]  rec == Head(batch) IN
  /\ pc = "reply" /\ batch # <<>>
  /\ \/ /\ rec.author = Noise \/ ReplyDecision(r, rec) = "quota"
        /\ Handled(r, rec)
        /\ UNCHANGED <<log, shown, replies>>
     \/ /\ rec.author # Noise /\ ReplyDecision(r, rec) # "quota"
        /\ ReserveReply(r, rec)
        /\ \/ Show(ReplyKey(r, rec), r) /\ Handled(r, rec)
           \/ /\ Fault
              /\ Show(ReplyKey(r, rec), r) \/ UNCHANGED <<log, shown>>
              /\ EndPoll
              /\ UNCHANGED checkpoint
  /\ UNCHANGED <<now, gen, posts, policy, approved, records, stale>>

-----------------------------------------------------------------------------
(* _poll_proactive.                                                           *)

Slot == (now - approved.at) \div SlotLength
PostKey(r) == [room |-> r, policy |-> policy, slot |-> Slot]

\* Faulty variant: only the policy's own earlier posts keep their distance.
PostDecisionOwn(r) ==
  IF now >= approved.at + Campaign THEN "inactive"
  ELSE IF \E x \in posts : x.key = PostKey(r) THEN "existing"
  ELSE IF \/ Cardinality({x \in posts : x.key.room = r /\ x.at \div Day = now \div Day})
               >= MaxPosts
          \/ \E x \in posts : /\ x.key.room = r /\ x.key.policy = policy
                              /\ x.at + MinInterval > now
       THEN "quota" ELSE "reserved"

\* reserve_proactive_post.
PostDecision(r) ==
  IF now >= approved.at + Campaign THEN "inactive"
  ELSE IF \E x \in posts : x.key = PostKey(r) THEN "existing"
  ELSE IF \/ Cardinality({x \in posts : x.key.room = r /\ x.at \div Day = now \div Day})
               >= MaxPosts
          \/ \E x \in replies : x.key.room = r /\ x.at + MinInterval > now
          \/ \E x \in posts : x.key.room = r /\ x.at + MinInterval > now
       THEN "quota" ELSE "reserved"

ReservePost(r) ==
  posts' = IF PostDecision(r) = "reserved"
           THEN posts \cup {[key |-> PostKey(r), at |-> now, n |-> Reservations]}
           ELSE posts

NextPost ==
  /\ IF at < Len(Rooms) THEN at' = at + 1 /\ UNCHANGED <<pc, batch>> ELSE EndPoll
  /\ UNCHANGED faults

Proactive ==
  LET r == Rooms[at] IN
  /\ pc = "proactive"
  /\ \/ /\ PostDecision(r) \in {"inactive", "quota"}
        /\ NextPost
        /\ UNCHANGED <<log, shown, posts>>
     \/ /\ PostDecision(r) \in {"existing", "reserved"}
        /\ ReservePost(r)
        /\ \/ Show(PostKey(r), r) /\ NextPost
           \/ /\ Fault
              /\ Show(PostKey(r), r) \/ UNCHANGED <<log, shown>>
              /\ EndPoll
  /\ UNCHANGED <<now, gen, checkpoint, replies, policy, approved, records, stale>>

Poll == BeginPoll \/ ReadRoom \/ RoomDone \/ HandleRecord \/ Proactive

Next ==
  \/ Tick \/ Reconfigure \/ ActivateEngagement \/ ActivateInterrupted
  \/ \E r \in RoomSet : Reap(r) \/ \E a \in Authors \cup {Noise} : PeerPost(r, a)
  \/ BeginPoll \/ ReadRoom \/ RoomDone \/ HandleRecord \/ Proactive

Spec == Init /\ [][Next]_vars

\* The pilot keeps polling.
FairSpec == Spec /\ WF_vars(Poll)

-----------------------------------------------------------------------------
(* Properties.                                                                *)

\* The sets the variables range over.
TypeOK ==
  /\ now \in 0..MaxTime /\ policy \in 1..MaxPolicies
  /\ approved.policy \in 0..MaxPolicies /\ approved.at \in 0..now
  /\ \A r \in RoomSet :
       /\ \A s \in 1..Len(log[r]) : log[r][s] \in Authors \cup {Noise}
       /\ checkpoint[r].gen \in 0..gen[r]
       /\ checkpoint[r].gen = gen[r] => checkpoint[r].seq <= Len(log[r])
  /\ at \in 1..Len(Rooms) /\ Len(batch) <= ReadLimit
  /\ pc \in {"idle", "read", "reply", "proactive"}
  /\ records \in 0..MaxRecords /\ faults \in 0..MaxFaults

\* Reply reservations keep every limit at once, over restarts, retries and
\* policy changes: so many a day, one per author in AuthorGap, one per room in
\* the cooldown (reserve_engagement_reply).
RepliesBounded ==
  /\ \A x \in replies :
       Cardinality({y \in replies : y.at \div Day = x.at \div Day}) <= MaxReplies
  /\ \A x, y \in replies :
       x.n < y.n => /\ x.author = y.author => y.at - x.at > AuthorGap
                    /\ x.key.room = y.key.room => y.at - x.at > Cooldown

\* A campaign post is reserved only when no reservation of a reply or of a post
\* in the room, made earlier, is younger than the minimum interval, and within
\* the daily number, also across two policies (reserve_proactive_post).
PostsBounded ==
  /\ \A x \in posts :
       Cardinality({y \in posts : /\ y.key.room = x.key.room
                                  /\ y.at \div Day = x.at \div Day}) <= MaxPosts
  /\ \A y \in posts, x \in posts \cup replies :
       x.n < y.n /\ x.key.room = y.key.room => y.at - x.at >= MinInterval

\* No reply is reserved for a record that was in the room before the checkpoint
\* was last set there: at activation, when the room was found recreated, or when
\* the backlog was too large (activate_engagement, _poll_engagement).
NoStaleReply == [][\A x \in replies' \ replies : x.key \notin stale]_vars

=============================================================================
