----------------------------- MODULE PilotProofs -----------------------------
(* Safety of the request lane for any number of requests, requesters, days, *)
(* generations and crashes.                                                 *)
EXTENDS Pilot, FiniteSetTheorems, SequenceTheorems, TLAPS

\* Places at which a request is at hand, before and inside _execute.
Running   == {"build", "run", "publish", "copy", "result", "store"}
Executing == Running \cup {"ack", "mark"}

\* Places of the intake: recovery is over, no request is at hand.
Intake == {"read", "reread", "record", "reject"}

\* TypeOK, and the bounds of the clock and the mailbox.
Types ==
  /\ TypeOK
  /\ time \in 0 .. MaxTime /\ now <= time
  /\ Len(mail) <= MaxMail

\* What poll_once knows of the request at hand from the steps behind it.
AtWork ==
  /\ pc \in Executing => /\ cur \in Requests
                         /\ reqs[cur] # NoContent /\ cur \notin answered
  /\ pc \in Executing /\ origin = "mailbox" =>
       /\ todo # <<>>
       /\ Head(todo).req = cur /\ Head(todo).content = reqs[cur]
  /\ pc = "reject" => todo # <<>> /\ reason \in Reasons \ {"busy"}
  /\ pc \in Running => job[cur] = "running"
  /\ pc = "run" => bundle[cur] = NoRoot
  /\ pc \in {"publish", "copy", "result", "store"} => bundle[cur] \in Roots
  /\ pc \in {"result", "store"} => report[cur] = "published"
  /\ pc = "store" => result[cur][bundle[cur]] = "confirmed"

\* service_requests and service_jobs agree, row by row.
Rows ==
  \A r \in Requests : /\ job[r] = "none" <=> reqs[r] = NoContent
                      /\ job[r] = "complete" <=> r \in answered

\* One job at most is unfinished, none during the intake.
OneJob ==
  /\ \A r, s \in Pending : r = s
  /\ pc \in Intake => Pending = {}
  /\ pc \in Executing => Pending \subseteq {cur}
  /\ \A r \in Requests : rejection[r]["busy"] = "absent"

\* The counters, and that what they count is finite.
Quota ==
  /\ \A d \in Days : IsFiniteSet(AcceptedOn(d))
  /\ QuotaExact

IndInv ==
  Types /\ AtWork /\ Rows /\ OneJob /\ ResultBacked /\ CompleteDelivered /\ Quota

-----------------------------------------------------------------------------
(* Facts about the operators.                                              *)

\* A quota day of the past is among the days.
LEMMA DayOfClock ==
  ASSUME NEW n \in Nat, NEW m \in Nat, NEW t \in 0 .. m, n # 0
  PROVE  t \div n \in 0 .. m \div n
  OBVIOUS

\* The day of a poll is a day that the counters have (Today).
LEMMA TodayIsADay == ASSUME now \in 0 .. MaxTime PROVE Today \in Days
  BY DayOfClock, PilotAssumption DEF Today, Days

\* A send that raises leaves a state of a delivery (AfterRaise).
LEMMA AfterRaiseType ==
  ASSUME NEW s \in Sends PROVE AfterRaise(s) \subseteq Sends
  BY DEF Sends, AfterRaise

\* A table of tables with one entry replaced.
LEMMA UpdateEntry ==
  ASSUME NEW A, NEW B, NEW S, NEW f \in [A -> [B -> S]],
         NEW a \in A, NEW b \in B, NEW v \in S
  PROVE  [f EXCEPT ![a][b] = v] \in [A -> [B -> S]]
  OBVIOUS

\* A table of counters with one counter raised.
LEMMA BumpCounter ==
  ASSUME NEW D, NEW f \in [D -> Nat], NEW t \in D
  PROVE  f[t] + 1 \in Nat /\ [f EXCEPT ![t] = f[t] + 1] \in [D -> Nat]
  OBVIOUS

\* Where a read starts, and how many records it returns.
LEMMA ReadArithmetic ==
  ASSUME NEW n \in Nat, NEW limit \in Nat, NEW since \in Nat
  PROVE  LET skipped == IF n - limit > since THEN n - limit ELSE since
             count   == IF n > skipped THEN n - skipped ELSE 0
         IN  /\ skipped \in Nat /\ count \in Nat
             /\ \A i \in 1 .. count : skipped + i \in 1 .. n
             /\ n <= limit => skipped = since
  OBVIOUS

\* A read of the mailbox returns records (Read).
LEMMA ReadType ==
  ASSUME TypeOK, NEW since \in Nat
  PROVE  Read(since) \in Seq(Records)
<1> DEFINE skipped == IF Len(mail) - ReadLimit > since THEN Len(mail) - ReadLimit
                                                       ELSE since
           count == IF Len(mail) > skipped THEN Len(mail) - skipped ELSE 0
<1>1. mail \in Seq([req : Requests, content : Contents \cup {Junk}])
  BY DEF TypeOK
<1>2. Len(mail) \in Nat /\ ReadLimit \in Nat
  BY <1>1, PilotAssumption
<1>3. /\ skipped \in Nat /\ count \in Nat
      /\ \A i \in 1 .. count : skipped + i \in 1 .. Len(mail)
  BY <1>2, ReadArithmetic
<1>4. Read(since) = [i \in 1 .. count |-> [seq |-> skipped + i,
                                           req |-> mail[skipped + i].req,
                                           content |-> mail[skipped + i].content]]
  BY DEF Read
<1> HIDE DEF skipped, count
<1>5. ASSUME NEW i \in 1 .. count
      PROVE  [seq |-> skipped + i, req |-> mail[skipped + i].req,
              content |-> mail[skipped + i].content] \in Records
  <2>1. skipped + i \in 1 .. Len(mail) /\ skipped + i \in Nat
    BY <1>3
  <2>2. mail[skipped + i] \in [req : Requests, content : Contents \cup {Junk}]
    BY <2>1, <1>1, ElementOfSeq
  <2>3. QED BY <2>1, <2>2 DEF Records
<1>6. Read(since) \in [1 .. count -> Records]
  BY <1>4, <1>5
<1>7. QED BY <1>3, <1>6

-----------------------------------------------------------------------------
(* Types.                                                                  *)

USE DEF Running, Executing, Intake

\* The record at hand is a record (todo is what a read returned).
LEMMA HeadType ==
  ASSUME TypeOK, todo # <<>>
  PROVE  /\ Head(todo) \in Records /\ Tail(todo) \in Seq(Records)
         /\ Head(todo).seq \in Nat /\ Head(todo).req \in Requests
         /\ Head(todo).content \in Contents \cup {Junk}
<1>1. todo \in Seq(Records)
  BY DEF TypeOK
<1>2. Head(todo) \in Records /\ Tail(todo) \in Seq(Records)
  BY <1>1, HeadTailProperties
<1>3. QED BY <1>2 DEF Records

\* Every variable has its type at the start (Init).
LEMMA InitTypes == Init => Types
<1> SUFFICES ASSUME Init
             PROVE  Types
  OBVIOUS
<1>1. 0 \in Days
  BY PilotAssumption, DayOfClock DEF Days
<1>2. TypeOK
  BY <1>1, PilotAssumption DEF Init, TypeOK, Statuses, Sends, Reasons, Places, NoGeneration
<1>3. QED BY <1>2, PilotAssumption DEF Init, Types

\* The locals of a poll that has ended have their types (Leave).
LEMMA LeaveTypes ==
  ASSUME TypeOK, time \in 0 .. MaxTime, Leave
  PROVE  /\ pc' \in Places /\ now' \in 0 .. MaxTime /\ now' <= time
         /\ todo' \in Seq(Records) /\ cur' \in Requests \cup {NoContent}
         /\ origin' \in {"recover", "mailbox"} /\ reason' \in Reasons \cup {"none"}
  BY PilotAssumption DEF Leave, Places

\* The steps that only walk through poll_once keep the types (poll_once,
\* accept_request up to its verdict).
LEMMA WalkTypes ==
  ASSUME IndInv,
         \/ Poll \/ Recover \/ ReadMailbox \/ ReadAgain \/ PollDone \/ PollFails
         \/ SkipRecord \/ ResumeRequest \/ RefuseRequest \/ Crash
  PROVE  Types'
<1> USE DEF IndInv, Types, TypeOK, requestRows, deliveries, files, mailbox, Places
<1>1. CASE Poll
  BY <1>1 DEF Poll
<1>2. CASE Recover
  BY <1>2 DEF Recover, Pending, Go
<1>3. CASE ReadMailbox
  <2>1. Read(cursor) \in Seq(Records)
    BY ReadType
  <2>2. /\ todo' \in Seq(Records) /\ cursor' \in Nat /\ storedGen' \in Nat
        /\ pc' \in Places
    BY <1>3, <2>1 DEF ReadMailbox, Go
  <2>3. QED BY <1>3, <2>2 DEF ReadMailbox, Go
<1>4. CASE ReadAgain
  BY <1>4, ReadType DEF ReadAgain
<1>5. CASE PollDone \/ PollFails \/ Crash
  <2>1. Leave /\ UNCHANGED <<requestRows, runs, failures, cursor, storedGen,
                             deliveries, files, mailbox, time>>
    BY <1>5 DEF PollDone, PollFails, Crash
  <2>2. QED BY <2>1, LeaveTypes
<1>6. CASE SkipRecord
  BY <1>6, HeadType DEF SkipRecord, NextRecord
<1>7. CASE ResumeRequest
  BY <1>7, HeadType DEF ResumeRequest
<1>8. CASE RefuseRequest
  BY <1>8 DEF RefuseRequest
<1>9. QED BY <1>1, <1>2, <1>3, <1>4, <1>5, <1>6, <1>7, <1>8

\* The steps of accept_request and _execute keep the types.
LEMMA ServiceTypes ==
  ASSUME IndInv,
         \/ ReserveRequest \/ SendRejection \/ SendAck \/ MarkRunning
         \/ BuildBundle \/ RunScenario \/ StartPublish \/ FinishPublish
         \/ SendResult \/ StoreResult \/ ExecuteFails
  PROVE  Types'
<1> USE DEF IndInv, Types, TypeOK, requestRows, deliveries, files, mailbox
<1>0. Today \in Days
  BY TodayIsADay
<1>1. CASE ReserveRequest
  <2>1. /\ Head(todo).req \in Requests /\ Head(todo).content \in Contents
        /\ Owner[Head(todo).req] \in Dids
    BY <1>1, HeadType, PilotAssumption DEF ReserveRequest, Valid
  <2>2. didQuota' \in [Days -> [Dids -> Nat]] /\ globalQuota' \in [Days -> Nat]
    <3> DEFINE o == Owner[Head(todo).req]
               t == Today
    <3>1. t \in Days /\ o \in Dids /\ didQuota[t] \in [Dids -> Nat]
      BY <1>0, <2>1
    <3>2. didQuota[t][o] + 1 \in Nat
      BY <3>1, BumpCounter
    <3>3. /\ didQuota' = [didQuota EXCEPT ![t][o] = didQuota[t][o] + 1]
          /\ globalQuota' = [globalQuota EXCEPT ![t] = globalQuota[t] + 1]
      BY <1>1 DEF ReserveRequest
    <3> HIDE DEF t, o
    <3>4. QED BY <3>1, <3>2, <3>3, UpdateEntry, BumpCounter
  <2>3. /\ reqs' \in [Requests -> Contents \cup {NoContent}]
        /\ day' \in [Requests -> Days] /\ job' \in [Requests -> Statuses]
    BY <1>0, <1>1, <2>1 DEF ReserveRequest, Statuses
  <2>4. cur' \in Requests \cup {NoContent} /\ pc' \in Places
    BY <1>1, <2>1 DEF ReserveRequest, Places
  <2>5. QED BY <1>1, <2>2, <2>3, <2>4 DEF ReserveRequest
<1>2. CASE SendRejection
  <2>1. /\ Head(todo).req \in Requests /\ Head(todo).seq \in Nat
        /\ Tail(todo) \in Seq(Records) /\ reason \in Reasons
    BY <1>2, HeadType DEF SendRejection, AtWork
  <2>2. rejection' \in [Requests -> [Reasons -> Sends]]
    <3>1. rejection[Head(todo).req][reason] \in Sends
      BY <2>1
    <3>2. \E state \in Sends :
            rejection' = [rejection EXCEPT ![Head(todo).req][reason] = state]
      BY <1>2, <3>1, AfterRaiseType DEF SendRejection, Sends
    <3>3. QED BY <2>1, <3>2, UpdateEntry
  <2>3. CASE NextRecord
    BY <1>2, <2>1, <2>2, <2>3 DEF SendRejection, NextRecord, Places
  <2>4. CASE Leave /\ UNCHANGED <<cursor, storedGen>>
    BY <1>2, <2>2, <2>4, LeaveTypes DEF SendRejection
  <2>5. QED BY <1>2, <2>3, <2>4 DEF SendRejection
<1>3. CASE SendAck
  <2>1. ack' \in [Requests -> Sends]
    BY <1>3, AfterRaiseType DEF SendAck, AtWork, Sends
  <2>2. QED BY <1>3, <2>1, LeaveTypes DEF SendAck, Go, Places
<1>4. CASE MarkRunning
  BY <1>4 DEF MarkRunning, Go, Statuses, Places
<1>5. CASE BuildBundle
  <2>1. UNCHANGED runs \/ runs' = [runs EXCEPT ![Today] = runs[Today] + 1]
    BY <1>5 DEF BuildBundle
  <2> runs' \in [Days -> Nat]
    <3>1. [runs EXCEPT ![Today] = runs[Today] + 1] \in [Days -> Nat]
      BY <1>0, BumpCounter
    <3>2. QED BY <2>1, <3>1
  <2> pc' \in Places
    BY <1>5 DEF BuildBundle, Go, Places
  <2>2. QED BY <1>5, <2>1 DEF BuildBundle, Go
<1>6. CASE RunScenario
  BY <1>6 DEF RunScenario, Go, Places
<1>7. CASE StartPublish \/ FinishPublish
  BY <1>7 DEF StartPublish, FinishPublish, Go, Places
<1>8. CASE ExecuteFails
  <2>1. cur \in Requests /\ FailJob /\ UNCHANGED <<result, resultAt>>
    BY <1>8 DEF ExecuteFails, AtWork
  <2>2. failures' \in Nat
    BY <2>1, PilotAssumption DEF FailJob
  <2>3. QED BY <2>1, <2>2, LeaveTypes DEF FailJob, Statuses
<1>9. CASE SendResult
  <2>1. /\ cur \in Requests /\ bundle[cur] \in Roots
        /\ result[cur][bundle[cur]] \in Sends
    BY <1>9 DEF SendResult, AtWork
  <2>2. /\ result' \in [Requests -> [Roots -> Sends]]
        /\ resultAt' \in [Requests -> [Roots -> Nat]]
    <3>1. \E s \in Sends :
            result' = [result EXCEPT ![cur][bundle[cur]] = s] \/ UNCHANGED result
      BY <1>9, <2>1, AfterRaiseType DEF SendResult, Sends
    <3>2. \/ UNCHANGED resultAt
          \/ resultAt' = [resultAt EXCEPT ![cur][bundle[cur]] = time]
      BY <1>9, <2>1 DEF SendResult
    <3>3. time \in Nat
      OBVIOUS
    <3>4. result' \in [Requests -> [Roots -> Sends]]
      <4>1. \A s \in Sends : [result EXCEPT ![cur][bundle[cur]] = s]
                               \in [Requests -> [Roots -> Sends]]
        BY <2>1, UpdateEntry
      <4>2. QED BY <3>1, <4>1
    <3>5. resultAt' \in [Requests -> [Roots -> Nat]]
      <4>1. [resultAt EXCEPT ![cur][bundle[cur]] = time]
              \in [Requests -> [Roots -> Nat]]
        BY <2>1, <3>3, UpdateEntry
      <4>2. QED BY <3>2, <4>1
    <3>6. QED BY <3>4, <3>5
  <2>3. CASE FailJob
    <3>1. failures' \in Nat
      BY <2>3, PilotAssumption DEF FailJob
    <3>2. QED BY <2>1, <2>2, <2>3, <3>1, LeaveTypes DEF FailJob, Statuses
  <2>4. CASE Go("store") /\ UNCHANGED <<requestRows, runs, failures, cursor,
                            storedGen, ack, rejection, files, mailbox, time>>
    BY <2>2, <2>4 DEF Go, Places
  <2>5. QED BY <1>9, <2>3, <2>4 DEF SendResult
<1>10. CASE StoreResult
  <2>1. cur \in Requests /\ (origin = "mailbox" => todo # <<>>)
    BY <1>10 DEF StoreResult, AtWork
  <2>2. /\ cursor' \in Nat /\ storedGen' \in Nat \cup {NoGeneration}
        /\ todo' \in Seq(Records)
    BY <1>10, <2>1, HeadType DEF StoreResult, NextRecord
  <2>3. QED BY <1>10, <2>1, <2>2 DEF StoreResult, NextRecord, Statuses, Places
<1>11. QED BY <1>1, <1>2, <1>3, <1>4, <1>5, <1>6, <1>7, <1>8, <1>9, <1>10

\* The environment keeps the types: the clock, the peers, late arrivals.
LEMMA EnvironmentTypes ==
  ASSUME IndInv,
         \/ Tick \/ ReapMailbox
         \/ \E input \in Inputs : PeerWrites(input[1], input[2])
         \/ \E r \in Requests : LateLanding(r)
  PROVE  Types'
<1> USE DEF IndInv, Types, TypeOK, requestRows, deliveries, files, mailbox, locals
<1>1. CASE Tick
  BY <1>1, PilotAssumption DEF Tick
<1>2. CASE ReapMailbox
  <2>1. /\ mail' \in Seq([req : Requests, content : Contents \cup {Junk}])
        /\ Len(mail') <= MaxMail
    BY <1>2, PilotAssumption DEF ReapMailbox
  <2>2. QED BY <1>2, <2>1 DEF ReapMailbox
<1>3. ASSUME NEW input \in Inputs, PeerWrites(input[1], input[2])
      PROVE  Types'
  <2>1. input[1] \in Requests /\ input[2] \in Contents \cup {Junk}
    BY PilotAssumption
  <2>2. /\ mail' \in Seq([req : Requests, content : Contents \cup {Junk}])
        /\ Len(mail') <= MaxMail
    BY <1>3, <2>1, PilotAssumption DEF PeerWrites
  <2>3. QED BY <1>3, <2>2 DEF PeerWrites
<1>4. ASSUME NEW r \in Requests, LateLanding(r)
      PROVE  Types'
  <2>1. ack' \in [Requests -> Sends]
    <3>1. UNCHANGED ack \/ ack' = [ack EXCEPT ![r] = "landed"]
      BY <1>4 DEF LateLanding
    <3>2. ack \in [Requests -> Sends] /\ "landed" \in Sends
      BY DEF Sends
    <3>3. QED BY <3>1, <3>2
  <2>2. rejection' \in [Requests -> [Reasons -> Sends]]
    <3>1. \/ UNCHANGED rejection
          \/ \E x \in Reasons : rejection' = [rejection EXCEPT ![r][x] = "landed"]
      BY <1>4 DEF LateLanding
    <3>2. "landed" \in Sends
      BY DEF Sends
    <3>3. \A x \in Reasons : [rejection EXCEPT ![r][x] = "landed"]
                               \in [Requests -> [Reasons -> Sends]]
      BY <3>2, UpdateEntry
    <3>4. CASE UNCHANGED rejection
      BY <3>4
    <3>5. CASE \E x \in Reasons : rejection' = [rejection EXCEPT ![r][x] = "landed"]
      BY <3>3, <3>5
    <3>6. QED BY <3>1, <3>4, <3>5
  <2>3. result' \in [Requests -> [Roots -> Sends]]
    <3>1. \/ UNCHANGED result
          \/ \E root \in Roots : result' = [result EXCEPT ![r][root] = "landed"]
      BY <1>4 DEF LateLanding
    <3>2. "landed" \in Sends
      BY DEF Sends
    <3>3. \A root \in Roots : [result EXCEPT ![r][root] = "landed"]
                                 \in [Requests -> [Roots -> Sends]]
      BY <3>2, UpdateEntry
    <3>4. QED BY <3>1, <3>3
  <2>4. QED BY <1>4, <2>1, <2>2, <2>3 DEF LateLanding
<1>5. QED BY <1>1, <1>2, <1>3, <1>4

-----------------------------------------------------------------------------
(* What the poll under way knows, and the tables it works on.              *)

\* Nothing is accepted, run or sent at the start (Init).
LEMMA InitInd == Init => IndInv
<1> SUFFICES ASSUME Init
             PROVE  IndInv
  OBVIOUS
<1>1. Types
  BY InitTypes
<1>2. AtWork /\ Rows /\ ResultBacked /\ CompleteDelivered
  BY DEF Init, AtWork, Rows, ResultBacked, CompleteDelivered
<1>3. OneJob
  BY DEF Init, OneJob, Pending, Reasons
<1>4. Quota
  <2>1. \A d \in Days : AcceptedOn(d) = {}
    BY DEF Init, AcceptedOn
  <2>2. \A d \in Days, p \in Dids : {r \in AcceptedOn(d) : Owner[r] = p} = {}
    BY <2>1
  <2>3. IsFiniteSet({}) /\ Cardinality({}) = 0
    BY FS_EmptySet
  <2>4. \A d \in Days : globalQuota[d] = 0 /\ \A p \in Dids : didQuota[d][p] = 0
    BY DEF Init
  <2>5. \A d \in Days : /\ IsFiniteSet(AcceptedOn(d))
                         /\ globalQuota[d] = Cardinality(AcceptedOn(d))
                         /\ globalQuota[d] <= Global
    BY <2>1, <2>3, <2>4, PilotAssumption
  <2>6. \A d \in Days, p \in Dids :
          /\ didQuota[d][p] = Cardinality({r \in AcceptedOn(d) : Owner[r] = p})
          /\ didQuota[d][p] <= PerDid
    <3> TAKE d \in Days, p \in Dids
    <3>1. {r \in AcceptedOn(d) : Owner[r] = p} = {}
      BY <2>2
    <3>2. Cardinality({r \in AcceptedOn(d) : Owner[r] = p}) = 0
      BY <2>3, <3>1
    <3>3. didQuota[d][p] = 0
      BY <2>4
    <3>4. QED BY <3>2, <3>3, PilotAssumption
  <2>7. QED BY <2>5, <2>6 DEF Quota, QuotaExact
<1>5. QED BY <1>1, <1>2, <1>3, <1>4 DEF IndInv

\* The places of poll_once pass on what was learnt of the request at hand.
LEMMA WalkAtWork ==
  ASSUME IndInv,
         \/ Poll \/ Recover \/ ReadMailbox \/ ReadAgain \/ PollDone \/ PollFails
         \/ SkipRecord \/ ReserveRequest \/ ResumeRequest \/ RefuseRequest \/ Crash
  PROVE  AtWork'
<1> USE DEF AtWork, requestRows, deliveries, files
<1>1. CASE Poll \/ ReadMailbox \/ ReadAgain \/ PollDone \/ PollFails \/ SkipRecord
           \/ Crash
  BY <1>1 DEF Poll, ReadMailbox, ReadAgain, PollDone, PollFails, SkipRecord, Crash,
              NextRecord, Leave, Go
<1>2. CASE Recover
  BY <1>2 DEF IndInv, Recover, Pending, Go, Rows
<1>3. CASE ReserveRequest
  <2>1. /\ Head(todo).req \in Requests /\ Head(todo).content \in Contents
        /\ reqs \in [Requests -> Contents \cup {NoContent}]
    BY <1>3, HeadType DEF IndInv, Types, TypeOK, ReserveRequest, Valid
  <2>2. reqs[Head(todo).req] = NoContent
    BY <1>3, <2>1 DEF ReserveRequest, Verdict
  <2>3. Head(todo).req \notin answered
    BY <2>1, <2>2 DEF IndInv, Rows
  <2>4. QED BY <1>3, <2>1, <2>3, PilotAssumption DEF ReserveRequest
<1>4. CASE ResumeRequest
  <2>1. /\ Head(todo).req \in Requests /\ Head(todo).content \in Contents
    BY <1>4, HeadType DEF IndInv, Types, ResumeRequest, Valid
  <2>2. reqs[Head(todo).req] = Head(todo).content
    BY <1>4, <2>1 DEF ResumeRequest, Verdict
  <2>4. QED BY <1>4, <2>1, <2>2, PilotAssumption DEF ResumeRequest
<1>5. CASE RefuseRequest
  <2>1. Pending = {}
    BY <1>5 DEF IndInv, OneJob, RefuseRequest
  <2>2. Cardinality(Pending) = 0
    BY <2>1, FS_EmptySet
  <2>3. Verdict(Head(todo).req, Head(todo).content) # "busy"
    BY <2>2, PilotAssumption DEF Verdict
  <2>4. QED BY <1>5, <2>3 DEF RefuseRequest
<1>6. QED BY <1>1, <1>2, <1>3, <1>4, <1>5

\* So do the steps of accept_request and _execute, and a failed send.
LEMMA ServiceAtWork ==
  ASSUME IndInv,
         \/ SendRejection \/ SendAck \/ MarkRunning \/ BuildBundle \/ RunScenario
         \/ StartPublish \/ FinishPublish \/ SendResult \/ StoreResult
         \/ ExecuteFails
  PROVE  AtWork'
<1> USE DEF AtWork, requestRows, deliveries, files
<1>1. CASE SendRejection \/ StoreResult \/ ExecuteFails
  BY <1>1 DEF SendRejection, StoreResult, ExecuteFails, NextRecord, FailJob, Leave
<1>2. CASE SendAck
  BY <1>2 DEF IndInv, SendAck, Go, Leave
<1>3. CASE MarkRunning
  BY <1>3 DEF IndInv, Types, TypeOK, MarkRunning, Go
<1>4. CASE BuildBundle
  BY <1>4 DEF IndInv, Types, TypeOK, BuildBundle, Go
<1>5. CASE RunScenario
  BY <1>5 DEF IndInv, Types, TypeOK, RunScenario, Go
<1>6. CASE StartPublish \/ FinishPublish
  BY <1>6 DEF IndInv, Types, TypeOK, StartPublish, FinishPublish, Go
<1>7. CASE SendResult
  <2>1. CASE FailJob
    BY <2>1 DEF FailJob, Leave
  <2>2. CASE /\ result' = [result EXCEPT ![cur][bundle[cur]] = "confirmed"]
             /\ Go("store")
             /\ UNCHANGED <<requestRows, files>>
    <3>1. /\ cur \in Requests /\ bundle[cur] \in Roots
          /\ result \in [Requests -> [Roots -> Sends]]
      BY <1>7 DEF IndInv, Types, TypeOK, SendResult
    <3>2. result'[cur][bundle[cur]] = "confirmed"
      BY <2>2, <3>1
    <3>3. QED BY <1>7, <2>2, <3>1, <3>2 DEF IndInv, SendResult, Go
  <2>3. QED BY <1>7, <2>1, <2>2 DEF SendResult
<1>8. QED BY <1>1, <1>2, <1>3, <1>4, <1>5, <1>6, <1>7

\* Nothing outside the poll changes what it knows: a late landing finds no
\* prepared message where a confirmed one is.
LEMMA EnvironmentAtWork ==
  ASSUME IndInv,
         \/ Tick \/ ReapMailbox
         \/ \E input \in Inputs : PeerWrites(input[1], input[2])
         \/ \E r \in Requests : LateLanding(r)
  PROVE  AtWork'
<1> USE DEF AtWork, requestRows, deliveries, files, locals
<1>1. CASE \/ Tick \/ ReapMailbox
           \/ \E input \in Inputs : PeerWrites(input[1], input[2])
  BY <1>1 DEF IndInv, Tick, ReapMailbox, PeerWrites
<1>2. ASSUME NEW r \in Requests, LateLanding(r)
      PROVE  AtWork'
  <2>1. ASSUME NEW root \in Roots, result[r][root] = "prepared",
               result' = [result EXCEPT ![r][root] = "landed"]
        PROVE  pc = "store" => result'[cur][bundle[cur]] = "confirmed"
    BY <2>1 DEF IndInv, Types, TypeOK
  <2>2. pc = "store" => result'[cur][bundle[cur]] = "confirmed"
    BY <1>2, <2>1 DEF IndInv, LateLanding
  <2>3. QED BY <1>2, <2>2 DEF IndInv, LateLanding
<1>3. QED BY <1>1, <1>2

\* The steps that touch neither the request tables, nor the result of any
\* request, nor the files.
LEMMA QuietSteps ==
  ASSUME IndInv,
         \/ Poll \/ Recover \/ ReadMailbox \/ ReadAgain \/ PollDone \/ PollFails
         \/ SkipRecord \/ ResumeRequest \/ RefuseRequest \/ Crash
         \/ SendRejection \/ SendAck \/ BuildBundle \/ Tick \/ ReapMailbox
         \/ \E input \in Inputs : PeerWrites(input[1], input[2])
  PROVE  UNCHANGED <<reqs, day, answered, job, didQuota, globalQuota, result,
                     bundle, report>>
  BY DEF requestRows, deliveries, files, Poll, Recover, ReadMailbox, ReadAgain,
         PollDone, PollFails, SkipRecord, ResumeRequest, RefuseRequest, Crash,
         SendRejection, SendAck, BuildBundle, Tick, ReapMailbox, PeerWrites

\* The request and job rows stay in step: a reservation writes both, and
\* complete is written with the result column only (reserve_request,
\* store_result).
LEMMA RowsKept == ASSUME IndInv, [Next]_pilotVars PROVE Rows'
<1> USE DEF Rows, requestRows, deliveries, files
<1>0. /\ job \in [Requests -> Statuses] /\ answered \subseteq Requests
      /\ reqs \in [Requests -> Contents \cup {NoContent}]
  BY DEF IndInv, Types, TypeOK
<1>1. CASE UNCHANGED <<reqs, job, answered>>
  BY <1>1 DEF IndInv
<1>2. CASE ReserveRequest
  <2>1. /\ Head(todo).req \in Requests /\ Head(todo).content \in Contents
    BY <1>2, HeadType DEF IndInv, Types, ReserveRequest, Valid
  <2>2. reqs[Head(todo).req] = NoContent
    BY <1>0, <1>2, <2>1 DEF ReserveRequest, Verdict
  <2>3. QED BY <1>0, <1>2, <2>1, <2>2, PilotAssumption DEF IndInv, ReserveRequest
<1>3. CASE MarkRunning
  BY <1>0, <1>3 DEF IndInv, AtWork, MarkRunning
<1>4. CASE FailJob /\ pc \in Running
  BY <1>0, <1>4 DEF IndInv, AtWork, FailJob
<1>5. CASE StoreResult
  BY <1>0, <1>5 DEF IndInv, AtWork, StoreResult
<1>6. QED
  BY <1>1, <1>2, <1>3, <1>4, <1>5, QuietSteps
  DEF Next, PollStep, pilotVars, RunScenario, StartPublish, FinishPublish, SendResult,
      ExecuteFails, LateLanding

\* One unfinished job: intake starts only when recovery left none, and every
\* way out of _execute settles the job at hand (poll_once, _execute).
LEMMA OneJobKept == ASSUME IndInv, [Next]_pilotVars PROVE OneJob'
<1> DEFINE NoBusy == \A r \in Requests : rejection[r]["busy"] = "absent"
           Single == /\ \A r, s \in Pending : r = s
                     /\ pc \in Intake => Pending = {}
                     /\ pc \in Executing => Pending \subseteq {cur}
<1>0. /\ job \in [Requests -> Statuses] /\ answered \subseteq Requests
      /\ reqs \in [Requests -> Contents \cup {NoContent}]
      /\ rejection \in [Requests -> [Reasons -> Sends]]
      /\ Single /\ NoBusy
  BY DEF IndInv, Types, TypeOK, OneJob
<1>1. NoBusy'
  <2>1. CASE SendRejection
    <3>1. /\ Head(todo).req \in Requests /\ reason \in Reasons \ {"busy"}
      BY <2>1, HeadType DEF IndInv, Types, AtWork, SendRejection
    <3>2. PICK state : rejection' = [rejection EXCEPT ![Head(todo).req][reason] = state]
      BY <2>1 DEF SendRejection
    <3>3. QED BY <1>0, <3>1, <3>2 DEF Reasons
  <2>2. CASE \E r \in Requests : LateLanding(r)
    BY <1>0, <2>2 DEF LateLanding, Reasons
  <2>3. CASE UNCHANGED rejection
    BY <1>0, <2>3
  <2>4. QED
    BY <2>1, <2>2, <2>3
    DEF Next, PollStep, pilotVars, deliveries, Poll, Recover, ReadMailbox, ReadAgain,
        PollDone, PollFails, SkipRecord, ReserveRequest, ResumeRequest, RefuseRequest,
        Crash, SendAck, MarkRunning, BuildBundle, RunScenario, StartPublish,
        FinishPublish, SendResult, FailJob, StoreResult, ExecuteFails, Tick,
        ReapMailbox, PeerWrites
<1>2. Single'
  <2>1. CASE Recover
    BY <1>0, <2>1 DEF Recover, Pending, Go, requestRows
  <2>2. CASE ReserveRequest
    <3>1. Head(todo).req \in Requests /\ Pending = {}
      BY <1>0, <2>2, HeadType DEF IndInv, Types, ReserveRequest
    <3>2. QED BY <1>0, <2>2, <3>1 DEF ReserveRequest, Pending
  <2>3. CASE MarkRunning
    BY <1>0, <2>3 DEF IndInv, AtWork, MarkRunning, Pending, Go
  <2>4. CASE FailJob /\ pc \in Running
    BY <1>0, <2>4 DEF IndInv, AtWork, FailJob, Leave, Pending
  <2>5. CASE StoreResult
    <3>1. Pending' = {}
      BY <1>0, <2>5 DEF IndInv, AtWork, StoreResult, Pending
    <3>2. QED BY <3>1
  <2>6. CASE /\ UNCHANGED job
             /\ \/ pc' \in {"idle", "recover"}
                \/ pc \in Intake /\ pc' \in Intake \cup Executing
                \/ pc \in Executing /\ pc' \in Executing /\ UNCHANGED cur
                \/ UNCHANGED <<pc, cur>>
    BY <1>0, <2>6 DEF Pending
  <2>7. QED
    BY <2>1, <2>2, <2>3, <2>4, <2>5, <2>6
    DEF Next, PollStep, pilotVars, requestRows, locals, Go, Leave, NextRecord, Poll,
        ReadMailbox, ReadAgain, PollDone, PollFails, SkipRecord, ResumeRequest,
        RefuseRequest, Crash, SendRejection, SendAck, BuildBundle, RunScenario,
        StartPublish, FinishPublish, SendResult, ExecuteFails, Tick, ReapMailbox,
        PeerWrites, LateLanding
<1>3. QED BY <1>1, <1>2 DEF OneJob

\* Result bytes exist for the finished bundle of a request only, and after its
\* report was verified: a run starts without a bundle, hence without a result
\* (_build_request_bundle, publish_report).
LEMMA ResultBackedKept == ASSUME IndInv, [Next]_pilotVars PROVE ResultBacked'
<1> USE DEF ResultBacked, requestRows, deliveries, files
<1>0. /\ bundle \in [Requests -> Roots \cup {NoRoot}]
      /\ report \in [Requests -> {"none", "partial", "published"}]
      /\ result \in [Requests -> [Roots -> Sends]]
      /\ ResultBacked /\ NoRoot \notin Roots
  BY PilotAssumption DEF IndInv, Types, TypeOK
<1>1. CASE UNCHANGED <<result, bundle, report>>
  BY <1>0, <1>1
<1>2. CASE RunScenario
  BY <1>0, <1>2 DEF IndInv, AtWork, RunScenario
<1>3. CASE StartPublish \/ FinishPublish
  BY <1>0, <1>3 DEF IndInv, AtWork, StartPublish, FinishPublish
<1>4. CASE SendResult
  <2>1. /\ cur \in Requests /\ bundle[cur] \in Roots /\ report[cur] = "published"
        /\ UNCHANGED files
    BY <1>4 DEF IndInv, AtWork, SendResult, FailJob
  <2>2. \/ UNCHANGED result
        \/ \E s : result' = [result EXCEPT ![cur][bundle[cur]] = s]
    BY <1>4 DEF SendResult
  <2>3. QED BY <1>0, <2>1, <2>2
<1>5. CASE \E r \in Requests : LateLanding(r)
  <2>1. PICK r \in Requests : LateLanding(r)
    BY <1>5
  <2>2. \/ UNCHANGED result
        \/ \E root \in Roots : /\ result[r][root] = "prepared"
                               /\ result' = [result EXCEPT ![r][root] = "landed"]
    BY <2>1 DEF LateLanding
  <2>3. UNCHANGED files
    BY <2>1 DEF LateLanding
  <2>4. QED BY <1>0, <2>2, <2>3
<1>6. QED
  BY <1>1, <1>2, <1>3, <1>4, <1>5, QuietSteps
  DEF Next, PollStep, pilotVars, ReserveRequest, MarkRunning, StoreResult,
      ExecuteFails, FailJob

\* A confirmed result stays confirmed: the messenger refuses other bytes, and
\* nothing is prepared any more that could still land.
LEMMA ConfirmedStays ==
  ASSUME IndInv, [Next]_pilotVars,
         NEW r \in Requests, NEW root \in Roots, result[r][root] = "confirmed"
  PROVE  result'[r][root] = "confirmed"
<1> USE DEF requestRows, deliveries, files
<1>0. result \in [Requests -> [Roots -> Sends]]
  BY DEF IndInv, Types, TypeOK
<1>1. CASE UNCHANGED result
  BY <1>1
<1>2. CASE SendResult
  <2>1. cur \in Requests /\ bundle[cur] \in Roots
    BY <1>2 DEF IndInv, AtWork, SendResult
  <2>2. \/ UNCHANGED result
        \/ \E s \in AfterRaise(result[cur][bundle[cur]]) \cup {"confirmed"} :
             result' = [result EXCEPT ![cur][bundle[cur]] = s]
    BY <1>2 DEF SendResult
  <2>3. CASE cur = r /\ bundle[cur] = root
    BY <1>0, <2>1, <2>2, <2>3 DEF AfterRaise
  <2>4. CASE ~(cur = r /\ bundle[cur] = root)
    BY <1>0, <2>1, <2>2, <2>4
  <2>5. QED BY <2>3, <2>4
<1>3. CASE \E q \in Requests : LateLanding(q)
  <2>1. PICK q \in Requests : LateLanding(q)
    BY <1>3
  <2>2. \/ UNCHANGED result
        \/ \E b \in Roots : /\ result[q][b] = "prepared"
                            /\ result' = [result EXCEPT ![q][b] = "landed"]
    BY <2>1 DEF LateLanding
  <2>3. QED BY <1>0, <2>2
<1>4. QED
  BY <1>1, <1>2, <1>3, QuietSteps
  DEF Next, PollStep, pilotVars, ReserveRequest, MarkRunning, RunScenario,
      StartPublish, FinishPublish, StoreResult, ExecuteFails, FailJob

\* A finished request is left alone by every step: its row, its job, its bundle
\* and its report (duplicate_complete).
LEMMA AnsweredLeftAlone ==
  ASSUME IndInv, [Next]_pilotVars, NEW r \in answered
  PROVE  /\ job'[r] = job[r] /\ reqs'[r] = reqs[r] /\ r \in answered'
         /\ bundle'[r] = bundle[r] /\ report'[r] = report[r]
<1> USE DEF requestRows, deliveries, files
<1>0. /\ job \in [Requests -> Statuses] /\ r \in Requests
      /\ reqs \in [Requests -> Contents \cup {NoContent}]
      /\ bundle \in [Requests -> Roots \cup {NoRoot}]
      /\ report \in [Requests -> {"none", "partial", "published"}]
      /\ reqs[r] # NoContent
      /\ pc \in Executing => cur \in Requests /\ cur # r
  BY DEF IndInv, Types, TypeOK, Rows, AtWork
<1>1. CASE ReserveRequest
  <2>1. /\ Head(todo).req \in Requests /\ Head(todo).content \in Contents
    BY <1>1, HeadType DEF IndInv, Types, ReserveRequest, Valid
  <2>2. reqs[Head(todo).req] = NoContent
    BY <1>0, <1>1, <2>1 DEF ReserveRequest, Verdict
  <2>3. QED BY <1>0, <1>1, <2>1, <2>2 DEF ReserveRequest
<1>2. CASE MarkRunning \/ RunScenario
  BY <1>0, <1>2 DEF MarkRunning, RunScenario
<1>3. CASE StartPublish \/ FinishPublish
  BY <1>0, <1>3 DEF StartPublish, FinishPublish
<1>4. CASE FailJob /\ pc \in Running
  BY <1>0, <1>4 DEF FailJob
<1>5. CASE StoreResult
  BY <1>0, <1>5 DEF StoreResult
<1>6. CASE UNCHANGED <<reqs, job, answered, bundle, report>>
  BY <1>6
<1>7. QED
  BY <1>1, <1>2, <1>3, <1>4, <1>5, <1>6, QuietSteps
  DEF Next, PollStep, pilotVars, SendResult, ExecuteFails, LateLanding

\* A complete job has a confirmed result (store_result follows the send).
LEMMA CompleteDeliveredKept ==
  ASSUME IndInv, [Next]_pilotVars PROVE CompleteDelivered'
<1>0. /\ answered \subseteq Requests /\ bundle \in [Requests -> Roots \cup {NoRoot}]
      /\ CompleteDelivered
  BY DEF IndInv, Types, TypeOK
<1>1. \A r \in Requests : job'[r] = "complete" => r \in answered'
  BY RowsKept DEF Rows
<1>2. ASSUME NEW r \in Requests, r \in answered'
      PROVE  bundle'[r] # NoRoot /\ result'[r][bundle'[r]] = "confirmed"
  <2>1. CASE r \in answered
    <3>1. bundle[r] \in Roots /\ result[r][bundle[r]] = "confirmed"
      BY <1>0, <2>1 DEF CompleteDelivered
    <3>2. QED BY <2>1, <3>1, AnsweredLeftAlone, ConfirmedStays, PilotAssumption
  <2>2. CASE r \notin answered
    <3>1. StoreResult /\ r = cur
      BY <1>2, <2>2, QuietSteps
      DEF Next, PollStep, pilotVars, requestRows, ReserveRequest, MarkRunning,
          RunScenario, StartPublish, FinishPublish, SendResult, FailJob, StoreResult,
          ExecuteFails, LateLanding
    <3>2. UNCHANGED <<bundle, result>>
      BY <3>1 DEF StoreResult, deliveries, files
    <3>3. QED BY <3>1, <3>2, PilotAssumption DEF IndInv, AtWork, StoreResult
  <2>3. QED BY <2>1, <2>2
<1>3. QED BY <1>1, <1>2 DEF CompleteDelivered

\* The reservation adds its request to the accepted ones of today and to no
\* other day; it was accepted on no day before (reserve_request).
LEMMA ReservationCounts ==
  ASSUME IndInv, ReserveRequest
  PROVE  LET r == Head(todo).req IN
         /\ r \in Requests /\ Today \in Days /\ Owner[r] \in Dids
         /\ \A d \in Days : r \notin AcceptedOn(d)
         /\ \A d \in Days :
              AcceptedOn(d)' = AcceptedOn(d) \cup (IF d = Today THEN {r} ELSE {})
         /\ didQuota[Today][Owner[r]] < PerDid /\ globalQuota[Today] < Global
<1> DEFINE r == Head(todo).req
<1>0. /\ reqs \in [Requests -> Contents \cup {NoContent}] /\ day \in [Requests -> Days]
      /\ now \in 0 .. MaxTime
      /\ didQuota \in [Days -> [Dids -> Nat]] /\ globalQuota \in [Days -> Nat]
  BY DEF IndInv, Types, TypeOK
<1>1. r \in Requests /\ Head(todo).content \in Contents /\ Today \in Days
  BY <1>0, HeadType, TodayIsADay DEF IndInv, Types, ReserveRequest, Valid
<1>2. reqs[r] = NoContent
  BY <1>0, <1>1 DEF ReserveRequest, Verdict
<1>3. ~(didQuota[Today][Owner[r]] >= PerDid) /\ ~(globalQuota[Today] >= Global)
  BY <1>0, <1>1, <1>2, PilotAssumption DEF ReserveRequest, Verdict
<1>4. Owner[r] \in Dids
  BY <1>1, PilotAssumption
<1>5. didQuota[Today][Owner[r]] < PerDid /\ globalQuota[Today] < Global
  <2>1. didQuota[Today][Owner[r]] \in Nat /\ globalQuota[Today] \in Nat
    BY <1>0, <1>1, <1>4
  <2>2. QED BY <1>3, <2>1, PilotAssumption
<1>6. /\ reqs' = [reqs EXCEPT ![r] = Head(todo).content]
      /\ day' = [day EXCEPT ![r] = Today]
  BY DEF ReserveRequest
<1>7. NoContent \notin Contents
  BY PilotAssumption
<1> HIDE DEF r
<1>8. \A d \in Days : AcceptedOn(d)' = {q \in Requests : reqs'[q] # NoContent /\ day'[q] = d}
  BY DEF AcceptedOn
<1>9. ASSUME NEW d \in Days
      PROVE  /\ r \notin AcceptedOn(d)
             /\ AcceptedOn(d)' = AcceptedOn(d) \cup (IF d = Today THEN {r} ELSE {})
  <2>1. r \notin AcceptedOn(d)
    BY <1>2 DEF AcceptedOn
  <2>2. reqs'[r] # NoContent /\ day'[r] = Today
    BY <1>0, <1>1, <1>6, <1>7
  <2>3. \A q \in Requests : q # r => reqs'[q] = reqs[q] /\ day'[q] = day[q]
    BY <1>0, <1>6
  <2>4. QED BY <1>1, <1>8, <2>1, <2>2, <2>3 DEF AcceptedOn
<1>10. QED BY <1>1, <1>4, <1>5, <1>9 DEF r

\* The counters stay the cardinalities of what they count, within the limits
\* (the quota columns of reserve_request, raised in the same transaction).
LEMMA QuotaKept == ASSUME IndInv, [Next]_pilotVars PROVE Quota'
<1>0. /\ didQuota \in [Days -> [Dids -> Nat]] /\ globalQuota \in [Days -> Nat]
      /\ Quota
  BY DEF IndInv, Types, TypeOK
<1>1. CASE UNCHANGED <<reqs, day, didQuota, globalQuota>>
  BY <1>0, <1>1 DEF Quota, QuotaExact, AcceptedOn
<1>2. CASE ReserveRequest
  <2> DEFINE r == Head(todo).req
             t == Today
             Of(S, p) == {q \in S : Owner[q] = p}
  <2>1. /\ r \in Requests /\ t \in Days /\ Owner[r] \in Dids
        /\ \A d \in Days : /\ r \notin AcceptedOn(d)
                           /\ AcceptedOn(d)' = AcceptedOn(d)
                                               \cup (IF d = t THEN {r} ELSE {})
        /\ didQuota[t][Owner[r]] < PerDid /\ globalQuota[t] < Global
    BY <1>2, ReservationCounts
  <2>2. /\ didQuota' = [didQuota EXCEPT ![t][Owner[r]] = didQuota[t][Owner[r]] + 1]
        /\ globalQuota' = [globalQuota EXCEPT ![t] = globalQuota[t] + 1]
    BY <1>2 DEF ReserveRequest
  <2>3. \A d \in Days :
          /\ IsFiniteSet(AcceptedOn(d))
          /\ globalQuota[d] = Cardinality(AcceptedOn(d)) /\ globalQuota[d] <= Global
          /\ \A p \in Dids : /\ didQuota[d][p] = Cardinality(Of(AcceptedOn(d), p))
                            /\ didQuota[d][p] <= PerDid
    BY <1>0 DEF Quota, QuotaExact
  <2> HIDE DEF r, t
  <2>4. ASSUME NEW d \in Days
        PROVE  /\ IsFiniteSet(AcceptedOn(d)')
               /\ globalQuota'[d] = Cardinality(AcceptedOn(d)')
               /\ globalQuota'[d] <= Global
    <3>1. CASE d = t
      <4>1. /\ IsFiniteSet(AcceptedOn(d) \cup {r})
            /\ Cardinality(AcceptedOn(d) \cup {r}) = Cardinality(AcceptedOn(d)) + 1
        BY <2>1, <2>3, FS_AddElement
      <4>2. globalQuota'[d] = globalQuota[d] + 1 /\ globalQuota[d] \in Nat
        BY <1>0, <2>1, <2>2, <3>1
      <4>3. AcceptedOn(d)' = AcceptedOn(d) \cup {r}
        BY <2>1, <3>1
      <4>4. QED BY <2>1, <2>3, <3>1, <4>1, <4>2, <4>3, PilotAssumption
    <3>2. CASE d # t
      <4>1. globalQuota'[d] = globalQuota[d]
        BY <1>0, <2>2, <3>2
      <4>2. AcceptedOn(d)' = AcceptedOn(d)
        BY <2>1, <3>2
      <4>3. QED BY <2>3, <4>1, <4>2
    <3>3. QED BY <3>1, <3>2
  <2>5. ASSUME NEW d \in Days, NEW p \in Dids
        PROVE  /\ didQuota'[d][p] = Cardinality(Of(AcceptedOn(d)', p))
               /\ didQuota'[d][p] <= PerDid
    <3>1. CASE d = t /\ p = Owner[r]
      <4>1. IsFiniteSet(Of(AcceptedOn(d), p)) /\ r \notin Of(AcceptedOn(d), p)
        <5>1. Of(AcceptedOn(d), p) \in SUBSET AcceptedOn(d)
          OBVIOUS
        <5>2. QED BY <2>1, <2>3, <5>1, FS_Subset
      <4>2. Of(AcceptedOn(d)', p) = Of(AcceptedOn(d), p) \cup {r}
        BY <2>1, <3>1
      <4>3. Cardinality(Of(AcceptedOn(d)', p)) = Cardinality(Of(AcceptedOn(d), p)) + 1
        BY <4>1, <4>2, FS_AddElement
      <4>4. didQuota'[d][p] = didQuota[d][p] + 1 /\ didQuota[d][p] \in Nat
        BY <1>0, <2>1, <2>2, <3>1
      <4>5. QED BY <2>1, <2>3, <3>1, <4>3, <4>4, PilotAssumption
    <3>2. CASE ~(d = t /\ p = Owner[r])
      <4>1. didQuota'[d][p] = didQuota[d][p]
        BY <1>0, <2>1, <2>2, <3>2
      <4>2. Of(AcceptedOn(d)', p) = Of(AcceptedOn(d), p)
        BY <2>1, <3>2
      <4>3. QED BY <2>3, <4>1, <4>2
    <3>3. QED BY <3>1, <3>2
  <2>6. QED BY <2>4, <2>5 DEF Quota, QuotaExact
<1>3. QED
  BY <1>1, <1>2, QuietSteps
  DEF Next, PollStep, pilotVars, requestRows, MarkRunning, RunScenario, StartPublish,
      FinishPublish, SendResult, FailJob, StoreResult, ExecuteFails, LateLanding

-----------------------------------------------------------------------------
(* The theorems.                                                           *)

\* Every step keeps the inductive invariant.
LEMMA NextInd == ASSUME IndInv, [Next]_pilotVars PROVE IndInv'
<1>1. Types'
  <2>1. CASE UNCHANGED pilotVars
    BY <2>1 DEF IndInv, Types, TypeOK, pilotVars
  <2>2. QED BY <2>1, WalkTypes, ServiceTypes, EnvironmentTypes DEF Next, PollStep
<1>2. AtWork'
  <2>1. CASE UNCHANGED pilotVars
    BY <2>1 DEF IndInv, AtWork, pilotVars
  <2>2. QED BY <2>1, WalkAtWork, ServiceAtWork, EnvironmentAtWork DEF Next, PollStep
<1>3. QED
  BY <1>1, <1>2, RowsKept, OneJobKept, ResultBackedKept, CompleteDeliveredKept,
     QuotaKept
  DEF IndInv

\* The inductive invariant holds throughout.
THEOREM IndInvAlways == Spec => []IndInv
<1>1. QED BY InitInd, NextInd, PTL DEF Spec

\* Every variable of the request lane keeps its type, whatever peers write and
\* wherever the process dies.
THEOREM TypeCorrect == Spec => []TypeOK
<1>1. IndInv => TypeOK
  BY DEF IndInv, Types
<1>2. QED BY <1>1, IndInvAlways, PTL

\* A request has one answer, backed by a whole report: result bytes exist for
\* the root of its bundle only, after its report was published.
THEOREM ResultBackedAlways == Spec => []ResultBacked
<1>1. IndInv => ResultBacked
  BY DEF IndInv
<1>2. QED BY <1>1, IndInvAlways, PTL

\* A job is complete only with its result on the board (store_result).
THEOREM CompleteDeliveredAlways == Spec => []CompleteDelivered
<1>1. IndInv => CompleteDelivered
  BY DEF IndInv
<1>2. QED BY <1>1, IndInvAlways, PTL

\* The quota counters are the numbers of accepted requests and respect the
\* limits of the service card (reserve_request).
THEOREM QuotaExactAlways == Spec => []QuotaExact
<1>1. IndInv => QuotaExact
  BY DEF IndInv, Quota
<1>2. QED BY <1>1, IndInvAlways, PTL

\* At most one job is unfinished, and no request is refused as busy
\* (max_queue_depth).
THEOREM OneJobAlways == Spec => []OneJobAtATime
<1>1. IndInv => OneJobAtATime
  <2> SUFFICES ASSUME IndInv
               PROVE  Cardinality(Pending) <= 1
    BY DEF IndInv, OneJob, OneJobAtATime
  <2>1. CASE Pending = {}
    BY <2>1, FS_EmptySet
  <2>2. CASE Pending # {}
    <3>1. PICK r : Pending = {r}
      BY <2>2 DEF IndInv, OneJob
    <3>2. Cardinality({r}) = 1
      BY FS_Singleton
    <3>3. QED BY <3>1, <3>2
  <2>3. QED BY <2>1, <2>2
<1>2. QED BY <1>1, IndInvAlways, PTL

\* No step touches a finished request again (duplicate_complete).
THEOREM CompletedNeverRerunAlways == Spec => CompletedNeverRerun
<1>1. IndInv /\ [Next]_pilotVars =>
        [\A r \in answered : /\ job'[r] = job[r] /\ reqs'[r] = reqs[r]
                             /\ r \in answered' /\ bundle'[r] = bundle[r]
                             /\ report'[r] = report[r]]_pilotVars
  BY AnsweredLeftAlone
<1>2. QED BY <1>1, IndInvAlways, PTL DEF Spec, CompletedNeverRerun

-----------------------------------------------------------------------------
(* The mailbox cursor, in a room that never outgrows one read.             *)

\* Record i of a list read at the cursor is record cursor + i of the room.
Aligned(list, at) ==
  \A i \in 1 .. Len(list) :
    /\ at + i <= Len(mail)
    /\ list[i] = [seq |-> at + i, req |-> mail[at + i].req,
                  content |-> mail[at + i].content]

\* The stored generation is of the past or current, and the cursor and the
\* records at hand are those of the current room when it is.
InStep ==
  /\ storedGen <= mailGen
  /\ storedGen = NoGeneration => cursor = 0 /\ todo = <<>> /\ pc # "reread"
  /\ origin = "recover" => pc \in Executing
  /\ pc \in {"idle", "recover", "read", "reread"} \/ origin = "recover" => todo = <<>>
  /\ storedGen = mailGen => /\ cursor <= Len(mail)
                            /\ pc = "reread" => cursor = 0
                            /\ Aligned(todo, cursor)

\* What CursorMeansAnswered says of one record.
Dealt(r, content) ==
  \/ content = Junk
  \/ Expiry[r] <= time \/ Expiry[r] > Horizon
  \/ reqs[r] = content /\ r \in answered
  \/ \E x \in Reasons : rejection[r][x] = "confirmed" /\ Warranted(r, content, x)

\* The refusal being sent is warranted for the record at hand.
Grounded == pc = "reject" => Warranted(Head(todo).req, Head(todo).content, reason)

CursorInv == IndInv /\ InStep /\ Grounded /\ CursorMeansAnswered

\* A read of a room within the limit starts at its cursor and skips nothing.
LEMMA ReadAligned ==
  ASSUME TypeOK, Len(mail) <= MaxMail, MaxMail <= ReadLimit, NEW since \in Nat
  PROVE  Aligned(Read(since), since)
<1> DEFINE skipped == IF Len(mail) - ReadLimit > since THEN Len(mail) - ReadLimit
                                                       ELSE since
           count == IF Len(mail) > skipped THEN Len(mail) - skipped ELSE 0
<1>1. Len(mail) \in Nat /\ ReadLimit \in Nat /\ Len(mail) <= ReadLimit
  <2>1. Len(mail) \in Nat
    BY DEF TypeOK
  <2>2. QED BY <2>1, PilotAssumption
<1>2. /\ skipped = since /\ count \in Nat
      /\ \A i \in 1 .. count : skipped + i \in 1 .. Len(mail)
  BY <1>1, ReadArithmetic
<1>3. Read(since) = [i \in 1 .. count |-> [seq |-> skipped + i,
                                           req |-> mail[skipped + i].req,
                                           content |-> mail[skipped + i].content]]
  BY DEF Read
<1> HIDE DEF skipped, count
<1>4. Len(Read(since)) = count
  BY <1>2, <1>3
<1>5. ASSUME NEW i \in 1 .. count
      PROVE  /\ since + i <= Len(mail)
             /\ Read(since)[i] = [seq |-> since + i, req |-> mail[since + i].req,
                                  content |-> mail[since + i].content]
  <2>1. since + i \in 1 .. Len(mail)
    BY <1>2
  <2>2. QED BY <1>1, <1>2, <1>3, <2>1
<1>6. QED BY <1>4, <1>5 DEF Aligned

\* Going on to the next record keeps the cursor and the rest in step
\* (advance_room_cursor after each record).
LEMMA NextInStep ==
  ASSUME TypeOK, InStep, NextRecord, todo # <<>>, UNCHANGED mailbox
  PROVE  InStep'
<1>1. /\ todo \in Seq(Records) /\ Tail(todo) \in Seq(Records) /\ Len(todo) \in Nat
      /\ Len(todo) >= 1 /\ Len(Tail(todo)) = Len(todo) - 1
      /\ Head(todo) = todo[1] /\ cursor \in Nat /\ Len(mail) \in Nat
  BY DEF TypeOK
<1>2. \A i \in 1 .. Len(Tail(todo)) : Tail(todo)[i] = todo[i + 1]
  BY <1>1
<1>3. /\ storedGen' = storedGen /\ todo' = Tail(todo) /\ cursor' = todo[1].seq
      /\ pc' = "record" /\ origin' = "mailbox" /\ mail' = mail /\ mailGen' = mailGen
  BY <1>1 DEF NextRecord, mailbox
<1>4. storedGen # NoGeneration
  BY DEF InStep
<1>5. CASE storedGen = mailGen
  <2>1. Aligned(todo, cursor)
    BY <1>5 DEF InStep
  <2>2. cursor + 1 <= Len(mail) /\ todo[1].seq = cursor + 1
    BY <1>1, <2>1 DEF Aligned
  <2>3. ASSUME NEW i \in 1 .. Len(Tail(todo))
        PROVE  /\ (cursor + 1) + i <= Len(mail)
               /\ Tail(todo)[i] = [seq |-> (cursor + 1) + i,
                                   req |-> mail[(cursor + 1) + i].req,
                                   content |-> mail[(cursor + 1) + i].content]
    <3>1. /\ i + 1 \in 1 .. Len(todo) /\ cursor + (i + 1) = (cursor + 1) + i
      BY <1>1
    <3>2. QED BY <1>2, <2>1, <3>1 DEF Aligned
  <2>4. Aligned(Tail(todo), cursor + 1)
    BY <2>3 DEF Aligned
  <2>5. Aligned(todo, cursor)'
    BY <1>3, <2>2, <2>4 DEF Aligned
  <2>6. QED BY <1>3, <1>4, <2>2, <2>5 DEF InStep
<1>6. CASE storedGen # mailGen
  BY <1>3, <1>4, <1>6 DEF InStep
<1>7. QED BY <1>5, <1>6

\* The poll that ends keeps the cursor in step (its locals are gone).
LEMMA LeaveInStep ==
  ASSUME TypeOK, InStep, Leave, UNCHANGED <<cursor, storedGen, mailbox>>
  PROVE  InStep'
<1>1. Len(todo') = 0
  BY DEF Leave
<1>2. Aligned(todo, cursor)'
  BY <1>1 DEF Aligned
<1>3. QED BY <1>2 DEF InStep, Leave, mailbox

\* Every step keeps the cursor in step with the room it was stored for
\* (_read_generation_safe, advance_room_cursor).
LEMMA InStepKept ==
  ASSUME CursorInv, [Next]_pilotVars, MaxMail <= ReadLimit
  PROVE  InStep'
<1> USE DEF requestRows, deliveries, files, locals
<1>0. /\ TypeOK /\ Types /\ AtWork /\ InStep /\ Len(mail) <= MaxMail
      /\ cursor \in Nat /\ mailGen \in Nat
      /\ mail \in Seq([req : Requests, content : Contents \cup {Junk}])
  BY DEF CursorInv, IndInv, Types, TypeOK
<1>1. CASE /\ UNCHANGED <<cursor, storedGen, mail, mailGen, todo>>
           /\ \/ UNCHANGED <<pc, origin>>
              \/ /\ pc' \in Executing \cup {"reject"}
                 /\ origin' = origin \/ todo = <<>>
                 /\ origin' = "recover" => pc' \in Executing
              \/ pc' \in {"recover", "read"} /\ origin' # "recover" /\ todo = <<>>
  BY <1>0, <1>1 DEF InStep, Aligned
<1>2. CASE Recover \/ Poll
  <2>1. /\ UNCHANGED <<cursor, storedGen, mail, mailGen, todo>>
        /\ pc \in {"idle", "recover"}
        /\ \/ pc' = "mark"
           \/ pc' \in {"recover", "read"} /\ origin' = origin
    BY <1>2 DEF Recover, Poll, mailbox, Go
  <2>2. todo = <<>> /\ origin # "recover"
    BY <1>0, <2>1 DEF InStep
  <2>3. QED BY <1>1, <2>1, <2>2
<1>3. CASE ReadMailbox
  <2>1. CASE storedGen \notin {NoGeneration, mailGen}
    <3>1. /\ cursor' = 0 /\ todo' = todo /\ pc' = "reread" /\ origin' = origin
          /\ storedGen' = mailGen /\ mail' = mail /\ mailGen' = mailGen /\ pc = "read"
      BY <1>3, <2>1 DEF ReadMailbox, Go, mailbox
    <3>2. todo = <<>> /\ origin # "recover"
      BY <1>0, <3>1 DEF InStep
    <3>3. Len(todo) = 0 /\ Len(mail) >= 0 /\ mailGen # NoGeneration
      BY <1>0, <3>2 DEF NoGeneration
    <3>4. Aligned(todo, cursor)'
      BY <3>1, <3>3 DEF Aligned
    <3>5. QED BY <1>0, <3>1, <3>2, <3>3, <3>4 DEF InStep
  <2>2. CASE storedGen \in {NoGeneration, mailGen}
    <3>1. /\ cursor' = cursor /\ todo' = Read(cursor) /\ pc' = "record"
          /\ origin' = origin
          /\ storedGen' = mailGen /\ mail' = mail /\ mailGen' = mailGen /\ pc = "read"
      BY <1>3, <2>2 DEF ReadMailbox, mailbox
    <3>2. Aligned(Read(cursor), cursor)
      BY <1>0, ReadAligned
    <3>3. Aligned(todo, cursor)'
      BY <3>1, <3>2 DEF Aligned
    <3>4. cursor <= Len(mail) /\ origin # "recover" /\ mailGen # NoGeneration
      BY <1>0, <2>2, <3>1 DEF InStep, NoGeneration
    <3>5. QED BY <1>0, <3>1, <3>3, <3>4 DEF InStep
  <2>3. QED BY <2>1, <2>2
<1>4. CASE ReadAgain
  <2>1. /\ todo' = Read(0) /\ pc' = "record" /\ pc = "reread" /\ origin' = origin
        /\ UNCHANGED <<cursor, storedGen, mail, mailGen>>
    BY <1>4 DEF ReadAgain, mailbox
  <2>2. origin # "recover" /\ storedGen # NoGeneration
    BY <1>0, <2>1 DEF InStep
  <2>3. CASE storedGen = mailGen
    <3>1. Aligned(Read(0), 0) /\ cursor = 0
      BY <1>0, <2>1, <2>3, ReadAligned DEF InStep
    <3>2. Aligned(todo, cursor)'
      BY <2>1, <3>1 DEF Aligned
    <3>3. QED BY <1>0, <2>1, <2>2, <2>3, <3>1, <3>2 DEF InStep
  <2>4. CASE storedGen # mailGen
    BY <1>0, <2>1, <2>2, <2>4 DEF InStep
  <2>5. QED BY <2>3, <2>4
<1>5. CASE PollDone \/ PollFails \/ Crash \/ ExecuteFails
  <2>1. Leave /\ UNCHANGED <<cursor, storedGen, mailbox>>
    BY <1>5 DEF PollDone, PollFails, Crash, ExecuteFails, FailJob
  <2>2. QED BY <1>0, <2>1, LeaveInStep
<1>6. CASE SkipRecord
  BY <1>0, <1>6, NextInStep DEF SkipRecord
<1>7. CASE ReserveRequest \/ ResumeRequest \/ RefuseRequest
  <2>1. /\ UNCHANGED <<cursor, storedGen, mail, mailGen, todo, origin>>
        /\ pc = "record" /\ pc' \in Executing \cup {"reject"}
    BY <1>7 DEF ReserveRequest, ResumeRequest, RefuseRequest, mailbox
  <2>2. origin # "recover"
    BY <1>0, <2>1 DEF InStep
  <2>3. QED BY <1>1, <2>1, <2>2
<1>8. CASE SendRejection
  <2>1. todo # <<>> /\ UNCHANGED mailbox
    BY <1>0, <1>8 DEF SendRejection, AtWork
  <2>2. \/ NextRecord
        \/ Leave /\ UNCHANGED <<cursor, storedGen>>
    BY <1>8 DEF SendRejection
  <2>3. QED BY <1>0, <2>1, <2>2, NextInStep, LeaveInStep
<1>9. CASE SendAck \/ SendResult
  <2>1. UNCHANGED <<cursor, storedGen, mail, mailGen>>
    BY <1>9 DEF SendAck, SendResult, FailJob, mailbox
  <2>2. \/ Leave
        \/ pc' \in Executing /\ UNCHANGED <<todo, origin>>
    BY <1>9 DEF SendAck, SendResult, FailJob, Go
  <2>3. CASE Leave
    BY <1>0, <2>1, <2>3, LeaveInStep DEF mailbox
  <2>4. QED BY <1>1, <2>1, <2>2, <2>3
<1>10. CASE \/ MarkRunning \/ BuildBundle \/ RunScenario
            \/ StartPublish \/ FinishPublish
  <2>1. /\ UNCHANGED <<cursor, storedGen, mail, mailGen, todo, origin>>
        /\ pc' \in Executing
    BY <1>10 DEF MarkRunning, BuildBundle, RunScenario, StartPublish, FinishPublish,
                 Go, mailbox
  <2>2. QED BY <1>1, <2>1
<1>11. CASE StoreResult
  <2>1. CASE origin = "mailbox" /\ NextRecord
    <3>1. todo # <<>> /\ UNCHANGED mailbox
      BY <1>0, <1>11, <2>1 DEF StoreResult, AtWork
    <3>2. QED BY <1>0, <2>1, <3>1, NextInStep
  <2>2. CASE /\ origin = "recover" /\ pc' = "recover" /\ origin' = "mailbox"
             /\ UNCHANGED <<todo, cursor, storedGen>>
    <3>1. todo = <<>> /\ UNCHANGED <<mail, mailGen>>
      BY <1>0, <1>11, <2>2 DEF StoreResult, InStep, mailbox
    <3>2. QED BY <1>1, <2>2, <3>1
  <2>3. QED BY <1>11, <2>1, <2>2 DEF StoreResult
<1>12. CASE Tick \/ UNCHANGED pilotVars \/ \E r \in Requests : LateLanding(r)
  <2>1. UNCHANGED <<cursor, storedGen, mail, mailGen, todo, pc, origin>>
    BY <1>12 DEF Tick, LateLanding, mailbox, pilotVars
  <2>2. QED BY <1>1, <2>1
<1>13. CASE ReapMailbox
  <2>1. /\ UNCHANGED <<cursor, storedGen, todo, pc, origin>>
        /\ mailGen' = mailGen + 1
    BY <1>13 DEF ReapMailbox
  <2>2. storedGen < mailGen' /\ storedGen <= mailGen'
    BY <1>0, <2>1 DEF InStep, TypeOK, NoGeneration
  <2>3. QED BY <1>0, <2>1, <2>2 DEF InStep, TypeOK, NoGeneration
<1>14. CASE \E input \in Inputs : PeerWrites(input[1], input[2])
  <2>1. PICK input \in Inputs : PeerWrites(input[1], input[2])
    BY <1>14
  <2>2. /\ UNCHANGED <<cursor, storedGen, todo, pc, origin, mailGen>>
        /\ mail' = Append(mail, [req |-> input[1], content |-> input[2]])
    BY <2>1 DEF PeerWrites
  <2>3. /\ input[1] \in Requests /\ input[2] \in Contents \cup {Junk}
    BY PilotAssumption
  <2>4. /\ Len(mail) \in Nat /\ Len(mail') = Len(mail) + 1
        /\ \A i \in 1 .. Len(mail) : mail'[i] = mail[i]
    BY <1>0, <2>2, <2>3
  <2>5. Aligned(todo, cursor) => Aligned(todo, cursor)'
    <3> SUFFICES ASSUME Aligned(todo, cursor), NEW i \in 1 .. Len(todo)
                 PROVE  /\ cursor + i <= Len(mail')
                        /\ todo[i] = [seq |-> cursor + i,
                                      req |-> mail'[cursor + i].req,
                                      content |-> mail'[cursor + i].content]
      BY <2>2 DEF Aligned
    <3>0. Len(todo) \in Nat
      BY <1>0 DEF TypeOK
    <3>1. cursor + i <= Len(mail)
      BY DEF Aligned
    <3>2. cursor + i \in 1 .. Len(mail) /\ cursor + i <= Len(mail')
      BY <1>0, <2>4, <3>0, <3>1
    <3>3. mail'[cursor + i] = mail[cursor + i]
      BY <2>4, <3>2
    <3>4. QED BY <3>2, <3>3 DEF Aligned
  <2>6. QED BY <1>0, <2>2, <2>4, <2>5 DEF InStep
<1>15. QED
  BY <1>2, <1>3, <1>4, <1>5, <1>6, <1>7, <1>8, <1>9, <1>10, <1>11, <1>12, <1>13,
     <1>14
  DEF Next, PollStep

\* A confirmed refusal stays confirmed.
LEMMA RefusalStays ==
  ASSUME IndInv, [Next]_pilotVars,
         NEW r \in Requests, NEW x \in Reasons, rejection[r][x] = "confirmed"
  PROVE  rejection'[r][x] = "confirmed"
<1>0. rejection \in [Requests -> [Reasons -> Sends]]
  BY DEF IndInv, Types, TypeOK
<1>1. CASE SendRejection
  <2>1. Head(todo).req \in Requests /\ reason \in Reasons
    BY <1>1, HeadType DEF IndInv, Types, AtWork, SendRejection
  <2>2. PICK s \in AfterRaise(rejection[Head(todo).req][reason]) \cup {"confirmed"} :
          rejection' = [rejection EXCEPT ![Head(todo).req][reason] = s]
    BY <1>1 DEF SendRejection
  <2>3. CASE Head(todo).req = r /\ reason = x
    BY <1>0, <2>1, <2>2, <2>3 DEF AfterRaise
  <2>4. CASE ~(Head(todo).req = r /\ reason = x)
    BY <1>0, <2>1, <2>2, <2>4
  <2>5. QED BY <2>3, <2>4
<1>2. CASE \E q \in Requests : LateLanding(q)
  <2>1. PICK q \in Requests : LateLanding(q)
    BY <1>2
  <2>2. \/ UNCHANGED rejection
        \/ \E y \in Reasons : /\ rejection[q][y] = "prepared"
                              /\ rejection' = [rejection EXCEPT ![q][y] = "landed"]
    BY <2>1 DEF LateLanding
  <2>3. QED BY <1>0, <2>2
<1>3. CASE UNCHANGED rejection
  BY <1>3
<1>4. QED
  BY <1>1, <1>2, <1>3
  DEF Next, PollStep, pilotVars, deliveries, Poll, Recover, ReadMailbox, ReadAgain,
      PollDone, PollFails, SkipRecord, ReserveRequest, ResumeRequest, RefuseRequest,
      Crash, SendAck, MarkRunning, BuildBundle, RunScenario, StartPublish,
      FinishPublish, SendResult, FailJob, StoreResult, ExecuteFails, Tick,
      ReapMailbox, PeerWrites

\* A request on file stays what it is, and the counters only rise.
LEMMA WarrantStays ==
  ASSUME IndInv, [Next]_pilotVars, NEW r \in Requests, NEW c, NEW x, Warranted(r, c, x)
  PROVE  Warranted(r, c, x)'
<1>0. /\ reqs \in [Requests -> Contents \cup {NoContent}] /\ day \in [Requests -> Days]
      /\ didQuota \in [Days -> [Dids -> Nat]] /\ globalQuota \in [Days -> Nat]
      /\ Owner[r] \in Dids
  BY PilotAssumption DEF IndInv, Types, TypeOK
<1>1. CASE UNCHANGED <<reqs, didQuota, globalQuota>>
  BY <1>1 DEF Warranted
<1>2. CASE ReserveRequest
  <2>1. PICK q, t : q = Head(todo).req /\ t = Today
    OBVIOUS
  <2>2. /\ q \in Requests /\ t \in Days /\ Owner[q] \in Dids
        /\ \A d \in Days : q \notin AcceptedOn(d)
    BY <1>2, <2>1, ReservationCounts
  <2>3. reqs[q] = NoContent
    BY <1>0, <2>2 DEF AcceptedOn
  <2>4. /\ reqs' = [reqs EXCEPT ![q] = Head(todo).content]
        /\ didQuota' = [didQuota EXCEPT ![t][Owner[q]] = didQuota[t][Owner[q]] + 1]
        /\ globalQuota' = [globalQuota EXCEPT ![t] = globalQuota[t] + 1]
    BY <1>2, <2>1 DEF ReserveRequest
  <2>5. CASE x = "conflict" /\ reqs[r] \notin {c, NoContent}
    <3>1. q # r /\ reqs'[r] = reqs[r]
      BY <1>0, <2>3, <2>4, <2>5
    <3>2. QED BY <2>5, <3>1 DEF Warranted
  <2>6. CASE x = "quota"
    <3>1. PICK d \in Days : didQuota[d][Owner[r]] >= PerDid \/ globalQuota[d] >= Global
      BY <2>6 DEF Warranted
    <3>2. /\ didQuota[d][Owner[r]] \in Nat /\ globalQuota[d] \in Nat
          /\ PerDid \in Nat /\ Global \in Nat
      BY <1>0, <3>1, PilotAssumption
    <3>3. globalQuota'[d] \in {globalQuota[d], globalQuota[d] + 1}
      BY <1>0, <2>2, <2>4
    <3>4. didQuota'[d][Owner[r]] \in {didQuota[d][Owner[r]], didQuota[d][Owner[r]] + 1}
      <4>1. CASE d = t /\ Owner[r] = Owner[q]
        BY <1>0, <2>2, <2>4, <4>1
      <4>2. CASE ~(d = t /\ Owner[r] = Owner[q])
        BY <1>0, <2>2, <2>4, <4>2
      <4>3. QED BY <4>1, <4>2
    <3>5. didQuota'[d][Owner[r]] >= PerDid \/ globalQuota'[d] >= Global
      BY <3>1, <3>2, <3>3, <3>4
    <3>6. QED BY <2>6, <3>5 DEF Warranted
  <2>7. QED BY <2>5, <2>6 DEF Warranted
<1>3. QED
  BY <1>1, <1>2, QuietSteps
  DEF Next, PollStep, pilotVars, requestRows, MarkRunning, RunScenario, StartPublish,
      FinishPublish, SendResult, FailJob, StoreResult, ExecuteFails, LateLanding

\* A refusal is decided on by reserve_request, for the record at hand.
LEMMA GroundedKept ==
  ASSUME IndInv, Grounded, [Next]_pilotVars
  PROVE  Grounded'
<1> SUFFICES ASSUME pc' = "reject"
             PROVE  Warranted(Head(todo).req, Head(todo).content, reason)'
  BY DEF Grounded
<1>1. CASE RefuseRequest
  <2>1. PICK r, c : r = Head(todo).req /\ c = Head(todo).content
    OBVIOUS
  <2>2. /\ todo # <<>> /\ Verdict(r, c) \in Reasons /\ reason' = Verdict(r, c)
        /\ UNCHANGED <<todo, reqs, didQuota, globalQuota>>
    BY <1>1, <2>1 DEF RefuseRequest, requestRows
  <2>3. Verdict(r, c) # "busy" /\ Today \in Days
    <3>1. AtWork' /\ pc' = "reject"
      BY <1>1, NextInd DEF IndInv, RefuseRequest
    <3>2. reason' # "busy"
      BY <3>1 DEF AtWork
    <3>3. now \in 0 .. MaxTime
      BY DEF IndInv, Types, TypeOK
    <3>4. QED BY <2>2, <3>2, <3>3, TodayIsADay
  <2>4. Warranted(r, c, Verdict(r, c))
    BY <2>2, <2>3 DEF Verdict, Warranted, Reasons
  <2>5. QED BY <2>1, <2>2, <2>4 DEF Warranted
<1>2. CASE pc = "reject" /\ UNCHANGED <<todo, reason>>
  <2>1. PICK r, c, x : r = Head(todo).req /\ c = Head(todo).content /\ x = reason
    OBVIOUS
  <2>2. r \in Requests
    BY <1>2, <2>1, HeadType DEF IndInv, Types, AtWork
  <2>3. Warranted(r, c, x)'
    BY <1>2, <2>1, <2>2, WarrantStays DEF Grounded
  <2>4. QED BY <1>2, <2>1, <2>3 DEF Warranted
<1>3. QED
  BY <1>1, <1>2
  DEF Next, PollStep, pilotVars, Poll, Recover, ReadMailbox, ReadAgain,
      PollDone, PollFails, SkipRecord, ReserveRequest, ResumeRequest, SendRejection,
      Crash, SendAck, MarkRunning, BuildBundle, RunScenario, StartPublish,
      FinishPublish, SendResult, FailJob, StoreResult, ExecuteFails, Tick,
      ReapMailbox, PeerWrites, LateLanding, Go, Leave, NextRecord, locals

\* What was dealt with stays dealt with: answers and refusals are not taken
\* back, and an expired request stays expired.
LEMMA DealtStays ==
  ASSUME IndInv, [Next]_pilotVars, NEW r \in Requests, NEW c, Dealt(r, c)
  PROVE  Dealt(r, c)'
<1>1. time' \in Int /\ time <= time'
  <2>1. time \in Int
    BY DEF IndInv, Types, TypeOK
  <2>2. time' = time \/ time' = time + 1
    BY DEF Next, PollStep, pilotVars, Poll, Recover, ReadMailbox, ReadAgain, PollDone,
        PollFails, SkipRecord, ReserveRequest, ResumeRequest, RefuseRequest,
        Crash, SendRejection, SendAck, MarkRunning, BuildBundle, RunScenario,
        StartPublish, FinishPublish, SendResult, FailJob, StoreResult, ExecuteFails,
        Tick, ReapMailbox, PeerWrites, LateLanding
  <2>3. QED BY <2>1, <2>2
<1>2. CASE c = Junk \/ Expiry[r] > Horizon
  BY <1>2 DEF Dealt
<1>3. CASE Expiry[r] <= time
  <2>1. Expiry[r] \in Int /\ time \in Int
    BY PilotAssumption DEF IndInv, Types, TypeOK
  <2>2. Expiry[r] <= time'
    BY <1>1, <1>3, <2>1
  <2>3. QED BY <2>2 DEF Dealt
<1>4. CASE reqs[r] = c /\ r \in answered
  BY <1>4, AnsweredLeftAlone DEF Dealt
<1>5. CASE \E x \in Reasons : rejection[r][x] = "confirmed" /\ Warranted(r, c, x)
  BY <1>5, RefusalStays, WarrantStays DEF Dealt
<1>6. QED BY <1>2, <1>3, <1>4, <1>5 DEF Dealt

\* The record that the cursor passes has been dealt with: it was skipped,
\* refused or answered by this very step.
LEMMA PassedIsDealt ==
  ASSUME IndInv, Grounded, [Next]_pilotVars, todo # <<>>,
         NEW r, NEW c, r = Head(todo).req, c = Head(todo).content,
         \/ SkipRecord
         \/ SendRejection /\ NextRecord
         \/ StoreResult /\ origin = "mailbox"
  PROVE  Dealt(r, c)'
<1>0. /\ r \in Requests /\ Expiry[r] \in Int /\ now \in Nat /\ time \in Int
      /\ now <= time /\ Horizon \in Int
  <2>1. r \in Requests
    BY HeadType DEF IndInv, Types
  <2>2. QED BY <2>1, PilotAssumption DEF IndInv, Types, TypeOK
<1>1. CASE SkipRecord
  <2>1. CASE ~Valid(Head(todo))
    <3>1. c = Junk \/ ~(now < Expiry[r]) \/ ~(Expiry[r] - now <= Horizon)
      BY <2>1 DEF Valid
    <3>2. c = Junk \/ Expiry[r] <= time \/ Expiry[r] > Horizon
      BY <1>0, <3>1
    <3>3. QED BY <1>0, <3>2, DealtStays DEF Dealt
  <2>2. CASE Verdict(r, c) = "duplicate" /\ r \in answered
    <3>1. reqs[r] = c
      BY <2>2 DEF Verdict
    <3>2. QED BY <1>0, <2>2, <3>1, DealtStays DEF Dealt
  <2>3. QED BY <1>1, <2>1, <2>2 DEF SkipRecord
<1>2. CASE SendRejection /\ NextRecord
  <2>1. reason \in Reasons /\ rejection \in [Requests -> [Reasons -> Sends]]
    BY <1>2 DEF IndInv, Types, TypeOK, AtWork, SendRejection
  <2>2. rejection' = [rejection EXCEPT ![r][reason] = "confirmed"]
    BY <1>2 DEF SendRejection, NextRecord, Leave
  <2>3. rejection'[r][reason] = "confirmed"
    BY <1>0, <2>1, <2>2
  <2>4. PICK x : x = reason
    OBVIOUS
  <2>5. Warranted(r, c, x)
    BY <1>2, <2>4 DEF Grounded, SendRejection
  <2>6. Warranted(r, c, x)'
    BY <1>0, <2>5, WarrantStays
  <2>7. QED BY <2>1, <2>3, <2>4, <2>6 DEF Dealt
<1>3. CASE StoreResult /\ origin = "mailbox"
  <2>1. cur = r /\ reqs[r] = c
    BY <1>3 DEF IndInv, AtWork, StoreResult
  <2>2. reqs' = reqs /\ r \in answered'
    BY <1>3, <2>1 DEF StoreResult
  <2>3. QED BY <2>1, <2>2 DEF Dealt
<1>4. QED BY <1>1, <1>2, <1>3

\* The records behind the cursor are dealt with after every step.
LEMMA CursorKept ==
  ASSUME CursorInv, [Next]_pilotVars, MaxMail <= ReadLimit
  PROVE  CursorMeansAnswered'
<1>0. /\ IndInv /\ InStep /\ Grounded /\ TypeOK /\ cursor \in Nat
      /\ mail \in Seq([req : Requests, content : Contents \cup {Junk}])
  BY DEF CursorInv, IndInv, Types, TypeOK
<1>1. storedGen = mailGen =>
        \A i \in 1 .. Len(mail) : i <= cursor => Dealt(mail[i].req, mail[i].content)
  BY DEF CursorInv, CursorMeansAnswered, Dealt
<1>2. SUFFICES ASSUME storedGen' = mailGen', NEW i \in 1 .. Len(mail'), i <= cursor',
                      NEW r, NEW c, r = mail'[i].req, c = mail'[i].content
               PROVE  Dealt(r, c)'
  BY DEF CursorMeansAnswered, Dealt
<1>3. CASE /\ storedGen = mailGen /\ mail[i] = mail'[i] /\ i \in 1 .. Len(mail)
           /\ i <= cursor
  <2>1. r \in Requests
    <3>1. mail[i] \in [req : Requests, content : Contents \cup {Junk}]
      BY <1>0, <1>3, ElementOfSeq
    <3>2. QED BY <1>2, <1>3, <3>1
  <2>2. Dealt(r, c)
    BY <1>1, <1>2, <1>3
  <2>3. QED BY <1>0, <2>1, <2>2, DealtStays
<1>4. CASE \/ SkipRecord
           \/ SendRejection /\ NextRecord
           \/ StoreResult /\ origin = "mailbox"
  <2>1. NextRecord /\ UNCHANGED mailbox
    BY <1>4 DEF SkipRecord, SendRejection, StoreResult, InStep
  <2>2. todo # <<>>
    BY <1>0, <1>4 DEF IndInv, AtWork, SkipRecord, SendRejection, StoreResult
  <2>3. /\ storedGen = mailGen /\ mail' = mail /\ cursor' = Head(todo).seq
    BY <1>2, <2>1 DEF NextRecord, mailbox
  <2>4. /\ Len(todo) \in Nat /\ 1 \in 1 .. Len(todo) /\ Head(todo) = todo[1]
    BY <1>0, <2>2 DEF TypeOK
  <2>5. /\ Head(todo).seq = cursor + 1
        /\ Head(todo).req = mail[cursor + 1].req
        /\ Head(todo).content = mail[cursor + 1].content
    <3>1. Aligned(todo, cursor)
      BY <1>0, <2>3 DEF InStep
    <3>2. todo[1] = [seq |-> cursor + 1, req |-> mail[cursor + 1].req,
                     content |-> mail[cursor + 1].content]
      BY <2>4, <3>1 DEF Aligned
    <3>3. QED BY <2>4, <3>2
  <2>6. CASE i <= cursor
    BY <1>2, <1>3, <2>3, <2>6
  <2>7. CASE ~(i <= cursor)
    <3>1. i = cursor + 1
      BY <1>0, <1>2, <2>3, <2>5, <2>7
    <3>2. r = Head(todo).req /\ c = Head(todo).content
      BY <1>2, <2>3, <2>5, <3>1
    <3>3. QED BY <1>0, <1>4, <2>2, <3>2, PassedIsDealt
  <2>8. QED BY <2>6, <2>7
<1>5. CASE UNCHANGED <<cursor, storedGen, mail, mailGen>>
  BY <1>2, <1>3, <1>5
<1>6. CASE ReadMailbox
  <2>1. cursor' = 0 \/ UNCHANGED <<cursor, storedGen, mail, mailGen>>
    BY <1>0, <1>6 DEF ReadMailbox, mailbox, Go, InStep
  <2>2. QED BY <1>0, <1>2, <1>5, <2>1
<1>7. CASE ReapMailbox
  <2>1. storedGen' < mailGen'
    BY <1>0, <1>7 DEF ReapMailbox, InStep, TypeOK, NoGeneration
  <2>2. QED BY <1>0, <1>2, <1>7, <2>1 DEF ReapMailbox, TypeOK, NoGeneration
<1>8. CASE \E input \in Inputs : PeerWrites(input[1], input[2])
  <2>1. PICK input \in Inputs : PeerWrites(input[1], input[2])
    BY <1>8
  <2>2. /\ UNCHANGED <<cursor, storedGen, mailGen>>
        /\ mail' = Append(mail, [req |-> input[1], content |-> input[2]])
    BY <2>1 DEF PeerWrites
  <2>3. /\ input[1] \in Requests /\ input[2] \in Contents \cup {Junk}
    BY PilotAssumption
  <2>4. /\ Len(mail) \in Nat /\ Len(mail') = Len(mail) + 1
        /\ \A j \in 1 .. Len(mail) : mail'[j] = mail[j]
    BY <1>0, <2>2, <2>3
  <2>5. cursor <= Len(mail)
    BY <1>0, <1>2, <2>2 DEF InStep
  <2>6. i \in 1 .. Len(mail) /\ mail'[i] = mail[i]
    BY <1>0, <1>2, <2>2, <2>4, <2>5
  <2>7. QED BY <1>2, <1>3, <2>2, <2>6
<1>9. QED
  BY <1>4, <1>5, <1>6, <1>7, <1>8
  DEF Next, PollStep, pilotVars, mailbox, Poll, Recover, ReadAgain, PollDone,
      PollFails, ReserveRequest, ResumeRequest, RefuseRequest, Crash, SendRejection,
      SendAck, MarkRunning, BuildBundle, RunScenario, StartPublish, FinishPublish,
      SendResult, FailJob, StoreResult, ExecuteFails, Tick, LateLanding

\* A record behind the cursor of the current room was dealt with, as long as
\* the room never holds more records than one read returns; in a longer room a
\* read skips the oldest, and the statement is false (the backlog instance).
THEOREM CursorMeansAnsweredAlways ==
  ASSUME MaxMail <= ReadLimit
  PROVE  Spec => []CursorMeansAnswered
<1>1. Init => CursorInv
  <2> SUFFICES ASSUME Init
               PROVE  InStep /\ Grounded /\ CursorMeansAnswered
    BY InitInd DEF CursorInv
  <2>1. Len(mail) = 0 /\ Len(todo) = 0
    BY DEF Init
  <2>2. QED BY <2>1 DEF Init, InStep, Grounded, Aligned, CursorMeansAnswered,
                           NoGeneration
<1>2. CursorInv /\ [Next]_pilotVars => CursorInv'
  BY NextInd, InStepKept, GroundedKept, CursorKept DEF CursorInv
<1>3. CursorInv => CursorMeansAnswered
  BY DEF CursorInv
<1>4. QED BY <1>1, <1>2, <1>3, PTL DEF Spec

=============================================================================
