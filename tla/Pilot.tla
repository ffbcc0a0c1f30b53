-------------------------------- MODULE Pilot --------------------------------
(***************************************************************************)
(* The request lane of the public pilot: PilotRuntime.poll_once (recovery  *)
(* and mailbox), DiscoveryGateway.accept_request and complete_request, and *)
(* the tables of StateStore they use.  A poll first finishes the jobs that *)
(* an earlier poll left behind, then reads the mailbox from its cursor and *)
(* takes each record through reservation, acknowledgement, run, report,    *)
(* result and completion.  The process may die between any two writes.     *)
(*                                                                         *)
(* A public message is sent through the messenger of module Delivery; here *)
(* a send is one step with the outcomes that module allows: the delivery   *)
(* is confirmed and the call returns, or the call raises and leaves the    *)
(* delivery unsigned, prepared or landed without confirmation.             *)
(***************************************************************************)
EXTENDS Integers, FiniteSets, Sequences

CONSTANTS
  Requests,        \* (requester DID, request id) pairs
  Dids, Owner,     \* requesters; Owner[r] sent request r
  Contents,        \* bodies of a request, by content hash
  Junk,            \* a record that is no valid signed request
  NoContent,       \* no row in service_requests
  Inputs,          \* the (request, body) pairs that peers write
  Roots, NoRoot,   \* bundle roots a run can produce
  Expiry,          \* Expiry[r]: expires_at of request r
  Horizon,         \* longest accepted time to expiry (24 hours)
  PerDid, Global,  \* accepted requests per day: one requester, all
  MaxQueue,        \* max_queue_depth
  MaxRuns,         \* max_external_jobs_per_day
  QuarantineAfter, \* consecutive failures that quarantine a component
  ReadLimit,       \* records a mailbox read returns (100)
  DayLength,       \* ticks of the clock in a quota day
  MaxTime,         \* bound: ticks of the clock
  MaxMail,         \* bound: records of the mailbox in one generation
  MaxGen           \* bound: generations of the mailbox

ASSUME PilotAssumption ==
  /\ Owner \in [Requests -> Dids]
  /\ Expiry \in [Requests -> Nat]
  /\ Inputs \subseteq Requests \X (Contents \cup {Junk})
  /\ Junk \notin Contents /\ NoContent \notin Contents /\ NoRoot \notin Roots
  /\ Horizon \in Nat /\ PerDid \in Nat /\ Global \in Nat /\ MaxRuns \in Nat
  /\ QuarantineAfter \in Nat /\ ReadLimit \in Nat
  /\ MaxTime \in Nat /\ MaxMail \in Nat /\ MaxGen \in Nat
  /\ MaxQueue \in Nat \ {0} /\ DayLength \in Nat \ {0}

VARIABLES
  reqs,      \* service_requests: request -> content hash, or NoContent
  day,       \*   ... and the quota day it was accepted on
  answered,  \*   ... and the requests whose result column is set
  job,       \* service_jobs: request -> status
  didQuota, globalQuota, runs,  \* the counters of each day
  failures,  \* component_health: consecutive errors of pilot_runner
  cursor, storedGen,            \* room_cursors row of the mailbox
  ack, rejection, result,       \* outbound deliveries, by key
  resultAt,  \* completed_at inside the stored bytes of a result
  bundle,    \* spool: root of the finished bundle of a job
  report,    \* static root: state of the published report of a job
  mail, mailGen,                \* the mailbox on the server
  time,      \* the clock
  pc, now, todo, cur, origin, reason   \* locals of poll_once

requestRows == <<reqs, day, answered, job, didQuota, globalQuota>>
deliveries  == <<ack, rejection, result, resultAt>>
files       == <<bundle, report>>
mailbox     == <<mail, mailGen>>
locals      == <<pc, now, todo, cur, origin, reason>>
pilotVars   == <<reqs, day, answered, job, didQuota, globalQuota, runs,
                 failures, cursor, storedGen, ack, rejection, result, resultAt,
                 bundle, report, mail, mailGen, time, pc, now, todo, cur,
                 origin, reason>>

Days == 0 .. MaxTime \div DayLength
Today == now \div DayLength

NoGeneration == -1
Statuses == {"none", "accepted", "running", "complete", "failed"}
Sends    == {"absent", "prepared", "landed", "confirmed"}
Reasons  == {"conflict", "quota", "busy"}
Records  == [seq : Nat, req : Requests, content : Contents \cup {Junk}]
Places   == {"idle", "recover", "read", "reread", "record", "reject", "ack",
             "mark", "build", "run", "publish", "copy", "result", "store"}

TypeOK ==
  /\ reqs \in [Requests -> Contents \cup {NoContent}]
  /\ day \in [Requests -> Days]
  /\ answered \subseteq Requests
  /\ job \in [Requests -> Statuses]
  /\ didQuota \in [Days -> [Dids -> Nat]]
  /\ globalQuota \in [Days -> Nat]
  /\ runs \in [Days -> Nat]
  /\ failures \in Nat
  /\ cursor \in Nat
  /\ storedGen \in Nat \cup {NoGeneration}
  /\ ack \in [Requests -> Sends]
  /\ rejection \in [Requests -> [Reasons -> Sends]]
  /\ result \in [Requests -> [Roots -> Sends]]
  /\ resultAt \in [Requests -> [Roots -> Nat]]
  /\ bundle \in [Requests -> Roots \cup {NoRoot}]
  /\ report \in [Requests -> {"none", "partial", "published"}]
  /\ mail \in Seq([req : Requests, content : Contents \cup {Junk}])
  /\ mailGen \in Nat
  /\ time \in Nat
  /\ pc \in Places
  /\ now \in 0 .. MaxTime
  /\ todo \in Seq(Records)
  /\ cur \in Requests \cup {NoContent}
  /\ origin \in {"recover", "mailbox"}
  /\ reason \in Reasons \cup {"none"}

Init ==
  /\ reqs = [r \in Requests |-> NoContent]
  /\ day = [r \in Requests |-> 0]
  /\ answered = {}
  /\ job = [r \in Requests |-> "none"]
  /\ didQuota = [d \in Days |-> [p \in Dids |-> 0]]
  /\ globalQuota = [d \in Days |-> 0]
  /\ runs = [d \in Days |-> 0]
  /\ failures = 0
  /\ cursor = 0 /\ storedGen = NoGeneration
  /\ ack = [r \in Requests |-> "absent"]
  /\ rejection = [r \in Requests |-> [x \in Reasons |-> "absent"]]
  /\ result = [r \in Requests |-> [b \in Roots |-> "absent"]]
  /\ resultAt = [r \in Requests |-> [b \in Roots |-> 0]]
  /\ bundle = [r \in Requests |-> NoRoot]
  /\ report = [r \in Requests |-> "none"]
  /\ mail = <<>> /\ mailGen = 0
  /\ time = 0
  /\ pc = "idle" /\ now = 0 /\ todo = <<>> /\ cur = NoContent
  /\ origin = "mailbox" /\ reason = "none"

-----------------------------------------------------------------------------
(* Leaving a poll, and the steps inside one.                               *)

\* The poll ends, normally or with an exception; its locals are gone.
Leave ==
  /\ pc' = "idle" /\ now' = 0 /\ todo' = <<>> /\ cur' = NoContent
  /\ origin' = "mailbox" /\ reason' = "none"

Go(place) == pc' = place /\ UNCHANGED <<now, todo, cur, origin, reason>>

\* advance_room_cursor for the record at hand, and on to the next one.
NextRecord ==
  /\ cursor' = Head(todo).seq
  /\ todo' = Tail(todo)
  /\ pc' = "record" /\ cur' = NoContent /\ origin' = "mailbox" /\ reason' = "none"
  /\ UNCHANGED <<now, storedGen>>

\* What may become of a delivery whose send raises: nothing, or more of the
\* way to the server.  A confirmed one is never touched again.
AfterRaise(state) ==
  CASE state = "absent"    -> {"absent", "prepared", "landed"}
    [] state = "prepared"  -> {"prepared", "landed"}
    [] state = "landed"    -> {"landed"}
    [] state = "confirmed" -> {"confirmed"}

Pending == {r \in Requests : job[r] \in {"accepted", "running"}}

-----------------------------------------------------------------------------
(* poll_once: recovery, then the mailbox.                                  *)

Poll ==
  /\ pc = "idle"
  /\ pc' = "recover" /\ now' = time
  /\ UNCHANGED <<todo, cur, origin, reason, requestRows, runs, failures, cursor,
                 storedGen, deliveries, files, mailbox, time>>

\* Faulty variant of Recover: the mailbox is read first.
RecoverNothing ==
  /\ pc = "recover"
  /\ Go("read")
  /\ UNCHANGED <<requestRows, runs, failures, cursor, storedGen, deliveries,
                 files, mailbox, time>>

Recover ==
  /\ pc = "recover"
  /\ \/ \E r \in Pending :
          /\ cur' = r /\ origin' = "recover" /\ pc' = "mark"
          /\ UNCHANGED <<now, todo, reason>>
     \/ Pending = {} /\ Go("read")
  /\ UNCHANGED <<requestRows, runs, failures, cursor, storedGen, deliveries,
                 files, mailbox, time>>

\* The newest ReadLimit records after the cursor, oldest first.
Read(since) ==
  LET skipped == IF Len(mail) - ReadLimit > since THEN Len(mail) - ReadLimit
                                                  ELSE since
      count   == IF Len(mail) > skipped THEN Len(mail) - skipped ELSE 0
  IN  [i \in 1 .. count |-> [seq |-> skipped + i,
                             req |-> mail[skipped + i].req,
                             content |-> mail[skipped + i].content]]

\* Faulty variant of ReadMailbox: the cursor is kept in a recreated room.
ReadKeepingCursor ==
  /\ pc = "read"
  /\ todo' = Read(cursor)
  /\ pc' = "record"
  /\ storedGen' = mailGen
  /\ UNCHANGED <<cursor, now, cur, origin, reason, requestRows, runs, failures,
                 deliveries, files, mailbox, time>>

\* _read_generation_safe: a recreated room resets the cursor and is read
\* again from the start, by a second request.
ReadMailbox ==
  /\ pc = "read"
  /\ IF storedGen \notin {NoGeneration, mailGen}
     THEN cursor' = 0 /\ Go("reread")
     ELSE /\ todo' = Read(cursor)
          /\ pc' = "record"
          /\ UNCHANGED <<cursor, now, cur, origin, reason>>
  /\ storedGen' = mailGen
  /\ UNCHANGED <<requestRows, runs, failures, deliveries, files, mailbox, time>>

ReadAgain ==
  /\ pc = "reread"
  /\ todo' = Read(0)
  /\ pc' = "record"
  /\ UNCHANGED <<now, cur, origin, reason, requestRows, runs, failures, cursor,
                 storedGen, deliveries, files, mailbox, time>>

\* All records are done: the poll is healthy.
PollDone ==
  /\ pc = "record" /\ todo = <<>>
  /\ Leave
  /\ UNCHANGED <<requestRows, runs, failures, cursor, storedGen, deliveries,
                 files, mailbox, time>>

\* A read fails, or the gate is closed: the exception ends the poll.
PollFails ==
  /\ pc \in {"recover", "read", "reread", "record", "mark"}
  /\ Leave
  /\ UNCHANGED <<requestRows, runs, failures, cursor, storedGen, deliveries,
                 files, mailbox, time>>

-----------------------------------------------------------------------------
(* accept_request.                                                         *)

\* Faulty variant of Valid: expires_at is not looked at.
ValidForever(rec) == rec.content # Junk

Valid(rec) ==
  /\ rec.content # Junk
  /\ now < Expiry[rec.req]
  /\ Expiry[rec.req] - now <= Horizon

\* Faulty variant of Verdict: one request more than the limits.
VerdictOffByOne(r, content) ==
  CASE reqs[r] = content -> "duplicate"
    [] reqs[r] \notin {content, NoContent} -> "conflict"
    [] OTHER -> IF \/ didQuota[Today][Owner[r]] > PerDid
                   \/ globalQuota[Today] > Global
                THEN "quota"
                ELSE IF Cardinality(Pending) >= MaxQueue THEN "busy"
                                                         ELSE "accepted"

\* The decision of the reserve_request transaction.
Verdict(r, content) ==
  CASE reqs[r] = content -> "duplicate"
    [] reqs[r] \notin {content, NoContent} -> "conflict"
    [] OTHER -> IF \/ didQuota[Today][Owner[r]] >= PerDid
                   \/ globalQuota[Today] >= Global
                THEN "quota"
                ELSE IF Cardinality(Pending) >= MaxQueue THEN "busy"
                                                         ELSE "accepted"

\* Unsigned, malformed, expired and overlong records, and requests that are
\* already complete, only move the cursor.
SkipRecord ==
  LET rec == Head(todo) IN
  /\ pc = "record" /\ todo # <<>>
  /\ \/ ~Valid(rec)
     \/ Verdict(rec.req, rec.content) = "duplicate" /\ rec.req \in answered
  /\ NextRecord
  /\ UNCHANGED <<requestRows, runs, failures, deliveries, files, mailbox, time>>

\* The reservation: request, job and both quotas in one transaction.
ReserveRequest ==
  LET rec == Head(todo) r == rec.req IN
  /\ pc = "record" /\ todo # <<>>
  /\ Valid(rec)
  /\ Verdict(r, rec.content) = "accepted"
  /\ reqs' = [reqs EXCEPT ![r] = rec.content]
  /\ day' = [day EXCEPT ![r] = Today]
  /\ job' = [job EXCEPT ![r] = "accepted"]
  /\ didQuota' = [didQuota EXCEPT ![Today][Owner[r]] = @ + 1]
  /\ globalQuota' = [globalQuota EXCEPT ![Today] = @ + 1]
  /\ pc' = "ack" /\ cur' = r
  /\ UNCHANGED <<now, todo, origin, reason, answered, runs, failures, cursor,
                 storedGen, deliveries, files, mailbox, time>>

\* Faulty variant of ResumeRequest: a finished request is executed again.
ResumeAnswered ==
  LET rec == Head(todo) IN
  /\ pc = "record" /\ todo # <<>>
  /\ Valid(rec)
  /\ Verdict(rec.req, rec.content) = "duplicate"
  /\ pc' = "mark" /\ cur' = rec.req
  /\ UNCHANGED <<now, todo, origin, reason, requestRows, runs, failures, cursor,
                 storedGen, deliveries, files, mailbox, time>>

\* A known request without a result is executed again, not acknowledged.
ResumeRequest ==
  LET rec == Head(todo) IN
  /\ pc = "record" /\ todo # <<>>
  /\ Valid(rec)
  /\ Verdict(rec.req, rec.content) = "duplicate"
  /\ rec.req \notin answered
  /\ pc' = "mark" /\ cur' = rec.req
  /\ UNCHANGED <<now, todo, origin, reason, requestRows, runs, failures, cursor,
                 storedGen, deliveries, files, mailbox, time>>

\* Faulty variant of RefuseRequest: every verdict is sent as a refusal.
RefuseEverything ==
  LET rec == Head(todo) IN
  /\ pc = "record" /\ todo # <<>>
  /\ Valid(rec)
  /\ pc' = "reject" /\ reason' = Verdict(rec.req, rec.content)
  /\ UNCHANGED <<now, todo, cur, origin, requestRows, runs, failures, cursor,
                 storedGen, deliveries, files, mailbox, time>>

RefuseRequest ==
  LET rec == Head(todo) IN
  /\ pc = "record" /\ todo # <<>>
  /\ Valid(rec)
  /\ Verdict(rec.req, rec.content) \in Reasons
  /\ pc' = "reject" /\ reason' = Verdict(rec.req, rec.content)
  /\ UNCHANGED <<now, todo, cur, origin, requestRows, runs, failures, cursor,
                 storedGen, deliveries, files, mailbox, time>>

SendRejection ==
  LET r == Head(todo).req IN
  /\ pc = "reject"
  /\ \/ /\ rejection' = [rejection EXCEPT ![r][reason] = "confirmed"]
        /\ NextRecord
     \/ /\ \E state \in AfterRaise(rejection[r][reason]) :
             rejection' = [rejection EXCEPT ![r][reason] = state]
        /\ Leave
        /\ UNCHANGED <<cursor, storedGen>>
  /\ UNCHANGED <<requestRows, runs, failures, ack, result, resultAt, files,
                 mailbox, time>>

SendAck ==
  /\ pc = "ack"
  /\ \/ /\ ack' = [ack EXCEPT ![cur] = "confirmed"]
        /\ Go("mark")
     \/ /\ \E state \in AfterRaise(ack[cur]) : ack' = [ack EXCEPT ![cur] = state]
        /\ Leave
  /\ UNCHANGED <<requestRows, runs, failures, cursor, storedGen, rejection,
                 result, resultAt, files, mailbox, time>>

-----------------------------------------------------------------------------
(* _execute: run, publish the report, send the result, complete.           *)

MarkRunning ==
  /\ pc = "mark"
  /\ job' = [job EXCEPT ![cur] = "running"]
  /\ Go("build")
  /\ UNCHANGED <<reqs, day, answered, didQuota, globalQuota, runs, failures,
                 cursor, storedGen, deliveries, files, mailbox, time>>

\* Faulty variant of BuildBundle: a finished bundle is not reused.
BuildAlways ==
  /\ pc = "build"
  /\ runs[Today] < MaxRuns
  /\ runs' = [runs EXCEPT ![Today] = @ + 1]
  /\ Go("run")
  /\ UNCHANGED <<requestRows, failures, cursor, storedGen, deliveries, files,
                 mailbox, time>>

\* A bundle left by an earlier attempt is reused; a new run takes a slot of
\* the daily run quota first.
BuildBundle ==
  /\ pc = "build"
  /\ IF bundle[cur] # NoRoot
     THEN Go("publish") /\ UNCHANGED runs
     ELSE /\ runs[Today] < MaxRuns
          /\ runs' = [runs EXCEPT ![Today] = @ + 1]
          /\ Go("run")
  /\ UNCHANGED <<requestRows, failures, cursor, storedGen, deliveries, files,
                 mailbox, time>>

\* The run, with an infrastructure error as one of its outcomes; the bundle
\* becomes the job's by an atomic rename.
RunScenario ==
  /\ pc = "run"
  /\ \E root \in Roots : bundle' = [bundle EXCEPT ![cur] = root]
  /\ Go("publish")
  /\ UNCHANGED <<requestRows, runs, failures, cursor, storedGen, deliveries,
                 report, mailbox, time>>

\* Faulty variant of StartPublish: a report that exists is not verified.
PublishUnlessExists ==
  /\ pc = "publish"
  /\ \/ report[cur] # "none" /\ Go("result") /\ UNCHANGED report
     \/ /\ report[cur] = "none"
        /\ report' = [report EXCEPT ![cur] = "partial"]
        /\ Go("copy")
  /\ UNCHANGED <<requestRows, runs, failures, cursor, storedGen, deliveries,
                 bundle, mailbox, time>>

\* A report that is there must verify; a copy starts with a directory.
StartPublish ==
  /\ pc = "publish"
  /\ \/ report[cur] = "published" /\ Go("result") /\ UNCHANGED report
     \/ /\ report[cur] = "none"
        /\ report' = [report EXCEPT ![cur] = "partial"]
        /\ Go("copy")
  /\ UNCHANGED <<requestRows, runs, failures, cursor, storedGen, deliveries,
                 bundle, mailbox, time>>

FinishPublish ==
  /\ pc = "copy"
  /\ report' = [report EXCEPT ![cur] = "published"]
  /\ Go("result")
  /\ UNCHANGED <<requestRows, runs, failures, cursor, storedGen, deliveries,
                 bundle, mailbox, time>>

\* The except clause of _execute: the job is failed, the failure counted.
FailJob ==
  /\ job' = [job EXCEPT ![cur] = "failed"]
  /\ failures' = IF failures < QuarantineAfter THEN failures + 1 ELSE failures
  /\ Leave
  /\ UNCHANGED <<reqs, day, answered, didQuota, globalQuota, runs, cursor,
                 storedGen, ack, rejection, files, mailbox, time>>

\* An exception before the result is sent: gate, run quota, signer, disk, or
\* a report directory that does not verify.
ExecuteFails ==
  /\ pc \in {"build", "run", "publish", "copy"}
  /\ FailJob
  /\ UNCHANGED <<result, resultAt>>

\* Faulty variant of SendResult: the error of the send is swallowed.
SendResultUnchecked ==
  /\ pc = "result"
  /\ \E s \in AfterRaise(result[cur][bundle[cur]]) :
       result' = [result EXCEPT ![cur][bundle[cur]] = s]
  /\ Go("store")
  /\ UNCHANGED <<requestRows, runs, failures, cursor, storedGen, ack, rejection,
                 resultAt, files, mailbox, time>>

\* complete_request puts the clock into the text; the messenger refuses a
\* key that is stored with other bytes (delivery_key_conflict).
SendResult ==
  LET state == result[cur][bundle[cur]]
      same  == state = "absent" \/ resultAt[cur][bundle[cur]] = time
      Store(s) ==
        /\ result' = [result EXCEPT ![cur][bundle[cur]] = s]
        /\ resultAt' = IF s = "absent" THEN resultAt
                       ELSE [resultAt EXCEPT ![cur][bundle[cur]] = time]
  IN
  /\ pc = "result"
  /\ \/ /\ same
        /\ Store("confirmed")
        /\ Go("store")
        /\ UNCHANGED <<requestRows, runs, failures, cursor, storedGen, ack,
                       rejection, files, mailbox, time>>
     \/ /\ same
        /\ \E s \in AfterRaise(state) : Store(s)
        /\ FailJob
     \/ ~same /\ FailJob /\ UNCHANGED <<result, resultAt>>

\* store_result, the success record, and back to recovery or the mailbox.
StoreResult ==
  /\ pc = "store"
  /\ answered' = answered \cup {cur}
  /\ job' = [job EXCEPT ![cur] = "complete"]
  /\ failures' = 0
  /\ \/ origin = "mailbox" /\ NextRecord
     \/ /\ origin = "recover"
        /\ pc' = "recover" /\ cur' = NoContent /\ origin' = "mailbox"
        /\ UNCHANGED <<now, todo, reason, cursor, storedGen>>
  /\ UNCHANGED <<reqs, day, didQuota, globalQuota, runs, deliveries, files,
                 mailbox, time>>

-----------------------------------------------------------------------------
(* The environment.                                                        *)

Crash ==
  /\ pc # "idle"
  /\ Leave
  /\ UNCHANGED <<requestRows, runs, failures, cursor, storedGen, deliveries,
                 files, mailbox, time>>

Tick ==
  /\ time < MaxTime
  /\ time' = time + 1
  /\ UNCHANGED <<requestRows, runs, failures, cursor, storedGen, deliveries,
                 files, mailbox, locals>>

\* Anyone may write to the mailbox: requests, repeats and junk.
PeerWrites(r, content) ==
  /\ Len(mail) < MaxMail
  /\ mail' = Append(mail, [req |-> r, content |-> content])
  /\ UNCHANGED <<requestRows, runs, failures, cursor, storedGen, deliveries,
                 files, mailGen, time, locals>>

ReapMailbox ==
  /\ mail # <<>> /\ mailGen < MaxGen
  /\ mail' = <<>> /\ mailGen' = mailGen + 1
  /\ UNCHANGED <<requestRows, runs, failures, cursor, storedGen, deliveries,
                 files, time, locals>>

\* A prepared message whose request was still under way arrives.
LateLanding(r) ==
  /\ \/ /\ ack[r] = "prepared"
        /\ ack' = [ack EXCEPT ![r] = "landed"] /\ UNCHANGED <<rejection, result>>
     \/ \E x \in Reasons :
          /\ rejection[r][x] = "prepared"
          /\ rejection' = [rejection EXCEPT ![r][x] = "landed"]
          /\ UNCHANGED <<ack, result>>
     \/ \E root \in Roots :
          /\ result[r][root] = "prepared"
          /\ result' = [result EXCEPT ![r][root] = "landed"]
          /\ UNCHANGED <<ack, rejection>>
  /\ UNCHANGED <<requestRows, runs, failures, cursor, storedGen, resultAt, files,
                 mailbox, time, locals>>

PollStep ==
  \/ Poll \/ Recover \/ ReadMailbox \/ ReadAgain \/ PollDone
  \/ SkipRecord \/ ReserveRequest \/ ResumeRequest \/ RefuseRequest
  \/ SendRejection \/ SendAck
  \/ MarkRunning \/ BuildBundle \/ RunScenario \/ StartPublish \/ FinishPublish
  \/ SendResult \/ StoreResult

Next ==
  \/ PollStep \/ PollFails \/ ExecuteFails \/ Crash \/ Tick \/ ReapMailbox
  \/ \E input \in Inputs : PeerWrites(input[1], input[2])
  \/ \E r \in Requests : LateLanding(r)

Spec == Init /\ [][Next]_pilotVars

-----------------------------------------------------------------------------
(* Safety.                                                                 *)

\* A request has one answer, backed by a report: whatever crashes and retries
\* do, result bytes exist for one bundle root only (_build_request_bundle
\* reuses the finished bundle), and then the report of that root has been
\* copied whole and verified.
ResultBacked ==
  \A r \in Requests, root \in Roots :
    result[r][root] # "absent" => bundle[r] = root /\ report[r] = "published"

\* A complete job has its result column set, and a result column is set only
\* after the result was confirmed on the board (store_result after the send).
CompleteDelivered ==
  \A r \in Requests :
    /\ job[r] = "complete" => r \in answered
    /\ r \in answered => /\ bundle[r] # NoRoot
                         /\ result[r][bundle[r]] = "confirmed"

AcceptedOn(d) == {r \in Requests : reqs[r] # NoContent /\ day[r] = d}

\* The counters are the accepted requests of the day, and never exceed the
\* limits of the service card, whatever repeats, conflicts and crashes do.
QuotaExact ==
  \A d \in Days :
    /\ globalQuota[d] = Cardinality(AcceptedOn(d)) /\ globalQuota[d] <= Global
    /\ \A p \in Dids :
         /\ didQuota[d][p] = Cardinality({r \in AcceptedOn(d) : Owner[r] = p})
         /\ didQuota[d][p] <= PerDid

\* Recovery before intake keeps at most one job unfinished, so the queue
\* limit is met without ever refusing a request as busy.
OneJobAtATime ==
  /\ Cardinality(Pending) <= 1
  /\ \A r \in Requests : rejection[r]["busy"] = "absent"

\* What warrants a refusal, when it is given and ever after: the request is on
\* file with other content, or a limit was met on some day.
Warranted(r, content, x) ==
  \/ x = "conflict" /\ reqs[r] \notin {content, NoContent}
  \/ /\ x = "quota"
     /\ \E d \in Days : didQuota[d][Owner[r]] >= PerDid \/ globalQuota[d] >= Global

\* A record behind the cursor of the current room was dealt with: it was no
\* request or outside its time window, or its result is delivered, or a refusal
\* with a reason that holds for it is (accept_request, poll_once).
CursorMeansAnswered ==
  storedGen = mailGen =>
    \A i \in 1 .. Len(mail) :
      LET r == mail[i].req IN
      i <= cursor => \/ mail[i].content = Junk
                     \/ Expiry[r] <= time \/ Expiry[r] > Horizon
                     \/ reqs[r] = mail[i].content /\ r \in answered
                     \/ \E x \in Reasons : /\ rejection[r][x] = "confirmed"
                                            /\ Warranted(r, mail[i].content, x)

\* A finished request is never touched again: its row, its job, its bundle
\* and its report stay (a repeat is answered duplicate_complete).
CompletedNeverRerun ==
  [][\A r \in answered : /\ job'[r] = job[r] /\ reqs'[r] = reqs[r]
                         /\ r \in answered' /\ bundle'[r] = bundle[r]
                         /\ report'[r] = report[r]]_pilotVars

-----------------------------------------------------------------------------
(* Progress.                                                               *)

\* serve() polls for ever and the clock moves; and no stretch of poll_once is
\* cut short by a crash or a failed read every time it is reached.  A send may
\* fail for ever, and so may a job.
Fairness ==
  /\ WF_pilotVars(PollStep \/ ExecuteFails)
  /\ WF_pilotVars(Tick)
  /\ SF_pilotVars(Recover)
  /\ SF_pilotVars(ReadMailbox)
  /\ SF_pilotVars(ReadAgain)
  /\ SF_pilotVars(SkipRecord)
  /\ SF_pilotVars(MarkRunning)
  /\ SF_pilotVars(ExecuteFails \/ SendResult)
  /\ SF_pilotVars(StoreResult)

FairSpec == Spec /\ Fairness

\* No record holds up the mailbox for ever: every record is passed by the
\* cursor, or its room is gone, even when its job fails every time.
MailboxDrains ==
  \A i \in 1 .. MaxMail, g \in 0 .. MaxGen :
    Len(mail) >= i /\ mailGen = g ~>
      mailGen # g \/ (storedGen = g /\ cursor >= i)

=============================================================================
