-------------------------------- MODULE Probe --------------------------------
(* The synthetic peer proof of the public pilot, end to end: the operator's    *)
(* probe (public_pilot_probe.py: prepare, activate, verify), the published     *)
(* service card (ServiceDocumentPublisher), the request mailbox, the service   *)
(* that answers it and runs the scenario of module RoundTrip, the published    *)
(* report and the probe's reply room.                                          *)
(*                                                                             *)
(* The service is that of module Pilot, reduced to what a requester can see:   *)
(* quota by requester, acknowledgement, run, report, result.  A preview is its *)
(* number: request id, signed bytes and nonce are made together, once for each *)
(* preview.  A card is its version; its validity outlasts the model, which     *)
(* spans one day.  The requests of other peers are in module Pilot.            *)
EXTENDS RoundTrip, SequencesExt

CONSTANTS
  ProbeCell,    \* producer and consumer of the probe's request
  PerDid,       \* accepted requests of one requester in a day
  MaxPreviews,  \* bound: calls of prepare that succeed
  MaxCards,     \* bound: versions of the service card
  MaxFaults     \* bound: crashes, exceptions and lost answers

ASSUME ProbeAssumption ==
  /\ ProbeCell \in Cells /\ NoCell \notin Cells
  /\ PerDid \in Nat /\ MaxPreviews \in Nat /\ MaxCards \in Nat \ {0} /\ MaxFaults \in Nat

VARIABLES
  card, attestation,   \* published files: versions of the card and its attestation
  previews,            \* preview files: the card each was made from
  approved,            \* digests the operator has approved
  cmd,                 \* the probe command under way
  verified,            \* previews with a verification output
  mailbox,             \* request mailbox: requests in order of arrival
  wire,                \* requests whose POST is under way without its caller
  late,                \* requests that have expired
  svc,                 \* the poll: where it is, and the request at hand
  cursor,              \* room_cursors row of the mailbox
  job,                 \* service_jobs
  used,                \* usage of the probe's DID today
  bundle, report,      \* outcome of the job's bundle; files of its published copy
  stored,              \* requests whose result delivery has stored bytes
  replies, flight,     \* the probe's reply room; a reply on its way to it
  faults

cardVars  == <<card, attestation>>
probeVars == <<previews, approved, cmd, verified>>
boardVars == <<mailbox, wire, late>>
jobVars   == <<job, used, bundle, report, stored>>
replyVars == <<replies, flight>>
svcVars   == <<svc, cursor, jobVars, replyVars>>
vars      == <<runVars, cardVars, probeVars, boardVars, svcVars, faults>>

Requests == 1 .. MaxPreviews
NoReq    == 0
Files    == {"payload", "attestation"}
Acks     == {"accepted", "rejected"}
Outcomes == {"pass", "fail", "error"}
Reply    == [req : Requests, kind : Acks \cup Outcomes]
NoCmd    == [kind |-> "none", at |-> "idle", p |-> NoReq, seen |-> 0]
NoSvc    == [at |-> "idle", req |-> NoReq]

TypeOK ==
  /\ RunTypeOK
  /\ card \in 0 .. MaxCards /\ attestation \in 0 .. MaxCards
  /\ previews \in Seq(1 .. MaxCards) /\ Len(previews) <= MaxPreviews
  /\ approved \subseteq 1 .. Len(previews) /\ verified \subseteq approved
  /\ cmd \in [kind : {"none", "prepare", "activate", "verify"},
              at : {"idle", "attestation", "act", "report"},
              p : Requests \cup {NoReq}, seen : 0 .. MaxCards]
  /\ mailbox \in Seq(Requests) /\ wire \subseteq Requests /\ late \subseteq Requests
  /\ svc \in [at : {"idle", "ack", "reject", "build", "run", "publish", "copy",
                    "result", "store"}, req : Requests \cup {NoReq}]
  /\ cursor \in 0 .. Len(mailbox)
  /\ job \in [Requests -> {"none", "pending", "failed", "complete"}]
  /\ used \in 0 .. PerDid
  /\ bundle \in [Requests -> Outcomes \cup {"none"}]
  /\ report \in [Requests -> SUBSET Files]
  /\ stored \subseteq Requests
  /\ replies \in Seq(Reply) /\ flight \subseteq Reply
  /\ faults \in 0 .. MaxFaults

Init ==
  /\ RunInit
  /\ card = 1 /\ attestation = 1
  /\ previews = <<>> /\ approved = {} /\ cmd = NoCmd /\ verified = {}
  /\ mailbox = <<>> /\ wire = {} /\ late = {}
  /\ svc = NoSvc /\ cursor = 0
  /\ job = [r \in Requests |-> "none"] /\ used = 0
  /\ bundle = [r \in Requests |-> "none"] /\ report = [r \in Requests |-> {}]
  /\ stored = {}
  /\ replies = <<>> /\ flight = {}
  /\ faults = 0

Fault == faults < MaxFaults /\ faults' = faults + 1

-----------------------------------------------------------------------------
(* ServiceDocumentPublisher.publish of a renewed card: card first, attestation *)
(* last, each by an atomic rename.                                             *)

PublishCard ==
  /\ card = attestation /\ card < MaxCards
  /\ card' = card + 1
  /\ UNCHANGED <<runVars, attestation, probeVars, boardVars, svcVars, faults>>

PublishAttestation ==
  /\ attestation # card
  /\ attestation' = card
  /\ UNCHANGED <<runVars, card, probeVars, boardVars, svcVars, faults>>

-----------------------------------------------------------------------------
(* The probe.  One command at a time; an exception ends it without an effect,  *)
(* so a command whose reads fail is one that was not given.                    *)

EndCommand == cmd' = NoCmd
Await(at)  == cmd' = [cmd EXCEPT !.at = at]

\* _validated_preview: the file at hand is the one whose digest is passed.
ValidatedPreview(p, digest) == p \in 1 .. Len(previews) /\ p = digest

\* _load_card, first request: the card.
ReadCard(kind, p) ==
  /\ cmd = NoCmd
  /\ cmd' = [kind |-> kind, at |-> "attestation", p |-> p, seen |-> card]
  /\ UNCHANGED <<runVars, cardVars, previews, approved, verified, boardVars, svcVars, faults>>

StartPrepare == Len(previews) < MaxPreviews /\ ReadCard("prepare", NoReq)

\* The operator passes a file and an approved digest; an expired request is
\* not submitted.
StartActivate(p, digest) ==
  ValidatedPreview(p, digest) /\ p \notin late /\ ReadCard("activate", p)

StartVerify(p, digest) ==
  ValidatedPreview(p, digest) /\ p \notin verified /\ ReadCard("verify", p)

\* Faulty variant: the attestation is not held against the card.
CardTrusted(seen) == TRUE

\* verify_service_card: the attestation is that of the card's bytes.
VerifyServiceCard(seen) == attestation = seen

\* Second request: the attestation; the card has to be the preview's still.
ReadAttestation ==
  /\ cmd.at = "attestation"
  /\ IF /\ VerifyServiceCard(cmd.seen)
        /\ cmd.kind = "prepare" \/ previews[cmd.p] = cmd.seen
     THEN Await("act")
     ELSE EndCommand
  /\ UNCHANGED <<runVars, cardVars, previews, approved, verified, boardVars, svcVars, faults>>

\* The request is signed with the peer's next nonce and the preview written.
Prepare ==
  /\ cmd.kind = "prepare" /\ cmd.at = "act"
  /\ previews' = Append(previews, cmd.seen)
  /\ EndCommand
  /\ UNCHANGED <<runVars, cardVars, approved, verified, boardVars, svcVars, faults>>

\* The operator reviews a preview and approves its digest.
Approve(p) ==
  /\ p \in 1 .. Len(previews) /\ p \notin approved
  /\ approved' = approved \cup {p}
  /\ UNCHANGED <<runVars, cardVars, previews, cmd, verified, boardVars, svcVars, faults>>

\* The mailbox takes a nonce above all that its sender has used there.
Delivered(p) ==
  mailbox' = IF \A q \in ToSet(mailbox) : q < p THEN Append(mailbox, p) ELSE mailbox

\* activate: the approved bytes are posted once.  A refusal and a lost answer
\* are exceptions; a request whose answer is lost may still arrive.
Activate ==
  /\ cmd.kind = "activate" /\ cmd.at = "act"
  /\ \/ Delivered(cmd.p) /\ UNCHANGED <<wire, faults>>
     \/ Fault /\ wire' = wire \cup {cmd.p} /\ UNCHANGED mailbox
  /\ EndCommand
  /\ UNCHANGED <<runVars, cardVars, previews, approved, verified, late, svcVars>>

\* What verify makes of the reply room: the last of each kind counts.
LastReply(p, kinds) ==
  LET last == SelectLastInSeq(replies, LAMBDA m : m.req = p /\ m.kind \in kinds)
  IN  IF last = 0 THEN "none" ELSE replies[last].kind

\* Faulty variant: any result will do.
AnyResult(p) == LastReply(p, Outcomes) # "none"

\* An accepted acknowledgement and a passing result of the same job.
Successful(p) == LastReply(p, Acks) = "accepted" /\ LastReply(p, Outcomes) = "pass"

\* Pending and unsuccessful end the command, the one quietly, the other not.
ReadReplies ==
  /\ cmd.kind = "verify" /\ cmd.at = "act"
  /\ IF Successful(cmd.p) THEN Await("report") ELSE EndCommand
  /\ UNCHANGED <<runVars, cardVars, previews, approved, verified, boardVars, svcVars, faults>>

\* verify_bundle of a published report: each file as the manifest has it, no
\* other, and the attestation that of their root.
VerifyBundle(r) == report[r] = Files

\* _verify_report: every file of the manifest, the root and its attestation.
VerifyReport ==
  /\ cmd.at = "report"
  /\ verified' = IF VerifyBundle(cmd.p) THEN verified \cup {cmd.p} ELSE verified
  /\ EndCommand
  /\ UNCHANGED <<runVars, cardVars, previews, approved, boardVars, svcVars, faults>>

CommandStep == \/ ReadAttestation \/ Prepare \/ Activate
               \/ ReadReplies \/ VerifyReport

-----------------------------------------------------------------------------
(* The mailbox and the clock.                                                  *)

LateRequest(p) ==
  /\ p \in wire
  /\ Delivered(p) /\ wire' = wire \ {p}
  /\ UNCHANGED <<runVars, cardVars, probeVars, late, svcVars, faults>>

Expire(r) ==
  /\ r \notin late /\ r <= Len(previews)
  /\ late' = late \cup {r}
  /\ UNCHANGED <<runVars, cardVars, probeVars, mailbox, wire, svcVars, faults>>

-----------------------------------------------------------------------------
(* The service.                                                                *)

Pending    == {r \in Requests : job[r] = "pending"}
Do(at)     == svc' = [svc EXCEPT !.at = at]
outside    == <<cardVars, probeVars, boardVars, faults>>

\* A message of the service is shown in the room of its requester; it bars
\* the way of one with an older nonce, and is shown once.
Show(kind) ==
  LET m == [req |-> svc.req, kind |-> kind] IN
  /\ replies' = IF m \in ToSet(replies) THEN replies ELSE Append(replies, m)
  /\ flight' = {}

\* Faulty variant: the failed jobs are taken up, not the unfinished ones.
RecoverFailed(r) ==
  /\ svc = NoSvc /\ job[r] = "failed"
  /\ svc' = [at |-> "build", req |-> r]
  /\ UNCHANGED <<runVars, outside, cursor, jobVars, replyVars>>

\* _recover: a job that an earlier poll left behind.
Recover(r) ==
  /\ svc = NoSvc /\ r \in Pending
  /\ svc' = [at |-> "build", req |-> r]
  /\ UNCHANGED <<runVars, outside, cursor, jobVars, replyVars>>

\* The record after the cursor, once there is nothing to recover.
AtRecord(r) == svc = NoSvc /\ Pending = {} /\ cursor < Len(mailbox) /\ mailbox[cursor + 1] = r

SkipRecord(r) ==
  /\ AtRecord(r)
  /\ r \in late \/ job[r] = "complete"
  /\ cursor' = cursor + 1
  /\ UNCHANGED <<runVars, outside, svc, jobVars, replyVars>>

\* The reservation is committed before the acknowledgement is sent.
AcceptRequest(r) ==
  /\ AtRecord(r) /\ r \notin late /\ job[r] = "none"
  /\ used < PerDid
  /\ job' = [job EXCEPT ![r] = "pending"]
  /\ used' = used + 1
  /\ svc' = [at |-> "ack", req |-> r]
  /\ UNCHANGED <<runVars, outside, cursor, bundle, report, stored, replyVars>>

RefuseRequest(r) ==
  /\ AtRecord(r) /\ r \notin late /\ job[r] = "none"
  /\ used = PerDid
  /\ svc' = [at |-> "reject", req |-> r]
  /\ UNCHANGED <<runVars, outside, cursor, jobVars, replyVars>>

\* A known request without a result is executed again, not acknowledged.
ResumeRequest(r) ==
  /\ AtRecord(r) /\ r \notin late /\ job[r] = "failed"
  /\ job' = [job EXCEPT ![r] = "pending"]
  /\ svc' = [at |-> "build", req |-> r]
  /\ UNCHANGED <<runVars, outside, cursor, used, bundle, report, stored, replyVars>>

SendAck ==
  /\ svc.at = "ack"
  /\ Show("accepted") /\ Do("build")
  /\ UNCHANGED <<runVars, outside, cursor, jobVars>>

SendRejection ==
  /\ svc.at = "reject"
  /\ Show("rejected") /\ svc' = NoSvc /\ cursor' = cursor + 1
  /\ UNCHANGED <<runVars, outside, jobVars>>

\* The bundle of an earlier attempt, or a new run.
BuildBundle ==
  /\ svc.at = "build"
  /\ \/ bundle[svc.req] # "none" /\ Do("publish") /\ UNCHANGED runVars
     \/ bundle[svc.req] = "none" /\ Do("run") /\ StartRun(ProbeCell)
  /\ UNCHANGED <<outside, cursor, jobVars, replyVars>>

\* run_roundtrip, step by step.
RunOn ==
  /\ svc.at = "run"
  /\ SignMessage \/ RunStep
  /\ UNCHANGED <<outside, svcVars>>

\* An exception inside the run is an outcome of it.
RunFails ==
  /\ svc.at = "run" /\ Fault
  /\ RunRaises
  /\ UNCHANGED <<cardVars, probeVars, boardVars, svcVars>>

\* build_bundle, verify_bundle and the rename into the spool.
FinishBundle ==
  /\ svc.at = "run" /\ run.at = "done"
  /\ bundle' = [bundle EXCEPT ![svc.req] = run.outcome]
  /\ run' = NoRun /\ Do("publish")
  /\ UNCHANGED <<lane, outside, cursor, job, used, report, stored, replyVars>>

\* Faulty variant: a report that is there counts as published.
PublishUnverified ==
  /\ svc.at = "publish"
  /\ \/ report[svc.req] # {} /\ Do("result") /\ UNCHANGED job
     \/ report[svc.req] = {} /\ Do("copy") /\ UNCHANGED job
  /\ UNCHANGED <<runVars, outside, cursor, used, bundle, report, stored, replyVars>>

\* A report that is there has to verify; a copy starts in a new directory.
Publish ==
  LET r == svc.req IN
  /\ svc.at = "publish"
  /\ \/ VerifyBundle(r) /\ Do("result") /\ UNCHANGED job
     \/ report[r] = {} /\ Do("copy") /\ UNCHANGED job
     \/ report[r] # {} /\ ~VerifyBundle(r) /\ svc' = NoSvc /\ job' = [job EXCEPT ![r] = "failed"]
  /\ UNCHANGED <<runVars, outside, cursor, used, bundle, report, stored, replyVars>>

\* copytree, file by file in no particular order; then the copy is verified.
CopyFile(f) ==
  /\ svc.at = "copy" /\ f \notin report[svc.req]
  /\ report' = [report EXCEPT ![svc.req] = @ \cup {f}]
  /\ IF report'[svc.req] = Files THEN Do("result") ELSE UNCHANGED svc
  /\ UNCHANGED <<runVars, outside, cursor, job, used, bundle, stored, replyVars>>

\* complete_request: the text holds the clock, so a delivery with stored bytes
\* is refused as a conflict and the job fails.
SendResult ==
  LET r == svc.req IN
  /\ svc.at = "result"
  /\ \/ /\ r \notin stored
        /\ stored' = stored \cup {r}
        /\ Show(bundle[r]) /\ Do("store") /\ UNCHANGED job
     \/ /\ r \in stored
        /\ svc' = NoSvc /\ job' = [job EXCEPT ![r] = "failed"]
        /\ UNCHANGED <<stored, replyVars>>
  /\ UNCHANGED <<runVars, outside, cursor, used, bundle, report>>

StoreResult ==
  /\ svc.at = "store"
  /\ job' = [job EXCEPT ![svc.req] = "complete"] /\ svc' = NoSvc
  /\ UNCHANGED <<runVars, outside, cursor, used, bundle, report, stored, replyVars>>

\* The message being sent: not signed yet, signed and stored, on its way, or
\* shown without the service knowing.
Sending(kind) ==
  LET m == [req |-> svc.req, kind |-> kind] IN
  \/ UNCHANGED <<stored, replyVars>>
  \/ /\ kind \in Acks \/ svc.req \notin stored
     /\ stored' = IF kind \in Acks THEN stored ELSE stored \cup {svc.req}
     /\ \/ Show(kind)
        \/ m \notin ToSet(replies) /\ flight' = {m} /\ UNCHANGED replies

\* The process dies, or an exception ends the poll; _execute marks its job.
Interrupted(died) ==
  /\ svc # NoSvc /\ Fault
  /\ svc.at = "run" /\ ~died => run.at = "done"
  /\ CASE svc.at = "ack"    -> Sending("accepted")
       [] svc.at = "reject" -> Sending("rejected")
       [] svc.at = "result" -> Sending(bundle[svc.req])
       [] OTHER -> UNCHANGED <<stored, replyVars>>
  /\ job' = IF died \/ svc.at \in {"ack", "reject"} THEN job
            ELSE [job EXCEPT ![svc.req] = "failed"]
  /\ svc' = NoSvc /\ run' = NoRun
  /\ UNCHANGED <<lane, cardVars, probeVars, boardVars, cursor, used, bundle, report>>

LateReply(m) ==
  /\ m \in flight
  /\ replies' = Append(replies, m) /\ flight' = {}
  /\ UNCHANGED <<runVars, outside, svc, cursor, jobVars>>

ServiceStep ==
  \/ \E r \in Requests : \/ Recover(r) \/ SkipRecord(r) \/ AcceptRequest(r)
                         \/ RefuseRequest(r) \/ ResumeRequest(r)
  \/ SendAck \/ SendRejection \/ BuildBundle \/ RunOn \/ FinishBundle
  \/ Publish \/ SendResult \/ StoreResult
  \/ \E f \in Files : CopyFile(f)

Next ==
  \/ PublishCard \/ PublishAttestation
  \/ StartPrepare \/ CommandStep
  \/ \E p \in Requests : Approve(p) \/ LateRequest(p)
  \/ \E p \in Requests, digest \in approved : StartActivate(p, digest) \/ StartVerify(p, digest)
  \/ \E r \in Requests : Expire(r)
  \/ ServiceStep \/ RunFails \/ \E died \in BOOLEAN : Interrupted(died)
  \/ \E m \in flight : LateReply(m)

Spec == Init /\ [][Next]_vars

\* serve() polls for ever and a poll that nothing interrupts goes on; a probe
\* command that was started ends; the clock moves past the expiry of every
\* request; and the operator repeats the verification, as
\* docs/PILOT_OPERATIONS.md asks, whatever else is called in between.
FairSpec ==
  /\ Spec
  /\ WF_vars(ServiceStep) /\ WF_vars(CommandStep)
  /\ WF_vars(\E r \in Requests : Expire(r))
  /\ \A p \in Requests : SF_vars(\E digest \in approved : StartVerify(p, digest))

-----------------------------------------------------------------------------
(* Properties.                                                                 *)

\* A verification output is never wrong: whatever was lost, repeated, renewed
\* or interrupted on the way, the approved request was taken from the mailbox,
\* acknowledged and answered with a pass, and the report behind the answer is
\* whole and that of a passing run (PublicPilotProbe.verify, _verify_report).
VerifiedSound ==
  \A p \in verified :
    /\ p \in approved /\ p \in ToSet(mailbox) /\ job[p] # "none"
    /\ {[req |-> p, kind |-> "accepted"], [req |-> p, kind |-> "pass"]} \subseteq ToSet(replies)
    /\ bundle[p] = "pass" /\ report[p] = Files

\* What the probe writes was approved: every request of the mailbox is that of
\* an approved preview, made from a card that was published together with its
\* attestation, and none is there twice, under repeated activation, lost
\* answers and a renewal of the card between the two reads (activate, prepare).
PostedApproved ==
  /\ IsInjective(mailbox)
  /\ \A p \in ToSet(mailbox) : p \in approved /\ previews[p] <= attestation

\* The probe's reply room tells the truth, once: an acknowledged request has
\* its job and is not refused afterwards, and a result is that of the job's
\* bundle with its report published whole, through lost and late sends and
\* repeated executions (accept_request, _execute, complete_request).
RepliesTrue ==
  /\ IsInjective(replies)
  /\ \A m \in ToSet(replies) :
       /\ m.kind = "accepted" => job[m.req] # "none" /\ LastReply(m.req, Acks) = "accepted"
       /\ m.kind \in Outcomes => m.kind = bundle[m.req] /\ report[m.req] = Files

Renewed(p) == p \in 1 .. Len(previews) /\ card # previews[p]

\* The ways a request is known to be left without a verification: expired
\* first, refused by quota, its acknowledgement lost, its run without a pass,
\* its report left half copied, its result stored and not shown, or its job
\* failed and expired.
LeftBehind(p) ==
  \/ p \in late /\ job[p] \in {"none", "failed"}
  \/ LastReply(p, Acks) = "rejected"
  \/ job[p] # "none" /\ svc # [at |-> "ack", req |-> p] /\ LastReply(p, Acks) = "none"
  \/ bundle[p] \in {"fail", "error"}
  \/ report[p] \notin {{}, Files} /\ svc # [at |-> "copy", req |-> p]
  \/ p \in stored /\ LastReply(p, Outcomes) = "none"

\* A request that reaches the mailbox is verified in the end, through crashes
\* and failed commands, unless the card is renewed or one of the known gaps
\* opens (poll_once, _recover, _execute, verify).
ProbeCompletes ==
  \A p \in Requests :
    p \in ToSet(mailbox) ~> p \in verified \/ Renewed(p) \/ LeftBehind(p)
=============================================================================
