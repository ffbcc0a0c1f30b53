------------------------------ MODULE Observer ------------------------------
(* The read-only observer (observer.py): a loop that probes the upstream's  *)
(* three metadata documents, records a new protocol digest in the state     *)
(* database, writes one evidence file for it and refreshes health.json.     *)
(*                                                                          *)
(* The two JSON documents are read one after the other while the upstream   *)
(* may be deploying.  The database commits statement by statement, files    *)
(* are replaced atomically (_atomic_json), and the process may die or a     *)
(* file write may fail between any two of those.                            *)
EXTENDS Naturals, FiniteSets

CONSTANTS
  Documents,       \* versions of a metadata document
  Release,         \* document -> the release it names
  Expected,        \* the pinned release
  First,           \* the document version served at the start
  Threshold,       \* fail_read_only_after_errors
  NoDigest,        \* health without an observation
  MaxDeploys,      \* bound: documents the upstream replaces
  MaxFaults        \* bound: crashes, failed writes and internal errors

ASSUME DocumentsAssumption ==
  /\ First \in Documents
  /\ Threshold \in Nat \ {0} /\ MaxDeploys \in Nat /\ MaxFaults \in Nat
  /\ NoDigest \notin Documents \X Documents

\* A protocol digest is the pair of documents it hashes.
Digests == Documents \X Documents

VARIABLES
  manifest, openapi, \* what the upstream serves
  reachable,         \* "up", "down" (no answer) or "odd" (an answer to reject)
  observations,      \* protocol_observations
  latest,            \* its row with the newest last_seen_at
  evidence,          \* digests with a file in the evidence directory
  health,            \* health.json
  check,             \* the newest observer_checks row
  observerErrors,    \* consecutive_errors of read_only_observer
  upstreamErrors,    \* consecutive_errors of upstream_compatibility
  pc, seen, digest, changed, \* the poll under way
  killed,            \* the kill switch file exists
  deploys, faults    \* bounds

upstream == <<manifest, openapi, reachable, deploys>>
stored   == <<observations, latest, check, observerErrors, upstreamErrors>>
files    == <<evidence, health>>
poll     == <<pc, seen, digest, changed>>
vars     == <<upstream, stored, files, poll, killed, faults>>

Safety == {"safe", "unsafe"}
Compatibility == {"compatible", "release_drift", "unavailable", "rejected", "unknown"}
Checks == [safety : Safety, compatibility : Compatibility]
Healths == [status : {"none", "healthy", "degraded", "retrying", "stopped"},
            safety : Safety, compatibility : Compatibility,
            digest : Digests \cup {NoDigest}, current : BOOLEAN]

\* consecutive_errors, counted no further than the threshold it is compared to.
Bump(n) == IF n < Threshold THEN n + 1 ELSE n

CompatibilityOf(d) ==
  IF Release[d[1]] = Expected THEN "compatible" ELSE "release_drift"

Init ==
  /\ manifest = First /\ openapi = First /\ reachable = "up" /\ deploys = 0
  /\ observations = {} /\ latest = NoDigest
  /\ check = [safety |-> "safe", compatibility |-> "unknown"]
  /\ observerErrors = 0 /\ upstreamErrors = 0
  /\ evidence = {}
  /\ health = [status |-> "none", safety |-> "unsafe", compatibility |-> "unknown",
               digest |-> NoDigest, current |-> FALSE]
  /\ pc = "idle" /\ seen = First /\ digest = NoDigest /\ changed = FALSE
  /\ killed = FALSE /\ faults = 0

-----------------------------------------------------------------------------
(* The upstream (external): a deployment replaces the documents one by one,  *)
(* and the service comes and goes.                                           *)

Deploy(v) ==
  /\ deploys < MaxDeploys
  /\ \/ manifest # v /\ manifest' = v /\ UNCHANGED openapi
     \/ openapi # v /\ openapi' = v /\ UNCHANGED manifest
  /\ deploys' = deploys + 1
  /\ UNCHANGED <<reachable, stored, files, poll, killed, faults>>

Outage(state) ==
  /\ deploys < MaxDeploys
  /\ reachable # state
  /\ reachable' = state
  /\ deploys' = deploys + 1
  /\ UNCHANGED <<manifest, openapi, stored, files, poll, killed, faults>>

\* The upstream answers again.
Recover ==
  /\ reachable # "up"
  /\ reachable' = "up"
  /\ UNCHANGED <<manifest, openapi, deploys, stored, files, poll, killed, faults>>

KillSwitch ==
  /\ ~killed /\ faults < MaxFaults
  /\ killed' = TRUE /\ faults' = faults + 1
  /\ UNCHANGED <<upstream, stored, files, poll>>

\* The operator lifts the switch and starts the service again.
Resume ==
  /\ killed /\ pc = "stopped"
  /\ killed' = FALSE /\ pc' = "idle"
  /\ UNCHANGED <<upstream, stored, files, seen, digest, changed, faults>>

-----------------------------------------------------------------------------
(* observe_once.                                                             *)

Stop ==
  /\ pc = "idle" /\ killed
  /\ health' = [status |-> "stopped", safety |-> "unsafe", compatibility |-> "unknown",
                digest |-> NoDigest, current |-> FALSE]
  /\ pc' = "stopped"
  /\ UNCHANGED <<upstream, stored, evidence, seen, digest, changed, killed, faults>>

\* The switch is found during the sleep between two polls: run returns, and
\* health.json keeps what the last poll wrote.
StopAsleep ==
  /\ pc = "idle" /\ killed
  /\ pc' = "stopped"
  /\ UNCHANGED <<upstream, stored, files, seen, digest, changed, killed, faults>>

\* The reads of /healthz and the manifest.
ProbeManifest ==
  /\ pc = "idle" /\ ~killed /\ reachable = "up"
  /\ seen' = manifest
  /\ pc' = "openapi"
  /\ UNCHANGED <<upstream, stored, files, digest, changed, killed, faults>>

\* Faulty variant: the releases of the two documents are not compared.
ProbeEither ==
  /\ pc = "openapi" /\ reachable = "up"
  /\ digest' = <<seen, openapi>>
  /\ pc' = "record"
  /\ UNCHANGED <<upstream, stored, files, seen, changed, killed, faults>>

ProbeOpenapi ==
  /\ pc = "openapi" /\ reachable = "up"
  /\ Release[seen] = Release[openapi]
  /\ digest' = <<seen, openapi>>
  /\ pc' = "record"
  /\ UNCHANGED <<upstream, stored, files, seen, changed, killed, faults>>

\* The probe failed the way probes may: no answer, or an answer to reject, the
\* releases of the two documents disagreeing among them.
ProbeFailed ==
  /\ \/ pc = "idle" /\ ~killed /\ reachable # "up"
     \/ pc = "openapi" /\ (reachable # "up" \/ Release[seen] # Release[openapi])
  /\ LET status == IF reachable = "down" THEN "unavailable" ELSE "rejected" IN
     /\ check' = [safety |-> "safe", compatibility |-> status]
     /\ \/ /\ health' = [status |-> "healthy", safety |-> "safe",
                         compatibility |-> status, digest |-> latest, current |-> FALSE]
           /\ UNCHANGED faults
        \/ /\ faults < MaxFaults \* health.json cannot be written
           /\ faults' = faults + 1
           /\ UNCHANGED health
  /\ upstreamErrors' = Bump(upstreamErrors)
  /\ observerErrors' = 0
  /\ pc' = "idle"
  /\ UNCHANGED <<upstream, observations, latest, evidence, seen, digest, changed, killed>>

\* Faulty variant: the evidence file of a new digest is written before the commit.
RecordAfterEvidence ==
  /\ pc = "record"
  /\ \/ /\ digest \notin observations \cup evidence
        /\ evidence' = evidence \cup {digest}
        /\ UNCHANGED <<observations, latest, changed, pc>>
     \/ /\ digest \in observations \cup evidence
        /\ changed' = (digest \notin observations)
        /\ observations' = observations \cup {digest}
        /\ latest' = digest
        /\ pc' = "results"
        /\ UNCHANGED evidence
  /\ UNCHANGED <<upstream, check, observerErrors, upstreamErrors, health, seen, digest,
                 killed, faults>>

RecordObservation ==
  /\ pc = "record"
  /\ changed' = (digest \notin observations)
  /\ observations' = observations \cup {digest}
  /\ latest' = digest
  /\ pc' = "results"
  /\ UNCHANGED <<upstream, check, observerErrors, upstreamErrors, files, seen, digest,
                 killed, faults>>

\* Faulty variant: an unchanged digest ends the poll, health.json is not refreshed.
ResultsEndUnchanged ==
  /\ pc = "results"
  /\ observerErrors' = 0
  /\ upstreamErrors' = IF CompatibilityOf(digest) = "compatible" THEN 0
                       ELSE Bump(upstreamErrors)
  /\ check' = [safety |-> "safe", compatibility |-> CompatibilityOf(digest)]
  /\ pc' = IF changed THEN "evidence" ELSE "idle"
  /\ UNCHANGED <<upstream, observations, latest, files, seen, digest, changed, killed,
                 faults>>

\* The two component results and the check row.
RecordResults ==
  /\ pc = "results"
  /\ observerErrors' = 0
  /\ upstreamErrors' = IF CompatibilityOf(digest) = "compatible" THEN 0
                       ELSE Bump(upstreamErrors)
  /\ check' = [safety |-> "safe", compatibility |-> CompatibilityOf(digest)]
  /\ pc' = IF changed THEN "evidence" ELSE "health"
  /\ UNCHANGED <<upstream, observations, latest, files, seen, digest, changed, killed,
                 faults>>

WriteEvidence ==
  /\ pc = "evidence"
  /\ evidence' = evidence \cup {digest}
  /\ pc' = "health"
  /\ UNCHANGED <<upstream, stored, health, seen, digest, changed, killed, faults>>

WriteHealth ==
  /\ pc = "health"
  /\ health' = [status |-> "healthy", safety |-> "safe",
                compatibility |-> CompatibilityOf(digest),
                digest |-> digest, current |-> TRUE]
  /\ pc' = "idle"
  /\ UNCHANGED <<upstream, stored, evidence, seen, digest, changed, killed, faults>>

-----------------------------------------------------------------------------
(* Faults on this side.                                                      *)

\* An exception in the poll: a file cannot be written (the except clause after
\* the probe) or the probe itself broke (a bug, not the upstream).  The health
\* file tells, unless it is the file that cannot be written.
PollFails ==
  /\ pc \in {"openapi", "evidence", "health"} /\ faults < MaxFaults
  /\ observerErrors' = Bump(observerErrors)
  /\ check' = [safety |-> "unsafe", compatibility |-> "unknown"]
  /\ \/ /\ health' = [status |-> IF pc = "openapi" \/ observerErrors' >= Threshold
                                 THEN "degraded" ELSE "retrying",
                      safety |-> "unsafe", compatibility |-> "unknown",
                      digest |-> NoDigest, current |-> FALSE]
     \/ UNCHANGED health
  /\ pc' = "idle" /\ faults' = faults + 1
  /\ UNCHANGED <<upstream, observations, latest, upstreamErrors, evidence, seen, digest,
                 changed, killed>>

\* The process dies; systemd starts it again.
Crash ==
  /\ pc \notin {"idle", "stopped"} /\ faults < MaxFaults
  /\ pc' = "idle" /\ faults' = faults + 1
  /\ UNCHANGED <<upstream, stored, files, seen, digest, changed, killed>>

Poll == \/ Stop \/ StopAsleep \/ ProbeManifest \/ ProbeOpenapi \/ ProbeFailed
        \/ RecordObservation \/ RecordResults \/ WriteEvidence \/ WriteHealth

Next ==
  \/ \E v \in Documents : Deploy(v)
  \/ \E state \in {"down", "odd"} : Outage(state)
  \/ Recover \/ KillSwitch \/ Resume
  \/ Stop \/ StopAsleep \/ ProbeManifest \/ ProbeOpenapi \/ ProbeFailed
  \/ RecordObservation \/ RecordResults \/ WriteEvidence \/ WriteHealth
  \/ PollFails \/ Crash

Spec == Init /\ [][Next]_vars

\* The loop keeps polling, and the service manager restarts it after a crash.
FairSpec == Spec /\ WF_vars(Poll)

-----------------------------------------------------------------------------
(* Properties.                                                               *)

\* The sets the variables range over.
TypeOK ==
  /\ manifest \in Documents /\ openapi \in Documents
  /\ reachable \in {"up", "down", "odd"}
  /\ observations \subseteq Digests /\ evidence \subseteq Digests
  /\ latest \in Digests \cup {NoDigest} /\ digest \in Digests \cup {NoDigest}
  /\ check \in Checks /\ health \in Healths
  /\ observerErrors \in 0..Threshold /\ upstreamErrors \in 0..Threshold
  /\ pc \in {"idle", "openapi", "record", "results", "evidence", "health", "stopped"}
  /\ seen \in Documents /\ changed \in BOOLEAN /\ killed \in BOOLEAN
  /\ deploys \in 0..MaxDeploys /\ faults \in 0..MaxFaults

\* A deployment under the probe's feet never leaves a mixed observation: the
\* two documents of a recorded digest name one release, and health.json calls
\* a digest compatible only if that release is the pinned one (probe).
OneRelease ==
  /\ \A d \in observations : Release[d[1]] = Release[d[2]]
  /\ health.compatibility = "compatible" =>
       health.digest \in observations /\ Release[health.digest[2]] = Expected

\* health.json and the evidence directory never run ahead of the database:
\* what they show was committed before (observe_once).
StoredFirst ==
  /\ evidence \subseteq observations
  /\ health.digest # NoDigest => health.digest \in observations

\* Once the upstream stays up and consistent and nobody holds the kill switch,
\* its documents become the reported current observation for good, whatever
\* deployments, outages, crashes and failed writes came before (run).
SettledObserved ==
  <>[](reachable = "up" /\ Release[manifest] = Release[openapi] /\ ~killed) =>
     <>[](health.current /\ health.digest = <<manifest, openapi>>)
=============================================================================
