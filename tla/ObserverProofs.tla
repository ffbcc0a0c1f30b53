--------------------------- MODULE ObserverProofs ---------------------------
(* That the observer's files never run ahead of its database, and that no   *)
(* observation joins two releases, for every set of documents and every     *)
(* number of deployments, outages and faults.                               *)
EXTENDS Observer, TLAPS

\* Places at which the poll holds a digest, and at which it has committed it.
Holding   == {"record", "results", "evidence", "health"}
Committed == {"results", "evidence", "health"}

\* The two documents of a digest name one release.
Pure(d) == d \in Digests /\ Release[d[1]] = Release[d[2]]

\* What the poll under way knows of the digest it holds.
PollKnows ==
  /\ pc \in Holding => Pure(digest)
  /\ pc \in Committed => digest \in observations

\* What was observed is of one release, and all that is shown was observed.
ShownStored ==
  /\ \A d \in observations : Pure(d)
  /\ latest # NoDigest => latest \in observations
  /\ evidence \subseteq observations
  /\ health.digest # NoDigest => health.digest \in observations
  /\ health.compatibility = "compatible" =>
       /\ health.digest \in observations
       /\ Release[health.digest[1]] = Expected

IndInv == TypeOK /\ PollKnows /\ ShownStored

USE DocumentsAssumption DEF Digests, Holding, Committed, Pure

\* Nothing is observed or shown at the start (Init).
LEMMA InitInd == Init => IndInv
<1> SUFFICES ASSUME Init
             PROVE  IndInv
  OBVIOUS
<1>1. check \in Checks /\ health \in Healths
  BY DEF Init, Checks, Healths, Safety, Compatibility
<1>2. TypeOK
  <2>1. changed \in BOOLEAN /\ killed \in BOOLEAN
    BY DEF Init
  <2>2. /\ observerErrors \in 0..Threshold /\ upstreamErrors \in 0..Threshold
        /\ deploys \in 0..MaxDeploys /\ faults \in 0..MaxFaults
    BY DEF Init
  <2>3. QED BY <1>1, <2>1, <2>2 DEF Init, TypeOK
<1>3. PollKnows /\ ShownStored
  BY DEF Init, PollKnows, ShownStored
<1>4. QED BY <1>2, <1>3 DEF IndInv

\* The upstream and the operator touch neither the database nor the files, and
\* do not move a poll on (a deployment, an outage, the kill switch).
LEMMA OutsideKeeps ==
  ASSUME IndInv,
         \/ \E v \in Documents : Deploy(v)
         \/ \E state \in {"down", "odd"} : Outage(state)
         \/ Recover \/ KillSwitch \/ Resume
  PROVE  IndInv'
<1> USE DEF IndInv, TypeOK, PollKnows, ShownStored, stored, files, poll, upstream
<1>1. CASE \E v \in Documents : Deploy(v)
  BY <1>1 DEF Deploy
<1>2. CASE \E state \in {"down", "odd"} : Outage(state)
  BY <1>2 DEF Outage
<1>3. CASE Recover
  BY <1>3 DEF Recover
<1>4. CASE KillSwitch
  BY <1>4 DEF KillSwitch
<1>5. CASE Resume
  BY <1>5 DEF Resume
<1>6. QED BY <1>1, <1>2, <1>3, <1>4, <1>5

\* The probes: a digest is held only when its two documents agree, and what a
\* failed probe reports is the newest stored observation (probe).
LEMMA ProbesKeep ==
  ASSUME IndInv, Stop \/ StopAsleep \/ ProbeManifest \/ ProbeOpenapi \/ ProbeFailed
  PROVE  IndInv'
<1> USE DEF IndInv, TypeOK, PollKnows, ShownStored, stored, files, upstream,
            Checks, Healths, Safety, Compatibility
<1>0. CASE StopAsleep
  BY <1>0 DEF StopAsleep
<1>1. CASE Stop
  BY <1>1 DEF Stop
<1>2. CASE ProbeManifest
  BY <1>2 DEF ProbeManifest
<1>3. CASE ProbeOpenapi
  BY <1>3 DEF ProbeOpenapi
<1>4. CASE ProbeFailed
  <2>1. check' \in Checks
    BY <1>4 DEF ProbeFailed
  <2>2. health' \in Healths
    <3>1. PICK status \in Compatibility :
            \/ UNCHANGED health
            \/ health' = [status |-> "healthy", safety |-> "safe",
                         compatibility |-> status, digest |-> latest, current |-> FALSE]
      BY <1>4 DEF ProbeFailed
    <3>2. CASE UNCHANGED health
      BY <3>2
    <3>3. CASE health' = [status |-> "healthy", safety |-> "safe",
                         compatibility |-> status, digest |-> latest, current |-> FALSE]
      BY <3>3
    <3>4. QED BY <3>1, <3>2, <3>3
  <2>3. upstreamErrors' \in 0..Threshold /\ observerErrors' \in 0..Threshold
    BY <1>4 DEF ProbeFailed, Bump
  <2>4. faults' \in 0..MaxFaults
    BY <1>4 DEF ProbeFailed
  <2>5. pc' = "idle" /\ UNCHANGED <<manifest, openapi, reachable, deploys, observations,
                                    latest, evidence, seen, digest, changed, killed>>
    BY <1>4 DEF ProbeFailed
  <2>6. \/ UNCHANGED health
        \/ health'.digest = latest /\ health'.compatibility \in {"unavailable", "rejected"}
    BY <1>4 DEF ProbeFailed
  <2>7. QED BY <2>1, <2>2, <2>3, <2>4, <2>5, <2>6
<1>5. QED BY <1>0, <1>1, <1>2, <1>3, <1>4

\* The commits come before the files, and each file shows a committed digest
\* (observe_once).
LEMMA RecordsKeep ==
  ASSUME IndInv, RecordObservation \/ RecordResults \/ WriteEvidence \/ WriteHealth
  PROVE  IndInv'
<1> USE DEF IndInv, TypeOK, PollKnows, ShownStored, stored, files, upstream,
            Checks, Healths, Safety, Compatibility
<1>1. CASE RecordObservation
  BY <1>1 DEF RecordObservation
<1>2. CASE RecordResults
  BY <1>2 DEF RecordResults, Bump, CompatibilityOf
<1>3. CASE WriteEvidence
  BY <1>3 DEF WriteEvidence
<1>4. CASE WriteHealth
  BY <1>4 DEF WriteHealth, CompatibilityOf
<1>5. QED BY <1>1, <1>2, <1>3, <1>4

\* An exception or a crash drops the poll and shows no digest it had not
\* shown before (the except clauses of observe_once, run).
LEMMA FaultsKeep ==
  ASSUME IndInv, PollFails \/ Crash
  PROVE  IndInv'
<1> USE DEF IndInv, TypeOK, PollKnows, ShownStored, stored, files, upstream,
            Checks, Healths, Safety, Compatibility
<1>1. CASE PollFails
  <2>1. observerErrors' \in 0..Threshold
    BY <1>1 DEF PollFails, Bump
  <2>2. check' \in Checks
    BY <1>1 DEF PollFails
  <2>3. health' \in Healths
    <3>1. PICK status \in {"degraded", "retrying"} :
            \/ UNCHANGED health
            \/ health' = [status |-> status, safety |-> "unsafe", compatibility |-> "unknown",
                          digest |-> NoDigest, current |-> FALSE]
      BY <1>1 DEF PollFails
    <3>2. CASE UNCHANGED health
      BY <3>2
    <3>3. CASE health' = [status |-> status, safety |-> "unsafe", compatibility |-> "unknown",
                         digest |-> NoDigest, current |-> FALSE]
      BY <3>3
    <3>4. QED BY <3>1, <3>2, <3>3
  <2>4. \/ UNCHANGED health
        \/ health'.digest = NoDigest /\ health'.compatibility = "unknown"
    BY <1>1 DEF PollFails
  <2>5. pc' = "idle" /\ faults' \in 0..MaxFaults
    BY <1>1 DEF PollFails
  <2>6. UNCHANGED <<manifest, openapi, reachable, deploys, observations, latest,
                    upstreamErrors, evidence, seen, digest, changed, killed>>
    BY <1>1 DEF PollFails
  <2>7. QED BY <2>1, <2>2, <2>3, <2>4, <2>5, <2>6
<1>2. CASE Crash
  BY <1>2 DEF Crash
<1>3. QED BY <1>1, <1>2

\* The inductive invariant holds in every reachable state of the observer.
THEOREM IndInvAlways == Spec => []IndInv
<1>1. IndInv /\ [Next]_vars => IndInv'
  <2> SUFFICES ASSUME IndInv, [Next]_vars
               PROVE  IndInv'
    OBVIOUS
  <2>1. CASE UNCHANGED vars
    BY <2>1 DEF vars, upstream, stored, files, poll, IndInv, TypeOK, PollKnows, ShownStored
  <2>2. CASE Next
    BY <2>2, OutsideKeeps, ProbesKeep, RecordsKeep, FaultsKeep DEF Next
  <2>3. QED BY <2>1, <2>2
<1>2. QED BY <1>1, InitInd, PTL DEF Spec

\* Type correctness of the observer, with both error counters within the
\* threshold they are compared to.
THEOREM TypeCorrect == Spec => []TypeOK
<1>1. IndInv => TypeOK
  BY DEF IndInv
<1>2. QED BY <1>1, IndInvAlways, PTL

\* No observation mixes two releases, and health.json calls a digest
\* compatible only if it is of the pinned release (probe, observe_once).
THEOREM OneReleaseAlways == Spec => []OneRelease
<1>1. IndInv => OneRelease
  BY DEF IndInv, ShownStored, OneRelease
<1>2. QED BY <1>1, IndInvAlways, PTL

\* Evidence files and health.json show only what the database holds, wherever
\* the process died before (observe_once).
THEOREM StoredFirstAlways == Spec => []StoredFirst
<1>1. IndInv => StoredFirst
  BY DEF IndInv, ShownStored, StoredFirst
<1>2. QED BY <1>1, IndInvAlways, PTL
=============================================================================
