------------------------------ MODULE Evolution ------------------------------
(* The controlled self-evolution pipeline (evolution.py, evolution_cli.py):  *)
(* a candidate is drafted against the live project tree, staged into a       *)
(* disposable copy, evaluated, packaged and signed; an operator's approval   *)
(* promotes it into the live tree, another one rolls it back.                *)
(*                                                                           *)
(* A tree maps paths to contents.  Hashes and signatures are perfect: a      *)
(* digest is the digested value, and an approval exists only if the operator *)
(* made it.  Path.write_bytes truncates and then fills, so every write of a  *)
(* live file and of the promotion record is two steps and a crash between    *)
(* them leaves a torn file.  Each command line invocation is a process.      *)
EXTENDS Naturals, Sequences, FiniteSets

CONSTANTS
  Paths,          \* files of the project
  Excluded,       \* the paths source_tree_digest skips (fixtures/evolution)
  Allowed,        \* allowed_prefixes minus protected_paths of the policy
  PolicyPath,     \* config/evolution.policy.yaml, itself a file of the tree
  Contents,       \* what files can hold
  Absent,         \* no such file
  Torn,           \* a file truncated by an interrupted write_bytes
  Original,       \* the tree at the start
  Human,          \* contents an operator may put into a file by hand
  Candidates,     \* candidate documents
  Mutations,      \* candidate -> its mutations, in order
  Procs,          \* command line invocations that may overlap
  NoTree,         \* "not drafted, not staged, not saved"
  NewDir,         \* a workspace directory nothing was copied into yet
  MaxFiles,       \* max_files of the policy
  MaxRunsPerDay,  \* max_runs_per_day of the gate
  QuarantineAfter,\* quarantine_after of the gate
  MaxEdits        \* bound: edits by hand

Data  == Contents \cup {Absent, Torn}
Trees == [Paths -> Data]
Operations == {"create", "replace"}
MutationSet == [path : Paths, operation : Operations, content : Contents]

ASSUME PathsAssumption ==
  /\ Excluded \subseteq Paths /\ Allowed \subseteq Paths
  /\ PolicyPath \in Paths \ (Excluded \cup Allowed)
ASSUME ContentsAssumption ==
  /\ Absent \notin Contents /\ Torn \notin Contents /\ Absent # Torn
  /\ Human \subseteq Contents /\ Original \in [Paths -> Contents \cup {Absent}]
  /\ NoTree \notin Trees /\ NewDir \notin Trees /\ NewDir # NoTree
ASSUME MutationsAssumption ==
  /\ Candidates # {} /\ Mutations \in [Candidates -> Seq(MutationSet)]
  /\ \A c \in Candidates :
       /\ Len(Mutations[c]) > 0
       /\ \A i, j \in 1..Len(Mutations[c]) :
            Mutations[c][i].path = Mutations[c][j].path => i = j
ASSUME BoundsAssumption ==
  /\ MaxFiles \in Nat /\ MaxRunsPerDay \in Nat /\ MaxEdits \in Nat
  /\ QuarantineAfter \in Nat \ {0}

VARIABLES
  live,      \* the project tree
  drafted,   \* candidate -> the tree it was drafted against
  work,      \* candidate -> its workspace: none, new, or the staged tree
  package,   \* candidate -> its proposal package
  approvals, \* what the operator signed
  record,    \* candidate -> its rollback directory
  proc,      \* invocation -> where it is
  errors,    \* consecutive_errors of component "evolution"
  runs,      \* today's reserved runs
  killed,    \* the kill switch file exists
  edits      \* edits by hand so far

filesVars   == <<live, work, package, record>>
controlVars == <<errors, runs>>
operatorVars == <<drafted, approvals, killed, edits>>
vars == <<filesVars, controlVars, operatorVars, proc>>

-----------------------------------------------------------------------------
(* Documents.                                                                *)

NoPackage == [state |-> "none", passed |-> FALSE, policy |-> Absent]
Packages  == [state : {"none", "open", "sealed"}, passed : BOOLEAN, policy : Data]
NoRecord  == [state |-> "none", backup |-> [p \in Paths |-> Absent]]
RecordStates == {"none", "made", "torn", "prepared", "applied", "rolled_back"}
Records   == [state : RecordStates, backup : Trees]
Approvals == [action : {"promote_candidate", "rollback_candidate"},
              candidate : Candidates]
Steps == {"idle", "copy", "evaluate", "seal", "mkdir", "backup",
          "open_record", "prepare", "truncate", "write", "reopen", "apply",
          "undo", "restore", "close", "rolled"}
AtRest == [pc |-> "idle", cand |-> CHOOSE c \in Candidates : TRUE, i |-> 0,
           saved |-> NoTree]
Frames == [pc : Steps, cand : Candidates, i : Nat, saved : Trees \cup {NoTree}]

Mutation(p) == Mutations[proc[p].cand][proc[p].i]
Last(p)     == Len(Mutations[proc[p].cand])

\* The files the digest covers: everything but the excluded directories.
source_tree_digest(tree) == [q \in Paths \ Excluded |-> tree[q]]

validate_candidate(c) ==
  /\ Len(Mutations[c]) <= MaxFiles
  /\ \A i \in 1..Len(Mutations[c]) : Mutations[c][i].path \in Allowed

\* One mutation fits a tree: a create finds nothing, a replace finds the base
\* the candidate named.
Fits(m, tree, base) ==
  IF m.operation = "create" THEN tree[m.path] = Absent
  ELSE tree[m.path] # Absent /\ tree[m.path] = base[m.path]
AllFit(c, tree) ==
  \A i \in 1..Len(Mutations[c]) : Fits(Mutations[c][i], tree, drafted[c])

Mutated(c, tree) ==
  [q \in Paths |->
     IF \E i \in 1..Len(Mutations[c]) : Mutations[c][i].path = q
     THEN Mutations[c][CHOOSE i \in 1..Len(Mutations[c]) :
                         Mutations[c][i].path = q].content
     ELSE tree[q]]

GateOpen == ~killed /\ errors < QuarantineAfter

Enter(p, pc, c, i, saved) ==
  proc' = [proc EXCEPT ![p] = [pc |-> pc, cand |-> c, i |-> i, saved |-> saved]]
Goto(p, pc) == proc' = [proc EXCEPT ![p].pc = pc]
Leave(p) == proc' = [proc EXCEPT ![p] = AtRest]
At(p, pc) == proc[p].pc = pc

-----------------------------------------------------------------------------
Init ==
  /\ live = Original
  /\ drafted = [c \in Candidates |-> NoTree]
  /\ work = [c \in Candidates |-> NoTree]
  /\ package = [c \in Candidates |-> NoPackage]
  /\ approvals = {}
  /\ record = [c \in Candidates |-> NoRecord]
  /\ proc = [p \in Procs |-> AtRest]
  /\ errors = 0 /\ runs = 0
  /\ killed = FALSE /\ edits = 0

(* What people do.  Nobody edits the tree by hand while an invocation copies *)
(* it or writes to it; while the evaluator runs they may.                    *)

Draft(c) ==
  /\ drafted[c] = NoTree
  /\ drafted' = [drafted EXCEPT ![c] = live]
  /\ UNCHANGED <<filesVars, controlVars, approvals, killed, edits, proc>>

Approve(a) ==
  /\ package[a.candidate].state = "sealed"
  /\ approvals' = approvals \cup {a}
  /\ UNCHANGED <<filesVars, controlVars, drafted, killed, edits, proc>>

EditByHand(q, d) ==
  /\ edits < MaxEdits
  /\ \A p \in Procs : proc[p].pc \in {"idle", "evaluate", "seal"}
  /\ live[q] # d
  /\ live' = [live EXCEPT ![q] = d]
  /\ edits' = edits + 1
  /\ UNCHANGED <<work, package, record, controlVars, drafted, approvals, killed,
                 proc>>

KillSwitch ==
  /\ killed' = ~killed
  /\ UNCHANGED <<filesVars, controlVars, drafted, approvals, edits, proc>>

-----------------------------------------------------------------------------
(* evaluate: reserve_run, stage, the evaluator, the package, the signature.  *)

\* record_component_result for an evaluation that raised.
EvaluationFails(p) ==
  /\ errors' = IF errors < QuarantineAfter THEN errors + 1 ELSE errors
  /\ Leave(p)

\* The kill switch, then the daily quota, refuse the run before it is staged;
\* both refusals are recorded against the component.
EvaluateRefused(p, c) ==
  /\ At(p, "idle") /\ drafted[c] # NoTree
  /\ killed \/ runs >= MaxRunsPerDay
  /\ EvaluationFails(p)
  /\ UNCHANGED <<filesVars, operatorVars, runs>>

StageAllowed(c) ==
  /\ GateOpen
  /\ source_tree_digest(live) = source_tree_digest(drafted[c])
  /\ validate_candidate(c)
  /\ work[c] = NoTree

\* reserve_run and the checks of stage, up to the new workspace directory.
Stage(p, c) ==
  /\ At(p, "idle") /\ drafted[c] # NoTree
  /\ ~killed /\ runs < MaxRunsPerDay
  /\ runs' = runs + 1
  /\ \/ /\ StageAllowed(c)
        /\ work' = [work EXCEPT ![c] = NewDir]
        /\ Enter(p, "copy", c, 0, NoTree)
        /\ UNCHANGED errors
     \/ /\ ~StageAllowed(c)
        /\ EvaluationFails(p)
        /\ UNCHANGED work
  /\ UNCHANGED <<live, package, record, operatorVars>>

\* copytree and the mutations of the copy.
StageCopy(p) ==
  LET c == proc[p].cand IN
  /\ At(p, "copy")
  /\ \/ /\ AllFit(c, live)
        /\ work' = [work EXCEPT ![c] = Mutated(c, live)]
        /\ Goto(p, "evaluate")
        /\ UNCHANGED errors
     \/ /\ ~AllFit(c, live)
        /\ EvaluationFails(p)
        /\ UNCHANGED work
  /\ UNCHANGED <<live, package, record, runs, operatorVars>>

\* The networkless evaluator returns a verdict on every fixed gate; the output
\* directory must be empty, and everything but the attestation is written.
EvaluateVerdict(p, passed) ==
  LET c == proc[p].cand IN
  /\ At(p, "evaluate")
  /\ \/ /\ package[c] = NoPackage
        /\ package' = [package EXCEPT ![c] =
             [state |-> "open", passed |-> passed, policy |-> drafted[c][PolicyPath]]]
        /\ Goto(p, "seal")
        /\ UNCHANGED errors
     \/ /\ package[c] # NoPackage
        /\ EvaluationFails(p)
        /\ UNCHANGED package
  /\ UNCHANGED <<live, work, record, runs, operatorVars>>

\* The container times out or answers nonsense.
EvaluatorBreaks(p) ==
  /\ At(p, "evaluate")
  /\ EvaluationFails(p)
  /\ UNCHANGED <<filesVars, runs, operatorVars>>

\* The guarded signer attests the package root; record_component_result resets
\* the count.
SealPackage(p) ==
  /\ At(p, "seal")
  /\ \/ /\ ~killed
        /\ package' = [package EXCEPT ![proc[p].cand].state = "sealed"]
        /\ errors' = 0
        /\ Leave(p)
     \/ /\ killed
        /\ EvaluationFails(p)
        /\ UNCHANGED package
  /\ UNCHANGED <<live, work, record, runs, operatorVars>>

-----------------------------------------------------------------------------
(* promote.                                                                  *)

verify_evolution_package(c) == package[c].state = "sealed"

\* Faulty variant: the operator's signature on any action will do.
ApprovalOfAnything(action, c) == \E x \in approvals : x.candidate = c

verify_evolution_approval(action, c) ==
  [action |-> action, candidate |-> c] \in approvals

\* Faulty variant: the mutated files are compared with their bases, the rest of
\* the tree is not.
PromotableAnyTree(c) ==
  /\ GateOpen
  /\ verify_evolution_package(c)
  /\ verify_evolution_approval("promote_candidate", c)
  /\ package[c].passed
  /\ package[c].policy = live[PolicyPath]
  /\ validate_candidate(c)
  /\ record[c] = NoRecord
  /\ AllFit(c, live)

Promotable(c) ==
  /\ GateOpen
  /\ verify_evolution_package(c)
  /\ verify_evolution_approval("promote_candidate", c)
  /\ package[c].passed
  /\ package[c].policy = live[PolicyPath]
  /\ source_tree_digest(live) = source_tree_digest(drafted[c])
  /\ validate_candidate(c)
  /\ record[c] = NoRecord
  /\ AllFit(c, live)

\* Every check and the preflight of every target; the previous contents are
\* held in memory.  A refused promotion changes nothing.
Promote(p, c) ==
  /\ At(p, "idle")
  /\ Promotable(c)
  /\ Enter(p, "mkdir", c, 0, live)
  /\ UNCHANGED <<filesVars, controlVars, operatorVars>>

\* rollback.mkdir without exist_ok: one promotion of a candidate ever.
PromoteMkdir(p) ==
  LET c == proc[p].cand IN
  /\ At(p, "mkdir")
  /\ \/ /\ record[c] = NoRecord
        /\ record' = [record EXCEPT ![c].state = "made"]
        /\ Goto(p, "backup")
     \/ /\ record[c] # NoRecord
        /\ Leave(p)
        /\ UNCHANGED record
  /\ UNCHANGED <<live, work, package, controlVars, operatorVars>>

Replaces(c, q) == \E i \in 1..Len(Mutations[c]) :
  Mutations[c][i].path = q /\ Mutations[c][i].operation = "replace"

\* Faulty variant: backs up what is about to be written.
BackupPromoted(p) ==
  LET c == proc[p].cand IN
  /\ At(p, "backup")
  /\ record' = [record EXCEPT ![c].backup = Mutated(c, proc[p].saved)]
  /\ Goto(p, "open_record")
  /\ UNCHANGED <<live, work, package, controlVars, operatorVars>>

PromoteBackup(p) ==
  LET c == proc[p].cand IN
  /\ At(p, "backup")
  /\ record' = [record EXCEPT ![c].backup =
       [q \in Paths |-> IF Replaces(c, q) THEN proc[p].saved[q] ELSE Absent]]
  /\ Goto(p, "open_record")
  /\ UNCHANGED <<live, work, package, controlVars, operatorVars>>

\* record_path.write_bytes: truncated, then filled with the given state.
TruncateRecord(p) ==
  /\ record' = [record EXCEPT ![proc[p].cand].state = "torn"]
  /\ UNCHANGED <<live, work, package, controlVars, operatorVars>>
FillRecord(p, state) ==
  /\ record' = [record EXCEPT ![proc[p].cand].state = state]
  /\ UNCHANGED <<live, work, package, controlVars, operatorVars>>

PromoteRecord(p) ==
  \/ At(p, "open_record") /\ TruncateRecord(p) /\ Goto(p, "prepare")
  \/ /\ At(p, "prepare") /\ FillRecord(p, "prepared")
     /\ Enter(p, "truncate", proc[p].cand, 1, proc[p].saved)

\* destination.write_bytes(promoted), mutation by mutation.
PromoteTruncate(p) ==
  /\ At(p, "truncate")
  /\ live' = [live EXCEPT ![Mutation(p).path] = Torn]
  /\ Goto(p, "write")
  /\ UNCHANGED <<work, package, record, controlVars, operatorVars>>
PromoteWrite(p) ==
  /\ At(p, "write")
  /\ live' = [live EXCEPT ![Mutation(p).path] = Mutation(p).content]
  /\ IF proc[p].i = Last(p) THEN Goto(p, "reopen")
     ELSE Enter(p, "truncate", proc[p].cand, proc[p].i + 1, proc[p].saved)
  /\ UNCHANGED <<work, package, record, controlVars, operatorVars>>

PromoteApplied(p) ==
  \/ At(p, "reopen") /\ TruncateRecord(p) /\ Goto(p, "apply")
  \/ At(p, "apply") /\ FillRecord(p, "applied") /\ Leave(p)

-----------------------------------------------------------------------------
(* rollback.                                                                 *)

Readable(c) == record[c].state \in {"prepared", "applied", "rolled_back"}

\* A record that cannot be parsed stops the rollback before anything else.
Rollback(p, c) ==
  /\ At(p, "idle")
  /\ GateOpen
  /\ verify_evolution_approval("rollback_candidate", c)
  /\ Readable(c)
  /\ Enter(p, "undo", c, 1, NoTree)
  /\ UNCHANGED <<filesVars, controlVars, operatorVars>>

NextUndo(p) ==
  IF proc[p].i = Last(p) THEN Goto(p, "close")
  ELSE Enter(p, "undo", proc[p].cand, proc[p].i + 1, NoTree)

\* The file is as it was before the promotion: nothing to undo.
UndoneAlready(c, m) ==
  IF m.operation = "create" THEN live[m.path] = Absent
  ELSE /\ live[m.path] = record[c].backup[m.path]
       /\ live[m.path] # m.content

\* Faulty variant: a file that is neither version is skipped, not refused.
UndoSkippingDrift(p) ==
  LET c == proc[p].cand  m == Mutation(p) IN
  /\ At(p, "undo")
  /\ \/ /\ live[m.path] # m.content
        /\ NextUndo(p)
        /\ UNCHANGED live
     \/ /\ live[m.path] = m.content
        /\ IF m.operation = "create"
           THEN live' = [live EXCEPT ![m.path] = Absent] /\ NextUndo(p)
           ELSE live' = [live EXCEPT ![m.path] = Torn] /\ Goto(p, "restore")
  /\ UNCHANGED <<work, package, record, controlVars, operatorVars>>

\* One file of the record: left alone, removed, truncated to be restored, or
\* refused because it is neither the previous nor the promoted content.
UndoFile(p) ==
  LET c == proc[p].cand  m == Mutation(p) IN
  /\ At(p, "undo")
  /\ \/ /\ UndoneAlready(c, m)
        /\ NextUndo(p)
        /\ UNCHANGED live
     \/ /\ live[m.path] = m.content
        /\ IF m.operation = "create"
           THEN live' = [live EXCEPT ![m.path] = Absent] /\ NextUndo(p)
           ELSE live' = [live EXCEPT ![m.path] = Torn] /\ Goto(p, "restore")
     \/ /\ ~UndoneAlready(c, m) /\ live[m.path] # m.content
        /\ Leave(p)
        /\ UNCHANGED live
  /\ UNCHANGED <<work, package, record, controlVars, operatorVars>>

UndoRestore(p) ==
  LET c == proc[p].cand  m == Mutation(p) IN
  /\ At(p, "restore")
  /\ live' = [live EXCEPT ![m.path] = record[c].backup[m.path]]
  /\ NextUndo(p)
  /\ UNCHANGED <<work, package, record, controlVars, operatorVars>>

RolledBack(p) ==
  \/ At(p, "close") /\ TruncateRecord(p) /\ Goto(p, "rolled")
  \/ At(p, "rolled") /\ FillRecord(p, "rolled_back") /\ Leave(p)

-----------------------------------------------------------------------------
\* The invocation dies; its files stay as they are.
Crash(p) ==
  /\ ~At(p, "idle")
  /\ Leave(p)
  /\ UNCHANGED <<filesVars, controlVars, operatorVars>>

Next ==
  \/ \E c \in Candidates : Draft(c)
  \/ \E a \in Approvals : Approve(a)
  \/ \E q \in Paths, d \in Human : EditByHand(q, d)
  \/ KillSwitch
  \/ \E p \in Procs, c \in Candidates :
       EvaluateRefused(p, c) \/ Stage(p, c) \/ Promote(p, c) \/ Rollback(p, c)
  \/ \E p \in Procs, passed \in BOOLEAN : EvaluateVerdict(p, passed)
  \/ \E p \in Procs :
       \/ StageCopy(p) \/ EvaluatorBreaks(p) \/ SealPackage(p)
       \/ PromoteMkdir(p) \/ PromoteBackup(p) \/ PromoteRecord(p)
       \/ PromoteTruncate(p) \/ PromoteWrite(p) \/ PromoteApplied(p)
       \/ UndoFile(p) \/ UndoRestore(p) \/ RolledBack(p)
       \/ Crash(p)

Spec == Init /\ [][Next]_vars
-----------------------------------------------------------------------------
(* Properties.                                                               *)

\* A candidate's bytes are recognisable: the tree did not start with them, no
\* operator writes them by hand and no other candidate has them for that path.
DistinctBytes ==
  \A c \in Candidates : \A i \in 1..Len(Mutations[c]) :
    LET m == Mutations[c][i] IN
    /\ m.content \notin Human /\ Original[m.path] # m.content
    /\ \A d \in Candidates : \A j \in 1..Len(Mutations[d]) :
         Mutations[d][j].path = m.path /\ Mutations[d][j].content = m.content => d = c

\* The sets the variables range over.
TypeOK ==
  /\ live \in Trees
  /\ drafted \in [Candidates -> Trees \cup {NoTree}]
  /\ work \in [Candidates -> Trees \cup {NoTree, NewDir}]
  /\ package \in [Candidates -> Packages]
  /\ approvals \subseteq Approvals
  /\ record \in [Candidates -> Records]
  /\ proc \in [Procs -> Frames]
  /\ errors \in 0..QuarantineAfter
  /\ runs \in 0..MaxRunsPerDay /\ edits \in 0..MaxEdits
  /\ killed \in BOOLEAN

InPlace(c, i) == live[Mutations[c][i].path] = Mutations[c][i].content

\* A candidate's bytes reach the live tree only at a path the policy lets
\* candidates touch, out of a package that passed every gate, and with the
\* operator's signature on that promotion, however evaluations, crashes,
\* rollbacks and edits interleave (promote, validate_candidate).
OnlyApproved ==
  \A c \in Candidates : \A i \in 1..Len(Mutations[c]) :
    InPlace(c, i) =>
      /\ Mutations[c][i].path \in Allowed
      /\ package[c].state = "sealed" /\ package[c].passed
      /\ [action |-> "promote_candidate", candidate |-> c] \in approvals

\* While a promoted replacement is in place, the rollback directory holds the
\* bytes it replaced, which are the bytes the candidate was drafted against:
\* promote backs up and records before its first live write.
RecoveryFirst ==
  \A c \in Candidates : \A i \in 1..Len(Mutations[c]) :
    InPlace(c, i) =>
      /\ record[c].state \notin {"none", "made"}
      /\ Mutations[c][i].operation = "replace" =>
           record[c].backup[Mutations[c][i].path] = drafted[c][Mutations[c][i].path]

\* A promotion that completes leaves, in every file the source digest covers,
\* the very tree the evaluator saw: drift of the project between drafting,
\* staging, evaluation and promotion makes promote refuse.
PromotedIsEvaluated ==
  [][\A c \in Candidates :
       record'[c].state = "applied" /\ record[c].state # "applied" =>
         source_tree_digest(live') = source_tree_digest(work[c])]_vars

Before(c, i) == IF Mutations[c][i].operation = "create" THEN Absent
                ELSE drafted[c][Mutations[c][i].path]

\* A rollback that completes has put back every file of the promotion as it
\* was before, also when the promotion or an earlier rollback was interrupted
\* (rollback marks the record rolled_back last).
RollbackRestores ==
  [][\A c \in Candidates :
       record'[c].state = "rolled_back" /\ record[c].state # "rolled_back" =>
         \A i \in 1..Len(Mutations[c]) :
           live'[Mutations[c][i].path] = Before(c, i)]_vars
=============================================================================
