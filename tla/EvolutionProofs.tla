-------------------------- MODULE EvolutionProofs --------------------------
(* That only approved candidates reach the live tree, and never before their *)
(* recovery data, for every policy, set of candidates and number of command  *)
(* line invocations that overlap or die.  Where they do not overlap, that a  *)
(* promotion leaves what was evaluated and a rollback what was there before. *)
EXTENDS Evolution, SequenceTheorems, TLAPS

\* Steps of promote and rollback, by what has been done when they begin.
Recorded  == {"prepare", "truncate", "write", "reopen", "apply"}
Promoting == {"mkdir", "backup", "open_record"} \cup Recorded
Undoing   == {"undo", "restore", "close", "rolled"}
Opened(c) == record[c].state \notin {"none", "made"}

\* What promote checked of a candidate.
Cleared(c) ==
  /\ \A i \in 1..Len(Mutations[c]) : Mutations[c][i].path \in Allowed
  /\ package[c].state = "sealed" /\ package[c].passed = TRUE
  /\ [action |-> "promote_candidate", candidate |-> c] \in approvals

\* A tree that holds what the candidate was drafted against where it replaces.
Based(c, tree) ==
  \A i \in 1..Len(Mutations[c]) :
    Mutations[c][i].operation = "replace" =>
      tree[Mutations[c][i].path] = drafted[c][Mutations[c][i].path]

Licensed(c) == Cleared(c) /\ Opened(c) /\ Based(c, record[c].backup)

\* A tree in which every candidate's bytes are those of a licensed one, if they
\* can be told apart at all.
Clean(tree) ==
  DistinctBytes => \A c \in Candidates : \A i \in 1..Len(Mutations[c]) :
    tree[Mutations[c][i].path] = Mutations[c][i].content => Licensed(c)

\* Work on a candidate starts from a draft, a promotion from its checks.
ProcOK(f) ==
  /\ f.pc \in {"copy", "evaluate", "seal"} => drafted[f.cand] # NoTree
  /\ f.pc \in Promoting => /\ Cleared(f.cand) /\ drafted[f.cand] # NoTree
                           /\ f.saved \in Trees
                           /\ Based(f.cand, f.saved) /\ Clean(f.saved)
  /\ f.pc \in {"open_record"} \cup Recorded => Based(f.cand, record[f.cand].backup)
  /\ f.pc \in Recorded \cup Undoing => Opened(f.cand)
  /\ f.pc \in {"truncate", "write", "undo", "restore"} =>
       f.i \in 1..Len(Mutations[f.cand])
  /\ f.pc = "seal" => package[f.cand].state # "none"

FilesOK ==
  /\ Clean(live)
  /\ \A c \in Candidates : /\ Clean(record[c].backup)
                           /\ Opened(c) => /\ drafted[c] # NoTree
                                           /\ Based(c, record[c].backup)
                           /\ package[c].state # "none" => drafted[c] # NoTree

IndInv == TypeOK /\ FilesOK /\ \A p \in Procs : ProcOK(proc[p])

-----------------------------------------------------------------------------
(* Facts about the documents and the frames of the invocations.              *)

USE DEF Recorded, Promoting, Undoing

\* A mutation of a candidate has a path, an operation and a content.
LEMMA MutationType ==
  ASSUME NEW c \in Candidates, NEW i \in 1..Len(Mutations[c])
  PROVE  /\ Mutations[c][i].path \in Paths /\ Mutations[c][i].content \in Contents
         /\ Mutations[c][i].operation \in Operations
<1>1. Mutations[c] \in Seq(MutationSet)
  BY MutationsAssumption
<1>2. Mutations[c][i] \in MutationSet
  BY <1>1, ElementOfSeq
<1>3. QED BY <1>2 DEF MutationSet

\* A candidate has at least one mutation.
LEMMA MutationCount ==
  ASSUME NEW c \in Candidates
  PROVE  Len(Mutations[c]) \in Nat /\ 1 \in 1..Len(Mutations[c])
<1>1. Mutations[c] \in Seq(MutationSet) /\ Len(Mutations[c]) > 0
  BY MutationsAssumption
<1>2. Len(Mutations[c]) \in Nat
  BY <1>1
<1>3. QED BY <1>1, <1>2

\* The frame of an invocation that does nothing is a frame.
LEMMA AtRestType ==
  AtRest \in Frames /\ AtRest.pc = "idle" /\ AtRest.cand \in Candidates
<1>1. (CHOOSE c \in Candidates : TRUE) \in Candidates
  BY MutationsAssumption
<1>2. QED BY <1>1 DEF AtRest, Frames, Steps

\* What a step of one invocation does to the frames of all: its own changes,
\* the others stay (Enter, Goto, Leave).
LEMMA FrameSteps ==
  ASSUME proc \in [Procs -> Frames], NEW p \in Procs
  PROVE  /\ \A pc \in Steps, c \in Candidates, i \in Nat, t \in Trees \cup {NoTree} :
              Enter(p, pc, c, i, t) =>
                /\ proc' \in [Procs -> Frames]
                /\ proc'[p] = [pc |-> pc, cand |-> c, i |-> i, saved |-> t]
                /\ \A q \in Procs : q # p => proc'[q] = proc[q]
         /\ \A pc \in Steps :
              Goto(p, pc) =>
                /\ proc' \in [Procs -> Frames]
                /\ proc'[p].pc = pc /\ proc'[p].cand = proc[p].cand
                /\ proc'[p].i = proc[p].i /\ proc'[p].saved = proc[p].saved
                /\ \A q \in Procs : q # p => proc'[q] = proc[q]
         /\ Leave(p) => /\ proc' \in [Procs -> Frames] /\ proc'[p] = AtRest
                        /\ \A q \in Procs : q # p => proc'[q] = proc[q]
<1>1. ASSUME NEW pc \in Steps, NEW c \in Candidates, NEW i \in Nat,
             NEW t \in Trees \cup {NoTree}, Enter(p, pc, c, i, t)
      PROVE  /\ proc' \in [Procs -> Frames]
             /\ proc'[p] = [pc |-> pc, cand |-> c, i |-> i, saved |-> t]
             /\ \A q \in Procs : q # p => proc'[q] = proc[q]
  <2>1. [pc |-> pc, cand |-> c, i |-> i, saved |-> t] \in Frames
    BY DEF Frames
  <2>2. QED BY <1>1, <2>1 DEF Enter
<1>2. ASSUME NEW pc \in Steps, Goto(p, pc)
      PROVE  /\ proc' \in [Procs -> Frames]
             /\ proc'[p].pc = pc /\ proc'[p].cand = proc[p].cand
             /\ proc'[p].i = proc[p].i /\ proc'[p].saved = proc[p].saved
             /\ \A q \in Procs : q # p => proc'[q] = proc[q]
  <2>1. proc[p] \in [pc : Steps, cand : Candidates, i : Nat, saved : Trees \cup {NoTree}]
    BY DEF Frames
  <2>2. proc'[p] = [proc[p] EXCEPT !.pc = pc]
    BY <1>2 DEF Goto
  <2>3. proc'[p] \in Frames /\ proc'[p].pc = pc /\ proc'[p].cand = proc[p].cand
        /\ proc'[p].i = proc[p].i /\ proc'[p].saved = proc[p].saved
    BY <2>1, <2>2 DEF Frames
  <2>4. QED BY <1>2, <2>3 DEF Goto
<1>3. ASSUME Leave(p)
      PROVE  /\ proc' \in [Procs -> Frames] /\ proc'[p] = AtRest
             /\ \A q \in Procs : q # p => proc'[q] = proc[q]
  BY <1>3, AtRestType DEF Leave
<1>4. QED BY <1>1, <1>2, <1>3

\* The fields of a frame.
LEMMA FrameFields ==
  ASSUME proc \in [Procs -> Frames], NEW p \in Procs
  PROVE  /\ proc[p].pc \in Steps /\ proc[p].cand \in Candidates /\ proc[p].i \in Nat
         /\ proc[p].saved \in Trees \cup {NoTree}
  BY DEF Frames

\* A record with another state, or another backup.
LEMMA RecordSteps ==
  ASSUME record \in [Candidates -> Records], NEW c \in Candidates
  PROVE  /\ \A s \in RecordStates :
              record' = [record EXCEPT ![c].state = s] =>
                /\ record' \in [Candidates -> Records]
                /\ record'[c].state = s /\ record'[c].backup = record[c].backup
                /\ \A d \in Candidates : d # c => record'[d] = record[d]
         /\ \A t \in Trees :
              record' = [record EXCEPT ![c].backup = t] =>
                /\ record' \in [Candidates -> Records]
                /\ record'[c].state = record[c].state /\ record'[c].backup = t
                /\ \A d \in Candidates : d # c => record'[d] = record[d]
<1>1. record[c] \in [state : RecordStates, backup : Trees]
  BY DEF Records
<1>2. ASSUME NEW s \in RecordStates, record' = [record EXCEPT ![c].state = s]
      PROVE  /\ record' \in [Candidates -> Records]
             /\ record'[c].state = s /\ record'[c].backup = record[c].backup
             /\ \A d \in Candidates : d # c => record'[d] = record[d]
  <2>1. record'[c] = [record[c] EXCEPT !.state = s]
    BY <1>2
  <2>2. record'[c] \in Records /\ record'[c].state = s
        /\ record'[c].backup = record[c].backup
    BY <1>1, <2>1 DEF Records
  <2>3. QED BY <1>2, <2>2
<1>3. ASSUME NEW t \in Trees, record' = [record EXCEPT ![c].backup = t]
      PROVE  /\ record' \in [Candidates -> Records]
             /\ record'[c].state = record[c].state /\ record'[c].backup = t
             /\ \A d \in Candidates : d # c => record'[d] = record[d]
  <2>1. record'[c] = [record[c] EXCEPT !.backup = t]
    BY <1>3
  <2>2. record'[c] \in Records /\ record'[c].state = record[c].state
        /\ record'[c].backup = t
    BY <1>1, <2>1 DEF Records
  <2>3. QED BY <1>3, <2>2
<1>4. QED BY <1>2, <1>3

\* The staged copy is a tree (stage).
LEMMA MutatedType ==
  ASSUME NEW c \in Candidates, NEW tree \in Trees
  PROVE  Mutated(c, tree) \in Trees
<1> DEFINE First(q) == CHOOSE i \in 1..Len(Mutations[c]) : Mutations[c][i].path = q
<1>1. ASSUME NEW q \in Paths, \E i \in 1..Len(Mutations[c]) : Mutations[c][i].path = q
      PROVE  Mutations[c][CHOOSE i \in 1..Len(Mutations[c]) :
                            Mutations[c][i].path = q].content \in Data
  <2>1. First(q) \in 1..Len(Mutations[c])
    BY <1>1
  <2>2. QED BY <2>1, MutationType DEF Data
<1>2. \A q \in Paths : tree[q] \in Data
  BY DEF Trees
<1>3. QED BY <1>1, <1>2 DEF Mutated, Trees

-----------------------------------------------------------------------------
(* Types.                                                                    *)

\* Every variable has its type at the start (Init).
LEMMA InitTypes == Init => TypeOK
<1> SUFFICES ASSUME Init
             PROVE  TypeOK
  OBVIOUS
<1>1. Original \in Trees /\ [q \in Paths |-> Absent] \in Trees
  BY ContentsAssumption DEF Trees, Data
<1>2. NoPackage \in Packages /\ NoRecord \in Records
  BY <1>1 DEF NoPackage, Packages, NoRecord, Records, RecordStates, Data
<1>3. killed \in BOOLEAN
  BY DEF Init
<1>4. QED BY <1>1, <1>2, <1>3, AtRestType, BoundsAssumption DEF Init, TypeOK

\* What people do keeps the types.
LEMMA PeopleTypes ==
  ASSUME TypeOK,
         \/ \E c \in Candidates : Draft(c)
         \/ \E a \in Approvals : Approve(a)
         \/ \E q \in Paths, d \in Human : EditByHand(q, d)
         \/ KillSwitch
  PROVE  TypeOK'
<1> USE DEF TypeOK, filesVars, controlVars
<1>1. CASE \E c \in Candidates : Draft(c)
  BY <1>1 DEF Draft
<1>2. CASE \E a \in Approvals : Approve(a)
  BY <1>2 DEF Approve
<1>3. CASE \E q \in Paths, d \in Human : EditByHand(q, d)
  <2>1. live' \in Trees
    BY <1>3, ContentsAssumption DEF EditByHand, Trees, Data
  <2>2. edits' \in 0..MaxEdits
    BY <1>3, BoundsAssumption DEF EditByHand
  <2>3. QED BY <1>3, <2>1, <2>2 DEF EditByHand
<1>4. CASE KillSwitch
  <2>1. killed' \in BOOLEAN
    BY <1>4 DEF KillSwitch
  <2>2. QED BY <1>4, <2>1 DEF KillSwitch
<1>5. QED BY <1>1, <1>2, <1>3, <1>4

\* evaluate keeps the types, its failures included.
LEMMA EvaluateTypes ==
  ASSUME TypeOK, NEW p \in Procs, ProcOK(proc[p]),
         \/ \E c \in Candidates : EvaluateRefused(p, c) \/ Stage(p, c)
         \/ \E passed \in BOOLEAN : EvaluateVerdict(p, passed)
         \/ StageCopy(p) \/ EvaluatorBreaks(p) \/ SealPackage(p)
  PROVE  TypeOK'
<1> USE DEF filesVars, operatorVars
<1>0. /\ proc \in [Procs -> Frames] /\ proc[p].cand \in Candidates
      /\ package \in [Candidates -> Packages]
      /\ work \in [Candidates -> Trees \cup {NoTree, NewDir}]
      /\ live \in Trees /\ drafted \in [Candidates -> Trees \cup {NoTree}]
      /\ errors \in 0..QuarantineAfter /\ QuarantineAfter \in Nat
      /\ runs \in 0..MaxRunsPerDay /\ MaxRunsPerDay \in Nat
  BY FrameFields, BoundsAssumption DEF TypeOK
<1>1. EvaluationFails(p) => /\ errors' \in 0..QuarantineAfter
                            /\ proc' \in [Procs -> Frames]
  BY <1>0, FrameSteps DEF EvaluationFails
<1>2. CASE \E c \in Candidates : EvaluateRefused(p, c)
  BY <1>1, <1>2 DEF TypeOK, EvaluateRefused
<1>3. CASE \E c \in Candidates : Stage(p, c)
  <2>1. PICK c \in Candidates : Stage(p, c)
    BY <1>3
  <2>2. runs' \in 0..MaxRunsPerDay
    BY <1>0, <2>1 DEF Stage
  <2>3. work' \in [Candidates -> Trees \cup {NoTree, NewDir}]
    BY <1>0, <2>1 DEF Stage
  <2>4. Enter(p, "copy", c, 0, NoTree) => proc' \in [Procs -> Frames]
    BY <1>0, FrameSteps DEF Steps
  <2>5. errors' \in 0..QuarantineAfter /\ proc' \in [Procs -> Frames]
    BY <1>0, <1>1, <2>1, <2>4 DEF Stage
  <2>6. QED BY <2>1, <2>2, <2>3, <2>5 DEF TypeOK, Stage
<1>4. CASE StageCopy(p)
  <2>1. work' \in [Candidates -> Trees \cup {NoTree, NewDir}]
    BY <1>0, <1>4, MutatedType DEF StageCopy
  <2>2. Goto(p, "evaluate") => proc' \in [Procs -> Frames]
    BY <1>0, FrameSteps DEF Steps
  <2>3. errors' \in 0..QuarantineAfter /\ proc' \in [Procs -> Frames]
    BY <1>0, <1>1, <1>4, <2>2 DEF StageCopy
  <2>4. QED BY <1>4, <2>1, <2>3 DEF TypeOK, StageCopy
<1>5. CASE \E passed \in BOOLEAN : EvaluateVerdict(p, passed)
  <2>1. PICK passed \in BOOLEAN : EvaluateVerdict(p, passed)
    BY <1>5
  <2>2. drafted[proc[p].cand][PolicyPath] \in Data
    BY <1>0, <2>1, PathsAssumption DEF EvaluateVerdict, At, ProcOK, Trees
  <2>3. [state |-> "open", passed |-> passed,
         policy |-> drafted[proc[p].cand][PolicyPath]] \in Packages
    BY <2>2 DEF Packages
  <2>4. package' \in [Candidates -> Packages]
    BY <1>0, <2>1, <2>3 DEF EvaluateVerdict
  <2>5. Goto(p, "seal") => proc' \in [Procs -> Frames]
    BY <1>0, FrameSteps DEF Steps
  <2>6. errors' \in 0..QuarantineAfter /\ proc' \in [Procs -> Frames]
    BY <1>0, <1>1, <2>1, <2>5 DEF EvaluateVerdict
  <2>7. QED BY <2>1, <2>4, <2>6 DEF TypeOK, EvaluateVerdict
<1>6. CASE EvaluatorBreaks(p)
  BY <1>1, <1>6 DEF TypeOK, EvaluatorBreaks
<1>7. CASE SealPackage(p)
  <2>1. [package EXCEPT ![proc[p].cand].state = "sealed"] \in [Candidates -> Packages]
    <3>1. package[proc[p].cand] \in Packages
      BY <1>0
    <3>2. [package[proc[p].cand] EXCEPT !.state = "sealed"] \in Packages
      BY <3>1 DEF Packages
    <3>3. QED BY <1>0, <3>2
  <2>2. package' \in [Candidates -> Packages]
    BY <1>0, <1>7, <2>1 DEF SealPackage
  <2>3. errors' \in 0..QuarantineAfter /\ proc' \in [Procs -> Frames]
    BY <1>0, <1>1, <1>7, FrameSteps DEF SealPackage
  <2>4. QED BY <1>7, <2>2, <2>3 DEF TypeOK, SealPackage
<1>8. QED BY <1>2, <1>3, <1>4, <1>5, <1>6, <1>7

\* promote keeps the types, from its checks to its last write.
LEMMA PromoteTypes ==
  ASSUME TypeOK, NEW p \in Procs, ProcOK(proc[p]),
         \/ \E c \in Candidates : Promote(p, c)
         \/ PromoteMkdir(p) \/ PromoteBackup(p) \/ PromoteRecord(p)
         \/ PromoteTruncate(p) \/ PromoteWrite(p) \/ PromoteApplied(p)
  PROVE  TypeOK'
<1> USE DEF filesVars, operatorVars, controlVars
<1> DEFINE c == proc[p].cand
<1>0. /\ proc \in [Procs -> Frames] /\ c \in Candidates /\ proc[p].i \in Nat
      /\ proc[p].saved \in Trees \cup {NoTree}
      /\ record \in [Candidates -> Records] /\ live \in Trees
  BY FrameFields DEF TypeOK
<1>1. \A pc \in Steps : Goto(p, pc) => proc' \in [Procs -> Frames]
  BY <1>0, FrameSteps
<1>2. Leave(p) => proc' \in [Procs -> Frames]
  BY <1>0, FrameSteps
<1>3. \A i \in Nat : Enter(p, "truncate", c, i, proc[p].saved) => proc' \in [Procs -> Frames]
  BY <1>0, FrameSteps DEF Steps
<1>4. ASSUME NEW s \in RecordStates, record' = [record EXCEPT ![c].state = s]
      PROVE  record' \in [Candidates -> Records]
  BY <1>0, <1>4, RecordSteps
<1>5. ASSUME NEW q \in Paths, NEW d \in Data, live' = [live EXCEPT ![q] = d]
      PROVE  live' \in Trees
  BY <1>0, <1>5 DEF Trees
<1>6. CASE \E d \in Candidates : Promote(p, d)
  <2>1. proc' \in [Procs -> Frames]
    BY <1>0, <1>6, FrameSteps DEF Promote, Steps
  <2>2. QED BY <1>6, <2>1 DEF TypeOK, Promote
<1>7. CASE PromoteMkdir(p)
  <2>1. record' \in [Candidates -> Records]
    BY <1>0, <1>4, <1>7 DEF PromoteMkdir, RecordStates
  <2>2. proc' \in [Procs -> Frames]
    BY <1>1, <1>2, <1>7 DEF PromoteMkdir, Steps
  <2>3. QED BY <1>7, <2>1, <2>2 DEF TypeOK, PromoteMkdir
<1>8. CASE PromoteBackup(p)
  <2>1. proc[p].saved \in Trees
    BY <1>8 DEF PromoteBackup, At, ProcOK
  <2>2. [q \in Paths |-> IF Replaces(c, q) THEN proc[p].saved[q] ELSE Absent] \in Trees
    BY <2>1 DEF Trees, Data
  <2>3. record' \in [Candidates -> Records]
    BY <1>0, <1>8, <2>2, RecordSteps DEF PromoteBackup
  <2>4. proc' \in [Procs -> Frames]
    BY <1>1, <1>8 DEF PromoteBackup, Steps
  <2>5. QED BY <1>8, <2>3, <2>4 DEF TypeOK, PromoteBackup
<1>9. CASE PromoteRecord(p) \/ PromoteApplied(p)
  <2>1. record' \in [Candidates -> Records]
    BY <1>4, <1>9 DEF PromoteRecord, PromoteApplied, TruncateRecord, FillRecord,
                      RecordStates
  <2>2. proc' \in [Procs -> Frames]
    BY <1>1, <1>2, <1>3, <1>9 DEF PromoteRecord, PromoteApplied, Steps
  <2>3. QED BY <1>9, <2>1, <2>2 DEF TypeOK, PromoteRecord, PromoteApplied,
                                    TruncateRecord, FillRecord
<1>10. CASE PromoteTruncate(p) \/ PromoteWrite(p)
  <2>1. Mutation(p).path \in Paths /\ Mutation(p).content \in Data
    BY <1>0, <1>10, MutationType
    DEF PromoteTruncate, PromoteWrite, At, ProcOK, Mutation, Data
  <2>2. live' \in Trees
    BY <1>5, <1>10, <2>1 DEF PromoteTruncate, PromoteWrite, Data
  <2>3. proc' \in [Procs -> Frames]
    BY <1>0, <1>1, <1>3, <1>10 DEF PromoteTruncate, PromoteWrite, Steps
  <2>4. QED BY <1>10, <2>2, <2>3 DEF TypeOK, PromoteTruncate, PromoteWrite
<1>11. QED BY <1>6, <1>7, <1>8, <1>9, <1>10

\* rollback and a crash keep the types.
LEMMA RollbackTypes ==
  ASSUME TypeOK, NEW p \in Procs, ProcOK(proc[p]),
         \/ \E c \in Candidates : Rollback(p, c)
         \/ UndoFile(p) \/ UndoRestore(p) \/ RolledBack(p) \/ Crash(p)
  PROVE  TypeOK'
<1> USE DEF filesVars, operatorVars, controlVars
<1> DEFINE c == proc[p].cand
<1>0. /\ proc \in [Procs -> Frames] /\ c \in Candidates /\ proc[p].i \in Nat
      /\ record \in [Candidates -> Records] /\ live \in Trees
  BY FrameFields DEF TypeOK
<1>1. \A pc \in Steps : Goto(p, pc) => proc' \in [Procs -> Frames]
  BY <1>0, FrameSteps
<1>2. Leave(p) => proc' \in [Procs -> Frames]
  BY <1>0, FrameSteps
<1>3. NextUndo(p) => proc' \in [Procs -> Frames]
  <2>1. Enter(p, "undo", c, proc[p].i + 1, NoTree) => proc' \in [Procs -> Frames]
    <3>1. "undo" \in Steps /\ proc[p].i + 1 \in Nat /\ NoTree \in Trees \cup {NoTree}
      BY <1>0 DEF Steps
    <3>2. QED BY <1>0, <3>1, FrameSteps
  <2>2. QED BY <1>1, <2>1 DEF NextUndo, Steps
<1>4. CASE \E d \in Candidates : Rollback(p, d)
  <2>1. proc' \in [Procs -> Frames]
    BY <1>0, <1>4, FrameSteps DEF Rollback, Steps
  <2>2. QED BY <1>4, <2>1 DEF TypeOK, Rollback
<1>5. CASE UndoFile(p) \/ UndoRestore(p)
  <2>1. Mutation(p).path \in Paths /\ record[c].backup[Mutation(p).path] \in Data
    <3>1. Mutation(p).path \in Paths
      BY <1>0, <1>5, MutationType DEF UndoFile, UndoRestore, At, ProcOK, Mutation
    <3>2. record[c].backup \in Trees
      BY <1>0 DEF Records
    <3>3. QED BY <3>1, <3>2 DEF Trees
  <2>2. live' \in Trees
    <3>1. \/ live' = live
          \/ \E d \in {Absent, Torn, record[c].backup[Mutation(p).path]} :
               live' = [live EXCEPT ![Mutation(p).path] = d]
      BY <1>5 DEF UndoFile, UndoRestore
    <3>2. QED BY <1>0, <2>1, <3>1 DEF Trees, Data
  <2>3. proc' \in [Procs -> Frames]
    BY <1>1, <1>2, <1>3, <1>5 DEF UndoFile, UndoRestore, Steps
  <2>4. QED BY <1>5, <2>2, <2>3 DEF TypeOK, UndoFile, UndoRestore
<1>6. CASE RolledBack(p)
  <2>1. record' \in [Candidates -> Records]
    BY <1>0, <1>6, RecordSteps DEF RolledBack, TruncateRecord, FillRecord, RecordStates
  <2>2. proc' \in [Procs -> Frames]
    BY <1>1, <1>2, <1>6 DEF RolledBack, Steps
  <2>3. QED BY <1>6, <2>1, <2>2 DEF TypeOK, RolledBack, TruncateRecord, FillRecord
<1>7. CASE Crash(p)
  BY <1>2, <1>7 DEF TypeOK, Crash
<1>8. QED BY <1>4, <1>5, <1>6, <1>7

-----------------------------------------------------------------------------
(* What is never taken back.                                                 *)

\* A draft names its base for good, and a package, once there, keeps its
\* verdict: the output directory must be empty (evaluate).
LEMMA DocumentsStay ==
  ASSUME IndInv, [Next]_vars, NEW c \in Candidates
  PROVE  /\ drafted[c] # NoTree => drafted'[c] = drafted[c]
         /\ package[c].state # "none" =>
              /\ package'[c].state # "none" /\ package'[c].passed = package[c].passed
              /\ package[c].state = "sealed" => package'[c].state = "sealed"
         /\ approvals \subseteq approvals'
<1> USE DEF filesVars, operatorVars, controlVars
<1>0. /\ package \in [Candidates -> Packages] /\ proc \in [Procs -> Frames]
      /\ drafted \in [Candidates -> Trees \cup {NoTree}]
  BY DEF IndInv, TypeOK
<1>1. drafted[c] # NoTree => drafted'[c] = drafted[c]
  <2>1. (\E d \in Candidates : Draft(d)) \/ UNCHANGED drafted
    BY DEF Next, vars, Approve, EditByHand, KillSwitch, EvaluateRefused, Stage, Promote,
           Rollback, EvaluateVerdict, StageCopy, EvaluatorBreaks, SealPackage,
           PromoteMkdir, PromoteBackup, PromoteRecord, PromoteTruncate, PromoteWrite,
           PromoteApplied, TruncateRecord, FillRecord, UndoFile, UndoRestore,
           RolledBack, Crash
  <2>2. QED BY <1>0, <2>1 DEF Draft
<1>2. approvals \subseteq approvals'
  BY DEF Next, vars, Draft, Approve, EditByHand, KillSwitch, EvaluateRefused, Stage,
         Promote, Rollback, EvaluateVerdict, StageCopy, EvaluatorBreaks, SealPackage,
         PromoteMkdir, PromoteBackup, PromoteRecord, PromoteTruncate, PromoteWrite,
         PromoteApplied, TruncateRecord, FillRecord, UndoFile, UndoRestore, RolledBack,
         Crash
<1>3. \/ UNCHANGED package
      \/ \E p \in Procs : SealPackage(p)
      \/ \E p \in Procs, passed \in BOOLEAN : EvaluateVerdict(p, passed)
  BY DEF Next, vars, Draft, Approve, EditByHand, KillSwitch, EvaluateRefused, Stage,
         Promote, Rollback, StageCopy, EvaluatorBreaks, PromoteMkdir, PromoteBackup,
         PromoteRecord, PromoteTruncate, PromoteWrite, PromoteApplied, TruncateRecord,
         FillRecord, UndoFile, UndoRestore, RolledBack, Crash
<1>4. ASSUME NEW p \in Procs, SealPackage(p)
      PROVE  /\ package[c].state # "none" => package'[c].state # "none"
             /\ package'[c].passed = package[c].passed
             /\ package[c].state = "sealed" => package'[c].state = "sealed"
  <2>1. \/ UNCHANGED package
        \/ package' = [package EXCEPT ![proc[p].cand].state = "sealed"]
    BY <1>4 DEF SealPackage
  <2>2. package[c] \in [state : {"none", "open", "sealed"}, passed : BOOLEAN, policy : Data]
    BY <1>0 DEF Packages
  <2>3. package'[c] = package[c] \/ package'[c] = [package[c] EXCEPT !.state = "sealed"]
    BY <1>0, <2>1
  <2>4. QED BY <2>2, <2>3
<1>5. ASSUME NEW p \in Procs, NEW passed \in BOOLEAN, EvaluateVerdict(p, passed),
             package[c].state # "none"
      PROVE  package'[c] = package[c]
  <2>1. package[c] # NoPackage
    BY <1>5 DEF NoPackage
  <2>2. QED BY <1>0, <1>5, <2>1 DEF EvaluateVerdict
<1>6. QED BY <1>1, <1>2, <1>3, <1>4, <1>5

\* The steps that write a rollback directory: mkdir of a new one, the backup,
\* and the state of its record.
LEMMA RecordChanges ==
  ASSUME IndInv, [Next]_vars
  PROVE  \/ UNCHANGED record
         \/ \E p \in Procs : PromoteBackup(p)
         \/ \E p \in Procs :
              /\ proc[p].pc = "mkdir" /\ record[proc[p].cand] = NoRecord
              /\ record' = [record EXCEPT ![proc[p].cand].state = "made"]
         \/ \E p \in Procs, s \in RecordStates \ {"none", "made"} :
              /\ proc[p].pc \in {"open_record"} \cup Recorded \cup Undoing
              /\ record' = [record EXCEPT ![proc[p].cand].state = s]
<1> USE DEF filesVars, operatorVars, controlVars, RecordStates, At
<1>1. CASE \E p \in Procs : PromoteMkdir(p)
  BY <1>1 DEF PromoteMkdir
<1>2. CASE \E p \in Procs : PromoteRecord(p)
  BY <1>2 DEF PromoteRecord, TruncateRecord, FillRecord
<1>3. CASE \E p \in Procs : PromoteApplied(p)
  BY <1>3 DEF PromoteApplied, TruncateRecord, FillRecord
<1>4. CASE \E p \in Procs : RolledBack(p)
  BY <1>4 DEF RolledBack, TruncateRecord, FillRecord
<1>5. CASE UNCHANGED record \/ \E p \in Procs : PromoteBackup(p)
  BY <1>5
<1>6. QED
  BY <1>1, <1>2, <1>3, <1>4, <1>5
  DEF Next, vars, Draft, Approve, EditByHand, KillSwitch, EvaluateRefused, Stage,
      Promote, Rollback, EvaluateVerdict, StageCopy, EvaluatorBreaks, SealPackage,
      PromoteTruncate, PromoteWrite, UndoFile, UndoRestore, Crash

\* What promote backs up is what its candidate was drafted against.
LEMMA BackupBased ==
  ASSUME IndInv, NEW p \in Procs, PromoteBackup(p)
  PROVE  LET c == proc[p].cand IN
         /\ c \in Candidates
         /\ record'[c].state = record[c].state
         /\ record'[c].backup =
              [q \in Paths |-> IF Replaces(c, q) THEN proc[p].saved[q] ELSE Absent]
         /\ \A d \in Candidates : d # c => record'[d] = record[d]
         /\ drafted' = drafted /\ drafted[c] # NoTree
         /\ Clean(proc[p].saved) /\ Based(c, record'[c].backup)
<1> DEFINE c == proc[p].cand
           B == [q \in Paths |-> IF Replaces(c, q) THEN proc[p].saved[q] ELSE Absent]
<1>0. /\ proc \in [Procs -> Frames] /\ c \in Candidates
      /\ record \in [Candidates -> Records]
  BY FrameFields DEF IndInv, TypeOK
<1>1. /\ proc[p].saved \in Trees /\ Based(c, proc[p].saved) /\ Clean(proc[p].saved)
      /\ drafted[c] # NoTree
  BY DEF IndInv, ProcOK, PromoteBackup, At
<1>2. B \in Trees
  BY <1>1 DEF Trees, Data
<1>3. record' = [record EXCEPT ![c].backup = B]
  BY DEF PromoteBackup
<1>4. /\ record'[c].state = record[c].state /\ record'[c].backup = B
      /\ \A d \in Candidates : d # c => record'[d] = record[d]
  <2> HIDE DEF B, c
  <2>1. QED BY <1>0, <1>2, <1>3, RecordSteps
<1>5. Based(c, B)
  <2> SUFFICES ASSUME NEW i \in 1..Len(Mutations[c]), Mutations[c][i].operation = "replace"
               PROVE  B[Mutations[c][i].path] = drafted[c][Mutations[c][i].path]
    BY DEF Based
  <2>1. Mutations[c][i].path \in Paths /\ Replaces(c, Mutations[c][i].path)
    BY <1>0, MutationType DEF Replaces
  <2>2. B[Mutations[c][i].path] = proc[p].saved[Mutations[c][i].path]
    BY <2>1
  <2>3. QED BY <1>1, <2>2 DEF Based
<1>6. drafted' = drafted
  BY DEF PromoteBackup, operatorVars
<1>7. Based(c, record'[c].backup)
  BY <1>4, <1>5
<1>8. QED BY <1>0, <1>1, <1>4, <1>6, <1>7

\* A promotion that was recorded stays recorded, with its backup.
LEMMA RecordsStay ==
  ASSUME IndInv, [Next]_vars, NEW c \in Candidates
  PROVE  /\ Opened(c) => Opened(c)'
         /\ drafted[c] # NoTree /\ Based(c, record[c].backup) =>
              Based(c, record[c].backup)'
<1>0. /\ record \in [Candidates -> Records] /\ proc \in [Procs -> Frames]
      /\ \A p \in Procs : proc[p].cand \in Candidates
  BY FrameFields DEF IndInv, TypeOK
<1>1. drafted[c] # NoTree => drafted'[c] = drafted[c]
  BY DocumentsStay
<1>2. CASE UNCHANGED record
  BY <1>1, <1>2 DEF Opened, Based
<1>3. ASSUME NEW p \in Procs, PromoteBackup(p)
      PROVE  /\ Opened(c) => Opened(c)'
             /\ drafted[c] # NoTree /\ Based(c, record[c].backup) =>
                  Based(c, record[c].backup)'
  <2>1. CASE c = proc[p].cand
    <3>1. /\ record'[c].state = record[c].state /\ drafted' = drafted
          /\ Based(c, record'[c].backup)
      BY <1>3, <2>1, BackupBased
    <3>2. QED BY <3>1 DEF Opened, Based
  <2>2. CASE c # proc[p].cand
    <3>1. record'[c] = record[c]
      BY <1>3, <2>2, BackupBased
    <3>2. QED BY <1>1, <3>1 DEF Opened, Based
  <2>3. QED BY <2>1, <2>2
<1>4. ASSUME NEW p \in Procs, NEW s \in RecordStates,
             record' = [record EXCEPT ![proc[p].cand].state = s],
             s \in {"none", "made"} => record[proc[p].cand] = NoRecord
      PROVE  /\ Opened(c) => Opened(c)'
             /\ drafted[c] # NoTree /\ Based(c, record[c].backup) =>
                  Based(c, record[c].backup)'
  <2>1. /\ record'[c].backup = record[c].backup
        /\ record'[c].state = IF c = proc[p].cand THEN s ELSE record[c].state
    BY <1>0, <1>4, RecordSteps
  <2>2. Opened(c) => Opened(c)'
    BY <1>4, <2>1 DEF Opened, NoRecord
  <2>3. QED BY <1>1, <2>1, <2>2 DEF Based
<1>5. QED
  BY <1>2, <1>3, <1>4, RecordChanges DEF RecordStates

\* What promote checked, and the recovery data, are never taken back.
LEMMA LicensedStays ==
  ASSUME IndInv, [Next]_vars, NEW c \in Candidates
  PROVE  /\ Cleared(c) => Cleared(c)'
         /\ Licensed(c) => Licensed(c)'
<1>1. Cleared(c) => Cleared(c)'
  BY DocumentsStay DEF Cleared
<1>2. Cleared(c) => drafted[c] # NoTree
  BY DEF Cleared, IndInv, FilesOK
<1>3. QED BY <1>1, <1>2, RecordsStay DEF Licensed

\* A tree held in memory or on disk that was clean is clean after the step.
LEMMA CleanStays ==
  ASSUME IndInv, [Next]_vars, NEW tree, Clean(tree)
  PROVE  Clean(tree)'
  BY LicensedStays DEF Clean

\* What an invocation knows is not undone by a step, its own or another's.
LEMMA ProcStays ==
  ASSUME IndInv, [Next]_vars, NEW f, f.cand \in Candidates, ProcOK(f)
  PROVE  ProcOK(f)'
<1> DEFINE c == f.cand
<1>1. /\ drafted[c] # NoTree => drafted'[c] = drafted[c]
      /\ package[c].state # "none" => package'[c].state # "none"
  BY DocumentsStay
<1>2. /\ Opened(c) => Opened(c)'
      /\ drafted[c] # NoTree /\ Based(c, record[c].backup) => Based(c, record[c].backup)'
  BY RecordsStay
<1>3. Cleared(c) => Cleared(c)'
  BY LicensedStays
<1>4. Clean(f.saved) => Clean(f.saved)'
  BY CleanStays
<1>5. drafted[c] # NoTree /\ Based(c, f.saved) => Based(c, f.saved)'
  BY <1>1 DEF Based
<1>6. QED BY <1>1, <1>2, <1>3, <1>4, <1>5 DEF ProcOK

-----------------------------------------------------------------------------
(* The files.                                                                *)

\* Where the contents of the live tree come from.
LEMMA LiveSources ==
  ASSUME IndInv, [Next]_vars, NEW q \in Paths
  PROVE  \/ live'[q] = live[q]
         \/ live'[q] \in Human \cup {Absent, Torn}
         \/ \E c \in Candidates : live'[q] = record[c].backup[q]
         \/ \E p \in Procs : /\ proc[p].pc = "write" /\ q = Mutation(p).path
                             /\ live'[q] = Mutation(p).content
<1> USE DEF filesVars, operatorVars, controlVars
<1>0. /\ live \in [Paths -> Data] /\ proc \in [Procs -> Frames]
      /\ \A p \in Procs : proc[p].cand \in Candidates
  BY FrameFields DEF IndInv, TypeOK, Trees
<1>1. CASE \E r \in Paths, d \in Human : EditByHand(r, d)
  BY <1>0, <1>1 DEF EditByHand
<1>2. ASSUME NEW p \in Procs, PromoteTruncate(p)
      PROVE  live'[q] = live[q] \/ live'[q] = Torn
  BY <1>0, <1>2 DEF PromoteTruncate
<1>3. ASSUME NEW p \in Procs, PromoteWrite(p)
      PROVE  \/ live'[q] = live[q]
             \/ /\ proc[p].pc = "write" /\ q = Mutation(p).path
                /\ live'[q] = Mutation(p).content
  BY <1>0, <1>3 DEF PromoteWrite, At
<1>4. ASSUME NEW p \in Procs, UndoFile(p)
      PROVE  live'[q] = live[q] \/ live'[q] \in {Absent, Torn}
  BY <1>0, <1>4 DEF UndoFile
<1>5. ASSUME NEW p \in Procs, UndoRestore(p)
      PROVE  live'[q] = live[q] \/ live'[q] = record[proc[p].cand].backup[q]
  BY <1>0, <1>5 DEF UndoRestore
<1>6. CASE UNCHANGED live
  BY <1>6
<1>7. QED
  BY <1>0, <1>1, <1>2, <1>3, <1>4, <1>5, <1>6
  DEF Next, vars, Draft, Approve, KillSwitch, EvaluateRefused, Stage, Promote,
      Rollback, EvaluateVerdict, StageCopy, EvaluatorBreaks, SealPackage, PromoteMkdir,
      PromoteBackup, PromoteRecord, PromoteApplied, TruncateRecord, FillRecord,
      RolledBack, Crash

\* The live tree stays clean: a candidate's bytes are written by its own
\* promotion or restored from a backup that was clean (promote, rollback).
LEMMA LiveClean == ASSUME IndInv, [Next]_vars PROVE Clean(live)'
<1> SUFFICES ASSUME DistinctBytes, NEW c \in Candidates, NEW i \in 1..Len(Mutations[c]),
                    live'[Mutations[c][i].path] = Mutations[c][i].content
             PROVE  Licensed(c)'
  BY DEF Clean
<1> DEFINE q == Mutations[c][i].path
<1>0. /\ q \in Paths /\ Mutations[c][i].content \in Contents
      /\ Mutations[c][i].content \notin Human \cup {Absent, Torn}
  BY MutationType, ContentsAssumption DEF DistinctBytes
<1>1. SUFFICES Licensed(c)
  BY LicensedStays
<1>2. CASE live'[q] = live[q]
  BY <1>2 DEF IndInv, FilesOK, Clean
<1>3. CASE \E d \in Candidates : live'[q] = record[d].backup[q]
  BY <1>3 DEF IndInv, FilesOK, Clean
<1>4. ASSUME NEW p \in Procs, proc[p].pc = "write", q = Mutation(p).path,
             live'[q] = Mutation(p).content
      PROVE  Licensed(c)
  <2>1. proc[p].cand \in Candidates /\ proc[p].i \in 1..Len(Mutations[proc[p].cand])
    BY <1>4, FrameFields DEF IndInv, TypeOK, ProcOK
  <2>2. proc[p].cand = c
    BY <1>4, <2>1 DEF DistinctBytes, Mutation
  <2>3. QED BY <1>4, <2>2 DEF IndInv, ProcOK, Licensed
<1>5. QED BY <1>0, <1>2, <1>3, <1>4, LiveSources

\* Backups stay clean and those of recorded promotions complete; packages
\* belong to drafts (promote, evaluate).
LEMMA FilesKept == ASSUME IndInv, [Next]_vars PROVE FilesOK'
<1>0. /\ record \in [Candidates -> Records] /\ proc \in [Procs -> Frames]
      /\ package \in [Candidates -> Packages]
      /\ \A p \in Procs : proc[p].cand \in Candidates
  BY FrameFields DEF IndInv, TypeOK
<1>1. ASSUME NEW c \in Candidates
      PROVE  Clean(record[c].backup)'
  <2>1. CASE record'[c].backup = record[c].backup
    <3>1. PICK t : t = record[c].backup
      OBVIOUS
    <3>2. Clean(t)'
      BY <3>1, CleanStays DEF IndInv, FilesOK
    <3>3. QED BY <2>1, <3>1, <3>2
  <2>2. ASSUME NEW p \in Procs, PromoteBackup(p), c = proc[p].cand
        PROVE  Clean(record[c].backup)'
    <3> SUFFICES ASSUME DistinctBytes, NEW d \in Candidates, NEW i \in 1..Len(Mutations[d]),
                        record'[c].backup[Mutations[d][i].path] = Mutations[d][i].content
                 PROVE  Licensed(d)'
      BY DEF Clean
    <3>1. Mutations[d][i].path \in Paths /\ Mutations[d][i].content # Absent
      BY MutationType, ContentsAssumption
    <3>2. /\ record'[c].backup =
               [q \in Paths |-> IF Replaces(c, q) THEN proc[p].saved[q] ELSE Absent]
          /\ Clean(proc[p].saved)
      BY <2>2, BackupBased
    <3>3. proc[p].saved[Mutations[d][i].path] = Mutations[d][i].content
      BY <3>1, <3>2
    <3>4. QED BY <3>2, <3>3, LicensedStays DEF Clean
  <2>3. ASSUME NEW p \in Procs, NEW s \in RecordStates,
               record' = [record EXCEPT ![proc[p].cand].state = s]
        PROVE  record'[c].backup = record[c].backup
    BY <1>0, <2>3, RecordSteps
  <2>4. ASSUME NEW p \in Procs, PromoteBackup(p), c # proc[p].cand
        PROVE  record'[c].backup = record[c].backup
    BY <2>4, BackupBased
  <2>5. QED BY <2>1, <2>2, <2>3, <2>4, RecordChanges DEF RecordStates
<1>2. ASSUME NEW c \in Candidates, Opened(c)'
      PROVE  drafted'[c] # NoTree /\ Based(c, record[c].backup)'
  <2>1. SUFFICES drafted[c] # NoTree /\ Based(c, record[c].backup)
    BY DocumentsStay, RecordsStay
  <2>2. CASE Opened(c)
    BY <2>2 DEF IndInv, FilesOK
  <2>3. CASE ~Opened(c)
    <3>1. \E p \in Procs : /\ proc[p].pc \in {"open_record"} \cup Recorded \cup Undoing
                           /\ proc[p].cand = c
      <4>1. record'[c].state # record[c].state /\ record'[c].state # "made"
        BY <1>2, <2>3 DEF Opened
      <4>2. ASSUME NEW p \in Procs, NEW s \in RecordStates,
                   record' = [record EXCEPT ![proc[p].cand].state = s]
            PROVE  proc[p].cand = c /\ s # "made"
        BY <1>0, <4>1, <4>2, RecordSteps
      <4>3. ASSUME NEW p \in Procs, PromoteBackup(p)
            PROVE  record'[c].state = record[c].state
        BY <4>3, BackupBased
      <4>4. QED BY <4>1, <4>2, <4>3, RecordChanges DEF RecordStates
    <3>2. PICK p \in Procs : /\ proc[p].pc \in {"open_record"} \cup Recorded \cup Undoing
                             /\ proc[p].cand = c
      BY <3>1
    <3>3. proc[p].pc = "open_record"
      BY <2>3, <3>2 DEF IndInv, ProcOK
    <3>4. QED BY <3>2, <3>3 DEF IndInv, ProcOK
  <2>4. QED BY <2>2, <2>3
<1>3. ASSUME NEW c \in Candidates, package'[c].state # "none"
      PROVE  drafted'[c] # NoTree
  <2>1. SUFFICES drafted[c] # NoTree
    BY DocumentsStay
  <2>2. CASE package[c].state # "none"
    BY <2>2 DEF IndInv, FilesOK
  <2>3. CASE package[c].state = "none"
    <3>1. package'[c] # package[c]
      BY <1>3, <2>3
    <3>2. ASSUME NEW p \in Procs, SealPackage(p)
          PROVE  proc[p].cand = c /\ proc[p].pc = "seal"
      BY <1>0, <3>1, <3>2 DEF SealPackage, At
    <3>3. ASSUME NEW p \in Procs, NEW passed \in BOOLEAN, EvaluateVerdict(p, passed)
          PROVE  proc[p].cand = c /\ proc[p].pc = "evaluate"
      BY <1>0, <3>1, <3>3 DEF EvaluateVerdict, At
    <3>4. \E p \in Procs : proc[p].cand = c /\ proc[p].pc \in {"evaluate", "seal"}
      BY <3>1, <3>2, <3>3
      DEF Next, vars, filesVars, Draft, Approve, EditByHand, KillSwitch, EvaluateRefused,
          Stage, Promote, Rollback, StageCopy, EvaluatorBreaks, PromoteMkdir,
          PromoteBackup, PromoteRecord, PromoteTruncate, PromoteWrite, PromoteApplied,
          TruncateRecord, FillRecord, UndoFile, UndoRestore, RolledBack, Crash
    <3>5. QED BY <3>4 DEF IndInv, ProcOK
  <2>4. QED BY <2>2, <2>3
<1>4. QED BY <1>1, <1>2, <1>3, LiveClean DEF FilesOK

-----------------------------------------------------------------------------
(* The invocations.                                                          *)

\* An invocation at rest knows nothing, so a crash or an exception is safe.
LEMMA RestOK == ProcOK(AtRest)'
  BY AtRestType DEF ProcOK

\* An invocation that starts has checked what its steps rely on (promote,
\* rollback, stage).
LEMMA StartsOK ==
  ASSUME IndInv, [Next]_vars, NEW p \in Procs, NEW c \in Candidates,
         Stage(p, c) \/ Promote(p, c) \/ Rollback(p, c)
  PROVE  ProcOK(proc[p])'
<1> USE DEF filesVars, operatorVars, controlVars
<1>0. proc \in [Procs -> Frames] /\ live \in Trees
      /\ drafted \in [Candidates -> Trees \cup {NoTree}]
  BY DEF IndInv, TypeOK
<1>1. CASE Stage(p, c)
  <2>1. \/ proc'[p] = AtRest
        \/ proc'[p] = [pc |-> "copy", cand |-> c, i |-> 0, saved |-> NoTree]
    BY <1>0, <1>1, FrameSteps DEF Stage, EvaluationFails, Steps
  <2>2. drafted'[c] # NoTree
    BY <1>1 DEF Stage
  <2>3. CASE proc'[p] = AtRest
    BY <2>3, RestOK
  <2>4. CASE proc'[p] = [pc |-> "copy", cand |-> c, i |-> 0, saved |-> NoTree]
    BY <2>2, <2>4 DEF ProcOK
  <2>5. QED BY <2>1, <2>3, <2>4
<1>2. CASE Promote(p, c)
  <2>1. proc'[p] = [pc |-> "mkdir", cand |-> c, i |-> 0, saved |-> live]
    BY <1>0, <1>2, FrameSteps DEF Promote, Steps
  <2>2. Cleared(c)
    BY <1>2 DEF Promote, Promotable, verify_evolution_package, verify_evolution_approval,
                validate_candidate, Cleared
  <2>3. drafted[c] # NoTree
    BY <2>2 DEF IndInv, FilesOK, Cleared
  <2>4. Based(c, live)
    BY <1>2 DEF Promote, Promotable, AllFit, Fits, Based
  <2>5. PICK f : f = [pc |-> "mkdir", cand |-> c, i |-> 0, saved |-> live]
    OBVIOUS
  <2>6. ProcOK(f)
    BY <1>0, <2>2, <2>3, <2>4, <2>5 DEF ProcOK, IndInv, FilesOK
  <2>7. QED BY <2>1, <2>5, <2>6, ProcStays
<1>3. CASE Rollback(p, c)
  <2>1. proc'[p] = [pc |-> "undo", cand |-> c, i |-> 1, saved |-> NoTree]
    <3>1. "undo" \in Steps /\ 1 \in Nat /\ NoTree \in Trees \cup {NoTree}
      BY DEF Steps
    <3>2. Enter(p, "undo", c, 1, NoTree)
      BY <1>3 DEF Rollback
    <3>3. QED BY <1>0, <3>1, <3>2, FrameSteps
  <2>2. Opened(c)'
    BY <1>3 DEF Rollback, Readable, Opened
  <2>3. 1 \in 1..Len(Mutations[c])
    BY MutationCount
  <2>4. QED BY <2>1, <2>2, <2>3 DEF ProcOK
<1>4. QED BY <1>1, <1>2, <1>3

\* A frame that differs from one of the same invocation in its place only.
LEMMA MovedOK ==
  ASSUME IndInv, [Next]_vars, NEW p \in Procs, NEW pc \in Steps, Goto(p, pc)
  PROVE  /\ proc'[p].pc = pc /\ proc'[p].cand = proc[p].cand
         /\ proc'[p].i = proc[p].i /\ proc'[p].saved = proc[p].saved
         /\ proc[p].cand \in Candidates
         /\ \E f : f = proc[p] /\ ProcOK(f) /\ ProcOK(f)'
<1>0. proc \in [Procs -> Frames]
  BY DEF IndInv, TypeOK
<1>1. /\ proc'[p].pc = pc /\ proc'[p].cand = proc[p].cand
      /\ proc'[p].i = proc[p].i /\ proc'[p].saved = proc[p].saved
      /\ proc[p].cand \in Candidates
  BY <1>0, FrameSteps, FrameFields
<1>2. PICK f : f = proc[p]
  OBVIOUS
<1>3. ProcOK(f) /\ ProcOK(f)'
  BY <1>1, <1>2, ProcStays DEF IndInv
<1>4. QED BY <1>1, <1>2, <1>3

\* The steps of an evaluation hand on the draft (stage, evaluate).
LEMMA EvaluateOK ==
  ASSUME IndInv, [Next]_vars, NEW p \in Procs,
         \/ \E c \in Candidates : EvaluateRefused(p, c)
         \/ \E passed \in BOOLEAN : EvaluateVerdict(p, passed)
         \/ StageCopy(p) \/ EvaluatorBreaks(p) \/ SealPackage(p) \/ Crash(p)
  PROVE  ProcOK(proc[p])'
<1>0. proc \in [Procs -> Frames] /\ package \in [Candidates -> Packages]
      /\ proc[p].cand \in Candidates
  BY FrameFields DEF IndInv, TypeOK
<1>1. CASE Leave(p)
  BY <1>0, <1>1, FrameSteps, RestOK
<1>2. CASE StageCopy(p) /\ Goto(p, "evaluate")
  <2>1. PICK f : f = proc[p] /\ ProcOK(f) /\ ProcOK(f)'
    BY <1>2, MovedOK DEF Steps
  <2>2. proc'[p].pc = "evaluate" /\ proc'[p].cand = f.cand /\ f.pc = "copy"
    BY <1>2, <2>1, MovedOK DEF Steps, StageCopy, At
  <2>3. QED BY <2>1, <2>2 DEF ProcOK
<1>3. ASSUME NEW passed \in BOOLEAN, EvaluateVerdict(p, passed), Goto(p, "seal")
      PROVE  ProcOK(proc[p])'
  <2>1. PICK f : f = proc[p] /\ ProcOK(f) /\ ProcOK(f)'
    BY <1>3, MovedOK DEF Steps
  <2>2. proc'[p].pc = "seal" /\ proc'[p].cand = f.cand /\ f.pc = "evaluate"
    BY <1>3, <2>1, MovedOK DEF Steps, EvaluateVerdict, At
  <2>3. package'[f.cand].state # "none"
    <3>1. CASE package[f.cand] = NoPackage
      BY <1>0, <1>3, <2>1, <3>1 DEF EvaluateVerdict, EvaluationFails
    <3>2. CASE package[f.cand] # NoPackage
      <4>1. Leave(p)
        BY <1>3, <2>1, <3>2 DEF EvaluateVerdict, EvaluationFails
      <4>2. proc'[p].pc = "idle"
        BY <1>0, <4>1, FrameSteps, AtRestType
      <4>3. QED BY <2>2, <4>2
    <3>3. QED BY <3>1, <3>2
  <2>4. QED BY <2>1, <2>2, <2>3 DEF ProcOK
<1>4. QED
  BY <1>1, <1>2, <1>3
  DEF EvaluateRefused, EvaluateVerdict, StageCopy, EvaluatorBreaks, SealPackage, Crash,
      EvaluationFails

\* Each step of promote leaves the next one what it relies on: the backup
\* before the record, the record before the first live write.
LEMMA PromoteOK ==
  ASSUME IndInv, [Next]_vars, NEW p \in Procs,
         \/ PromoteMkdir(p) \/ PromoteBackup(p) \/ PromoteRecord(p)
         \/ PromoteTruncate(p) \/ PromoteWrite(p) \/ PromoteApplied(p)
  PROVE  ProcOK(proc[p])'
<1> USE DEF At
<1>0. /\ proc \in [Procs -> Frames] /\ proc[p].cand \in Candidates /\ proc[p].i \in Nat
      /\ record \in [Candidates -> Records]
  BY FrameFields DEF IndInv, TypeOK
<1>1. PICK f : f = proc[p]
  OBVIOUS
<1>2. ProcOK(f) /\ ProcOK(f)'
  BY <1>0, <1>1, ProcStays DEF IndInv
<1>3. CASE Leave(p)
  BY <1>0, <1>3, FrameSteps, RestOK
<1>4. ASSUME NEW pc \in Steps, Goto(p, pc)
      PROVE  /\ proc'[p].pc = pc /\ proc'[p].cand = f.cand
             /\ proc'[p].i = f.i /\ proc'[p].saved = f.saved
  BY <1>0, <1>1, <1>4, FrameSteps
<1>5. CASE PromoteMkdir(p) /\ Goto(p, "backup")
  <2>1. proc'[p].pc = "backup" /\ f.pc = "mkdir"
    BY <1>1, <1>4, <1>5 DEF PromoteMkdir, Steps
  <2>2. QED BY <1>2, <1>4, <1>5, <2>1 DEF ProcOK, Steps
<1>6. CASE PromoteBackup(p)
  <2>1. /\ proc'[p].pc = "open_record" /\ f.pc = "backup" /\ proc'[p].cand = f.cand
        /\ proc'[p].i = f.i /\ proc'[p].saved = f.saved
    BY <1>1, <1>4, <1>6 DEF PromoteBackup, Steps
  <2>2. Based(f.cand, record[f.cand].backup)'
    <3>1. drafted' = drafted /\ Based(f.cand, record'[f.cand].backup)
      BY <1>1, <1>6, BackupBased
    <3>2. QED BY <3>1 DEF Based
  <2>3. QED BY <1>2, <2>1, <2>2 DEF ProcOK
<1>7. CASE PromoteRecord(p)
  <2>1. /\ f.pc \in {"open_record", "prepare"} /\ proc'[p].pc \in {"prepare", "truncate"}
        /\ proc'[p].cand = f.cand /\ proc'[p].saved = f.saved
        /\ proc'[p].pc = "truncate" => proc'[p].i = 1
    <3>1. CASE At(p, "open_record") /\ Goto(p, "prepare")
      BY <1>1, <1>4, <3>1 DEF Steps
    <3>2. CASE At(p, "prepare") /\ Enter(p, "truncate", proc[p].cand, 1, proc[p].saved)
      <4>1. "truncate" \in Steps /\ 1 \in Nat /\ proc[p].saved \in Trees \cup {NoTree}
        BY <1>0, FrameFields DEF Steps
      <4>2. proc'[p] = [pc |-> "truncate", cand |-> proc[p].cand, i |-> 1,
                        saved |-> proc[p].saved]
        BY <1>0, <3>2, <4>1, FrameSteps
      <4>3. QED BY <1>1, <3>2, <4>2
    <3>3. QED BY <1>7, <3>1, <3>2 DEF PromoteRecord
  <2>2. Opened(f.cand)'
    <3>1. record'[f.cand].state \in {"torn", "prepared"}
      BY <1>0, <1>1, <1>7, RecordSteps
      DEF PromoteRecord, TruncateRecord, FillRecord, RecordStates
    <3>2. QED BY <3>1 DEF Opened
  <2>3. 1 \in 1..Len(Mutations[f.cand])
    BY <1>0, <1>1, MutationCount
  <2>4. QED BY <1>2, <2>1, <2>2, <2>3 DEF ProcOK
<1>8. CASE PromoteTruncate(p)
  <2>1. /\ proc'[p].pc = "write" /\ f.pc = "truncate" /\ proc'[p].cand = f.cand
        /\ proc'[p].i = f.i /\ proc'[p].saved = f.saved
    BY <1>1, <1>4, <1>8 DEF PromoteTruncate, Steps
  <2>2. QED BY <1>2, <2>1 DEF ProcOK
<1>9. CASE PromoteWrite(p)
  <2>1. f.pc = "write" /\ f.i \in 1..Len(Mutations[f.cand])
    BY <1>1, <1>2, <1>9 DEF PromoteWrite, ProcOK
  <2>2. CASE Goto(p, "reopen")
    <3>1. /\ proc'[p].pc = "reopen" /\ proc'[p].cand = f.cand
          /\ proc'[p].saved = f.saved
      BY <1>4, <2>2 DEF Steps
    <3>2. QED BY <1>2, <2>1, <3>1 DEF ProcOK
  <2>3. CASE /\ f.i # Len(Mutations[f.cand])
             /\ Enter(p, "truncate", f.cand, f.i + 1, f.saved)
    <3>1. "truncate" \in Steps /\ f.i + 1 \in Nat /\ f.saved \in Trees \cup {NoTree}
      BY <1>0, <1>1, FrameFields DEF Steps
    <3>2. proc'[p] = [pc |-> "truncate", cand |-> f.cand, i |-> f.i + 1, saved |-> f.saved]
      BY <1>0, <1>1, <2>3, <3>1, FrameSteps
    <3>3. f.i + 1 \in 1..Len(Mutations[f.cand])
      BY <1>0, <1>1, <2>1, <2>3, MutationCount
    <3>4. QED BY <1>2, <2>1, <3>2, <3>3 DEF ProcOK
  <2>4. QED BY <1>1, <1>9, <2>2, <2>3 DEF PromoteWrite, Last
<1>10. CASE PromoteApplied(p) /\ Goto(p, "apply")
  <2>1. /\ f.pc = "reopen" /\ proc'[p].pc = "apply" /\ proc'[p].cand = f.cand
        /\ proc'[p].saved = f.saved
    <3>1. proc'[p].pc = "apply" /\ proc'[p].cand = f.cand /\ proc'[p].saved = f.saved
      BY <1>4, <1>10 DEF Steps
    <3>2. CASE Leave(p)
      BY <1>0, <3>1, <3>2, FrameSteps, AtRestType
    <3>3. QED BY <1>1, <1>10, <3>1, <3>2 DEF PromoteApplied
  <2>2. QED BY <1>2, <2>1 DEF ProcOK
<1>11. QED
  BY <1>3, <1>5, <1>6, <1>7, <1>8, <1>9, <1>10 DEF PromoteMkdir, PromoteApplied

\* rollback works on a recorded promotion, file by file.
LEMMA RollbackOK ==
  ASSUME IndInv, [Next]_vars, NEW p \in Procs,
         UndoFile(p) \/ UndoRestore(p) \/ RolledBack(p)
  PROVE  ProcOK(proc[p])'
<1> USE DEF At
<1>0. /\ proc \in [Procs -> Frames] /\ proc[p].cand \in Candidates /\ proc[p].i \in Nat
  BY FrameFields DEF IndInv, TypeOK
<1>1. PICK f : f = proc[p]
  OBVIOUS
<1>2. ProcOK(f) /\ ProcOK(f)'
  BY <1>0, <1>1, ProcStays DEF IndInv
<1>3. CASE Leave(p)
  BY <1>0, <1>3, FrameSteps, RestOK
<1>4. f.pc \in Undoing
  BY <1>1 DEF UndoFile, UndoRestore, RolledBack
<1>5. ASSUME NEW pc \in {"restore", "close", "rolled"}, Goto(p, pc),
             pc = "restore" => f.pc = "undo"
      PROVE  ProcOK(proc[p])'
  <2>1. proc'[p].pc = pc /\ proc'[p].cand = f.cand /\ proc'[p].i = f.i
    BY <1>0, <1>1, <1>5, FrameSteps DEF Steps
  <2>2. QED BY <1>2, <1>4, <1>5, <2>1 DEF ProcOK
<1>6. CASE f.pc \in {"undo", "restore"} /\ NextUndo(p)
  <2>1. f.i \in 1..Len(Mutations[f.cand])
    BY <1>2, <1>6 DEF ProcOK
  <2>2. CASE f.i # Len(Mutations[f.cand]) /\ Enter(p, "undo", f.cand, f.i + 1, NoTree)
    <3>1. "undo" \in Steps /\ f.i + 1 \in Nat /\ NoTree \in Trees \cup {NoTree}
      BY <1>0, <1>1 DEF Steps
    <3>2. proc'[p] = [pc |-> "undo", cand |-> f.cand, i |-> f.i + 1, saved |-> NoTree]
      BY <1>0, <1>1, <2>2, <3>1, FrameSteps
    <3>3. f.i + 1 \in 1..Len(Mutations[f.cand])
      BY <1>0, <1>1, <2>1, <2>2, MutationCount
    <3>4. QED BY <1>2, <1>4, <3>2, <3>3 DEF ProcOK
  <2>3. QED BY <1>1, <1>5, <1>6, <2>2 DEF NextUndo, Last
<1>7. QED BY <1>1, <1>3, <1>5, <1>6 DEF UndoFile, UndoRestore, RolledBack

\* Every step keeps the inductive invariant.
LEMMA NextInd == ASSUME IndInv, [Next]_vars PROVE IndInv'
<1>0. proc \in [Procs -> Frames] /\ \A p \in Procs : ProcOK(proc[p])
  BY DEF IndInv, TypeOK
<1>1. TypeOK'
  <2>1. CASE UNCHANGED vars
    BY <2>1 DEF IndInv, TypeOK, vars, filesVars, controlVars, operatorVars
  <2>2. QED
    BY <1>0, <2>1, PeopleTypes, EvaluateTypes, PromoteTypes, RollbackTypes DEF IndInv, Next
<1>2. ASSUME NEW q \in Procs, proc'[q] = proc[q]
      PROVE  ProcOK(proc[q])'
  <2>1. PICK f : f = proc[q]
    OBVIOUS
  <2>2. ProcOK(f)'
    BY <1>0, <2>1, FrameFields, ProcStays
  <2>3. QED BY <1>2, <2>1, <2>2
<1>3. ASSUME NEW p \in Procs, ProcOK(proc[p])',
             \A q \in Procs : q # p => proc'[q] = proc[q]
      PROVE  \A q \in Procs : ProcOK(proc[q])'
  BY <1>2, <1>3
<1>4. ASSUME UNCHANGED proc
      PROVE  \A q \in Procs : ProcOK(proc[q])'
  BY <1>2, <1>4
<1>5. ASSUME NEW p \in Procs,
             \/ \E c \in Candidates : \/ EvaluateRefused(p, c) \/ Stage(p, c)
                                      \/ Promote(p, c) \/ Rollback(p, c)
             \/ \E passed \in BOOLEAN : EvaluateVerdict(p, passed)
             \/ StageCopy(p) \/ EvaluatorBreaks(p) \/ SealPackage(p)
             \/ PromoteMkdir(p) \/ PromoteBackup(p) \/ PromoteRecord(p)
             \/ PromoteTruncate(p) \/ PromoteWrite(p) \/ PromoteApplied(p)
             \/ UndoFile(p) \/ UndoRestore(p) \/ RolledBack(p) \/ Crash(p)
      PROVE  \A q \in Procs : ProcOK(proc[q])'
  <2>1. ProcOK(proc[p])'
    BY <1>5, StartsOK, EvaluateOK, PromoteOK, RollbackOK
  <2>2. \A q \in Procs : q # p => proc'[q] = proc[q]
    BY <1>0, <1>5
    DEF Enter, Goto, Leave, NextUndo, EvaluationFails, EvaluateRefused, Stage, Promote,
        Rollback, EvaluateVerdict, StageCopy, EvaluatorBreaks, SealPackage, PromoteMkdir,
        PromoteBackup, PromoteRecord, PromoteTruncate, PromoteWrite, PromoteApplied,
        UndoFile, UndoRestore, RolledBack, Crash
  <2>3. QED BY <1>3, <2>1, <2>2
<1>6. \A q \in Procs : ProcOK(proc[q])'
  BY <1>4, <1>5 DEF Next, vars, Draft, Approve, EditByHand, KillSwitch
<1>7. QED BY <1>1, <1>6, FilesKept DEF IndInv

\* Nothing is drafted, packaged or promoted at the start (Init).
LEMMA InitInd == ASSUME Init PROVE IndInv
<1>1. Clean(live)
  BY DEF Init, Clean, DistinctBytes
<1>2. ASSUME NEW c \in Candidates
      PROVE  Clean(record[c].backup) /\ ~Opened(c) /\ package[c].state = "none"
  <2>1. record[c] = NoRecord /\ package[c] = NoPackage
    BY DEF Init
  <2>2. Clean(record[c].backup)
    <3>1. \A q \in Paths : record[c].backup[q] = Absent
      BY <2>1 DEF NoRecord
    <3>2. QED BY <3>1, MutationType, ContentsAssumption DEF Clean
  <2>3. QED BY <2>1, <2>2 DEF Opened, NoRecord, NoPackage
<1>3. \A p \in Procs : ProcOK(proc[p])
  BY AtRestType DEF Init, ProcOK
<1>4. QED BY <1>1, <1>2, <1>3, InitTypes DEF IndInv, FilesOK

-----------------------------------------------------------------------------
(* The theorems.                                                             *)

\* The inductive invariant holds throughout, for any number of invocations.
THEOREM IndInvAlways == Spec => []IndInv
<1>1. Init => IndInv
  BY InitInd
<1>2. IndInv /\ [Next]_vars => IndInv'
  BY NextInd
<1>3. QED BY <1>1, <1>2, PTL DEF Spec

\* A candidate's bytes are in the live tree only at an allowed path, out of a
\* sealed package that passed and with the operator's approval, also when any
\* number of invocations overlap (promote, rollback).
THEOREM OnlyApprovedAlways == ASSUME DistinctBytes PROVE Spec => []OnlyApproved
<1>1. IndInv => OnlyApproved
  BY DEF IndInv, FilesOK, Clean, Licensed, Cleared, OnlyApproved, InPlace
<1>2. QED BY <1>1, IndInvAlways, PTL

\* While a promoted replacement is in place, the rollback directory holds the
\* bytes it replaced (promote backs up and records first).
THEOREM RecoveryFirstAlways == ASSUME DistinctBytes PROVE Spec => []RecoveryFirst
<1>1. IndInv => RecoveryFirst
  BY DEF IndInv, FilesOK, Clean, Licensed, Opened, Based, RecoveryFirst, InPlace
<1>2. QED BY <1>1, IndInvAlways, PTL

-----------------------------------------------------------------------------
(* One invocation at a time: what promote leaves is what was evaluated, and  *)
(* what rollback leaves is what was there before.                            *)

\* The operator starts no invocation before the last one ended or died.
OneAtATime == \A p, q \in Procs : p = q

Mutates(c, q) == \E i \in 1..Len(Mutations[c]) : Mutations[c][i].path = q

\* The workspace w of c is its base b with the mutations, as far as the digest
\* looks.
Evaluated(c, w, b) ==
  w \in Trees /\ b \in Trees /\ \A q \in Paths \ Excluded : w[q] = Mutated(c, b)[q]

\* The tree t is the base b where c changes nothing.
Untouched(c, t, b) == \A q \in Paths \ Excluded : ~Mutates(c, q) => t[q] = b[q]

\* The mutations before the n-th are in the tree t.
Written(c, t, n) ==
  \A j \in 1..Len(Mutations[c]) : j < n => t[Mutations[c][j].path] = Mutations[c][j].content

\* The files of the mutations before the n-th are as in the base b.
Restored(c, t, b, n) ==
  \A j \in 1..Len(Mutations[c]) :
    j < n => t[Mutations[c][j].path] =
               IF Mutations[c][j].operation = "create" THEN Absent ELSE b[Mutations[c][j].path]

\* What an invocation f on a tree t, a base b and a workspace w has done so far.
FlowOK(f, t, b, w) ==
  LET c == f.cand  end == Len(Mutations[f.cand]) + 1 IN
  /\ f.pc = "copy" => \A q \in Paths \ Excluded : t[q] = b[q]
  /\ f.pc \in {"evaluate", "seal"} => Evaluated(c, w, b)
  /\ f.pc \in Promoting => Untouched(c, t, b)
  /\ f.pc \in {"truncate", "write"} => Written(c, t, f.i)
  /\ f.pc \in {"reopen", "apply"} => Written(c, t, end)
  /\ f.pc \in {"undo", "restore"} => Restored(c, t, b, f.i)
  /\ f.pc = "restore" => Mutations[c][f.i].operation = "replace"
  /\ f.pc \in {"close", "rolled"} => Restored(c, t, b, end)

\* Every package is that of an evaluated workspace, and every invocation has
\* kept to its flow.
FlowInv ==
  /\ \A c \in Candidates : package[c].state # "none" => Evaluated(c, work[c], drafted[c])
  /\ \A p \in Procs : FlowOK(proc[p], live, drafted[proc[p].cand], work[proc[p].cand])

\* A file of the staged copy: the content of its mutation, if it has one.
LEMMA MutatedAt ==
  ASSUME NEW c \in Candidates, NEW q \in Paths, NEW tree
  PROVE  /\ \A i \in 1..Len(Mutations[c]) :
              Mutations[c][i].path = q => Mutated(c, tree)[q] = Mutations[c][i].content
         /\ ~Mutates(c, q) => Mutated(c, tree)[q] = tree[q]
<1> DEFINE k == CHOOSE i \in 1..Len(Mutations[c]) : Mutations[c][i].path = q
<1>1. Mutated(c, tree)[q] = IF Mutates(c, q) THEN Mutations[c][k].content ELSE tree[q]
  BY DEF Mutated, Mutates
<1>2. ASSUME NEW i \in 1..Len(Mutations[c]), Mutations[c][i].path = q
      PROVE  k = i
  <2>1. k \in 1..Len(Mutations[c]) /\ Mutations[c][k].path = q
    BY <1>2
  <2>2. QED BY <1>2, <2>1, MutationsAssumption
<1> HIDE DEF k
<1>3. QED BY <1>1, <1>2 DEF Mutates

\* An invocation at work has a candidate with a base, which stays.
LEMMA BaseStays ==
  ASSUME IndInv, [Next]_vars, NEW p \in Procs, proc[p].pc # "idle"
  PROVE  LET c == proc[p].cand IN
         c \in Candidates /\ drafted[c] \in Trees /\ drafted'[c] = drafted[c]
<1> DEFINE c == proc[p].cand
<1>1. proc[p].pc \in Steps /\ c \in Candidates /\ drafted[c] \in Trees \cup {NoTree}
  BY FrameFields DEF IndInv, TypeOK
<1>2. drafted[c] # NoTree
  <2>1. CASE proc[p].pc \in Undoing
    BY <1>1, <2>1 DEF IndInv, ProcOK, FilesOK
  <2>2. CASE proc[p].pc \notin Undoing
    BY <1>1, <2>2 DEF IndInv, ProcOK, Steps
  <2>3. QED BY <2>1, <2>2
<1>3. QED BY <1>1, <1>2, DocumentsStay

\* The staged copy of a tree that has the digest of the base is the evaluated
\* one (stage).
LEMMA StagedEvaluated ==
  ASSUME IndInv, FlowInv, NEW p \in Procs, proc[p].pc = "copy",
         drafted[proc[p].cand] \in Trees
  PROVE  Evaluated(proc[p].cand, Mutated(proc[p].cand, live), drafted[proc[p].cand])
<1> DEFINE c == proc[p].cand
<1>1. c \in Candidates /\ live \in Trees
  BY FrameFields DEF IndInv, TypeOK
<1>2. \A q \in Paths \ Excluded : live[q] = drafted[c][q]
  BY DEF FlowInv, FlowOK
<1>3. Mutated(c, live) \in Trees
  BY <1>1, MutatedType
<1>4. ASSUME NEW q \in Paths \ Excluded
      PROVE  Mutated(c, live)[q] = Mutated(c, drafted[c])[q]
  <2>1. CASE Mutates(c, q)
    BY <1>1, <2>1, MutatedAt DEF Mutates
  <2>2. CASE ~Mutates(c, q)
    BY <1>1, <1>2, <2>2, MutatedAt
  <2>3. QED BY <2>1, <2>2
<1>5. QED BY <1>3, <1>4 DEF Evaluated

\* The steps that change a workspace.
LEMMA WorkChanges ==
  ASSUME IndInv, [Next]_vars
  PROVE  \/ UNCHANGED work
         \/ \E p \in Procs, c \in Candidates :
              work[c] = NoTree /\ work' = [work EXCEPT ![c] = NewDir] /\ Stage(p, c)
         \/ \E p \in Procs :
              /\ proc[p].pc = "copy" /\ StageCopy(p)
              /\ work' = [work EXCEPT ![proc[p].cand] = Mutated(proc[p].cand, live)]
<1>1. CASE \E p \in Procs, c \in Candidates : Stage(p, c)
  BY <1>1 DEF Stage, StageAllowed
<1>2. CASE \E p \in Procs : StageCopy(p)
  BY <1>2 DEF StageCopy, At
<1>3. QED
  BY <1>1, <1>2
  DEF Next, vars, filesVars, Draft, Approve, EditByHand, KillSwitch, EvaluateRefused,
      Promote, Rollback, EvaluateVerdict, EvaluatorBreaks, SealPackage, PromoteMkdir,
      PromoteBackup, PromoteRecord, PromoteTruncate, PromoteWrite, PromoteApplied,
      TruncateRecord, FillRecord, UndoFile, UndoRestore, RolledBack, Crash

\* What was evaluated stays on disk.
LEMMA EvaluatedStays ==
  ASSUME IndInv, FlowInv, [Next]_vars, NEW c \in Candidates,
         Evaluated(c, work[c], drafted[c])
  PROVE  Evaluated(c, work'[c], drafted'[c])
<1>1. drafted'[c] = drafted[c] /\ drafted[c] \in Trees /\ work[c] \in Trees
  BY DocumentsStay, ContentsAssumption DEF Evaluated
<1>2. work \in [Candidates -> Trees \cup {NoTree, NewDir}]
  BY DEF IndInv, TypeOK
<1>3. CASE work'[c] = work[c]
  BY <1>1, <1>3
<1>4. ASSUME NEW p \in Procs, proc[p].pc = "copy",
             work' = [work EXCEPT ![proc[p].cand] = Mutated(proc[p].cand, live)]
      PROVE  Evaluated(c, work'[c], drafted'[c])
  <2>1. CASE c = proc[p].cand
    <3>1. work'[c] = Mutated(c, live)
      BY <1>2, <1>4, <2>1
    <3>2. QED BY <1>1, <1>4, <2>1, <3>1, StagedEvaluated
  <2>2. CASE c # proc[p].cand
    BY <1>2, <1>3, <1>4, <2>2
  <2>3. QED BY <2>1, <2>2
<1>5. ASSUME NEW d \in Candidates, work[d] = NoTree, work' = [work EXCEPT ![d] = NewDir]
      PROVE  work'[c] = work[c]
  BY <1>1, <1>2, <1>5, ContentsAssumption
<1>6. QED BY <1>3, <1>4, <1>5, WorkChanges

\* Every package is that of an evaluated workspace (evaluate).
LEMMA PackagesFlow ==
  ASSUME IndInv, FlowInv, [Next]_vars, NEW c \in Candidates, package'[c].state # "none"
  PROVE  Evaluated(c, work'[c], drafted'[c])
<1>1. SUFFICES Evaluated(c, work[c], drafted[c])
  BY EvaluatedStays
<1>2. CASE package[c].state # "none"
  BY <1>2 DEF FlowInv
<1>3. CASE package[c].state = "none"
  <2>0. package \in [Candidates -> Packages]
    BY DEF IndInv, TypeOK
  <2>1. package'[c] # package[c]
    BY <1>3
  <2>2. ASSUME NEW p \in Procs, SealPackage(p)
        PROVE  proc[p].cand = c /\ proc[p].pc = "seal"
    BY <2>0, <2>1, <2>2 DEF SealPackage, At
  <2>3. ASSUME NEW p \in Procs, NEW passed \in BOOLEAN, EvaluateVerdict(p, passed)
        PROVE  proc[p].cand = c /\ proc[p].pc = "evaluate"
    BY <2>0, <2>1, <2>3 DEF EvaluateVerdict, At
  <2>4. \E p \in Procs : proc[p].cand = c /\ proc[p].pc \in {"evaluate", "seal"}
    BY <2>1, <2>2, <2>3
    DEF Next, vars, filesVars, Draft, Approve, EditByHand, KillSwitch, EvaluateRefused,
        Stage, Promote, Rollback, StageCopy, EvaluatorBreaks, PromoteMkdir,
        PromoteBackup, PromoteRecord, PromoteTruncate, PromoteWrite, PromoteApplied,
        TruncateRecord, FillRecord, UndoFile, UndoRestore, RolledBack, Crash
  <2>5. QED BY <2>4 DEF FlowInv, FlowOK
<1>4. QED BY <1>2, <1>3

\* An invocation that ends has nothing more to answer for.
LEMMA LeaveFlow ==
  ASSUME IndInv, NEW p \in Procs, Leave(p)
  PROVE  FlowOK(proc'[p], live', drafted'[proc'[p].cand], work'[proc'[p].cand])
<1>1. proc'[p] = AtRest
  BY FrameSteps DEF IndInv, TypeOK
<1>2. proc'[p].pc = "idle"
  BY <1>1, AtRestType
<1>3. QED BY <1>2 DEF FlowOK

\* What people do leaves an invocation where it is, and the tree alone while
\* one copies it or writes to it.
LEMMA PeopleFlow ==
  ASSUME IndInv, FlowInv, [Next]_vars, UNCHANGED proc,
         UNCHANGED live \/ \A p \in Procs : proc[p].pc \in {"idle", "evaluate", "seal"},
         UNCHANGED work, NEW p \in Procs
  PROVE  FlowOK(proc'[p], live', drafted'[proc'[p].cand], work'[proc'[p].cand])
<1>1. FlowOK(proc[p], live, drafted[proc[p].cand], work[proc[p].cand])
  BY DEF FlowInv
<1>2. CASE proc[p].pc = "idle"
  BY <1>2 DEF FlowOK
<1>3. CASE proc[p].pc # "idle"
  <2>1. drafted'[proc[p].cand] = drafted[proc[p].cand]
    BY <1>3, BaseStays
  <2>2. CASE UNCHANGED live
    BY <1>1, <2>1, <2>2
  <2>3. CASE proc[p].pc \in {"evaluate", "seal"}
    BY <1>1, <2>1, <2>3 DEF FlowOK
  <2>4. QED BY <1>3, <2>2, <2>3
<1>4. QED BY <1>2, <1>3

\* An invocation starts on a tree that has the digest of the base, or with
\* nothing undone yet (stage, promote, rollback).
LEMMA StartFlow ==
  ASSUME IndInv, FlowInv, [Next]_vars, NEW p \in Procs, NEW c \in Candidates,
         Stage(p, c) \/ Promote(p, c) \/ Rollback(p, c)
  PROVE  FlowOK(proc'[p], live', drafted'[proc'[p].cand], work'[proc'[p].cand])
<1> USE DEF filesVars, operatorVars, controlVars
<1>0. proc \in [Procs -> Frames] /\ live \in Trees
  BY DEF IndInv, TypeOK
<1>1. UNCHANGED <<live, drafted>>
  BY DEF Stage, Promote, Rollback
<1>2. ASSUME source_tree_digest(live) = source_tree_digest(drafted[c])
      PROVE  \A q \in Paths \ Excluded : live[q] = drafted[c][q]
  <2> SUFFICES ASSUME NEW q \in Paths \ Excluded
               PROVE  live[q] = drafted[c][q]
    OBVIOUS
  <2>1. source_tree_digest(live)[q] = live[q]
    BY DEF source_tree_digest
  <2>2. source_tree_digest(drafted[c])[q] = drafted[c][q]
    BY DEF source_tree_digest
  <2>3. QED BY <1>2, <2>1, <2>2
<1>3. CASE Stage(p, c)
  <2>1. CASE Leave(p)
    BY <2>1, LeaveFlow
  <2>2. CASE StageAllowed(c) /\ Enter(p, "copy", c, 0, NoTree)
    <3>1. proc'[p] = [pc |-> "copy", cand |-> c, i |-> 0, saved |-> NoTree]
      BY <1>0, <2>2, FrameSteps DEF Steps
    <3>2. \A q \in Paths \ Excluded : live[q] = drafted[c][q]
      BY <1>2, <2>2 DEF StageAllowed
    <3>3. QED BY <1>1, <3>1, <3>2 DEF FlowOK
  <2>3. QED BY <1>3, <2>1, <2>2 DEF Stage, EvaluationFails
<1>4. CASE Promote(p, c)
  <2>1. proc'[p] = [pc |-> "mkdir", cand |-> c, i |-> 0, saved |-> live]
    BY <1>0, <1>4, FrameSteps DEF Promote, Steps
  <2>2. Untouched(c, live, drafted[c])
    BY <1>2, <1>4 DEF Promote, Promotable, Untouched
  <2>3. QED BY <1>1, <2>1, <2>2 DEF FlowOK
<1>5. CASE Rollback(p, c)
  <2>1. proc'[p] = [pc |-> "undo", cand |-> c, i |-> 1, saved |-> NoTree]
    <3>1. "undo" \in Steps /\ 1 \in Nat /\ NoTree \in Trees \cup {NoTree}
      BY DEF Steps
    <3>2. Enter(p, "undo", c, 1, NoTree)
      BY <1>5 DEF Rollback
    <3>3. QED BY <1>0, <3>1, <3>2, FrameSteps
  <2>2. Restored(c, live, drafted[c], 1)
    BY MutationCount DEF Restored
  <2>3. QED BY <1>1, <2>1, <2>2 DEF FlowOK
<1>6. QED BY <1>3, <1>4, <1>5

\* A step of evaluate hands on the evaluated workspace.
LEMMA EvaluateFlow ==
  ASSUME IndInv, FlowInv, [Next]_vars, NEW p \in Procs,
         \/ \E c \in Candidates : EvaluateRefused(p, c)
         \/ \E passed \in BOOLEAN : EvaluateVerdict(p, passed)
         \/ StageCopy(p) \/ EvaluatorBreaks(p) \/ SealPackage(p) \/ Crash(p)
  PROVE  FlowOK(proc'[p], live', drafted'[proc'[p].cand], work'[proc'[p].cand])
<1> DEFINE c == proc[p].cand
<1>0. proc \in [Procs -> Frames] /\ work \in [Candidates -> Trees \cup {NoTree, NewDir}]
  BY DEF IndInv, TypeOK
<1>1. CASE Leave(p)
  BY <1>1, LeaveFlow
<1>2. CASE proc[p].pc = "copy" /\ Goto(p, "evaluate") /\ work' = [work EXCEPT ![c] = Mutated(c, live)]
  <2>1. proc'[p].pc = "evaluate" /\ proc'[p].cand = c
    BY <1>0, <1>2, FrameSteps DEF Steps
  <2>2. c \in Candidates /\ drafted[c] \in Trees /\ drafted'[c] = drafted[c]
    BY <1>2, BaseStays
  <2>3. Evaluated(c, work'[c], drafted'[c])
    <3>1. work'[c] = Mutated(c, live)
      BY <1>0, <1>2, <2>2
    <3>2. QED BY <1>2, <2>2, <3>1, StagedEvaluated
  <2>4. QED BY <2>1, <2>3 DEF FlowOK
<1>3. CASE proc[p].pc = "evaluate" /\ Goto(p, "seal")
  <2>1. proc'[p].pc = "seal" /\ proc'[p].cand = c
    BY <1>0, <1>3, FrameSteps DEF Steps
  <2>2. c \in Candidates
    BY <1>3, BaseStays
  <2>3. Evaluated(c, work'[c], drafted'[c])
    <3>1. Evaluated(c, work[c], drafted[c])
      BY <1>3 DEF FlowInv, FlowOK
    <3>2. QED BY <2>2, <3>1, EvaluatedStays
  <2>4. QED BY <2>1, <2>3 DEF FlowOK
<1>4. QED
  BY <1>1, <1>2, <1>3
  DEF EvaluateRefused, EvaluateVerdict, StageCopy, EvaluatorBreaks, SealPackage, Crash,
      EvaluationFails, At

\* A write at the i-th mutation's path leaves the other files alone.
LEMMA WriteElsewhere ==
  ASSUME NEW c \in Candidates, NEW i \in 1..Len(Mutations[c]), NEW t, NEW u,
         \A q \in Paths : q # Mutations[c][i].path => u[q] = t[q]
  PROVE  /\ \A j \in 1..Len(Mutations[c]) :
              j # i => u[Mutations[c][j].path] = t[Mutations[c][j].path]
         /\ \A q \in Paths : ~Mutates(c, q) => u[q] = t[q]
<1>1. \A j \in 1..Len(Mutations[c]) : Mutations[c][j].path \in Paths
  BY MutationType
<1>2. \A j \in 1..Len(Mutations[c]) : j # i => Mutations[c][j].path # Mutations[c][i].path
  BY MutationsAssumption
<1>3. QED BY <1>1, <1>2 DEF Mutates

\* A promotion leaves what the candidate does not change, and writes the
\* mutations one by one (promote).
LEMMA PromoteFlow ==
  ASSUME IndInv, FlowInv, [Next]_vars, NEW p \in Procs,
         \/ PromoteMkdir(p) \/ PromoteBackup(p) \/ PromoteRecord(p)
         \/ PromoteTruncate(p) \/ PromoteWrite(p) \/ PromoteApplied(p)
  PROVE  FlowOK(proc'[p], live', drafted'[proc'[p].cand], work'[proc'[p].cand])
<1> USE DEF At
<1>1. PICK f, c, b : f = proc[p] /\ c = f.cand /\ b = drafted[c]
  OBVIOUS
<1>2. /\ proc \in [Procs -> Frames] /\ live \in Trees /\ f.i \in Nat
      /\ f.saved \in Trees \cup {NoTree}
  BY <1>1, FrameFields DEF IndInv, TypeOK
<1>3. f.pc \in Promoting
  BY <1>1 DEF PromoteMkdir, PromoteBackup, PromoteRecord, PromoteTruncate, PromoteWrite,
     PromoteApplied
<1>4. c \in Candidates /\ drafted'[c] = b
  BY <1>1, <1>3, BaseStays
<1>5. Len(Mutations[c]) \in Nat /\ 1 \in 1..Len(Mutations[c])
  BY <1>4, MutationCount
<1>6. /\ Untouched(c, live, b)
      /\ f.pc \in {"truncate", "write"} => Written(c, live, f.i)
      /\ f.pc \in {"reopen", "apply"} => Written(c, live, Len(Mutations[c]) + 1)
      /\ f.pc \in {"truncate", "write"} => f.i \in 1..Len(Mutations[c])
  BY <1>1, <1>3 DEF FlowInv, FlowOK, IndInv, ProcOK
<1>7. CASE Leave(p)
  BY <1>7, LeaveFlow
<1>8. ASSUME NEW pc \in Promoting, Goto(p, pc)
      PROVE  proc'[p].pc = pc /\ proc'[p].cand = c /\ proc'[p].i = f.i
  <2>1. pc \in Steps
    BY DEF Steps
  <2>2. QED BY <1>1, <1>2, <1>8, <2>1, FrameSteps
<1>9. ASSUME NEW i \in Nat, Enter(p, "truncate", c, i, f.saved)
      PROVE  proc'[p].pc = "truncate" /\ proc'[p].cand = c /\ proc'[p].i = i
  <2>1. "truncate" \in Steps
    BY DEF Steps
  <2>2. proc'[p] = [pc |-> "truncate", cand |-> c, i |-> i, saved |-> f.saved]
    BY <1>2, <1>4, <1>9, <2>1, FrameSteps
  <2>3. QED BY <2>2
<1>10. CASE /\ UNCHANGED live
            /\ \E pc \in {"backup", "open_record", "prepare"} : Goto(p, pc)
  BY <1>4, <1>6, <1>8, <1>10 DEF FlowOK
<1>11. CASE UNCHANGED live /\ f.pc = "reopen" /\ Goto(p, "apply")
  BY <1>4, <1>6, <1>8, <1>11 DEF FlowOK
<1>12. CASE UNCHANGED live /\ Enter(p, "truncate", c, 1, f.saved)
  <2>1. Written(c, live, 1)
    BY <1>5 DEF Written
  <2>2. QED BY <1>4, <1>6, <1>9, <1>12, <2>1 DEF FlowOK
<1>13. CASE PromoteTruncate(p)
  <2>1. /\ f.pc = "truncate" /\ f.i \in 1..Len(Mutations[c]) /\ Goto(p, "write")
        /\ live' = [live EXCEPT ![Mutations[c][f.i].path] = Torn]
    BY <1>1, <1>6, <1>13 DEF PromoteTruncate, Mutation
  <2>2. Written(c, live', f.i) /\ Untouched(c, live', b)
    <3>1. PICK i, t, u, x : i = f.i /\ t = live /\ u = live' /\ x = Torn
      OBVIOUS
    <3>2. /\ i \in 1..Len(Mutations[c])
          /\ u[Mutations[c][i].path] = x
          /\ \A q \in Paths : q # Mutations[c][i].path => u[q] = t[q]
      BY <1>2, <1>4, <2>1, <3>1, MutationType DEF Trees
    <3>3. /\ \A j \in 1..Len(Mutations[c]) :
               j # i => u[Mutations[c][j].path] = t[Mutations[c][j].path]
          /\ \A q \in Paths : ~Mutates(c, q) => u[q] = t[q]
      BY <1>4, <3>2, WriteElsewhere
    <3>4. QED BY <1>5, <1>6, <2>1, <3>1, <3>2, <3>3 DEF Written, Untouched
  <2>3. QED BY <1>4, <1>8, <2>1, <2>2 DEF FlowOK
<1>14. CASE PromoteWrite(p)
  <2>1. /\ f.pc = "write" /\ f.i \in 1..Len(Mutations[c])
        /\ live' = [live EXCEPT ![Mutations[c][f.i].path] = Mutations[c][f.i].content]
        /\ IF f.i = Len(Mutations[c]) THEN Goto(p, "reopen")
           ELSE Enter(p, "truncate", c, f.i + 1, f.saved)
    BY <1>1, <1>6, <1>14 DEF PromoteWrite, Mutation, Last
  <2>2. Written(c, live', f.i + 1) /\ Untouched(c, live', b)
    <3>1. PICK i, t, u, x : /\ i = f.i /\ t = live /\ u = live'
                            /\ x = Mutations[c][f.i].content
      OBVIOUS
    <3>2. /\ i \in 1..Len(Mutations[c])
          /\ u[Mutations[c][i].path] = x
          /\ \A q \in Paths : q # Mutations[c][i].path => u[q] = t[q]
      BY <1>2, <1>4, <2>1, <3>1, MutationType DEF Trees
    <3>3. /\ \A j \in 1..Len(Mutations[c]) :
               j # i => u[Mutations[c][j].path] = t[Mutations[c][j].path]
          /\ \A q \in Paths : ~Mutates(c, q) => u[q] = t[q]
      BY <1>4, <3>2, WriteElsewhere
    <3>4. Written(c, u, i + 1)
      <4>1. Written(c, t, i)
        BY <1>6, <2>1, <3>1
      <4>2. \A j \in 1..Len(Mutations[c]) : j < i + 1 => j = i \/ j < i
        BY <1>5, <3>2
      <4>3. QED BY <3>1, <3>2, <3>3, <4>1, <4>2 DEF Written
    <3>5. QED BY <1>6, <3>1, <3>3, <3>4 DEF Untouched
  <2>3. CASE f.i = Len(Mutations[c])
    BY <1>4, <1>8, <2>1, <2>2, <2>3 DEF FlowOK
  <2>4. CASE f.i # Len(Mutations[c])
    BY <1>2, <1>4, <1>9, <2>1, <2>2, <2>4 DEF FlowOK
  <2>5. QED BY <2>3, <2>4
<1>15. QED
  BY <1>1, <1>7, <1>10, <1>11, <1>12, <1>13, <1>14
  DEF PromoteMkdir, PromoteBackup, PromoteRecord, PromoteApplied, TruncateRecord, FillRecord

\* One more file is as in the base, and the ones before it stay so.
LEMMA RestoreOne ==
  ASSUME NEW c \in Candidates, NEW i \in 1..Len(Mutations[c]), NEW t, NEW u, NEW b,
         Restored(c, t, b, i),
         u[Mutations[c][i].path] = IF Mutations[c][i].operation = "create" THEN Absent
                                   ELSE b[Mutations[c][i].path],
         \A j \in 1..Len(Mutations[c]) :
           j # i => u[Mutations[c][j].path] = t[Mutations[c][j].path]
  PROVE  Restored(c, u, b, i + 1)
<1>1. Len(Mutations[c]) \in Nat
  BY MutationCount
<1>2. \A j \in 1..Len(Mutations[c]) : j < i + 1 => j = i \/ (j # i /\ j < i)
  BY <1>1
<1>3. QED BY <1>2 DEF Restored

\* A rollback puts the files back one by one, each from its backup (rollback).
LEMMA RollbackFlow ==
  ASSUME IndInv, FlowInv, [Next]_vars, NEW p \in Procs,
         UndoFile(p) \/ UndoRestore(p) \/ RolledBack(p)
  PROVE  FlowOK(proc'[p], live', drafted'[proc'[p].cand], work'[proc'[p].cand])
<1> USE DEF At
<1>1. PICK f, c, b, i, t, u :
        /\ f = proc[p] /\ c = f.cand /\ b = drafted[c] /\ i = f.i
        /\ t = live /\ u = live'
  OBVIOUS
<1>2. proc \in [Procs -> Frames] /\ t \in Trees /\ i \in Nat
  BY <1>1, FrameFields DEF IndInv, TypeOK
<1>3. f.pc \in Undoing
  BY <1>1 DEF UndoFile, UndoRestore, RolledBack
<1>4. c \in Candidates /\ drafted'[c] = b
  BY <1>1, <1>3, BaseStays
<1>5. Len(Mutations[c]) \in Nat
  BY <1>4, MutationCount
<1>6. /\ f.pc \in {"undo", "restore"} => Restored(c, t, b, i) /\ i \in 1..Len(Mutations[c])
      /\ f.pc = "restore" => Mutations[c][i].operation = "replace"
      /\ f.pc \in {"close", "rolled"} => Restored(c, t, b, Len(Mutations[c]) + 1)
  BY <1>1, <1>3 DEF FlowInv, FlowOK, IndInv, ProcOK
<1>7. \A j \in 1..Len(Mutations[c]) :
        Mutations[c][j].operation = "replace" =>
          record[c].backup[Mutations[c][j].path] = b[Mutations[c][j].path]
  BY <1>1, <1>3, <1>4 DEF IndInv, ProcOK, FilesOK, Based
<1>8. CASE Leave(p)
  BY <1>8, LeaveFlow
<1>9. CASE f.pc = "close" /\ UNCHANGED live /\ Goto(p, "rolled")
  <2>1. proc'[p].pc = "rolled" /\ proc'[p].cand = c
    BY <1>1, <1>2, <1>9, FrameSteps DEF Steps
  <2>2. QED BY <1>1, <1>4, <1>6, <1>9, <2>1 DEF FlowOK
<1>10. CASE NextUndo(p) /\ f.pc \in {"undo", "restore"} /\ Restored(c, u, b, i + 1)
  <2>1. CASE i = Len(Mutations[c]) /\ Goto(p, "close")
    <3>1. proc'[p].pc = "close" /\ proc'[p].cand = c
      BY <1>1, <1>2, <2>1, FrameSteps DEF Steps
    <3>2. QED BY <1>1, <1>4, <1>10, <2>1, <3>1 DEF FlowOK
  <2>2. CASE Enter(p, "undo", c, i + 1, NoTree)
    <3>1. "undo" \in Steps /\ i + 1 \in Nat /\ NoTree \in Trees \cup {NoTree}
      BY <1>2 DEF Steps
    <3>2. proc'[p] = [pc |-> "undo", cand |-> c, i |-> i + 1, saved |-> NoTree]
      BY <1>2, <1>4, <2>2, <3>1, FrameSteps
    <3>3. QED BY <1>1, <1>4, <1>10, <3>2 DEF FlowOK
  <2>3. QED BY <1>1, <1>10, <2>1, <2>2 DEF NextUndo, Last
<1>11. ASSUME f.pc \in {"undo", "restore"},
              u[Mutations[c][i].path] = IF Mutations[c][i].operation = "create" THEN Absent
                                        ELSE b[Mutations[c][i].path],
              \A q \in Paths : q # Mutations[c][i].path => u[q] = t[q]
       PROVE  Restored(c, u, b, i + 1)
  <2>1. i \in 1..Len(Mutations[c]) /\ Restored(c, t, b, i)
    BY <1>6, <1>11
  <2>2. \A j \in 1..Len(Mutations[c]) :
          j # i => u[Mutations[c][j].path] = t[Mutations[c][j].path]
    BY <1>4, <1>11, <2>1, WriteElsewhere
  <2>3. QED BY <1>4, <1>11, <2>1, <2>2, RestoreOne
<1>12. CASE UndoFile(p)
  <2>1. f.pc = "undo" /\ i \in 1..Len(Mutations[c]) /\ Restored(c, t, b, i)
    BY <1>1, <1>6, <1>12 DEF UndoFile
  <2>2. Mutation(p) = Mutations[c][i] /\ Mutations[c][i].operation \in {"create", "replace"}
    BY <1>1, <1>4, <2>1, MutationType DEF Mutation, Operations
  <2>3. CASE UndoneAlready(c, Mutations[c][i]) /\ UNCHANGED live /\ NextUndo(p)
    <3>1. t[Mutations[c][i].path] = IF Mutations[c][i].operation = "create" THEN Absent
                                    ELSE b[Mutations[c][i].path]
      BY <1>1, <1>7, <2>1, <2>2, <2>3 DEF UndoneAlready
    <3>2. u = t
      BY <1>1, <2>3
    <3>3. Restored(c, u, b, i + 1)
      BY <1>4, <2>1, <3>1, <3>2, RestoreOne
    <3>4. QED BY <1>10, <2>1, <2>3, <3>3
  <2>4. CASE /\ Mutations[c][i].operation = "create"
             /\ u = [t EXCEPT ![Mutations[c][i].path] = Absent] /\ NextUndo(p)
    <3>1. /\ u[Mutations[c][i].path] = Absent
          /\ \A q \in Paths : q # Mutations[c][i].path => u[q] = t[q]
      BY <1>2, <1>4, <2>1, <2>4, MutationType DEF Trees
    <3>2. QED BY <1>10, <1>11, <2>1, <2>4, <3>1
  <2>5. CASE /\ Mutations[c][i].operation # "create"
             /\ u = [t EXCEPT ![Mutations[c][i].path] = Torn] /\ Goto(p, "restore")
    <3>1. proc'[p].pc = "restore" /\ proc'[p].cand = c /\ proc'[p].i = i
      BY <1>1, <1>2, <2>5, FrameSteps DEF Steps
    <3>2. \A j \in 1..Len(Mutations[c]) :
            j # i => u[Mutations[c][j].path] = t[Mutations[c][j].path]
      <4>1. \A q \in Paths : q # Mutations[c][i].path => u[q] = t[q]
        BY <1>2, <2>5 DEF Trees
      <4>2. QED BY <1>4, <2>1, <4>1, WriteElsewhere
    <3>3. Restored(c, u, b, i)
      BY <1>2, <1>5, <2>1, <3>2 DEF Restored
    <3>4. QED BY <1>1, <1>4, <2>2, <2>5, <3>1, <3>3 DEF FlowOK
  <2>6. QED BY <1>1, <1>8, <1>12, <2>2, <2>3, <2>4, <2>5 DEF UndoFile
<1>13. CASE UndoRestore(p)
  <2>1. /\ f.pc = "restore" /\ NextUndo(p)
        /\ u = [t EXCEPT ![Mutations[c][i].path] = record[c].backup[Mutations[c][i].path]]
    BY <1>1, <1>13 DEF UndoRestore, Mutation
  <2>2. /\ i \in 1..Len(Mutations[c]) /\ Mutations[c][i].operation = "replace"
        /\ record[c].backup[Mutations[c][i].path] = b[Mutations[c][i].path]
    BY <1>6, <1>7, <2>1
  <2>3. /\ u[Mutations[c][i].path] = b[Mutations[c][i].path]
        /\ \A q \in Paths : q # Mutations[c][i].path => u[q] = t[q]
    BY <1>2, <1>4, <2>1, <2>2, MutationType DEF Trees
  <2>4. QED BY <1>10, <1>11, <2>1, <2>2, <2>3
<1>14. QED
  BY <1>1, <1>8, <1>9, <1>12, <1>13 DEF UndoFile, UndoRestore, RolledBack, TruncateRecord

\* Every step keeps the flow of the one invocation there is.
LEMMA NextFlow ==
  ASSUME OneAtATime, IndInv, FlowInv, [Next]_vars
  PROVE  FlowInv'
<1>1. ASSUME NEW p \in Procs
      PROVE  FlowOK(proc'[p], live', drafted'[proc'[p].cand], work'[proc'[p].cand])
  <2>1. CASE /\ UNCHANGED <<proc, work>>
             /\ UNCHANGED live \/ \A q \in Procs : proc[q].pc \in {"idle", "evaluate", "seal"}
    BY <2>1, PeopleFlow
  <2>2. CASE \E q \in Procs :
               \/ \E c \in Candidates : EvaluateRefused(q, c)
               \/ \E passed \in BOOLEAN : EvaluateVerdict(q, passed)
               \/ StageCopy(q) \/ EvaluatorBreaks(q) \/ SealPackage(q) \/ Crash(q)
    BY <2>2, EvaluateFlow DEF OneAtATime
  <2>3. CASE \E q \in Procs, c \in Candidates : Stage(q, c) \/ Promote(q, c) \/ Rollback(q, c)
    BY <2>3, StartFlow DEF OneAtATime
  <2>4. CASE \E q \in Procs : \/ PromoteMkdir(q) \/ PromoteBackup(q) \/ PromoteRecord(q)
                              \/ PromoteTruncate(q) \/ PromoteWrite(q) \/ PromoteApplied(q)
    BY <2>4, PromoteFlow DEF OneAtATime
  <2>5. CASE \E q \in Procs : UndoFile(q) \/ UndoRestore(q) \/ RolledBack(q)
    BY <2>5, RollbackFlow DEF OneAtATime
  <2>6. QED
    BY <2>1, <2>2, <2>3, <2>4, <2>5
    DEF Next, vars, filesVars, Draft, Approve, EditByHand, KillSwitch
<1>2. QED BY <1>1, PackagesFlow DEF FlowInv

\* No invocation is at work and nothing is packaged at the start (Init).
LEMMA InitFlow == ASSUME Init PROVE FlowInv
<1>1. \A c \in Candidates : package[c].state = "none"
  BY DEF Init, NoPackage
<1>2. \A p \in Procs : proc[p].pc = "idle"
  BY AtRestType DEF Init
<1>3. QED BY <1>1, <1>2 DEF FlowInv, FlowOK

\* The flow holds throughout.
LEMMA FlowAlways == ASSUME OneAtATime PROVE Spec => [](IndInv /\ FlowInv)
<1>1. Init => FlowInv
  BY InitFlow
<1>2. IndInv /\ FlowInv /\ [Next]_vars => FlowInv'
  BY NextFlow
<1>3. QED BY <1>1, <1>2, IndInvAlways, PTL DEF Spec

\* A record says applied, or rolled back, from the last step of a promotion, or
\* of a rollback, on, and that step writes nothing else.
LEMMA RecordEnds ==
  ASSUME IndInv, [Next]_vars, NEW c \in Candidates, record'[c].state # record[c].state,
         record'[c].state \in {"applied", "rolled_back"}
  PROVE  /\ UNCHANGED live
         /\ \E p \in Procs :
              /\ proc[p].cand = c
              /\ proc[p].pc = IF record'[c].state = "applied" THEN "apply" ELSE "rolled"
<1> USE DEF At
<1>1. record \in [Candidates -> Records] /\ \A p \in Procs : proc[p].cand \in Candidates
  BY FrameFields DEF IndInv, TypeOK
<1>2. ASSUME NEW d \in Candidates, NEW s \in RecordStates,
             record' = [record EXCEPT ![d].state = s]
      PROVE  d = c /\ s = record'[c].state
  BY <1>1, <1>2 DEF Records
<1>3. ASSUME NEW p \in Procs, PromoteBackup(p)
      PROVE  FALSE
  BY <1>1, <1>3 DEF PromoteBackup, Records
<1>4. ASSUME NEW p \in Procs, PromoteMkdir(p) \/ PromoteRecord(p)
      PROVE  FALSE
  BY <1>1, <1>2, <1>4
  DEF PromoteMkdir, PromoteRecord, TruncateRecord, FillRecord, RecordStates
<1>5. ASSUME NEW p \in Procs, PromoteApplied(p)
      PROVE  /\ UNCHANGED live /\ proc[p].cand = c /\ proc[p].pc = "apply"
             /\ record'[c].state = "applied"
  BY <1>1, <1>2, <1>5 DEF PromoteApplied, TruncateRecord, FillRecord, RecordStates
<1>6. ASSUME NEW p \in Procs, RolledBack(p)
      PROVE  /\ UNCHANGED live /\ proc[p].cand = c /\ proc[p].pc = "rolled"
             /\ record'[c].state = "rolled_back"
  BY <1>1, <1>2, <1>6 DEF RolledBack, TruncateRecord, FillRecord, RecordStates
<1>7. CASE UNCHANGED record
  BY <1>7
<1>8. QED
  BY <1>3, <1>4, <1>5, <1>6, <1>7
  DEF Next, vars, filesVars, Draft, Approve, EditByHand, KillSwitch, EvaluateRefused,
      Stage, Promote, Rollback, EvaluateVerdict, StageCopy, EvaluatorBreaks, SealPackage,
      PromoteTruncate, PromoteWrite, UndoFile, UndoRestore, Crash

\* With one invocation at a time, a promotion that completes leaves the tree
\* the evaluator saw in every file the source digest covers (promote).
THEOREM PromotedIsEvaluatedAlways == ASSUME OneAtATime PROVE Spec => PromotedIsEvaluated
<1>1. ASSUME IndInv, FlowInv, [Next]_vars, NEW c \in Candidates,
             record'[c].state = "applied", record[c].state # "applied"
      PROVE  source_tree_digest(live') = source_tree_digest(work[c])
  <2>1. PICK p \in Procs : proc[p].cand = c /\ proc[p].pc = "apply"
    BY <1>1, RecordEnds
  <2>2. UNCHANGED live
    BY <1>1, RecordEnds
  <2>3. package[c].state # "none"
    BY <1>1, <2>1 DEF IndInv, ProcOK, Cleared
  <2>4. Evaluated(c, work[c], drafted[c])
    BY <1>1, <2>3 DEF FlowInv
  <2>5. Untouched(c, live, drafted[c]) /\ Written(c, live, Len(Mutations[c]) + 1)
    BY <1>1, <2>1 DEF FlowInv, FlowOK
  <2>6. ASSUME NEW q \in Paths \ Excluded
        PROVE  live[q] = work[c][q]
    <3>1. work[c][q] = Mutated(c, drafted[c])[q]
      BY <2>4 DEF Evaluated
    <3>2. CASE Mutates(c, q)
      <4>1. PICK i \in 1..Len(Mutations[c]) : Mutations[c][i].path = q
        BY <3>2 DEF Mutates
      <4>2. live[q] = Mutations[c][i].content
        BY <2>5, <4>1, MutationCount DEF Written
      <4>3. QED BY <3>1, <4>1, <4>2, MutatedAt
    <3>3. CASE ~Mutates(c, q)
      BY <2>5, <3>1, <3>3, MutatedAt DEF Untouched
    <3>4. QED BY <3>2, <3>3
  <2>7. QED BY <2>2, <2>6 DEF source_tree_digest
<1>2. IndInv /\ FlowInv /\ [Next]_vars =>
        [\A c \in Candidates :
           record'[c].state = "applied" /\ record[c].state # "applied" =>
             source_tree_digest(live') = source_tree_digest(work[c])]_vars
  BY <1>1
<1>3. QED BY <1>2, FlowAlways, PTL DEF Spec, PromotedIsEvaluated

\* With one invocation at a time, a rollback that completes has put every file
\* of the promotion back as it was, whatever was interrupted before (rollback).
THEOREM RollbackRestoresAlways == ASSUME OneAtATime PROVE Spec => RollbackRestores
<1>1. ASSUME IndInv, FlowInv, [Next]_vars, NEW c \in Candidates,
             record'[c].state = "rolled_back", record[c].state # "rolled_back",
             NEW i \in 1..Len(Mutations[c])
      PROVE  live'[Mutations[c][i].path] = Before(c, i)
  <2>1. PICK p \in Procs : proc[p].cand = c /\ proc[p].pc = "rolled"
    BY <1>1, RecordEnds
  <2>2. UNCHANGED live
    BY <1>1, RecordEnds
  <2>3. Restored(c, live, drafted[c], Len(Mutations[c]) + 1)
    BY <1>1, <2>1 DEF FlowInv, FlowOK
  <2>4. QED BY <1>1, <2>2, <2>3, MutationCount DEF Restored, Before
<1>2. IndInv /\ FlowInv /\ [Next]_vars =>
        [\A c \in Candidates :
           record'[c].state = "rolled_back" /\ record[c].state # "rolled_back" =>
             \A i \in 1..Len(Mutations[c]) :
               live'[Mutations[c][i].path] = Before(c, i)]_vars
  BY <1>1
<1>3. QED BY <1>2, FlowAlways, PTL DEF Spec, RollbackRestores
=============================================================================
