----------------------------- MODULE ProbeProofs -----------------------------
(* Proofs about the module Probe and the scenario of module RoundTrip within   *)
(* it, for every number of previews, cards, requests and faults, any quota and *)
(* any pair of adapters.                                                       *)
EXTENDS Probe, SequenceTheorems, FiniteSetTheorems, TLAPS

-----------------------------------------------------------------------------
(* The run: what board, faults and counters are at each place of the script.   *)

Both      == {"limit", "uncertain"}
Boards    == Seq([body : Bodies, nonce : Nat])
FaultSets == SUBSET Both
Twice     == 0..2
Once      == 0..1
Verdicts  == {"none", "pass", "fail", "error"}
RunRecord ==
  [at : Places, cell : Cells \cup {NoCell}, role : Roles, board : Boards,
   met : FaultSets, nonce : Nat, attempts : Twice, limited : Twice, reconciled : Once,
   matched : BOOLEAN, outcome : Verdicts, disturbed : BOOLEAN]

SameAdapter(r) == r.cell[1] = r.cell[2]

\* The request is on the board, under a nonce the lane has given out.
OneRequest(r, top) ==
  Len(r.board) = 1 /\ r.board[1].body = "request" /\ r.board[1].nonce <= top

\* The request and the result, under rising nonces.
RequestResult(r) ==
  /\ Len(r.board) = 2 /\ r.board[1].body = "request" /\ r.board[2].body = "result"
  /\ r.board[1].nonce < r.board[2].nonce

\* The faults met once the request is posted: one adapter in both roles meets
\* both faults with it.
MetByRequest(r) == r.met = IF SameAdapter(r) THEN Both ELSE {"limit"}

ProducerAt(r, top) ==
  /\ r.role = "producer" /\ r.reconciled = 0
  /\ \/ r.at = "sign" /\ r.board = <<>> /\ r.met = {} /\ r.attempts = 0 /\ r.limited = 0
     \/ /\ r.at = "post" /\ r.board = <<>> /\ r.nonce <= top
        /\ \/ r.met = {} /\ r.attempts = 0 /\ r.limited = 0
           \/ r.met = {"limit"} /\ r.attempts = 1 /\ r.limited = 1
     \/ /\ r.at = "reconcile" /\ SameAdapter(r) /\ r.met = Both /\ r.limited = 1
        /\ OneRequest(r, top) /\ r.board[1].nonce = r.nonce
     \/ r.at = "read" /\ r.limited = 1 /\ MetByRequest(r) /\ OneRequest(r, top)

ConsumerAt(r, top) ==
  /\ r.role = "consumer" /\ r.matched = TRUE /\ r.limited = 1
  /\ \/ r.at = "sign" /\ MetByRequest(r) /\ OneRequest(r, top) /\ r.reconciled = 0
     \/ /\ r.at = "post" /\ MetByRequest(r) /\ OneRequest(r, top) /\ r.reconciled = 0
        /\ r.board[1].nonce < r.nonce
     \/ /\ r.at = "reconcile" /\ ~SameAdapter(r) /\ r.met = Both /\ r.reconciled = 0
        /\ RequestResult(r) /\ r.board[2].nonce = r.nonce
     \/ /\ r.at = "resume" /\ r.met = Both /\ RequestResult(r)
        /\ r.reconciled = IF SameAdapter(r) THEN 0 ELSE 1

\* A disturbed run is an error; any other ends with both records there, and its
\* verdict depends on the adapters being two.
DoneAt(r) ==
  /\ r.at = "done"
  /\ \/ r.disturbed = TRUE /\ r.outcome = "error"
     \/ /\ r.disturbed = FALSE /\ r.met = Both /\ RequestResult(r)
        /\ r.outcome = IF SameAdapter(r) THEN "fail" ELSE "pass"

Scripted(r, top) ==
  \/ /\ r.outcome = "none" /\ r.disturbed = FALSE
     /\ ProducerAt(r, top) \/ ConsumerAt(r, top)
  \/ DoneAt(r)

RunInv ==
  /\ lane \in [Cells -> Nat] /\ run \in RunRecord
  /\ run.at = "none" => run = NoRun
  /\ run.at # "none" => run.cell \in Cells /\ Scripted(run, lane[run.cell])

\* No run has its type.
LEMMA NoRunType == NoRun \in RunRecord /\ NoRun.at = "none"
  <1>1. <<>> \in Boards
    BY EmptySeq DEF Boards
  <1>2. "none" \in Places /\ "producer" \in Roles /\ {} \in FaultSets /\ 0 \in Twice
        /\ 0 \in Once /\ "none" \in Verdicts
    BY DEF Places, Roles, FaultSets, Twice, Once, Verdicts
  <1> QED
    BY <1>1, <1>2 DEF NoRun, RunRecord

(* The updates the script makes to a run keep its type.                        *)

\* A signature: place, attempts and nonce.
LEMMA UpdateSigned ==
  ASSUME NEW r \in RunRecord, NEW a \in Places, NEW t \in Twice, NEW n \in Nat
  PROVE  [r EXCEPT !.at = a, !.attempts = t, !.nonce = n] \in RunRecord
  BY DEF RunRecord

\* A refusal: faults met and two counters.
LEMMA UpdateLimited ==
  ASSUME NEW r \in RunRecord, NEW m \in FaultSets, NEW t \in Twice, NEW l \in Twice
  PROVE  [r EXCEPT !.met = m, !.attempts = t, !.limited = l] \in RunRecord
  BY DEF RunRecord

\* A new board.
LEMMA UpdateBoard ==
  ASSUME NEW r \in RunRecord, NEW b \in Boards
  PROVE  [r EXCEPT !.board = b] \in RunRecord
  BY DEF RunRecord

\* The place, with the faults met or without.
LEMMA UpdateMetPlace ==
  ASSUME NEW r \in RunRecord, NEW m \in FaultSets, NEW a \in Places
  PROVE  /\ [r EXCEPT !.met = m, !.at = a] \in RunRecord
         /\ [r EXCEPT !.at = a] \in RunRecord
  BY DEF RunRecord

\* The count of reconciled writes.
LEMMA UpdateReconciled ==
  ASSUME NEW r \in RunRecord, NEW c \in Once
  PROVE  [r EXCEPT !.reconciled = c] \in RunRecord
  BY DEF RunRecord

\* The consumer's turn.
LEMMA UpdateRead ==
  ASSUME NEW r \in RunRecord, NEW b \in BOOLEAN, NEW ro \in Roles, NEW a \in Places
  PROVE  [r EXCEPT !.matched = b, !.role = ro, !.at = a] \in RunRecord
  BY DEF RunRecord

\* The verdict.
LEMMA UpdateVerdict ==
  ASSUME NEW r \in RunRecord, NEW a \in Places, NEW o \in Verdicts
  PROVE  [r EXCEPT !.at = a, !.outcome = o] \in RunRecord
  BY DEF RunRecord

\* A disturbance.
LEMMA UpdateDisturbed ==
  ASSUME NEW r \in RunRecord
  PROVE  [r EXCEPT !.disturbed = TRUE] \in RunRecord
  BY DEF RunRecord

\* Before the first run.
LEMMA InitRun == RunInit => RunInv
  BY NoRunType DEF RunInit, RunInv

\* A run starts at the producer's signature.
LEMMA StartRunInv ==
  ASSUME RunInv, NEW cell \in Cells, StartRun(cell)
  PROVE  RunInv' /\ run'.at = "sign"
  <1>1. run' = [NoRun EXCEPT !.at = "sign", !.cell = cell] /\ lane' = lane
    BY DEF StartRun
  <1>2. run' \in RunRecord
    BY <1>1, NoRunType DEF RunRecord, Places
  <1>3. /\ run'.at = "sign" /\ run'.cell = cell /\ run'.role = "producer" /\ run'.board = <<>>
        /\ run'.met = {} /\ run'.attempts = 0 /\ run'.limited = 0 /\ run'.reconciled = 0
        /\ run'.outcome = "none" /\ run'.disturbed = FALSE
    BY <1>1 DEF NoRun
  <1> QED
    BY <1>1, <1>2, <1>3 DEF RunInv, Scripted, ProducerAt

\* The run is dropped.
LEMMA DropRunInv ==
  ASSUME RunInv, run' = NoRun, UNCHANGED lane
  PROVE  RunInv'
  BY NoRunType DEF RunInv

\* The records on the board have nonces.
LEMMA BoardNonce ==
  ASSUME NEW r \in RunRecord
  PROVE  /\ r.board \in Seq([body : Bodies, nonce : Nat]) /\ Len(r.board) \in Nat
         /\ \A i \in 1..Len(r.board) : r.board[i].nonce \in Nat
  <1>1. r.board \in Seq([body : Bodies, nonce : Nat])
    BY DEF RunRecord, Boards
  <1>2. \A i \in 1..Len(r.board) : r.board[i] \in [body : Bodies, nonce : Nat]
    BY <1>1, ElementOfSeq
  <1> QED
    BY <1>1, <1>2, LenProperties

\* A signature takes the next nonce of the lane.
LEMMA SignInv ==
  ASSUME RunInv, SignMessage
  PROVE  RunInv' /\ run'.at # "none"
  <1> DEFINE c == run.cell
  <1>1. /\ run.at = "sign" /\ c \in Cells /\ lane[c] \in Nat
        /\ Scripted(run, lane[c]) /\ run \in RunRecord
    BY DEF RunInv, SignMessage
  <1>2. /\ lane' \in [Cells -> Nat] /\ lane'[c] = lane[c] + 1
    BY <1>1 DEF RunInv, SignMessage
  <1>3. run' = [run EXCEPT !.at = "post", !.attempts = 0, !.nonce = lane[c] + 1]
    BY DEF SignMessage
  <1>4. run' \in RunRecord
    <2>1. lane[c] + 1 \in Nat /\ "post" \in Places /\ 0 \in Twice
      BY <1>1 DEF Places, Twice
    <2> QED
      BY <1>1, <1>3, <2>1, UpdateSigned
  <1>5. /\ run'.at = "post" /\ run'.attempts = 0 /\ run'.nonce = lane[c] + 1
        /\ run'.cell = c /\ run'.role = run.role /\ run'.board = run.board
        /\ run'.met = run.met /\ run'.limited = run.limited
        /\ run'.reconciled = run.reconciled /\ run'.matched = run.matched
        /\ run'.outcome = run.outcome /\ run'.disturbed = run.disturbed
    BY <1>1, <1>3 DEF RunRecord
  <1>6. Len(run.board) = 1 => run.board[1].nonce \in Nat
    BY <1>1, BoardNonce
  <1>7. Scripted(run', lane'[c])
    <2>1. CASE ProducerAt(run, lane[c])
      BY <1>1, <1>2, <1>5, <2>1 DEF Scripted, ProducerAt, ConsumerAt, DoneAt
    <2>2. CASE ConsumerAt(run, lane[c])
      BY <1>1, <1>2, <1>5, <1>6, <2>2 DEF Scripted, ProducerAt, ConsumerAt, DoneAt,
         OneRequest, MetByRequest, SameAdapter
    <2> QED
      BY <1>1, <2>1, <2>2 DEF Scripted, DoneAt
  <1> QED
    BY <1>1, <1>2, <1>4, <1>5, <1>7 DEF RunInv

\* The producer's post is refused once, and then no more.
LEMMA RateLimitedInv ==
  ASSUME RunInv, PostRateLimited
  PROVE  RunInv' /\ run'.at # "none"
  <1> DEFINE c == run.cell
  <1>1. /\ run.at = "post" /\ c \in Cells /\ Scripted(run, lane[c]) /\ run \in RunRecord
        /\ Actor = run.cell[1] /\ "limit" \notin run.met /\ lane' = lane
    BY DEF RunInv, PostRateLimited, Limited
  <1>2. ~ConsumerAt(run, lane[c])
    BY <1>1 DEF ConsumerAt, MetByRequest, Both
  <1>3. /\ ProducerAt(run, lane[c]) /\ run.role = "producer" /\ run.met = {}
        /\ run.attempts = 0 /\ run.limited = 0 /\ run.outcome = "none" /\ run.disturbed = FALSE
    BY <1>1, <1>2 DEF Scripted, ProducerAt, DoneAt
  <1>4. run' = [run EXCEPT !.met = {"limit"}, !.attempts = 1, !.limited = 1]
    <2> DEFINE met == [run EXCEPT !.met = @ \cup {"limit"}, !.attempts = @ + 1,
                                  !.limited = IF run.role = "producer" THEN @ + 1 ELSE @]
    <2>1. met = [run EXCEPT !.met = {"limit"}, !.attempts = 1, !.limited = 1]
      BY <1>3
    <2>2. met.attempts = 1
      BY <2>1, <1>1 DEF RunRecord
    <2>3. run' = IF met.attempts < 2 THEN met
                 ELSE [met EXCEPT !.at = "done", !.outcome = "error"]
      BY DEF PostRateLimited
    <2> HIDE DEF met
    <2> QED
      BY <2>1, <2>2, <2>3
  <1>5. run' \in RunRecord
    <2>1. {"limit"} \in FaultSets /\ 1 \in Twice
      BY DEF FaultSets, Both, Twice
    <2> QED
      BY <1>1, <1>4, <2>1, UpdateLimited
  <1>6. /\ run'.at = "post" /\ run'.attempts = 1 /\ run'.nonce = run.nonce
        /\ run'.cell = c /\ run'.role = run.role /\ run'.board = run.board
        /\ run'.met = {"limit"} /\ run'.limited = 1 /\ run'.reconciled = run.reconciled
        /\ run'.outcome = "none" /\ run'.disturbed = FALSE
    BY <1>1, <1>3, <1>4 DEF RunRecord
  <1>7. Scripted(run', lane[c])
    BY <1>1, <1>3, <1>6 DEF Scripted, ProducerAt
  <1> QED
    BY <1>1, <1>5, <1>6, <1>7 DEF RunInv

\* The record with the adapter's nonce is new to the board: it is added, and
\* the adapter hears of it or not.
LEMMA PostRecordInv ==
  ASSUME RunInv, PostRecord
  PROVE  RunInv' /\ run'.at # "none"
  <1> DEFINE c == run.cell  new == [body |-> Body, nonce |-> run.nonce]
             added == [run EXCEPT !.board = Append(@, new)]
  <1>1. /\ run.at = "post" /\ c \in Cells /\ Scripted(run, lane[c]) /\ run \in RunRecord
        /\ ~Limited /\ lane' = lane
    BY DEF RunInv, PostRecord
  <1>2. /\ run.outcome = "none" /\ run.disturbed = FALSE /\ run.role \in Roles
        /\ run.board \in Boards /\ run.nonce \in Nat /\ Len(run.board) \in Nat
        /\ ProducerAt(run, lane[c]) \/ ConsumerAt(run, lane[c])
    BY <1>1, BoardNonce DEF Scripted, DoneAt, RunRecord
  <1>3. WithNonce = {}
    <2>1. CASE ProducerAt(run, lane[c])
      BY <1>1, <2>1, EmptySeq DEF ProducerAt, WithNonce
    <2>2. CASE ConsumerAt(run, lane[c])
      <3>1. Len(run.board) = 1 /\ run.board[1].nonce < run.nonce
        BY <1>1, <2>2 DEF ConsumerAt, OneRequest
      <3>2. run.board[1].nonce \in Nat
        BY <3>1, <1>1, BoardNonce
      <3> QED
        BY <3>1, <3>2, <1>2 DEF WithNonce
    <2> QED
      BY <1>2, <2>1, <2>2
  <1>4. run' = IF Uncertain
               THEN [added EXCEPT !.met = @ \cup {"uncertain"}, !.at = "reconcile"]
               ELSE Posted(added)
    BY <1>3 DEF PostRecord
  <1>5. /\ Append(run.board, new) \in Boards
        /\ Len(Append(run.board, new)) = Len(run.board) + 1
        /\ Append(run.board, new)[Len(run.board) + 1] = new
        /\ \A i \in 1..Len(run.board) : Append(run.board, new)[i] = run.board[i]
    <2>1. new \in [body : Bodies, nonce : Nat]
      BY <1>2 DEF Body, Bodies
    <2> HIDE DEF new
    <2> QED
      BY <1>2, <2>1, AppendProperties DEF Boards
  <1>6. new.body = Body /\ new.nonce = run.nonce
    OBVIOUS
  <1> HIDE DEF new
  <1>7. /\ added \in RunRecord /\ added.board = Append(run.board, new)
        /\ added.cell = c /\ added.role = run.role /\ added.met = run.met
        /\ added.nonce = run.nonce /\ added.limited = run.limited
        /\ added.reconciled = run.reconciled /\ added.matched = run.matched
        /\ added.outcome = "none" /\ added.disturbed = FALSE
    BY <1>1, <1>2, <1>5, UpdateBoard DEF RunRecord
  <1> HIDE DEF added
  <1>8. CASE Uncertain
    <2>1. run' = [added EXCEPT !.met = Both, !.at = "reconcile"]
      <3>1. added.met \cup {"uncertain"} = Both
        BY <1>1, <1>2, <1>7, <1>8 DEF ProducerAt, ConsumerAt, Both, Limited, Uncertain,
           MetByRequest, Actor
      <3> QED
        BY <1>4, <1>8, <3>1
    <2>2. run' \in RunRecord
      <3>1. Both \in FaultSets /\ "reconcile" \in Places
        BY DEF FaultSets, Places
      <3> QED
        BY <2>1, <3>1, <1>7, UpdateMetPlace
    <2>3. /\ run'.at = "reconcile" /\ run'.met = Both /\ run'.board = Append(run.board, new)
          /\ run'.cell = c /\ run'.role = run.role
          /\ run'.nonce = run.nonce /\ run'.limited = run.limited
          /\ run'.reconciled = run.reconciled /\ run'.matched = run.matched
          /\ run'.outcome = "none" /\ run'.disturbed = FALSE
      BY <2>1, <1>7 DEF RunRecord
    <2>4. CASE ProducerAt(run, lane[c])
      <3>1. /\ run.role = "producer" /\ run.board = <<>> /\ run.met = {"limit"}
            /\ run.limited = 1 /\ run.reconciled = 0 /\ run.nonce <= lane[c]
            /\ SameAdapter(run) /\ Body = "request"
        BY <1>1, <1>8, <2>4 DEF ProducerAt, Limited, Uncertain, Actor, Body, SameAdapter
      <3>2. /\ Len(run'.board) = 1 /\ run'.board[1] = new
        BY <3>1, <2>3, <1>5, EmptySeq
      <3>3. ProducerAt(run', lane[c])
        BY <3>1, <3>2, <2>3, <1>6 DEF ProducerAt, OneRequest, SameAdapter
      <3> QED
        BY <3>3, <2>2, <2>3, <1>1 DEF RunInv, Scripted
    <2>5. CASE ConsumerAt(run, lane[c])
      <3>1. /\ run.role = "consumer" /\ run.matched = TRUE /\ run.limited = 1
            /\ run.reconciled = 0 /\ Len(run.board) = 1 /\ run.board[1].body = "request"
            /\ run.board[1].nonce < run.nonce /\ ~SameAdapter(run) /\ Body = "result"
        BY <1>1, <1>8, <2>5 DEF ConsumerAt, OneRequest, MetByRequest, Uncertain, Actor, Body,
           SameAdapter, Both
      <3>2. /\ Len(run'.board) = 2 /\ run'.board[2] = new /\ run'.board[1] = run.board[1]
        BY <3>1, <2>3, <1>5
      <3>3. ConsumerAt(run', lane[c])
        BY <3>1, <3>2, <2>3, <1>6 DEF ConsumerAt, RequestResult, SameAdapter
      <3> QED
        BY <3>3, <2>2, <2>3, <1>1 DEF RunInv, Scripted
    <2> QED
      BY <1>2, <2>3, <2>4, <2>5
  <1>9. CASE ~Uncertain
    <2> DEFINE next == IF run.role = "producer" THEN "read" ELSE "resume"
    <2>1. run' = [added EXCEPT !.at = next]
      BY <1>4, <1>9 DEF Posted
    <2>2. run' \in RunRecord
      <3>1. next \in Places
        BY DEF Places
      <3> HIDE DEF next
      <3>2. run.met \in FaultSets
        BY <1>1 DEF RunRecord
      <3> QED
        BY <2>1, <3>1, <3>2, <1>7, UpdateMetPlace
    <2>3. /\ run'.at = next /\ run'.met = run.met /\ run'.board = Append(run.board, new)
          /\ run'.cell = c /\ run'.role = run.role
          /\ run'.nonce = run.nonce /\ run'.limited = run.limited
          /\ run'.reconciled = run.reconciled /\ run'.matched = run.matched
          /\ run'.outcome = "none" /\ run'.disturbed = FALSE
      <3> HIDE DEF next
      <3> QED
        BY <2>1, <1>7 DEF RunRecord
    <2>4. CASE ProducerAt(run, lane[c])
      <3>1. /\ run.role = "producer" /\ run.board = <<>> /\ run.met = {"limit"}
            /\ run.limited = 1 /\ run.reconciled = 0 /\ run.nonce <= lane[c]
            /\ ~SameAdapter(run) /\ Body = "request"
        BY <1>1, <1>9, <2>4 DEF ProducerAt, Limited, Uncertain, Actor, Body, SameAdapter
      <3>2. /\ Len(run'.board) = 1 /\ run'.board[1] = new
        BY <3>1, <2>3, <1>5, EmptySeq
      <3>3. ProducerAt(run', lane[c])
        BY <3>1, <3>2, <2>3, <1>6 DEF ProducerAt, OneRequest, MetByRequest, SameAdapter
      <3> QED
        BY <3>1, <3>3, <2>2, <2>3, <1>1 DEF RunInv, Scripted
    <2>5. CASE ConsumerAt(run, lane[c])
      <3>1. /\ run.role = "consumer" /\ run.matched = TRUE /\ run.limited = 1
            /\ run.reconciled = 0 /\ Len(run.board) = 1 /\ run.board[1].body = "request"
            /\ run.board[1].nonce < run.nonce /\ SameAdapter(run) /\ run.met = Both
            /\ Body = "result"
        BY <1>1, <1>9, <2>5 DEF ConsumerAt, OneRequest, MetByRequest, Uncertain, Actor, Body,
           SameAdapter, Both
      <3>2. /\ Len(run'.board) = 2 /\ run'.board[2] = new /\ run'.board[1] = run.board[1]
        BY <3>1, <2>3, <1>5
      <3>3. ConsumerAt(run', lane[c])
        BY <3>1, <3>2, <2>3, <1>6 DEF ConsumerAt, RequestResult, SameAdapter
      <3> QED
        BY <3>1, <3>3, <2>2, <2>3, <1>1 DEF RunInv, Scripted
    <2> QED
      BY <1>2, <2>3, <2>4, <2>5
  <1> QED
    BY <1>8, <1>9

\* The uncertain write is found on the board, once.
LEMMA ReconcileInv ==
  ASSUME RunInv, Reconcile
  PROVE  RunInv' /\ run'.at # "none"
  <1> DEFINE c == run.cell
  <1>1. /\ run.at = "reconcile" /\ c \in Cells /\ Scripted(run, lane[c]) /\ run \in RunRecord
        /\ lane' = lane
    BY DEF RunInv, Reconcile
  <1>2. /\ run.outcome = "none" /\ run.disturbed = FALSE
        /\ ProducerAt(run, lane[c]) \/ ConsumerAt(run, lane[c])
    BY <1>1 DEF Scripted, DoneAt
  <1>3. \E i : WithNonce = {i}
    <2>1. CASE ProducerAt(run, lane[c])
      <3>1. Len(run.board) = 1 /\ run.board[1].nonce = run.nonce
        BY <1>1, <2>1 DEF ProducerAt, OneRequest
      <3>2. WithNonce = {1}
        BY <3>1 DEF WithNonce
      <3> QED
        BY <3>2
    <2>2. CASE ConsumerAt(run, lane[c])
      <3>1. /\ Len(run.board) = 2 /\ run.board[2].nonce = run.nonce
            /\ run.board[1].nonce < run.board[2].nonce
        BY <1>1, <2>2 DEF ConsumerAt, RequestResult
      <3>2. run.board[1].nonce \in Nat /\ run.board[2].nonce \in Nat
        BY <3>1, <1>1, BoardNonce
      <3>3. run.board[1].nonce # run.nonce
        BY <3>1, <3>2
      <3>4. WithNonce = {2}
        BY <3>1, <3>3 DEF WithNonce
      <3> QED
        BY <3>4
    <2> QED
      BY <1>2, <2>1, <2>2
  <1>4. Cardinality(WithNonce) = 1
    BY <1>3, FS_Singleton
  <1> DEFINE count == IF run.role = "consumer" THEN run.reconciled + 1 ELSE run.reconciled
             next == IF run.role = "producer" THEN "read" ELSE "resume"
             heard == [run EXCEPT !.reconciled = count]
  <1>5. run' = [heard EXCEPT !.at = next]
    BY <1>4 DEF Reconcile, Posted
  <1>6. count \in Once /\ next \in Places
    BY <1>1, <1>2 DEF ProducerAt, ConsumerAt, Once, Places
  <1> HIDE DEF count, next
  <1>7. heard \in RunRecord /\ run.met \in FaultSets
    BY <1>1, <1>6, UpdateReconciled DEF RunRecord
  <1>8. run' \in RunRecord
    <2> HIDE DEF heard
    <2> QED
      BY <1>5, <1>6, <1>7, UpdateMetPlace
  <1>9. /\ run'.at = next /\ run'.met = run.met /\ run'.board = run.board
        /\ run'.cell = c /\ run'.role = run.role /\ run'.limited = run.limited
        /\ run'.reconciled = count /\ run'.matched = run.matched
        /\ run'.outcome = "none" /\ run'.disturbed = FALSE
    BY <1>1, <1>2, <1>5 DEF RunRecord
  <1>10. CASE ProducerAt(run, lane[c])
    <2>1. /\ run.role = "producer" /\ SameAdapter(run) /\ run.met = Both /\ run.limited = 1
          /\ OneRequest(run, lane[c]) /\ run.reconciled = 0
      BY <1>1, <1>10 DEF ProducerAt
    <2>2. next = "read" /\ count = 0
      BY <2>1 DEF next, count
    <2>3. ProducerAt(run', lane[c])
      BY <2>1, <2>2, <1>9 DEF ProducerAt, MetByRequest, OneRequest, SameAdapter
    <2> QED
      BY <2>2, <2>3, <1>1, <1>8, <1>9 DEF RunInv, Scripted
  <1>11. CASE ConsumerAt(run, lane[c])
    <2>1. /\ run.role = "consumer" /\ ~SameAdapter(run) /\ run.met = Both /\ run.limited = 1
          /\ RequestResult(run) /\ run.reconciled = 0 /\ run.matched = TRUE
      BY <1>1, <1>11 DEF ConsumerAt
    <2>2. next = "resume" /\ count = 1
      BY <2>1 DEF next, count
    <2>3. ConsumerAt(run', lane[c])
      BY <2>1, <2>2, <1>9 DEF ConsumerAt, RequestResult, SameAdapter
    <2> QED
      BY <2>2, <2>3, <1>1, <1>8, <1>9 DEF RunInv, Scripted
  <1> QED
    BY <1>2, <1>10, <1>11

\* The consumer finds exactly the request.
LEMMA ConsumerReadInv ==
  ASSUME RunInv, ConsumerRead
  PROVE  RunInv' /\ run'.at # "none"
  <1> DEFINE c == run.cell
  <1>1. /\ run.at = "read" /\ c \in Cells /\ Scripted(run, lane[c]) /\ run \in RunRecord
        /\ lane' = lane
    BY DEF RunInv, ConsumerRead
  <1>2. /\ run.outcome = "none" /\ run.disturbed = FALSE /\ run.limited = 1
        /\ MetByRequest(run) /\ OneRequest(run, lane[c]) /\ run.reconciled = 0
    BY <1>1 DEF Scripted, DoneAt, ProducerAt, ConsumerAt
  <1>3. run' = [run EXCEPT !.matched = TRUE, !.role = "consumer", !.at = "sign"]
    <2>1. (Len(run.board) = 1) = TRUE
      BY <1>2 DEF OneRequest
    <2> QED
      BY <2>1 DEF ConsumerRead
  <1>4. run' \in RunRecord
    <2>1. "consumer" \in Roles /\ "sign" \in Places
      BY DEF Roles, Places
    <2> QED
      BY <2>1, <1>1, <1>3, UpdateRead
  <1>5. /\ run'.at = "sign" /\ run'.matched = TRUE /\ run'.role = "consumer"
        /\ run'.met = run.met /\ run'.board = run.board /\ run'.cell = c
        /\ run'.limited = 1 /\ run'.reconciled = 0
        /\ run'.outcome = "none" /\ run'.disturbed = FALSE
    BY <1>1, <1>2, <1>3 DEF RunRecord
  <1>6. ConsumerAt(run', lane[c])
    BY <1>2, <1>5 DEF ConsumerAt, MetByRequest, OneRequest, SameAdapter
  <1> QED
    BY <1>1, <1>4, <1>5, <1>6 DEF RunInv, Scripted

\* The restarted producer confirms, and the verdict is given.
LEMMA ResumeInv ==
  ASSUME RunInv, Resume
  PROVE  RunInv' /\ run'.at # "none"
  <1> DEFINE c == run.cell  verdict == IF SameAdapter(run) THEN "fail" ELSE "pass"
  <1>1. /\ run.at = "resume" /\ c \in Cells /\ Scripted(run, lane[c]) /\ run \in RunRecord
        /\ lane' = lane
    BY DEF RunInv, Resume
  <1>2. /\ run.outcome = "none" /\ run.disturbed = FALSE /\ run.limited = 1
        /\ run.matched = TRUE /\ run.met = Both /\ RequestResult(run)
        /\ run.reconciled = IF SameAdapter(run) THEN 0 ELSE 1
    BY <1>1 DEF Scripted, DoneAt, ProducerAt, ConsumerAt
  <1>3. run' = [run EXCEPT !.at = "done", !.outcome = verdict]
    <2>1. CASE SameAdapter(run)
      BY <2>1, <1>2 DEF Resume
    <2>2. CASE ~SameAdapter(run)
      BY <2>2, <1>2 DEF Resume, RestoredCursor
    <2> QED
      BY <2>1, <2>2
  <1>4. verdict \in Verdicts /\ "done" \in Places
    BY DEF Verdicts, Places
  <1> HIDE DEF verdict
  <1>5. run' \in RunRecord
    BY <1>1, <1>3, <1>4, UpdateVerdict
  <1>6. /\ run'.at = "done" /\ run'.outcome = verdict /\ run'.disturbed = FALSE
        /\ run'.met = Both /\ run'.board = run.board /\ run'.cell = c
    BY <1>1, <1>2, <1>3 DEF RunRecord
  <1>7. DoneAt(run')
    BY <1>2, <1>6 DEF DoneAt, RequestResult, SameAdapter, verdict
  <1> QED
    BY <1>1, <1>5, <1>6, <1>7 DEF RunInv, Scripted

\* An exception leaves the run.
LEMMA RaisesInv ==
  ASSUME RunInv, RunRaises
  PROVE  RunInv' /\ run'.at # "none"
  <1>1. /\ run.cell \in Cells /\ run \in RunRecord /\ lane' = lane
        /\ run' = [[run EXCEPT !.at = "done", !.outcome = "error"] EXCEPT !.disturbed = TRUE]
    BY DEF RunInv, RunRaises, Raised
  <1>2. "done" \in Places /\ "error" \in Verdicts
    BY DEF Places, Verdicts
  <1>3. PICK r : r = [run EXCEPT !.at = "done", !.outcome = "error"]
    OBVIOUS
  <1>4. r \in RunRecord
    BY <1>1, <1>2, <1>3, UpdateVerdict
  <1>5. run' \in RunRecord
    BY <1>1, <1>3, <1>4, UpdateDisturbed
  <1>6. run'.at = "done" /\ run'.outcome = "error" /\ run'.disturbed = TRUE
        /\ run'.cell = run.cell
    BY <1>1 DEF RunRecord
  <1> QED
    BY <1>1, <1>5, <1>6 DEF RunInv, Scripted, DoneAt

\* Every step of the script keeps the facts about the run.
LEMMA ScriptStep ==
  ASSUME RunInv, SignMessage \/ RunStep \/ RunRaises
  PROVE  RunInv' /\ run'.at # "none"
  BY SignInv, RateLimitedInv, PostRecordInv, ReconcileInv, ConsumerReadInv, ResumeInv,
     RaisesInv DEF RunStep

\* A verdict that is given is right.
LEMMA RunInvVerdict ==
  ASSUME RunInv
  PROVE  VerdictRight /\ (run.at = "done" => run.outcome \in Outcomes)
  <1> SUFFICES ASSUME run.at = "done" PROVE VerdictRight /\ run.outcome \in Outcomes
    BY DEF VerdictRight
  <1>1. DoneAt(run) /\ run \in RunRecord
    BY DEF RunInv, Scripted, ProducerAt, ConsumerAt
  <1>2. CASE run.disturbed = TRUE /\ run.outcome = "error"
    BY <1>2 DEF VerdictRight, Outcomes
  <1>3. CASE /\ run.disturbed = FALSE /\ run.met = Both /\ RequestResult(run)
             /\ run.outcome = IF SameAdapter(run) THEN "fail" ELSE "pass"
    <2>1. [i \in 1..Len(run.board) |-> run.board[i].body] = <<"request", "result">>
      <3>1. Len(run.board) = 2 /\ run.board[1].body = "request" /\ run.board[2].body = "result"
        BY <1>3 DEF RequestResult
      <3>2. [i \in 1..2 |-> run.board[i].body] = <<"request", "result">>
        BY <3>1
      <3> QED
        BY <3>1, <3>2
    <2> QED
      BY <2>1, <1>3 DEF VerdictRight, Outcomes, RequestResult, SameAdapter, Both
  <1> QED
    BY <1>1, <1>2, <1>3 DEF DoneAt

\* A run has the type the module states.
LEMMA RunInvType ==
  ASSUME RunInv
  PROVE  RunTypeOK
  BY DEF RunInv, RunTypeOK, RunRecord, Boards, FaultSets, Both, Twice, Once, Verdicts

-----------------------------------------------------------------------------
(* The probe: what it prepared, what it posts.                                 *)

\* Appending to a sequence adds the element.
LEMMA AppendAdds ==
  ASSUME NEW S, NEW s \in Seq(S), NEW x \in S
  PROVE  /\ Append(s, x) \in Seq(S) /\ Len(Append(s, x)) = Len(s) + 1 /\ Len(s) \in Nat
         /\ \A i \in 1..Len(s) : Append(s, x)[i] = s[i]
         /\ Append(s, x)[Len(s) + 1] = x
         /\ ToSet(Append(s, x)) = ToSet(s) \cup {x} /\ ToSet(s) \subseteq S
  BY AppendProperties, LenProperties, ElementOfSeq DEF ToSet

\* Appending a new element keeps the elements distinct.
LEMMA AppendDistinct ==
  ASSUME NEW S, NEW s \in Seq(S), NEW x \in S, IsInjective(s), x \notin ToSet(s),
         NEW t, t = Append(s, x)
  PROVE  IsInjective(t)
  <1>1. /\ t \in Seq(S) /\ Len(t) = Len(s) + 1 /\ Len(s) \in Nat /\ t[Len(s) + 1] = x
        /\ \A i \in 1..Len(s) : t[i] = s[i]
    BY AppendAdds
  <1>2. DOMAIN s = 1..Len(s) /\ DOMAIN t = 1 .. Len(s) + 1
    BY <1>1, LenProperties
  <1>3. \A i \in 1..Len(s) : s[i] # x
    BY <1>2 DEF ToSet
  <1>4. \A a, b \in 1..Len(s) : s[a] = s[b] => a = b
    BY <1>2 DEF IsInjective
  <1> DEFINE n == Len(s)
  <1> HIDE DEF n
  <1>5. \A a, b \in 1 .. n + 1 : t[a] = t[b] => a = b
    <2>1. /\ n \in Nat /\ t[n + 1] = x /\ (\A i \in 1..n : t[i] = s[i])
          /\ (\A i \in 1..n : s[i] # x) /\ (\A a, b \in 1..n : s[a] = s[b] => a = b)
      BY <1>1, <1>3, <1>4 DEF n
    <2>2. \A a \in 1 .. n + 1 : a \in 1..n \/ a = n + 1
      BY <2>1
    <2> QED
      BY <2>1, <2>2
  <1>6. DOMAIN t = 1 .. n + 1
    BY <1>2 DEF n
  <1> QED
    BY <1>5, <1>6, Zenon DEF IsInjective

Commands == [kind : {"none", "prepare", "activate", "verify"},
             at : {"idle", "attestation", "act", "report"},
             p : Requests \cup {NoReq}, seen : 0 .. MaxCards]

\* A command under way has seen a card, is at a place of its own script, and
\* carries a preview whose digest is approved, unless it is to prepare one;
\* when it acts, the card it saw has its attestation.
CommandOK ==
  cmd # NoCmd =>
    /\ cmd.seen \in 1..MaxCards
    /\ cmd.at = "act" => cmd.seen <= attestation
    /\ \/ /\ cmd.kind = "prepare" /\ cmd.at \in {"attestation", "act"}
          /\ Len(previews) < MaxPreviews
       \/ /\ cmd.kind = "activate" /\ cmd.at \in {"attestation", "act"}
          /\ cmd.p \in approved
       \/ /\ cmd.kind = "verify" /\ cmd.at \in {"attestation", "act", "report"}
          /\ cmd.p \in approved

CardsOK == card \in 1..MaxCards /\ attestation \in 1..MaxCards /\ attestation <= card

PreviewsOK ==
  /\ previews \in Seq(1..MaxCards) /\ Len(previews) <= MaxPreviews
  /\ \A p \in 1..Len(previews) : previews[p] <= attestation
  /\ approved \subseteq 1..Len(previews) /\ verified \subseteq approved

BoardOK ==
  /\ mailbox \in Seq(Requests) /\ IsInjective(mailbox) /\ ToSet(mailbox) \subseteq approved
  /\ wire \subseteq approved /\ late \subseteq Requests

PostInv == CardsOK /\ cmd \in Commands /\ CommandOK /\ PreviewsOK /\ BoardOK

\* No command has its type.
LEMMA NoCmdType == NoCmd \in Commands /\ NoCmd.at = "idle" /\ NoCmd.kind = "none"
  BY ProbeAssumption DEF NoCmd, Commands, NoReq

\* An approved preview is a request.
LEMMA ApprovedRequests ==
  ASSUME PostInv
  PROVE  /\ approved \subseteq Requests /\ Len(previews) \in Nat
         /\ \A p \in 1..Len(previews) : previews[p] \in 1..MaxCards
  <1>1. Len(previews) \in Nat /\ Len(previews) <= MaxPreviews
    BY LenProperties DEF PostInv, PreviewsOK
  <1>2. \A p \in 1..Len(previews) : previews[p] \in 1..MaxCards
    BY ElementOfSeq DEF PostInv, PreviewsOK
  <1> QED
    BY <1>1, <1>2, ProbeAssumption DEF PostInv, PreviewsOK, Requests

\* At the start nothing is prepared or posted.
LEMMA InitPost == Init => PostInv
  <1> SUFFICES ASSUME Init PROVE PostInv
    OBVIOUS
  <1>1. CardsOK /\ cmd \in Commands /\ CommandOK
    BY NoCmdType, ProbeAssumption DEF Init, CardsOK, CommandOK
  <1>2. <<>> \in Seq(1..MaxCards) /\ <<>> \in Seq(Requests) /\ Len(<<>>) = 0
        /\ DOMAIN <<>> = {}
    BY EmptySeq
  <1>3. PreviewsOK
    BY <1>2, ProbeAssumption DEF Init, PreviewsOK
  <1>4. BoardOK
    BY <1>2 DEF Init, BoardOK, IsInjective, ToSet
  <1> QED
    BY <1>1, <1>3, <1>4 DEF PostInv

\* A renewed card: the attestation catches up with it.
LEMMA CardStepPost ==
  ASSUME PostInv, PublishCard \/ PublishAttestation
  PROVE  PostInv'
  <1>1. UNCHANGED <<previews, approved, cmd, verified, mailbox, wire, late>>
    BY DEF PublishCard, PublishAttestation, probeVars, boardVars
  <1>2. CardsOK' /\ attestation <= attestation' /\ attestation \in Nat /\ attestation' \in Nat
    BY ProbeAssumption DEF PostInv, CardsOK, PublishCard, PublishAttestation
  <1>3. CommandOK'
    BY <1>1, <1>2, ProbeAssumption DEF PostInv, CommandOK
  <1>4. PreviewsOK'
    <2>1. \A p \in 1..Len(previews) : previews[p] \in Nat
      BY ApprovedRequests, ProbeAssumption
    <2> QED
      BY <1>1, <1>2, <2>1 DEF PostInv, PreviewsOK
  <1> QED
    BY <1>1, <1>2, <1>3, <1>4 DEF PostInv, BoardOK

\* A command starts with a look at the card.
LEMMA StartPost ==
  ASSUME PostInv,
         \/ StartPrepare
         \/ \E p \in Requests, digest \in approved : StartActivate(p, digest)
                                                     \/ StartVerify(p, digest)
  PROVE  PostInv'
  <1>1. PICK kind \in {"prepare", "activate", "verify"}, p \in Requests \cup {NoReq} :
          /\ ReadCard(kind, p)
          /\ IF kind = "prepare" THEN Len(previews) < MaxPreviews ELSE p \in approved
    BY DEF StartPrepare, StartActivate, StartVerify, ValidatedPreview
  <1>2. /\ UNCHANGED <<card, attestation, previews, approved, verified, mailbox, wire, late>>
        /\ cmd' = [kind |-> kind, at |-> "attestation", p |-> p, seen |-> card]
    BY <1>1 DEF ReadCard, cardVars, boardVars
  <1>3. card \in 1..MaxCards /\ card \in 0..MaxCards
    BY ProbeAssumption DEF PostInv, CardsOK
  <1>4. cmd' \in Commands
    BY <1>2, <1>3 DEF Commands
  <1>5. cmd'.kind = kind /\ cmd'.at = "attestation" /\ cmd'.p = p /\ cmd'.seen = card
    BY <1>2
  <1>6. CommandOK'
    BY <1>1, <1>2, <1>3, <1>5 DEF CommandOK
  <1> QED
    BY <1>2, <1>4, <1>6 DEF PostInv, CardsOK, PreviewsOK, BoardOK

\* The attestation is that of the card seen, or the command is over.
LEMMA AttestationPost ==
  ASSUME PostInv, ReadAttestation
  PROVE  PostInv'
  <1>1. UNCHANGED <<card, attestation, previews, approved, verified, mailbox, wire, late>>
    BY DEF ReadAttestation, cardVars, boardVars
  <1>2. CASE cmd' = NoCmd
    BY <1>1, <1>2, NoCmdType DEF PostInv, CardsOK, CommandOK, PreviewsOK, BoardOK
  <1>3. CASE cmd' = [cmd EXCEPT !.at = "act"] /\ attestation = cmd.seen
    <2>1. cmd' \in Commands /\ cmd'.at = "act" /\ cmd'.kind = cmd.kind /\ cmd'.p = cmd.p
          /\ cmd'.seen = cmd.seen
      BY <1>3 DEF PostInv, Commands
    <2>2. cmd # NoCmd /\ cmd.at = "attestation"
      BY NoCmdType DEF ReadAttestation
    <2>3. cmd.seen <= attestation
      BY <1>3 DEF PostInv, CardsOK
    <2>4. CommandOK'
      BY <1>1, <2>1, <2>2, <2>3 DEF PostInv, CommandOK
    <2> QED
      BY <1>1, <2>1, <2>4 DEF PostInv, CardsOK, PreviewsOK, BoardOK
  <1> QED
    BY <1>2, <1>3 DEF ReadAttestation, VerifyServiceCard, Await, EndCommand

\* A preview is written, from a card that has its attestation.
LEMMA PreparePost ==
  ASSUME PostInv, Prepare
  PROVE  PostInv'
  <1>1. /\ UNCHANGED <<card, attestation, approved, verified, mailbox, wire, late>>
        /\ previews' = Append(previews, cmd.seen) /\ cmd' = NoCmd
        /\ cmd.kind = "prepare" /\ cmd.at = "act"
    BY DEF Prepare, cardVars, boardVars, EndCommand
  <1>2. cmd.seen \in 1..MaxCards /\ cmd.seen <= attestation /\ Len(previews) < MaxPreviews
    BY <1>1, NoCmdType DEF PostInv, CommandOK
  <1>3. previews \in Seq(1..MaxCards)
    BY DEF PostInv, PreviewsOK
  <1>4. /\ previews' \in Seq(1..MaxCards) /\ Len(previews') = Len(previews) + 1
        /\ Len(previews) \in Nat /\ previews'[Len(previews) + 1] = cmd.seen
        /\ \A i \in 1..Len(previews) : previews'[i] = previews[i]
    BY <1>1, <1>2, <1>3, AppendAdds
  <1>5. PreviewsOK'
    BY <1>1, <1>2, <1>4, ProbeAssumption DEF PostInv, PreviewsOK
  <1> QED
    BY <1>1, <1>5, NoCmdType DEF PostInv, CardsOK, CommandOK, BoardOK

\* The operator's approval.
LEMMA ApprovePost ==
  ASSUME PostInv, NEW p \in Requests, Approve(p)
  PROVE  PostInv'
  <1>1. /\ UNCHANGED <<card, attestation, previews, cmd, verified, mailbox, wire, late>>
        /\ approved' = approved \cup {p} /\ p \in 1..Len(previews)
    BY DEF Approve, cardVars, boardVars
  <1> QED
    BY <1>1 DEF PostInv, CardsOK, CommandOK, PreviewsOK, BoardOK

\* The mailbox takes an approved request once.
LEMMA DeliveredPost ==
  ASSUME PostInv, NEW p \in approved, Delivered(p)
  PROVE  /\ mailbox' \in Seq(Requests) /\ IsInjective(mailbox')
         /\ ToSet(mailbox') \subseteq approved /\ ToSet(mailbox) \subseteq ToSet(mailbox')
         /\ Len(mailbox) \in Nat /\ Len(mailbox') \in Nat /\ Len(mailbox) <= Len(mailbox')
  <1>1. /\ mailbox \in Seq(Requests) /\ IsInjective(mailbox) /\ ToSet(mailbox) \subseteq approved
        /\ p \in Requests
    BY ApprovedRequests DEF PostInv, BoardOK
  <1>2. CASE mailbox' = mailbox
    BY <1>1, <1>2, LenProperties
  <1>3. CASE mailbox' = Append(mailbox, p) /\ \A q \in ToSet(mailbox) : q < p
    <2>1. p \notin ToSet(mailbox)
      BY <1>1, <1>3, ProbeAssumption DEF Requests
    <2>2. IsInjective(mailbox')
      <3>1. PICK box : box = Append(mailbox, p)
        OBVIOUS
      <3>2. IsInjective(box)
        BY <1>1, <2>1, <3>1, AppendDistinct
      <3> QED
        BY <1>3, <3>1, <3>2
    <2>3. /\ mailbox' \in Seq(Requests) /\ ToSet(mailbox') = ToSet(mailbox) \cup {p}
          /\ Len(mailbox) \in Nat /\ Len(mailbox') = Len(mailbox) + 1
      BY <1>1, <1>3, AppendAdds
    <2> QED
      BY <1>1, <2>2, <2>3
  <1> QED
    BY <1>2, <1>3 DEF Delivered

\* activate: an approved request is posted, or is on its way.
LEMMA ActivatePost ==
  ASSUME PostInv, Activate
  PROVE  PostInv'
  <1>1. /\ UNCHANGED <<card, attestation, previews, approved, verified, late>>
        /\ cmd' = NoCmd /\ cmd.kind = "activate"
        /\ (Delivered(cmd.p) /\ wire' = wire) \/ (wire' = wire \cup {cmd.p} /\ mailbox' = mailbox)
    BY DEF Activate, cardVars, EndCommand
  <1>2. cmd.p \in approved
    BY <1>1, NoCmdType DEF PostInv, CommandOK
  <1>3. BoardOK'
    <2>1. CASE Delivered(cmd.p) /\ wire' = wire
      BY <1>1, <1>2, <2>1, DeliveredPost DEF PostInv, BoardOK
    <2>2. CASE wire' = wire \cup {cmd.p} /\ mailbox' = mailbox
      BY <1>1, <1>2, <2>2 DEF PostInv, BoardOK
    <2> QED
      BY <1>1, <2>1, <2>2
  <1> QED
    BY <1>1, <1>3, NoCmdType DEF PostInv, CardsOK, CommandOK, PreviewsOK

\* verify: the replies, then the report.
LEMMA VerifyPost ==
  ASSUME PostInv, ReadReplies \/ VerifyReport
  PROVE  PostInv'
  <1>1. UNCHANGED <<card, attestation, previews, approved, mailbox, wire, late>>
    BY DEF ReadReplies, VerifyReport, cardVars, boardVars
  <1>2. CASE ReadReplies
    <2>1. /\ verified' = verified /\ cmd.kind = "verify"
          /\ cmd' = NoCmd \/ cmd' = [cmd EXCEPT !.at = "report"]
      BY <1>2 DEF ReadReplies, EndCommand, Await
    <2>2. CASE cmd' = NoCmd
      BY <1>1, <2>1, <2>2, NoCmdType DEF PostInv, CardsOK, CommandOK, PreviewsOK, BoardOK
    <2>3. CASE cmd' = [cmd EXCEPT !.at = "report"]
      <3>1. cmd' \in Commands /\ cmd'.at = "report" /\ cmd'.kind = "verify"
            /\ cmd'.p = cmd.p /\ cmd'.seen = cmd.seen
        BY <2>1, <2>3 DEF PostInv, Commands
      <3>2. CommandOK'
        BY <1>1, <2>1, <3>1, NoCmdType DEF PostInv, CommandOK
      <3> QED
        BY <1>1, <2>1, <3>1, <3>2 DEF PostInv, CardsOK, PreviewsOK, BoardOK
    <2> QED
      BY <2>1, <2>2, <2>3
  <1>3. CASE VerifyReport
    <2>1. verified' \subseteq verified \cup {cmd.p} /\ cmd' = NoCmd /\ cmd.at = "report"
      BY <1>3 DEF VerifyReport, EndCommand
    <2>2. cmd.p \in approved
      BY <2>1, NoCmdType DEF PostInv, CommandOK
    <2> QED
      BY <1>1, <2>1, <2>2, NoCmdType DEF PostInv, CardsOK, CommandOK, PreviewsOK, BoardOK
  <1> QED
    BY <1>2, <1>3

\* A request whose caller is gone arrives, and requests expire.
LEMMA BoardPost ==
  ASSUME PostInv, NEW p \in Requests, LateRequest(p) \/ Expire(p)
  PROVE  PostInv'
  <1>1. UNCHANGED <<card, attestation, previews, approved, cmd, verified>>
    BY DEF LateRequest, Expire, cardVars, probeVars
  <1>2. CASE LateRequest(p)
    <2>1. p \in wire /\ p \in approved /\ Delivered(p) /\ wire' = wire \ {p} /\ late' = late
      BY <1>2 DEF LateRequest, PostInv, BoardOK
    <2>2. BoardOK'
      BY <1>1, <2>1, DeliveredPost DEF PostInv, BoardOK
    <2> QED
      BY <1>1, <2>2 DEF PostInv, CardsOK, CommandOK, PreviewsOK
  <1>3. CASE Expire(p)
    <2>1. UNCHANGED <<mailbox, wire>> /\ late' = late \cup {p}
      BY <1>3 DEF Expire
    <2> QED
      BY <1>1, <2>1 DEF PostInv, CardsOK, CommandOK, PreviewsOK, BoardOK
  <1> QED
    BY <1>2, <1>3

\* The steps of the service leave cards, commands and mailbox alone.
LEMMA ServiceFrame ==
  ASSUME ServiceStep \/ RunFails \/ (\E died \in BOOLEAN : Interrupted(died))
         \/ (\E m \in flight : LateReply(m)) \/ UNCHANGED vars
  PROVE  UNCHANGED <<card, attestation, previews, approved, cmd, verified, mailbox, wire, late>>
  BY DEF ServiceStep, Recover, SkipRecord, AcceptRequest, RefuseRequest, ResumeRequest,
     SendAck, SendRejection, BuildBundle, RunOn, FinishBundle, Publish, SendResult, StoreResult,
     CopyFile, RunFails, Interrupted, LateReply, vars, outside, cardVars, probeVars, boardVars

\* Every step keeps what the probe knows and posts.
LEMMA StepPost == PostInv /\ [Next]_vars => PostInv'
  <1> SUFFICES ASSUME PostInv, [Next]_vars PROVE PostInv'
    OBVIOUS
  <1>1. CASE ServiceStep \/ RunFails \/ (\E died \in BOOLEAN : Interrupted(died))
             \/ (\E m \in flight : LateReply(m)) \/ UNCHANGED vars
    BY <1>1, ServiceFrame DEF PostInv, CardsOK, CommandOK, PreviewsOK, BoardOK
  <1>2. CASE CommandStep
    BY <1>2, AttestationPost, PreparePost, ActivatePost, VerifyPost DEF CommandStep
  <1> QED
    BY <1>1, <1>2, CardStepPost, StartPost, ApprovePost, BoardPost DEF Next

\* Every request of the mailbox is that of an approved preview, made from a
\* card that was published with its attestation, and none is there twice
\* (PublicPilotProbe.prepare, activate).
THEOREM PostedApprovedAlways == Spec => []PostedApproved
  <1>1. PostInv => PostedApproved
    BY ApprovedRequests DEF PostInv, PreviewsOK, BoardOK, PostedApproved
  <1> QED
    BY <1>1, InitPost, StepPost, PTL DEF Spec

-----------------------------------------------------------------------------
(* The run within the service.                                                 *)

\* The steps that are not part of a run leave it alone.
LEMMA RunFrame ==
  ASSUME [Next]_vars, ~BuildBundle, ~RunOn, ~FinishBundle, ~RunFails,
         ~\E died \in BOOLEAN : Interrupted(died)
  PROVE  UNCHANGED <<lane, run>>
  BY DEF Next, PublishCard, PublishAttestation, StartPrepare, StartActivate, StartVerify, ReadCard,
     CommandStep, ReadAttestation, Prepare, Activate, ReadReplies, VerifyReport, Approve,
     LateRequest, Expire, ServiceStep, Recover, SkipRecord, AcceptRequest, RefuseRequest,
     ResumeRequest, SendAck, SendRejection, Publish, SendResult, StoreResult, CopyFile, LateReply,
     vars, runVars

\* Every step keeps the run on its script.
LEMMA StepRun == RunInv /\ [Next]_vars => RunInv'
  <1> SUFFICES ASSUME RunInv, [Next]_vars PROVE RunInv'
    OBVIOUS
  <1>1. CASE UNCHANGED <<lane, run>>
    BY <1>1 DEF RunInv
  <1>2. CASE BuildBundle
    <2>1. UNCHANGED runVars \/ StartRun(ProbeCell)
      BY <1>2 DEF BuildBundle
    <2>2. CASE UNCHANGED runVars
      BY <1>1, <2>2 DEF runVars
    <2> QED
      BY <2>1, <2>2, StartRunInv, ProbeAssumption
  <1>3. CASE RunOn
    BY <1>3, ScriptStep DEF RunOn
  <1>4. CASE RunFails
    BY <1>4, ScriptStep DEF RunFails
  <1>5. CASE FinishBundle \/ \E died \in BOOLEAN : Interrupted(died)
    BY <1>5, DropRunInv DEF FinishBundle, Interrupted
  <1> QED
    BY <1>1, <1>2, <1>3, <1>4, <1>5, RunFrame

\* The run is on its script in every state.
THEOREM RunInvAlways == Spec => []RunInv
  <1>1. Init => RunInv
    BY InitRun DEF Init
  <1> QED
    BY <1>1, StepRun, PTL DEF Spec

\* No false alarm and no false pass: an undisturbed run of two adapters passes,
\* and a run passes only when its mailbox holds one request and then one
\* result, under rising nonces, and both injected faults were met
\* (run_roundtrip, FixtureAdapter.post_signed, LocalTechnocore).
THEOREM VerdictRightAlways == Spec => []VerdictRight
  BY RunInvAlways, RunInvVerdict, PTL

-----------------------------------------------------------------------------
(* The service: where it is, and what it has told the probe.                   *)

SvcPlaces  == {"idle", "ack", "reject", "build", "run", "publish", "copy", "result", "store"}
SvcRecord  == [at : SvcPlaces, req : Requests \cup {NoReq}]
JobStates  == {"none", "pending", "failed", "complete"}
Bundles    == Outcomes \cup {"none"}
FileSets   == SUBSET Files

SvcTypes ==
  /\ svc \in SvcRecord /\ cursor \in 0 .. Len(mailbox)
  /\ job \in [Requests -> JobStates] /\ used \in 0..PerDid
  /\ bundle \in [Requests -> Bundles] /\ report \in [Requests -> FileSets]
  /\ stored \subseteq Requests
  /\ faults \in 0..MaxFaults

\* What the service has behind it where it is: the request at hand has a job
\* unless it is being refused, a run has no bundle yet, and what comes after it
\* has one; a result goes out after the report is whole.
SvcAtWork(s, j, u, b, rp) ==
  /\ s.at = "idle" => s = NoSvc
  /\ s.at # "idle" => s.req \in Requests
  /\ s.at = "reject" => j[s.req] = "none" /\ u = PerDid
  /\ s.at \notin {"idle", "reject"} => j[s.req] # "none"
  /\ s.at = "run" => b[s.req] = "none"
  /\ s.at \in {"publish", "copy", "result"} => b[s.req] \in Outcomes
  /\ s.at = "result" => rp[s.req] = Files

\* A message tells the truth about job, quota, bundle and report.
TrueOf(m, j, u, b, rp) ==
  /\ m.kind = "accepted" => j[m.req] # "none"
  /\ m.kind = "rejected" => j[m.req] = "none" /\ u = PerDid
  /\ m.kind \in Outcomes => m.kind = b[m.req] /\ rp[m.req] = Files

\* The reply room: no message twice, none both there and on its way.
RoomOK(rs, fl) ==
  rs \in Seq(Reply) /\ IsInjective(rs) /\ fl \subseteq Reply /\ fl \cap ToSet(rs) = {}

Truthful == \A m \in ToSet(replies) \cup flight : TrueOf(m, job, used, bundle, report)

SvcInv ==
  /\ SvcTypes
  /\ SvcAtWork(svc, job, used, bundle, report)
  /\ svc.at = "reject" => cursor < Len(mailbox)
  /\ RoomOK(replies, flight) /\ Truthful
  /\ \A r \in Requests : job[r] # "none" => r \in ToSet(mailbox)

\* What the probe counts as verified it has read: both messages are there.
ReadBoth ==
  \A p \in Requests :
    p \in verified \/ (cmd.at = "report" /\ cmd.p = p) =>
      /\ [req |-> p, kind |-> "accepted"] \in ToSet(replies)
      /\ [req |-> p, kind |-> "pass"] \in ToSet(replies)

\* The service at rest has its type.
LEMMA NoSvcType == NoSvc \in SvcRecord /\ NoSvc.at = "idle" /\ NoSvc.req = NoReq
  BY DEF NoSvc, SvcRecord, SvcPlaces

\* At the start the service has done nothing.
LEMMA InitSvc == Init => SvcInv /\ ReadBoth
  <1> SUFFICES ASSUME Init PROVE SvcInv /\ ReadBoth
    OBVIOUS
  <1>1. <<>> \in Seq(Requests) /\ <<>> \in Seq(Reply) /\ Len(<<>>) = 0 /\ DOMAIN <<>> = {}
    BY EmptySeq
  <1>2. \A r \in Requests : job[r] = "none"
    BY DEF Init
  <1>3. SvcTypes
    BY <1>1, NoSvcType, ProbeAssumption DEF Init, SvcTypes, JobStates, Bundles, FileSets
  <1>4. RoomOK(replies, flight) /\ ToSet(replies) = {} /\ flight = {}
    BY <1>1 DEF Init, RoomOK, IsInjective, ToSet
  <1>5. SvcAtWork(svc, job, used, bundle, report) /\ svc.at # "reject"
    BY NoSvcType DEF Init, SvcAtWork
  <1>6. ReadBoth
    BY NoCmdType DEF Init, ReadBoth
  <1> QED
    BY <1>2, <1>3, <1>4, <1>5, <1>6 DEF SvcInv, Truthful

\* A step that leaves quota, bundles and reports alone, makes no new job and
\* says nothing that is not true keeps what the service has told.
LEMMA QuietSvc ==
  ASSUME SvcInv, UNCHANGED <<mailbox, used, bundle, report>>, cursor' \in 0 .. Len(mailbox),
         svc' \in SvcRecord, stored' \subseteq Requests, faults' \in 0..MaxFaults,
         job' \in [Requests -> JobStates],
         \A r \in Requests : job'[r] = "none" <=> job[r] = "none",
         SvcAtWork(svc', job, used, bundle, report),
         svc'.at = "reject" => cursor' < Len(mailbox),
         RoomOK(replies', flight'),
         \A m \in ToSet(replies') \cup flight' :
           m \in ToSet(replies) \cup flight \/ TrueOf(m, job, used, bundle, report)
  PROVE  SvcInv'
  <1>1. SvcTypes'
    BY DEF SvcInv, SvcTypes
  <1>2. SvcAtWork(svc', job', used', bundle', report')
    BY DEF SvcAtWork
  <1>3. ToSet(replies') \cup flight' \subseteq Reply
    BY ElementOfSeq DEF RoomOK, ToSet
  <1>4. \A m \in Reply : m.req \in Requests
    BY DEF Reply
  <1>5. Truthful'
    <2> SUFFICES ASSUME NEW m \in ToSet(replies') \cup flight'
                 PROVE  TrueOf(m, job', used', bundle', report')
      BY DEF Truthful
    <2>1. TrueOf(m, job, used, bundle, report)
      BY DEF SvcInv, Truthful
    <2>2. m.req \in Requests
      BY <1>3, <1>4
    <2> QED
      BY <2>1, <2>2 DEF TrueOf
  <1>6. \A r \in Requests : job'[r] # "none" => r \in ToSet(mailbox')
    BY DEF SvcInv
  <1> QED
    BY <1>1, <1>2, <1>5, <1>6 DEF SvcInv

\* A job is marked, not made.
LEMMA JobMarked ==
  ASSUME SvcInv, NEW r \in Requests, job[r] # "none",
         NEW x \in {"pending", "failed", "complete"}, job' = [job EXCEPT ![r] = x]
  PROVE  /\ job' \in [Requests -> JobStates]
         /\ \A q \in Requests : job'[q] = "none" <=> job[q] = "none"
  BY DEF SvcInv, SvcTypes, JobStates

\* A message is shown in the reply room.
LEMMA RoomShow ==
  ASSUME RoomOK(replies, flight), NEW m \in Reply,
         replies' = IF m \in ToSet(replies) THEN replies ELSE Append(replies, m), flight' = {}
  PROVE  RoomOK(replies', flight') /\ ToSet(replies') = ToSet(replies) \cup {m}
  <1>1. replies \in Seq(Reply) /\ IsInjective(replies)
    BY DEF RoomOK
  <1>2. CASE m \in ToSet(replies)
    BY <1>1, <1>2 DEF RoomOK
  <1>3. CASE m \notin ToSet(replies)
    <2>1. PICK rs : rs = Append(replies, m)
      OBVIOUS
    <2>2. rs \in Seq(Reply) /\ ToSet(rs) = ToSet(replies) \cup {m}
      BY <1>1, <2>1, AppendAdds
    <2>3. IsInjective(rs)
      BY <1>1, <1>3, <2>1, AppendDistinct
    <2>4. replies' = rs
      BY <1>3, <2>1
    <2> QED
      BY <2>2, <2>3, <2>4 DEF RoomOK
  <1> QED
    BY <1>2, <1>3

\* A message is on its way to the reply room.
LEMMA RoomFlight ==
  ASSUME RoomOK(replies, flight), NEW m \in Reply, m \notin ToSet(replies),
         UNCHANGED replies, flight' = {m}
  PROVE  RoomOK(replies', flight')
  BY DEF RoomOK

\* Where the service is, spelled out.
LEMMA SvcFacts ==
  ASSUME SvcInv
  PROVE  /\ svc \in SvcRecord /\ cursor \in 0 .. Len(mailbox)
         /\ job \in [Requests -> JobStates] /\ used \in 0..PerDid
         /\ bundle \in [Requests -> Bundles] /\ report \in [Requests -> FileSets]
         /\ stored \subseteq Requests /\ faults \in 0..MaxFaults
         /\ SvcAtWork(svc, job, used, bundle, report)
         /\ svc.at # "idle" => svc.req \in Requests
         /\ svc.at \notin {"idle", "reject"} => job[svc.req] # "none"
         /\ RoomOK(replies, flight)
  BY DEF SvcInv, SvcTypes, SvcAtWork

\* The service moves on with the request at hand.
LEMMA SvcMoves ==
  ASSUME NEW s \in SvcRecord, NEW a \in SvcPlaces, NEW t, t = [s EXCEPT !.at = a]
  PROVE  t \in SvcRecord /\ t.at = a /\ t.req = s.req
  BY DEF SvcRecord

\* The service takes up a request.
LEMMA SvcTakes ==
  ASSUME NEW r \in Requests, NEW a \in SvcPlaces, NEW t, t = [at |-> a, req |-> r]
  PROVE  t \in SvcRecord /\ t.at = a /\ t.req = r
  BY DEF SvcRecord

\* The service reads its mailbox or takes up an old job, and accepts nothing.
LEMMA PollSvc ==
  ASSUME PostInv, SvcInv, NEW r \in Requests,
         Recover(r) \/ SkipRecord(r) \/ RefuseRequest(r) \/ ResumeRequest(r)
  PROVE  SvcInv'
  <1>1. UNCHANGED <<mailbox, used, bundle, report, stored, faults, replies, flight>>
    BY DEF Recover, SkipRecord, RefuseRequest, ResumeRequest, outside, boardVars, jobVars, replyVars
  <1>2. Len(mailbox) \in Nat /\ cursor \in 0 .. Len(mailbox)
    BY SvcFacts, LenProperties DEF PostInv, BoardOK
  <1>3. "build" \in SvcPlaces /\ "reject" \in SvcPlaces
    BY DEF SvcPlaces
  <1>4. CASE Recover(r)
    <2>1. svc' = [at |-> "build", req |-> r] /\ UNCHANGED <<job, cursor>> /\ job[r] = "pending"
      BY <1>4 DEF Recover, Pending, jobVars
    <2>2. svc' \in SvcRecord /\ svc'.at = "build" /\ svc'.req = r
      BY <1>3, <2>1, SvcTakes
    <2>3. SvcAtWork(svc', job, used, bundle, report)
      BY <2>1, <2>2 DEF SvcAtWork
    <2> QED
      BY <1>1, <1>2, <2>1, <2>2, <2>3, SvcFacts, QuietSvc
  <1>5. CASE SkipRecord(r)
    <2>1. UNCHANGED <<svc, job>> /\ cursor' = cursor + 1 /\ cursor < Len(mailbox) /\ svc = NoSvc
      BY <1>5 DEF SkipRecord, AtRecord, jobVars
    <2>2. cursor' \in 0 .. Len(mailbox) /\ svc.at = "idle"
      BY <1>2, <2>1, NoSvcType
    <2> QED
      BY <1>1, <2>1, <2>2, SvcFacts, QuietSvc
  <1>6. CASE RefuseRequest(r)
    <2>1. svc' = [at |-> "reject", req |-> r] /\ UNCHANGED <<job, cursor>> /\ job[r] = "none"
          /\ used = PerDid /\ cursor < Len(mailbox)
      BY <1>6 DEF RefuseRequest, AtRecord, jobVars
    <2>2. svc' \in SvcRecord /\ svc'.at = "reject" /\ svc'.req = r
      BY <1>3, <2>1, SvcTakes
    <2>3. SvcAtWork(svc', job, used, bundle, report)
      BY <2>1, <2>2 DEF SvcAtWork
    <2> QED
      BY <1>1, <1>2, <2>1, <2>2, <2>3, SvcFacts, QuietSvc
  <1>7. CASE ResumeRequest(r)
    <2>1. svc' = [at |-> "build", req |-> r] /\ cursor' = cursor /\ job[r] = "failed"
          /\ job' = [job EXCEPT ![r] = "pending"]
      BY <1>7 DEF ResumeRequest
    <2>2. svc' \in SvcRecord /\ svc'.at = "build" /\ svc'.req = r
      BY <1>3, <2>1, SvcTakes
    <2>3. SvcAtWork(svc', job, used, bundle, report)
      BY <2>1, <2>2 DEF SvcAtWork
    <2>4. /\ job' \in [Requests -> JobStates]
          /\ \A q \in Requests : job'[q] = "none" <=> job[q] = "none"
      BY <2>1, JobMarked
    <2> QED
      BY <1>1, <1>2, <2>1, <2>2, <2>3, <2>4, SvcFacts, QuietSvc
  <1> QED
    BY <1>4, <1>5, <1>6, <1>7

\* A request is accepted only while the quota has room, so no message says it
\* was refused.
LEMMA AcceptSvc ==
  ASSUME PostInv, SvcInv, NEW r \in Requests, AcceptRequest(r)
  PROVE  SvcInv'
  <1>1. /\ UNCHANGED <<mailbox, cursor, bundle, report, stored, faults, replies, flight>>
        /\ svc' = [at |-> "ack", req |-> r] /\ job' = [job EXCEPT ![r] = "pending"]
        /\ used' = used + 1 /\ used < PerDid /\ job[r] = "none"
        /\ cursor < Len(mailbox) /\ mailbox[cursor + 1] = r
    BY DEF AcceptRequest, AtRecord, outside, boardVars, replyVars
  <1>2. Len(mailbox) \in Nat /\ cursor \in 0 .. Len(mailbox) /\ DOMAIN mailbox = 1..Len(mailbox)
    BY SvcFacts, LenProperties DEF PostInv, BoardOK
  <1>3. r \in ToSet(mailbox)
    BY <1>1, <1>2 DEF ToSet
  <1>4. svc' \in SvcRecord /\ svc'.at = "ack" /\ svc'.req = r
    <2>1. "ack" \in SvcPlaces
      BY DEF SvcPlaces
    <2> QED
      BY <1>1, <2>1, SvcTakes
  <1>5. /\ job' \in [Requests -> JobStates] /\ job'[r] = "pending"
        /\ \A q \in Requests : q # r => job'[q] = job[q]
    <2>1. "pending" \in JobStates
      BY DEF JobStates
    <2> QED
      BY <1>1, <2>1, SvcFacts
  <1>6. used' \in 0..PerDid /\ used # PerDid
    BY <1>1, SvcFacts, ProbeAssumption
  <1>7. SvcTypes'
    BY <1>1, <1>4, <1>5, <1>6 DEF SvcInv, SvcTypes
  <1>8. SvcAtWork(svc', job', used', bundle', report')
    BY <1>4, <1>5 DEF SvcAtWork
  <1>9. Truthful'
    <2> SUFFICES ASSUME NEW m \in ToSet(replies) \cup flight
                 PROVE  TrueOf(m, job', used', bundle, report)
      BY <1>1 DEF Truthful
    <2>1. m \in Reply
      BY SvcFacts, ElementOfSeq DEF RoomOK, ToSet
    <2>2. m.req \in Requests
      BY <2>1 DEF Reply
    <2>3. TrueOf(m, job, used, bundle, report)
      BY DEF SvcInv, Truthful
    <2> QED
      BY <1>5, <1>6, <2>2, <2>3 DEF TrueOf
  <1>10. \A q \in Requests : job'[q] # "none" => q \in ToSet(mailbox')
    BY <1>1, <1>3, <1>5 DEF SvcInv
  <1>11. RoomOK(replies', flight')
    BY <1>1, SvcFacts
  <1>12. svc'.at # "reject"
    BY <1>4
  <1> QED
    BY <1>7, <1>8, <1>9, <1>10, <1>11, <1>12 DEF SvcInv

\* A message of the service is in the type of the reply room.
LEMMA MessageType ==
  ASSUME NEW r \in Requests, NEW k \in Acks \cup Outcomes, NEW m, m = [req |-> r, kind |-> k]
  PROVE  m \in Reply /\ m.req = r /\ m.kind = k
  BY DEF Reply

\* The message at hand is true where the service sends it.
LEMMA MessageTrue ==
  ASSUME SvcInv, NEW k, NEW m, m = [req |-> svc.req, kind |-> k],
         \/ svc.at = "ack" /\ k = "accepted"
         \/ svc.at = "reject" /\ k = "rejected"
         \/ svc.at = "result" /\ k = bundle[svc.req]
  PROVE  m \in Reply /\ TrueOf(m, job, used, bundle, report)
  <1>1. svc.req \in Requests /\ SvcAtWork(svc, job, used, bundle, report)
    BY SvcFacts
  <1>2. k \in Acks \cup Outcomes
    BY <1>1 DEF SvcAtWork, Acks
  <1>3. m \in Reply /\ m.req = svc.req /\ m.kind = k
    BY <1>1, <1>2, MessageType
  <1> QED
    BY <1>1, <1>3 DEF SvcAtWork, TrueOf, Outcomes

\* The message at hand is shown.
LEMMA ShowTrue ==
  ASSUME SvcInv, NEW k, Show(k),
         \/ svc.at = "ack" /\ k = "accepted"
         \/ svc.at = "reject" /\ k = "rejected"
         \/ svc.at = "result" /\ k = bundle[svc.req]
  PROVE  /\ RoomOK(replies', flight')
         /\ \A m \in ToSet(replies') \cup flight' :
              m \in ToSet(replies) \cup flight \/ TrueOf(m, job, used, bundle, report)
  <1>1. PICK m : m = [req |-> svc.req, kind |-> k]
    OBVIOUS
  <1>2. m \in Reply /\ TrueOf(m, job, used, bundle, report)
    BY <1>1, MessageTrue
  <1>3. replies' = (IF m \in ToSet(replies) THEN replies ELSE Append(replies, m)) /\ flight' = {}
    BY <1>1 DEF Show
  <1>4. RoomOK(replies', flight') /\ ToSet(replies') = ToSet(replies) \cup {m}
    BY <1>2, <1>3, SvcFacts, RoomShow
  <1> QED
    BY <1>2, <1>3, <1>4

\* Acknowledgement and rejection.
LEMMA AnswerSvc ==
  ASSUME PostInv, SvcInv, SendAck \/ SendRejection
  PROVE  SvcInv'
  <1>1. UNCHANGED <<mailbox, job, used, bundle, report, stored, faults>>
    BY DEF SendAck, SendRejection, outside, boardVars, jobVars
  <1>2. CASE SendAck
    <2>1. svc.at = "ack" /\ Show("accepted") /\ svc' = [svc EXCEPT !.at = "build"]
          /\ cursor' = cursor
      BY <1>2 DEF SendAck, Do
    <2>2. svc' \in SvcRecord /\ svc'.at = "build" /\ svc'.req = svc.req
      <3>1. "build" \in SvcPlaces
        BY DEF SvcPlaces
      <3> QED
        BY <2>1, <3>1, SvcFacts, SvcMoves
    <2>3. SvcAtWork(svc', job, used, bundle, report)
      BY <2>1, <2>2, SvcFacts DEF SvcAtWork
    <2>4. /\ RoomOK(replies', flight')
          /\ \A m \in ToSet(replies') \cup flight' :
               m \in ToSet(replies) \cup flight \/ TrueOf(m, job, used, bundle, report)
      BY <2>1, ShowTrue
    <2> QED
      BY <1>1, <2>1, <2>2, <2>3, <2>4, SvcFacts, QuietSvc
  <1>3. CASE SendRejection
    <2>1. svc.at = "reject" /\ Show("rejected") /\ svc' = NoSvc /\ cursor' = cursor + 1
      BY <1>3 DEF SendRejection
    <2>2. cursor' \in 0 .. Len(mailbox)
      <3>1. Len(mailbox) \in Nat
        BY LenProperties DEF PostInv, BoardOK
      <3> QED
        BY <2>1, <3>1, SvcFacts DEF SvcInv
    <2>3. SvcAtWork(svc', job, used, bundle, report) /\ svc'.at = "idle" /\ svc' \in SvcRecord
      BY <2>1, NoSvcType DEF SvcAtWork
    <2>4. /\ RoomOK(replies', flight')
          /\ \A m \in ToSet(replies') \cup flight' :
               m \in ToSet(replies) \cup flight \/ TrueOf(m, job, used, bundle, report)
      BY <2>1, ShowTrue
    <2> QED
      BY <1>1, <2>1, <2>2, <2>3, <2>4, SvcFacts, QuietSvc
  <1> QED
    BY <1>2, <1>3

\* The bundle that is there is taken, or a run started and carried on.
LEMMA BuildSvc ==
  ASSUME PostInv, SvcInv, BuildBundle \/ RunOn \/ RunFails
  PROVE  SvcInv'
  <1>1. UNCHANGED <<mailbox, cursor, job, used, bundle, report, stored, replies, flight>>
    BY DEF BuildBundle, RunOn, RunFails, outside, boardVars, jobVars, replyVars, svcVars
  <1>2. faults' \in 0..MaxFaults
    BY SvcFacts, ProbeAssumption DEF BuildBundle, RunOn, RunFails, outside, Fault
  <1>3. CASE svc' = svc
    BY <1>1, <1>2, <1>3, SvcFacts, QuietSvc DEF SvcInv
  <1>4. CASE BuildBundle
    <2>1. PICK a \in {"publish", "run"} :
            /\ svc.at = "build" /\ svc' = [svc EXCEPT !.at = a]
            /\ IF a = "run" THEN bundle[svc.req] = "none" ELSE bundle[svc.req] # "none"
      BY <1>4 DEF BuildBundle, Do
    <2>2. svc' \in SvcRecord /\ svc'.at = a /\ svc'.req = svc.req
      <3>1. a \in SvcPlaces
        BY DEF SvcPlaces
      <3> QED
        BY <2>1, <3>1, SvcFacts, SvcMoves
    <2>3. a = "publish" => bundle[svc.req] \in Outcomes
      BY <2>1, SvcFacts DEF Bundles
    <2>4. SvcAtWork(svc', job, used, bundle, report)
      BY <2>1, <2>2, <2>3, SvcFacts DEF SvcAtWork
    <2> QED
      BY <1>1, <1>2, <2>2, <2>4, SvcFacts, QuietSvc
  <1> QED
    BY <1>3, <1>4 DEF RunOn, RunFails, svcVars

\* The outcome of a finished run becomes that of the bundle, which was not
\* there before.
LEMMA FinishSvc ==
  ASSUME PostInv, RunInv, SvcInv, FinishBundle
  PROVE  SvcInv'
  <1> DEFINE r == svc.req
  <1>1. /\ UNCHANGED <<mailbox, cursor, job, used, report, stored, faults, replies, flight>>
        /\ bundle' = [bundle EXCEPT ![r] = run.outcome] /\ svc' = [svc EXCEPT !.at = "publish"]
        /\ svc.at = "run" /\ run.at = "done"
    BY DEF FinishBundle, outside, boardVars, replyVars, Do
  <1>2. run.outcome \in Outcomes
    BY <1>1, RunInvVerdict
  <1>3. r \in Requests /\ job[r] # "none" /\ bundle[r] = "none"
    BY <1>1, SvcFacts DEF SvcAtWork
  <1>4. /\ bundle' \in [Requests -> Bundles] /\ bundle'[r] \in Outcomes
        /\ \A q \in Requests : q # r => bundle'[q] = bundle[q]
    BY <1>1, <1>2, <1>3, SvcFacts DEF Bundles
  <1>5. svc' \in SvcRecord /\ svc'.at = "publish" /\ svc'.req = r
    <2>1. "publish" \in SvcPlaces
      BY DEF SvcPlaces
    <2> QED
      BY <1>1, <2>1, SvcFacts, SvcMoves
  <1> HIDE DEF r
  <1>6. SvcTypes'
    BY <1>1, <1>4, <1>5 DEF SvcInv, SvcTypes
  <1>7. SvcAtWork(svc', job', used', bundle', report')
    BY <1>1, <1>3, <1>4, <1>5 DEF SvcAtWork
  <1>8. Truthful'
    <2> SUFFICES ASSUME NEW m \in ToSet(replies) \cup flight
                 PROVE  TrueOf(m, job, used, bundle', report)
      BY <1>1 DEF Truthful
    <2>1. m \in Reply
      BY SvcFacts, ElementOfSeq DEF RoomOK, ToSet
    <2>2. m.req \in Requests
      BY <2>1 DEF Reply
    <2>3. TrueOf(m, job, used, bundle, report)
      BY DEF SvcInv, Truthful
    <2>4. m.kind \in Outcomes => m.req # r
      BY <1>3, <2>3 DEF TrueOf, Outcomes
    <2> QED
      BY <1>4, <2>2, <2>3, <2>4 DEF TrueOf
  <1> QED
    BY <1>1, <1>5, <1>6, <1>7, <1>8 DEF SvcInv

\* A file of the report is copied; a whole report is not touched.
LEMMA CopySvc ==
  ASSUME PostInv, SvcInv, NEW f \in Files, CopyFile(f)
  PROVE  SvcInv'
  <1> DEFINE r == svc.req
  <1>1. /\ UNCHANGED <<mailbox, cursor, job, used, bundle, stored, faults, replies, flight>>
        /\ report' = [report EXCEPT ![r] = @ \cup {f}] /\ svc.at = "copy" /\ f \notin report[r]
        /\ IF report'[r] = Files THEN svc' = [svc EXCEPT !.at = "result"] ELSE svc' = svc
    BY DEF CopyFile, outside, boardVars, replyVars, Do
  <1>2. r \in Requests /\ job[r] # "none" /\ bundle[r] \in Outcomes
    BY <1>1, SvcFacts DEF SvcAtWork
  <1>3. /\ report' \in [Requests -> FileSets] /\ report[r] # Files
        /\ \A q \in Requests : q # r => report'[q] = report[q]
    BY <1>1, <1>2, SvcFacts DEF FileSets
  <1>4. /\ svc' \in SvcRecord /\ svc'.req = r
        /\ svc'.at = IF report'[r] = Files THEN "result" ELSE "copy"
    <2>1. "result" \in SvcPlaces
      BY DEF SvcPlaces
    <2>2. CASE report'[r] = Files
      BY <1>1, <2>1, <2>2, SvcFacts, SvcMoves
    <2>3. CASE report'[r] # Files
      BY <1>1, <2>3, SvcFacts
    <2> QED
      BY <2>2, <2>3
  <1> HIDE DEF r
  <1>5. SvcTypes'
    BY <1>1, <1>3, <1>4 DEF SvcInv, SvcTypes
  <1>6. SvcAtWork(svc', job', used', bundle', report')
    BY <1>1, <1>2, <1>4 DEF SvcAtWork
  <1>7. Truthful'
    <2> SUFFICES ASSUME NEW m \in ToSet(replies) \cup flight
                 PROVE  TrueOf(m, job, used, bundle, report')
      BY <1>1 DEF Truthful
    <2>1. m \in Reply
      BY SvcFacts, ElementOfSeq DEF RoomOK, ToSet
    <2>2. m.req \in Requests
      BY <2>1 DEF Reply
    <2>3. TrueOf(m, job, used, bundle, report)
      BY DEF SvcInv, Truthful
    <2> QED
      BY <1>3, <2>2, <2>3 DEF TrueOf
  <1> QED
    BY <1>1, <1>4, <1>5, <1>6, <1>7 DEF SvcInv

\* The report is there, is to be copied, or is refused.
LEMMA PublishSvc ==
  ASSUME PostInv, SvcInv, Publish
  PROVE  SvcInv'
  <1> DEFINE r == svc.req
  <1>1. /\ UNCHANGED <<mailbox, cursor, used, bundle, report, stored, faults, replies, flight>>
        /\ svc.at = "publish"
    BY DEF Publish, outside, boardVars, replyVars
  <1>2. r \in Requests /\ job[r] # "none" /\ bundle[r] \in Outcomes
    BY <1>1, SvcFacts DEF SvcAtWork
  <1>3. CASE \E a \in {"result", "copy"} :
               /\ svc' = [svc EXCEPT !.at = a] /\ job' = job /\ (a = "result" => report[r] = Files)
    <2>1. PICK a \in {"result", "copy"} :
            svc' = [svc EXCEPT !.at = a] /\ job' = job /\ (a = "result" => report[r] = Files)
      BY <1>3
    <2>2. svc' \in SvcRecord /\ svc'.at = a /\ svc'.req = r
      <3>1. a \in SvcPlaces
        BY DEF SvcPlaces
      <3> QED
        BY <2>1, <3>1, SvcFacts, SvcMoves
    <2>3. SvcAtWork(svc', job, used, bundle, report)
      BY <1>2, <2>1, <2>2 DEF SvcAtWork
    <2> QED
      BY <1>1, <2>1, <2>2, <2>3, SvcFacts, QuietSvc
  <1>4. CASE svc' = NoSvc /\ job' = [job EXCEPT ![r] = "failed"]
    <2>1. SvcAtWork(svc', job, used, bundle, report) /\ svc'.at = "idle" /\ svc' \in SvcRecord
      BY <1>4, NoSvcType DEF SvcAtWork
    <2>2. /\ job' \in [Requests -> JobStates]
          /\ \A q \in Requests : job'[q] = "none" <=> job[q] = "none"
      BY <1>2, <1>4, JobMarked
    <2> QED
      BY <1>1, <2>1, <2>2, SvcFacts, QuietSvc
  <1> QED
    BY <1>3, <1>4 DEF Publish, VerifyBundle, Do

\* The result is sent and stored, or its delivery refused.
LEMMA ResultSvc ==
  ASSUME PostInv, SvcInv, SendResult \/ StoreResult
  PROVE  SvcInv'
  <1> DEFINE r == svc.req
  <1>1. /\ UNCHANGED <<mailbox, cursor, used, bundle, report, faults>>
        /\ svc.at \in {"result", "store"}
    BY DEF SendResult, StoreResult, outside, boardVars
  <1>2. r \in Requests /\ job[r] # "none"
    BY <1>1, SvcFacts
  <1>3. CASE /\ svc' = NoSvc /\ stored' = stored /\ replies' = replies /\ flight' = flight
             /\ \E x \in {"failed", "complete"} : job' = [job EXCEPT ![r] = x]
    <2>1. SvcAtWork(svc', job, used, bundle, report) /\ svc'.at = "idle" /\ svc' \in SvcRecord
      BY <1>3, NoSvcType DEF SvcAtWork
    <2>2. /\ job' \in [Requests -> JobStates]
          /\ \A q \in Requests : job'[q] = "none" <=> job[q] = "none"
      BY <1>2, <1>3, JobMarked
    <2> QED
      BY <1>1, <1>3, <2>1, <2>2, SvcFacts, QuietSvc
  <1>4. CASE /\ svc.at = "result" /\ stored' = stored \cup {r} /\ Show(bundle[r])
             /\ svc' = [svc EXCEPT !.at = "store"] /\ job' = job
    <2>1. svc' \in SvcRecord /\ svc'.at = "store" /\ svc'.req = r
      <3>1. "store" \in SvcPlaces
        BY DEF SvcPlaces
      <3> QED
        BY <1>4, <3>1, SvcFacts, SvcMoves
    <2>2. SvcAtWork(svc', job, used, bundle, report)
      BY <1>2, <2>1 DEF SvcAtWork
    <2>3. /\ RoomOK(replies', flight')
          /\ \A m \in ToSet(replies') \cup flight' :
               m \in ToSet(replies) \cup flight \/ TrueOf(m, job, used, bundle, report)
      <3>1. PICK k : k = bundle[r]
        OBVIOUS
      <3>2. Show(k)
        BY <1>4, <3>1
      <3> QED
        BY <1>4, <3>1, <3>2, ShowTrue
    <2>4. stored' \subseteq Requests
      BY <1>2, <1>4, SvcFacts
    <2> QED
      BY <1>1, <1>4, <2>1, <2>2, <2>3, <2>4, SvcFacts, QuietSvc
  <1> QED
    BY <1>3, <1>4 DEF SendResult, StoreResult, replyVars, Do

\* A send that is interrupted leaves nothing, a message on its way or one
\* shown, and it is true.
LEMMA SendingTrue ==
  ASSUME SvcInv, NEW k, Sending(k),
         \/ svc.at = "ack" /\ k = "accepted"
         \/ svc.at = "reject" /\ k = "rejected"
         \/ svc.at = "result" /\ k = bundle[svc.req]
  PROVE  /\ RoomOK(replies', flight') /\ stored' \subseteq Requests
         /\ \A m \in ToSet(replies') \cup flight' :
              m \in ToSet(replies) \cup flight \/ TrueOf(m, job, used, bundle, report)
  <1>1. stored' \subseteq Requests
    BY SvcFacts DEF Sending
  <1>2. CASE UNCHANGED <<stored, replyVars>>
    BY <1>1, <1>2, SvcFacts DEF replyVars
  <1>3. CASE Show(k)
    BY <1>1, <1>3, ShowTrue
  <1>4. CASE [req |-> svc.req, kind |-> k] \notin ToSet(replies)
             /\ flight' = {[req |-> svc.req, kind |-> k]} /\ replies' = replies
    <2>1. PICK m : m = [req |-> svc.req, kind |-> k]
      OBVIOUS
    <2>2. m \in Reply /\ TrueOf(m, job, used, bundle, report)
      BY <2>1, MessageTrue
    <2>3. m \notin ToSet(replies) /\ flight' = {m} /\ replies' = replies
      BY <1>4, <2>1
    <2>4. RoomOK(replies', flight')
      BY <2>2, <2>3, SvcFacts, RoomFlight
    <2> QED
      BY <1>1, <2>2, <2>3, <2>4
  <1> QED
    BY <1>2, <1>3, <1>4 DEF Sending

\* Whatever ends a poll leaves the truth behind.
LEMMA InterruptedSvc ==
  ASSUME PostInv, SvcInv, NEW died \in BOOLEAN, Interrupted(died)
  PROVE  SvcInv'
  <1> DEFINE r == svc.req
  <1>1. /\ UNCHANGED <<mailbox, cursor, used, bundle, report>> /\ svc' = NoSvc /\ svc # NoSvc
        /\ faults < MaxFaults /\ faults' = faults + 1
    BY DEF Interrupted, boardVars, Fault
  <1>2. faults' \in 0..MaxFaults
    BY <1>1, SvcFacts, ProbeAssumption
  <1>3. svc.at # "idle"
    BY <1>1, SvcFacts DEF SvcAtWork
  <1>4. /\ job' \in [Requests -> JobStates]
        /\ \A q \in Requests : job'[q] = "none" <=> job[q] = "none"
    <2>1. CASE job' = job
      BY <2>1, SvcFacts
    <2>2. CASE job' = [job EXCEPT ![r] = "failed"] /\ svc.at # "reject"
      <3>1. r \in Requests /\ job[r] # "none"
        BY <1>3, <2>2, SvcFacts
      <3> QED
        BY <2>2, <3>1, JobMarked
    <2> QED
      BY <2>1, <2>2 DEF Interrupted
  <1>5. /\ RoomOK(replies', flight') /\ stored' \subseteq Requests
        /\ \A m \in ToSet(replies') \cup flight' :
             m \in ToSet(replies) \cup flight \/ TrueOf(m, job, used, bundle, report)
    <2>1. CASE svc.at = "ack"
      <3>1. Sending("accepted")
        BY <2>1 DEF Interrupted
      <3> QED
        BY <2>1, <3>1, SendingTrue
    <2>2. CASE svc.at = "reject"
      <3>1. Sending("rejected")
        BY <2>2 DEF Interrupted
      <3> QED
        BY <2>2, <3>1, SendingTrue
    <2>3. CASE svc.at = "result"
      <3>1. PICK k : k = bundle[r]
        OBVIOUS
      <3>2. Sending(k)
        BY <2>3, <3>1 DEF Interrupted
      <3> QED
        BY <2>3, <3>1, <3>2, SendingTrue
    <2>4. CASE svc.at \notin {"ack", "reject", "result"}
      <3>1. UNCHANGED <<stored, replies, flight>>
        BY <2>4 DEF Interrupted, replyVars
      <3> QED
        BY <3>1, SvcFacts
    <2> QED
      BY <2>1, <2>2, <2>3, <2>4
  <1>6. SvcAtWork(svc', job, used, bundle, report) /\ svc'.at = "idle" /\ svc' \in SvcRecord
    BY <1>1, NoSvcType DEF SvcAtWork
  <1> QED
    BY <1>1, <1>2, <1>4, <1>5, <1>6, SvcFacts, QuietSvc

\* A message arrives late.
LEMMA LateReplySvc ==
  ASSUME PostInv, SvcInv, NEW m \in flight, LateReply(m)
  PROVE  SvcInv'
  <1>1. /\ UNCHANGED <<mailbox, svc, cursor, job, used, bundle, report, stored, faults>>
        /\ replies' = Append(replies, m) /\ flight' = {}
    BY DEF LateReply, outside, boardVars, jobVars
  <1>2. m \in Reply /\ m \notin ToSet(replies)
    BY SvcFacts DEF RoomOK
  <1>3. RoomOK(replies', flight') /\ ToSet(replies') = ToSet(replies) \cup {m}
    BY <1>1, <1>2, SvcFacts, RoomShow
  <1>4. svc.at = "reject" => cursor < Len(mailbox)
    BY DEF SvcInv
  <1> QED
    BY <1>1, <1>3, <1>4, SvcFacts, QuietSvc

(* The steps of the probe, the card and the mailbox, seen from the service.    *)

OtherStep ==
  \/ PublishCard \/ PublishAttestation \/ StartPrepare \/ CommandStep
  \/ \E p \in Requests : Approve(p) \/ LateRequest(p)
  \/ \E p \in Requests, digest \in approved : StartActivate(p, digest) \/ StartVerify(p, digest)
  \/ \E r \in Requests : Expire(r)
  \/ UNCHANGED vars

\* They leave the service alone.
LEMMA OtherFrame ==
  ASSUME OtherStep
  PROVE  /\ UNCHANGED <<svc, cursor, job, used, bundle, report, stored, replies, flight>>
         /\ faults' = faults \/ (faults < MaxFaults /\ faults' = faults + 1)
  BY DEF OtherStep, PublishCard, PublishAttestation, StartPrepare, StartActivate, StartVerify,
     ReadCard, CommandStep, ReadAttestation, Prepare, Activate, ReadReplies, VerifyReport, Approve,
     LateRequest, Expire, Fault, vars, svcVars, jobVars, replyVars

\* The mailbox only grows.
LEMMA MailboxGrows ==
  ASSUME PostInv, OtherStep
  PROVE  ToSet(mailbox) \subseteq ToSet(mailbox') /\ Len(mailbox) \in Nat /\ Len(mailbox') \in Nat
         /\ Len(mailbox) <= Len(mailbox')
  <1>1. Len(mailbox) \in Nat
    BY LenProperties DEF PostInv, BoardOK
  <1>2. CASE mailbox' = mailbox
    BY <1>1, <1>2
  <1>3. CASE \E p \in approved : Delivered(p)
    BY <1>3, DeliveredPost
  <1>4. Activate => mailbox' = mailbox \/ \E p \in approved : Delivered(p)
    <2> SUFFICES ASSUME Activate PROVE mailbox' = mailbox \/ \E p \in approved : Delivered(p)
      OBVIOUS
    <2>1. cmd.p \in approved
      BY NoCmdType DEF Activate, PostInv, CommandOK
    <2> QED
      BY <2>1 DEF Activate
  <1>5. (\E p \in Requests : LateRequest(p)) => \E p \in approved : Delivered(p)
    BY DEF LateRequest, PostInv, BoardOK
  <1>6. mailbox' = mailbox \/ Activate \/ \E p \in Requests : LateRequest(p)
    BY DEF OtherStep, PublishCard, PublishAttestation, StartPrepare, StartActivate, StartVerify,
       ReadCard, CommandStep, ReadAttestation, Prepare, ReadReplies, VerifyReport, Approve,
       Expire, vars, boardVars
  <1> QED
    BY <1>2, <1>3, <1>4, <1>5, <1>6

\* They keep what the service has told.
LEMMA OtherSvc ==
  ASSUME PostInv, SvcInv, OtherStep
  PROVE  SvcInv'
  <1>1. UNCHANGED <<svc, cursor, job, used, bundle, report, stored, replies, flight>>
    BY OtherFrame
  <1>2. faults' \in 0..MaxFaults
    BY OtherFrame, SvcFacts, ProbeAssumption
  <1>3. SvcTypes'
    BY <1>1, <1>2, MailboxGrows DEF SvcInv, SvcTypes
  <1>4. svc'.at = "reject" => cursor' < Len(mailbox')
    BY <1>1, MailboxGrows, SvcFacts DEF SvcInv
  <1>5. \A r \in Requests : job'[r] # "none" => r \in ToSet(mailbox')
    BY <1>1, MailboxGrows DEF SvcInv
  <1> QED
    BY <1>1, <1>3, <1>4, <1>5 DEF SvcInv, Truthful

\* Every step is the service's, the run's or one of the others.
LEMMA StepKinds ==
  ASSUME [Next]_vars
  PROVE  \/ ServiceStep \/ RunFails \/ (\E died \in BOOLEAN : Interrupted(died))
         \/ (\E m \in flight : LateReply(m)) \/ OtherStep
  BY DEF Next, OtherStep

\* Every step keeps what the service has told.
LEMMA StepSvc == PostInv /\ RunInv /\ SvcInv /\ [Next]_vars => SvcInv'
  <1> SUFFICES ASSUME PostInv, RunInv, SvcInv, [Next]_vars PROVE SvcInv'
    OBVIOUS
  <1>1. CASE ServiceStep
    BY <1>1, PollSvc, AcceptSvc, AnswerSvc, BuildSvc, FinishSvc, PublishSvc, CopySvc, ResultSvc
       DEF ServiceStep
  <1>2. CASE RunFails
    BY <1>2, BuildSvc
  <1> QED
    BY <1>1, <1>2, StepKinds, InterruptedSvc, LateReplySvc, OtherSvc

\* The service's word is good in every state.
THEOREM SvcInvAlways == Spec => [](PostInv /\ RunInv /\ SvcInv)
  <1>1. Init => PostInv /\ RunInv /\ SvcInv
    BY InitPost, InitRun, InitSvc DEF Init
  <1> QED
    BY <1>1, StepPost, StepRun, StepSvc, PTL DEF Spec

-----------------------------------------------------------------------------
(* What verify makes of the reply room.                                        *)

\* A message that is there is the last of its kind: a request is accepted or
\* refused, not both, and has one result.
LEMMA LastIsOnly ==
  ASSUME SvcInv, NEW p, NEW K \in {Acks, Outcomes},
         NEW i \in 1..Len(replies), replies[i].req = p, replies[i].kind \in K
  PROVE  LastReply(p, K) = replies[i].kind
  <1>1. replies \in Seq(Reply) /\ IsInjective(replies) /\ Len(replies) \in Nat
        /\ DOMAIN replies = 1..Len(replies)
    BY SvcFacts, LenProperties DEF RoomOK
  <1>2. ASSUME NEW k \in 1..Len(replies), replies[k].req = p, replies[k].kind \in K
        PROVE  k = i
    <2>1. replies[i] \in Reply /\ replies[k] \in Reply
      BY <1>1, ElementOfSeq
    <2>2. TrueOf(replies[i], job, used, bundle, report) /\ TrueOf(replies[k], job, used, bundle, report)
      BY <1>1 DEF SvcInv, Truthful, ToSet
    <2>3. replies[i].kind = replies[k].kind
      <3>1. CASE K = Acks
        BY <1>2, <2>2, <3>1 DEF TrueOf, Acks
      <3>2. CASE K = Outcomes
        BY <1>2, <2>2, <3>2 DEF TrueOf
      <3> QED
        BY <3>1, <3>2
    <2>4. replies[i] = replies[k]
      BY <1>2, <2>1, <2>3 DEF Reply
    <2> QED
      BY <1>1, <2>4 DEF IsInjective
  <1>3. {k \in 1..Len(replies) : replies[k].req = p /\ replies[k].kind \in K} = {i}
    BY <1>2
  <1>4. Max({i}) = i /\ i # 0
    BY <1>1 DEF Max
  <1>5. SelectLastInSeq(replies, LAMBDA m : m.req = p /\ m.kind \in K) = i
    BY <1>3, <1>4 DEF SelectLastInSeq
  <1> QED
    BY <1>4, <1>5 DEF LastReply

\* What verify reads as the last reply is in the room.
LEMMA LastIsThere ==
  ASSUME SvcInv, NEW p, NEW K \in {Acks, Outcomes}, LastReply(p, K) # "none"
  PROVE  [req |-> p, kind |-> LastReply(p, K)] \in ToSet(replies)
  <1>1. PICK i \in 1..Len(replies) : replies[i].req = p /\ replies[i].kind \in K
    <2>1. SUFFICES ASSUME {k \in 1..Len(replies) : replies[k].req = p /\ replies[k].kind \in K} = {}
                   PROVE  FALSE
      OBVIOUS
    <2>2. SelectLastInSeq(replies, LAMBDA m : m.req = p /\ m.kind \in K) = 0
      BY <2>1 DEF SelectLastInSeq
    <2> QED
      BY <2>2 DEF LastReply
  <1>2. LastReply(p, K) = replies[i].kind
    BY <1>1, LastIsOnly
  <1>3. replies[i] \in Reply /\ replies[i] \in ToSet(replies)
    BY SvcFacts, ElementOfSeq, LenProperties DEF RoomOK, ToSet
  <1>4. replies[i] = [req |-> p, kind |-> LastReply(p, K)]
    BY <1>1, <1>2, <1>3 DEF Reply
  <1> QED
    BY <1>3, <1>4

\* The probe's reply room tells the truth, once: an acknowledged request has
\* its job and is not refused afterwards, and a result is that of the job's
\* bundle with its report published whole (accept_request, _execute,
\* complete_request).
THEOREM RepliesTrueAlways == Spec => []RepliesTrue
  <1>1. SvcInv => RepliesTrue
    <2> SUFFICES ASSUME SvcInv PROVE RepliesTrue
      OBVIOUS
    <2>1. IsInjective(replies) /\ replies \in Seq(Reply) /\ DOMAIN replies = 1..Len(replies)
      BY SvcFacts, LenProperties DEF RoomOK
    <2>2. ASSUME NEW m \in ToSet(replies)
          PROVE  /\ m.kind = "accepted" =>
                      job[m.req] # "none" /\ LastReply(m.req, Acks) = "accepted"
                 /\ m.kind \in Outcomes => m.kind = bundle[m.req] /\ report[m.req] = Files
      <3>1. TrueOf(m, job, used, bundle, report)
        BY DEF SvcInv, Truthful
      <3>2. PICK i \in 1..Len(replies) : replies[i] = m
        BY <2>1 DEF ToSet
      <3>3. m.kind = "accepted" => LastReply(m.req, Acks) = "accepted"
        BY <3>2, LastIsOnly DEF Acks
      <3> QED
        BY <3>1, <3>3 DEF TrueOf
    <2> QED
      BY <2>1, <2>2 DEF RepliesTrue
  <1> QED
    BY <1>1, SvcInvAlways, PTL

\* A message stays in the reply room.
LEMMA AppendKeeps ==
  ASSUME NEW S, NEW s \in Seq(S), NEW x
  PROVE  ToSet(s) \subseteq ToSet(Append(s, x))
  <1>1. s \in Seq(S \cup {x})
    OBVIOUS
  <1> QED
    BY <1>1, AppendAdds

\* No step removes a message.
LEMMA RepliesKept ==
  ASSUME SvcInv, [Next]_vars
  PROVE  ToSet(replies) \subseteq ToSet(replies')
  <1>1. replies \in Seq(Reply)
    BY SvcFacts DEF RoomOK
  <1>2. \A k : Show(k) => ToSet(replies) \subseteq ToSet(replies')
    BY <1>1, AppendKeeps DEF Show
  <1>3. \A m \in flight : LateReply(m) => ToSet(replies) \subseteq ToSet(replies')
    BY <1>1, AppendKeeps DEF LateReply
  <1>4. \A k : Sending(k) => ToSet(replies) \subseteq ToSet(replies')
    BY <1>2 DEF Sending, replyVars
  <1>5. \A died \in BOOLEAN : Interrupted(died) => ToSet(replies) \subseteq ToSet(replies')
    BY <1>4 DEF Interrupted, replyVars
  <1>6. SendAck \/ SendRejection \/ SendResult => ToSet(replies) \subseteq ToSet(replies')
    BY <1>2 DEF SendAck, SendRejection, SendResult, replyVars
  <1>7. (ServiceStep /\ ~SendAck /\ ~SendRejection /\ ~SendResult) \/ RunFails
          => replies' = replies
    BY DEF ServiceStep, Recover, SkipRecord, AcceptRequest, RefuseRequest, ResumeRequest,
       BuildBundle, RunOn, FinishBundle, Publish, StoreResult, CopyFile, RunFails, svcVars, replyVars
  <1> QED
    BY <1>3, <1>5, <1>6, <1>7, StepKinds, OtherFrame

\* The commands and the verification outputs, step by step: an output is
\* written after the report was read, and that after the replies.
LEMMA VerifySteps ==
  ASSUME PostInv, [Next]_vars
  PROVE  \/ verified' = verified /\ (cmd'.at = "report" => cmd' = cmd)
         \/ /\ verified' = verified /\ Successful(cmd.p) /\ cmd' = [cmd EXCEPT !.at = "report"]
            /\ cmd.kind = "verify"
         \/ verified' \subseteq verified \cup {cmd.p} /\ cmd.at = "report" /\ cmd' = NoCmd
  <1>1. CASE ServiceStep \/ RunFails \/ (\E died \in BOOLEAN : Interrupted(died))
             \/ (\E m \in flight : LateReply(m)) \/ UNCHANGED vars
    BY <1>1, ServiceFrame
  <1>2. CASE ReadReplies
    BY <1>2, NoCmdType DEF ReadReplies, Await, EndCommand
  <1>3. CASE VerifyReport
    BY <1>3 DEF VerifyReport, EndCommand
  <1>4. CASE ReadAttestation
    <2>1. verified' = verified /\ (cmd' = NoCmd \/ cmd' = [cmd EXCEPT !.at = "act"])
      BY <1>4 DEF ReadAttestation, Await, EndCommand
    <2>2. [cmd EXCEPT !.at = "act"].at = "act"
      BY DEF PostInv, Commands
    <2> QED
      BY <2>1, <2>2, NoCmdType
  <1>5. CASE Prepare \/ Activate
    BY <1>5, NoCmdType DEF Prepare, Activate, EndCommand
  <1>6. CASE StartPrepare
             \/ \E p \in Requests, digest \in approved : StartActivate(p, digest)
                                                         \/ StartVerify(p, digest)
    BY <1>6 DEF StartPrepare, StartActivate, StartVerify, ReadCard
  <1>7. CASE PublishCard \/ PublishAttestation
             \/ \E p \in Requests : Approve(p) \/ LateRequest(p) \/ Expire(p)
    BY <1>7 DEF PublishCard, PublishAttestation, Approve, LateRequest, Expire, probeVars
  <1> QED
    BY <1>1, <1>2, <1>3, <1>4, <1>5, <1>6, <1>7 DEF Next, CommandStep

\* Every step keeps what the probe has read.
LEMMA StepRead == PostInv /\ SvcInv /\ ReadBoth /\ [Next]_vars => ReadBoth'
  <1> SUFFICES ASSUME PostInv, SvcInv, ReadBoth, [Next]_vars,
                      NEW p \in Requests, p \in verified' \/ (cmd'.at = "report" /\ cmd'.p = p)
               PROVE  /\ [req |-> p, kind |-> "accepted"] \in ToSet(replies')
                      /\ [req |-> p, kind |-> "pass"] \in ToSet(replies')
    BY DEF ReadBoth
  <1> SUFFICES /\ [req |-> p, kind |-> "accepted"] \in ToSet(replies)
               /\ [req |-> p, kind |-> "pass"] \in ToSet(replies)
    BY RepliesKept
  <1>1. CASE verified' = verified /\ (cmd'.at = "report" => cmd' = cmd)
    BY <1>1 DEF ReadBoth
  <1>2. CASE /\ verified' = verified /\ Successful(cmd.p) /\ cmd' = [cmd EXCEPT !.at = "report"]
             /\ cmd.kind = "verify"
    <2>1. CASE p \in verified
      BY <2>1 DEF ReadBoth
    <2>2. CASE cmd'.p = p
      <3>1. cmd.p = p
        BY <1>2, <2>2 DEF PostInv, Commands
      <3>2. LastReply(p, Acks) = "accepted" /\ LastReply(p, Outcomes) = "pass"
        BY <1>2, <3>1 DEF Successful
      <3> QED
        BY <3>2, LastIsThere
    <2> QED
      BY <1>2, <2>1, <2>2
  <1>3. CASE verified' \subseteq verified \cup {cmd.p} /\ cmd.at = "report" /\ cmd' = NoCmd
    BY <1>3, NoCmdType DEF ReadBoth
  <1> QED
    BY <1>1, <1>2, <1>3, VerifySteps

\* A verification output is never wrong: the approved request was taken from
\* the mailbox, acknowledged and answered with a pass, and the report behind
\* the answer is whole and that of a passing run (PublicPilotProbe.verify,
\* _verify_report).
THEOREM VerifiedSoundAlways == Spec => []VerifiedSound
  <1>1. Init => ReadBoth
    BY InitSvc
  <1>2. PostInv /\ SvcInv /\ ReadBoth => VerifiedSound
    <2> SUFFICES ASSUME PostInv, SvcInv, ReadBoth, NEW p \in verified
                 PROVE  /\ p \in approved /\ p \in ToSet(mailbox) /\ job[p] # "none"
                        /\ {[req |-> p, kind |-> "accepted"], [req |-> p, kind |-> "pass"]}
                             \subseteq ToSet(replies)
                        /\ bundle[p] = "pass" /\ report[p] = Files
      BY DEF VerifiedSound
    <2>1. p \in approved /\ p \in Requests
      BY ApprovedRequests DEF PostInv, PreviewsOK
    <2>2. PICK a, b : /\ a = [req |-> p, kind |-> "accepted"] /\ b = [req |-> p, kind |-> "pass"]
                      /\ a \in ToSet(replies) /\ b \in ToSet(replies)
      BY <2>1 DEF ReadBoth
    <2>3. TrueOf(a, job, used, bundle, report) /\ TrueOf(b, job, used, bundle, report)
      BY <2>2 DEF SvcInv, Truthful
    <2>4. a.kind = "accepted" /\ a.req = p /\ b.kind = "pass" /\ b.req = p
      BY <2>2
    <2>5. job[p] # "none" /\ bundle[p] = "pass" /\ report[p] = Files
      BY <2>3, <2>4 DEF TrueOf, Outcomes
    <2>6. p \in ToSet(mailbox)
      BY <2>1, <2>5 DEF SvcInv
    <2> QED
      BY <2>1, <2>2, <2>5, <2>6
  <1> QED
    BY <1>1, <1>2, StepRead, SvcInvAlways, PTL DEF Spec

\* Every variable has its type: the probe never holds more previews than it
\* may, never counts what is not approved, and the service's cursor stays
\* within the mailbox and its quota within the limit.
THEOREM TypeCorrect == Spec => []TypeOK
  <1>1. PostInv /\ RunInv /\ SvcInv => TypeOK
    <2> SUFFICES ASSUME PostInv, RunInv, SvcInv PROVE TypeOK
      OBVIOUS
    <2>1. RunTypeOK
      BY RunInvType
    <2>2. /\ card \in 0 .. MaxCards /\ attestation \in 0 .. MaxCards
          /\ previews \in Seq(1 .. MaxCards) /\ Len(previews) <= MaxPreviews
          /\ approved \subseteq 1 .. Len(previews) /\ verified \subseteq approved
      BY ProbeAssumption DEF PostInv, CardsOK, PreviewsOK
    <2>3. cmd \in [kind : {"none", "prepare", "activate", "verify"},
                   at : {"idle", "attestation", "act", "report"},
                   p : Requests \cup {NoReq}, seen : 0 .. MaxCards]
      BY DEF PostInv, Commands
    <2>4. mailbox \in Seq(Requests) /\ wire \subseteq Requests /\ late \subseteq Requests
      BY ApprovedRequests DEF PostInv, BoardOK
    <2>5. svc \in [at : {"idle", "ack", "reject", "build", "run", "publish", "copy",
                         "result", "store"}, req : Requests \cup {NoReq}]
      BY SvcFacts DEF SvcRecord, SvcPlaces
    <2>6. /\ cursor \in 0 .. Len(mailbox)
          /\ job \in [Requests -> {"none", "pending", "failed", "complete"}]
          /\ used \in 0 .. PerDid
          /\ bundle \in [Requests -> Outcomes \cup {"none"}]
          /\ report \in [Requests -> SUBSET Files]
          /\ stored \subseteq Requests /\ faults \in 0 .. MaxFaults
      BY SvcFacts DEF JobStates, Bundles, FileSets
    <2>7. replies \in Seq(Reply) /\ flight \subseteq Reply
      BY SvcFacts DEF RoomOK
    <2> QED
      BY <2>1, <2>2, <2>3, <2>4, <2>5, <2>6, <2>7 DEF TypeOK
  <1> QED
    BY <1>1, SvcInvAlways, PTL
=============================================================================
