------------------------------ MODULE RoundTrip ------------------------------
(* The scenario signed-mailbox-roundtrip-v1 (scenario.py) with its adapters    *)
(* (adapters.py), the signer's message lane and the fixture target             *)
(* (local_protocol.py): a producer posts a request to a mailbox, a consumer    *)
(* reads it and posts a result, the producer restarts from a checkpoint and    *)
(* confirms.  The target refuses the producer's adapter once with a rate limit *)
(* and loses the connection of the consumer's adapter once after the write.    *)
(*                                                                             *)
(* Every run has a target of its own; the signer's lane of the mailbox, whose  *)
(* name depends on the two adapters only, goes on from run to run.  The gate's *)
(* part is that of the caller: Sign and StartRun are taken while it is open.   *)
EXTENDS Naturals, Sequences, FiniteSets

CONSTANTS
  Adapters,   \* adapter ids of the registry, all with every capability
  NoCell      \* no run

Cells == Adapters \X Adapters    \* producer and consumer; they may be the same

VARIABLES
  lane,       \* nonce_scopes row message:<mailbox>, by cell
  run         \* the run under way: its target, its adapters, its verdict

runVars == <<lane, run>>

Roles  == {"producer", "consumer"}
Bodies == {"request", "result"}
Places == {"none", "sign", "post", "reconcile", "read", "resume", "done"}

NoRun ==
  [at |-> "none", cell |-> NoCell, role |-> "producer",
   board |-> <<>>, met |-> {},             \* the target: records, faults consumed
   nonce |-> 0, attempts |-> 0,            \* post_signed of the adapter at work
   limited |-> 0, reconciled |-> 0,        \* events the verdict counts
   matched |-> FALSE, outcome |-> "none", disturbed |-> FALSE]

RunTypeOK ==
  /\ lane \in [Cells -> Nat]
  /\ run.at \in Places /\ run.role \in Roles /\ run.cell \in Cells \cup {NoCell}
  /\ run.board \in Seq([body : Bodies, nonce : Nat])
  /\ run.met \subseteq {"limit", "uncertain"}
  /\ run.nonce \in Nat /\ run.attempts \in 0..2
  /\ run.limited \in 0..2 /\ run.reconciled \in 0..1
  /\ run.matched \in BOOLEAN /\ run.disturbed \in BOOLEAN
  /\ run.outcome \in {"none", "pass", "fail", "error"}

RunInit ==
  /\ lane = [c \in Cells |-> 0]
  /\ run = NoRun

\* The adapter that acts now, and what it posts.
Actor == IF run.role = "producer" THEN run.cell[1] ELSE run.cell[2]
Body  == IF run.role = "producer" THEN "request" ELSE "result"

\* create_room and the two injections; both adapters discover the target.
StartRun(cell) ==
  /\ run.at = "none"
  /\ run' = [NoRun EXCEPT !.at = "sign", !.cell = cell]
  /\ UNCHANGED lane

\* An exception leaves run_roundtrip: its caller records an error.
Raised == [run EXCEPT !.at = "done", !.outcome = "error"]

\* Faulty variant: the nonce is read and not advanced.
SignSameNonce ==
  /\ run.at = "sign"
  /\ lane' = [lane EXCEPT ![run.cell] = IF @ = 0 THEN 1 ELSE @]
  /\ run' = [run EXCEPT !.at = "post", !.attempts = 0, !.nonce = lane'[run.cell]]

\* One lane per DID and room, whatever the role of the caller.
SignMessage ==
  /\ run.at = "sign"
  /\ lane' = [lane EXCEPT ![run.cell] = @ + 1]
  /\ run' = [run EXCEPT !.at = "post", !.attempts = 0, !.nonce = lane[run.cell] + 1]

-----------------------------------------------------------------------------
(* LocalTechnocore.post_signed, and what the adapter makes of its answer.      *)

Limited   == Actor = run.cell[1] /\ "limit" \notin run.met
Uncertain == Actor = run.cell[2] /\ "uncertain" \notin run.met
WithNonce == {i \in 1..Len(run.board) : run.board[i].nonce = run.nonce}

\* The record is there: on to the next act of the script.
Posted(r) == [r EXCEPT !.at = IF run.role = "producer" THEN "read" ELSE "resume"]

\* Faulty variant: tried again as long as the target says so, which it does.
RetryForEver ==
  /\ run.at = "post" /\ Limited
  /\ run' = [run EXCEPT !.attempts = @ + 1,
                        !.limited = IF run.role = "producer" THEN @ + 1 ELSE @]
  /\ UNCHANGED lane

\* 429 with a delay of one second: tried again, once.
PostRateLimited ==
  /\ run.at = "post" /\ Limited
  /\ LET met == [run EXCEPT !.met = @ \cup {"limit"}, !.attempts = @ + 1,
                            !.limited = IF run.role = "producer" THEN @ + 1 ELSE @]
     IN  run' = IF met.attempts < 2 THEN met
                ELSE [met EXCEPT !.at = "done", !.outcome = "error"]
  /\ UNCHANGED lane

\* A nonce the mailbox knows brings the same record again, or a conflict; a
\* new record may be written without the adapter hearing of it.
PostRecord ==
  /\ run.at = "post" /\ ~Limited
  /\ LET added == [run EXCEPT !.board = Append(@, [body |-> Body, nonce |-> run.nonce])]
     IN  run' = CASE \E i \in WithNonce : run.board[i].body # Body -> Raised
                  [] \E i \in WithNonce : run.board[i].body = Body -> Posted(run)
                  [] WithNonce = {} /\ Uncertain ->
                       [added EXCEPT !.met = @ \cup {"uncertain"}, !.at = "reconcile"]
                  [] WithNonce = {} /\ ~Uncertain -> Posted(added)
  /\ UNCHANGED lane

\* UncertainWrite: read the room and look for DID and nonce, without a retry.
Reconcile ==
  /\ run.at = "reconcile"
  /\ run' = IF Cardinality(WithNonce) # 1 THEN Raised
            ELSE Posted([run EXCEPT !.reconciled = IF run.role = "consumer" THEN @ + 1 ELSE @])
  /\ UNCHANGED lane

-----------------------------------------------------------------------------
(* The rest of the script.                                                     *)

\* The consumer reads from the start; every signed record of this mailbox
\* carries the correlation id, and there has to be exactly one.
ConsumerRead ==
  /\ run.at = "read"
  /\ run' = [run EXCEPT !.matched = Len(run.board) = 1, !.role = "consumer", !.at = "sign"]
  /\ UNCHANGED lane

\* Cursor of the adapter restored from the checkpoint the producer took after
\* it had read the mailbox.
RestoredCursor(r) == Len(r.board)

\* The restarted producer sees nothing new and confirms once; the verdict is
\* the conjunction of the assertions.
Resume ==
  /\ run.at = "resume"
  /\ LET nothingNew == RestoredCursor(run) = Len(run.board)
         good == run.matched /\ nothingNew /\ run.limited = 1 /\ run.reconciled = 1
     IN  run' = [run EXCEPT !.at = "done", !.outcome = IF good THEN "pass" ELSE "fail"]
  /\ UNCHANGED lane

\* The runtime probe of an adapter times out, or the signer is not there.
RunRaises ==
  /\ run.at \in {"sign", "post", "reconcile", "read", "resume"}
  /\ run' = [Raised EXCEPT !.disturbed = TRUE]
  /\ UNCHANGED lane

\* The steps that ask no gate.
RunStep == PostRateLimited \/ PostRecord \/ Reconcile \/ ConsumerRead \/ Resume

-----------------------------------------------------------------------------
\* No false alarm and no false pass: a run of two different adapters that
\* nothing disturbs passes, and a run passes only when its mailbox holds one
\* request and then one result, under rising nonces, and both injected faults
\* were met (run_roundtrip, FixtureAdapter.post_signed, LocalTechnocore).
VerdictRight ==
  run.at = "done" =>
    /\ ~run.disturbed /\ run.cell[1] # run.cell[2] => run.outcome = "pass"
    /\ run.outcome = "pass" =>
         /\ [i \in 1..Len(run.board) |-> run.board[i].body] = <<"request", "result">>
         /\ run.board[1].nonce < run.board[2].nonce
         /\ run.met = {"limit", "uncertain"}
=============================================================================
