-------------------------- MODULE ActivationProofs --------------------------
(* That a launch is complete before activation.json says so, and that nothing *)
(* of it is public without an approval, for every number of cards,            *)
(* configurations and faults.                                                 *)
EXTENDS Activation, TLAPS

ApprovedCards == {p.card : p \in approved}

\* Steps of activate, by what has been done when they begin.
Launching == {"publish", "publish_attestation", "claim", "check_claim", "allow",
              "check_allow", "announce", "record"}
Published == Launching \ {"publish", "publish_attestation"}
Claimed   == {"allow", "check_allow", "announce", "record"}
Allowed   == {"announce", "record"}

\* While activate runs, the preview is the approved one and the spool holds its
\* card; each step finds done what the steps before it did.
StepInv ==
  /\ pc \in Launching => /\ preview \in approved
                         /\ docs.card = preview.card /\ docs.att = preview.card
  /\ pc = "publish_attestation" => site.card = docs.card
  /\ pc \in Published => site = [card |-> docs.card, att |-> docs.att]
  /\ pc \in Claimed => owner = Rosetta
  /\ pc \in Allowed => allow = Rosetta
  /\ pc = "record" => docs.card \in landed

\* What is public was approved, and an allow-list is the owner's.
PublicInv ==
  /\ site.card \in ApprovedCards \cup {0} /\ site.att \in ApprovedCards \cup {0}
  /\ landed \subseteq ApprovedCards
  /\ owner = Rosetta \/ wire # {} => approved # {}
  /\ allow = Rosetta => owner = Rosetta

Shapes ==
  /\ made \in Nat
  /\ docs \in [card : Nat, att : Nat] /\ site \in [card : Nat, att : Nat]

IndInv == Shapes /\ StepInv /\ PublicInv

USE DEF Launching, Published, Claimed, Allowed, At, Goto, ApprovedCards

\* Nothing is public and nothing runs at the start (Init).
LEMMA InitInd == Init => IndInv
BY ActivationAssumption DEF Init, IndInv, Shapes, StepInv, PublicInv

\* prepare only runs from idle, writes the spool and nothing public
\* (PilotRuntime.prepare, build_service_card).
LEMMA PrepareKeeps ==
  ASSUME IndInv, Prepare \/ PrepareAttestation \/ PrepareSign \/ PreparePreview
  PROVE  IndInv'
<1> USE DEF IndInv, Shapes, StepInv, PublicInv, public, operator
<1>1. CASE Prepare
  BY <1>1 DEF Prepare
<1>2. CASE PrepareAttestation
  BY <1>2 DEF PrepareAttestation
<1>3. CASE PrepareSign
  BY <1>3 DEF PrepareSign
<1>4. CASE PreparePreview
  BY <1>4 DEF PreparePreview
<1>5. QED BY <1>1, <1>2, <1>3, <1>4

\* The operator's actions take no approval back and touch nothing public.
LEMMA OperatorKeeps ==
  ASSUME IndInv,
         Approve \/ Reconfigure \/ Switch \/ KillSwitch \/ \E c \in 1..MaxCards : Expire(c)
  PROVE  IndInv'
<1> USE DEF IndInv, Shapes, StepInv, PublicInv, public, spool
<1>1. CASE Approve
  BY <1>1 DEF Approve
<1>2. CASE Reconfigure
  BY <1>2 DEF Reconfigure
<1>3. CASE Switch
  BY <1>3 DEF Switch
<1>4. CASE KillSwitch
  BY <1>4 DEF KillSwitch
<1>5. CASE \E c \in 1..MaxCards : Expire(c)
  BY <1>5 DEF Expire
<1>6. QED BY <1>1, <1>2, <1>3, <1>4, <1>5

\* A stranger takes only a room nobody owns, so never one this launch relies
\* on; a late note only makes Rosetta what activate wants it to be.
LEMMA UpstreamKeeps ==
  ASSUME IndInv, StrangerClaims \/ \E n \in wire : Arrive(n)
  PROVE  IndInv'
<1> USE DEF IndInv, Shapes, StepInv, PublicInv, operator, spool
<1>1. CASE StrangerClaims
  BY <1>1, ActivationAssumption DEF StrangerClaims
<1>2. CASE \E n \in wire : Arrive(n)
  <2>1. PICK n \in wire : Arrive(n)
    BY <1>2
  <2>2. approved # {}
    BY <2>1
  <2>3. (owner' = owner \/ owner' = Rosetta) /\ (allow' = allow \/ (allow' = Rosetta /\ owner = Rosetta))
    BY <2>1 DEF Arrive, Admitted, Write
  <2>4. UNCHANGED <<pc, docs, preview, site, landed, approved, made>>
    BY <2>1 DEF Arrive
  <2>5. Shapes' /\ StepInv'
    BY <2>3, <2>4
  <2>6. PublicInv'
    BY <2>2, <2>3, <2>4
  <2>7. QED BY <2>5, <2>6
<1>3. QED BY <1>1, <1>2

\* The checks of activate establish what its later steps rely on, and
\* publication puts up the approved card, the attestation last.
LEMMA PublishKeeps ==
  ASSUME IndInv, Activate \/ Publish
  PROVE  IndInv'
<1> USE DEF IndInv, Shapes, StepInv, PublicInv, operator, spool, public
<1>1. CASE Activate
  BY <1>1 DEF Activate, Activatable, Verified
<1>2. CASE Publish
  <2>1. UNCHANGED <<docs, preview, approved, made, owner, allow, wire, landed>>
    BY <1>2 DEF Publish
  <2>2. preview \in approved /\ docs.card = preview.card /\ docs.att = preview.card
    BY <1>2 DEF Publish
  <2>3. docs.card \in ApprovedCards /\ docs.att \in ApprovedCards
    BY <2>2
  <2>4. CASE pc = "publish"
    <3>1. site' = [site EXCEPT !.card = docs.card] /\ pc' = "publish_attestation"
      BY <1>2, <2>4 DEF Publish
    <3>2. QED BY <2>1, <2>2, <2>3, <2>4, <3>1
  <2>5. CASE pc = "publish_attestation"
    <3>1. site' = [site EXCEPT !.att = docs.att] /\ pc' = "claim"
      BY <1>2, <2>5 DEF Publish
    <3>2. site' = [card |-> docs.card, att |-> docs.att]
      BY <2>5, <3>1
    <3>3. QED BY <2>1, <2>2, <2>3, <2>5, <3>1, <3>2
  <2>6. QED BY <1>2, <2>4, <2>5 DEF Publish
<1>3. QED BY <1>1, <1>2

\* A post that was accepted, or whose value is read back, leaves its note
\* Rosetta's; everything else ends the command (_apply_note).
LEMMA NotesKeep ==
  ASSUME IndInv, ApplyNote
  PROVE  IndInv'
<1> USE DEF IndInv, Shapes, StepInv, PublicInv, operator, spool
<1>1. UNCHANGED <<docs, preview, approved, made, landed, site>>
  BY DEF ApplyNote
<1>2. pc \in {"claim", "allow", "check_claim", "check_allow"}
  BY DEF ApplyNote
<1>3. approved # {}
  BY <1>2
<1>4. CASE pc = "claim"
  <2>1. PostNote(Note("claim"), "allow", "check_claim")
    BY <1>4 DEF ApplyNote
  <2>2. \/ owner' = Rosetta /\ allow' = allow /\ pc' = "allow"
        \/ UNCHANGED <<owner, allow>> /\ pc' = "check_claim"
    BY <2>1 DEF PostNote, Write, Note, Wrote
  <2>3. QED BY <1>1, <1>3, <1>4, <2>2
<1>5. CASE pc = "allow"
  <2>1. PostNote(Note("allow"), "announce", "check_allow")
    BY <1>5 DEF ApplyNote
  <2>2. \/ owner' = owner /\ allow' = Rosetta /\ pc' = "announce"
        \/ UNCHANGED <<owner, allow>> /\ pc' = "check_allow"
    BY <2>1 DEF PostNote, Write, Note, Wrote
  <2>3. QED BY <1>1, <1>3, <1>5, <2>2
<1>6. CASE pc = "check_claim"
  BY <1>1, <1>6 DEF ApplyNote, NoteVisible
<1>7. CASE pc = "check_allow"
  BY <1>1, <1>7 DEF ApplyNote, NoteVisible
<1>8. QED BY <1>2, <1>4, <1>5, <1>6, <1>7

\* The announcement names the approved card; record and the ends of a command
\* change nothing the invariant speaks of.
LEMMA EndKeeps ==
  ASSUME IndInv, Announce \/ Record \/ Refused \/ Crash \/ UNCHANGED vars
  PROVE  IndInv'
<1> USE DEF IndInv, Shapes, StepInv, PublicInv, operator, spool, public
<1>1. CASE Announce
  <2>1. docs.card \in ApprovedCards
    BY <1>1 DEF Announce
  <2>2. UNCHANGED <<docs, preview, approved, made, owner, allow, wire, site>>
    BY <1>1 DEF Announce
  <2>3. \/ landed' = landed \cup {docs.card} /\ pc' \in {"record", "idle"}
        \/ landed' = landed /\ pc' = "idle"
    BY <1>1 DEF Announce
  <2>4. pc = "announce"
    BY <1>1 DEF Announce
  <2>5. QED BY <2>1, <2>2, <2>3, <2>4
<1>2. CASE Record
  BY <1>2 DEF Record
<1>3. CASE Refused
  BY <1>3 DEF Refused
<1>4. CASE Crash
  BY <1>4 DEF Crash
<1>5. CASE UNCHANGED vars
  BY <1>5 DEF vars
<1>6. QED BY <1>1, <1>2, <1>3, <1>4, <1>5

\* Every step of prepare, activate, operator and upstream keeps IndInv.
LEMMA StepInd == IndInv /\ [Next]_vars => IndInv'
BY PrepareKeeps, OperatorKeeps, UpstreamKeeps, PublishKeeps, NotesKeep, EndKeeps DEF Next

\* IndInv holds in every reachable state, however the commands are interrupted.
THEOREM IndInvAlways == Spec => []IndInv
BY InitInd, StepInd, PTL DEF Spec

\* Nothing of a launch is public without the operator's approval of a preview
\* that names it (PilotRuntime.activate).
THEOREM LaunchApprovedAlways == Spec => []LaunchApproved
<1>1. IndInv => LaunchApproved
  BY DEF IndInv, PublicInv, LaunchApproved
<1>2. QED BY <1>1, IndInvAlways, PTL

\* activation.json only ever names a preview that was approved and whose launch
\* is complete: announced, published and both notes in place (activate).
THEOREM ActivatedCompleteAlways == Spec => ActivatedComplete
<1>1. IndInv /\ [Next]_vars => [activation' # activation => Launched(activation')]_vars
  <2> SUFFICES ASSUME IndInv, Next, activation' # activation
               PROVE  Launched(activation')
    BY DEF vars
  <2>1. Record
    BY DEF Next, Prepare, PrepareAttestation, PrepareSign, PreparePreview, Approve,
           Reconfigure, Switch, KillSwitch, Expire, StrangerClaims, Arrive, Activate,
           Publish, ApplyNote, Announce, Refused, Crash
  <2>2. pc = "record" /\ activation' = preview
    BY <2>1 DEF Record
  <2>3. QED BY <2>2 DEF Launched, IndInv, Shapes, StepInv, PublicInv
<1>2. QED BY <1>1, IndInvAlways, PTL DEF Spec, ActivatedComplete

-----------------------------------------------------------------------------
(* Types and ranges.                                                          *)

\* The lane has two nonces for each card made, none yet for the one in the
\* making; a command works on a card; every note carries a nonce of the lane.
Ranges ==
  /\ docs \in [card : Nat, att : Nat] /\ site \in [card : Nat, att : Nat]
  /\ lane <= 2 * made
  /\ pc \in {"attest", "sign"} => lane + 2 <= 2 * made
  /\ pc = "preview" => lane >= 2
  /\ pc # "idle" => docs.card >= 1
  /\ preview.claim \in Nat /\ preview.allow \in Nat
  /\ \A n \in wire : n.nonce \in Nat /\ n.nonce <= lane

TypeInv == TypeOK /\ Ranges

\* Every variable is in its range at the start (Init).
LEMMA InitRanges == Init => TypeInv
BY ActivationAssumption DEF Init, TypeInv, TypeOK, Ranges, Steps, NoPreview

\* prepare spends two nonces for each card, never more (PilotRuntime.prepare).
LEMMA PrepareRanges ==
  ASSUME TypeInv, Prepare \/ PrepareAttestation \/ PrepareSign \/ PreparePreview
  PROVE  TypeInv'
<1> USE ActivationAssumption DEF TypeInv, TypeOK, Ranges, Steps, public, operator
<1>1. CASE Prepare
  BY <1>1 DEF Prepare
<1>2. CASE PrepareAttestation
  BY <1>2 DEF PrepareAttestation
<1>3. CASE PrepareSign
  <2>1. docs.card \in 1..made
    BY <1>3 DEF PrepareSign
  <2>2. rows' \subseteq 1..made
    BY <1>3, <2>1 DEF PrepareSign
  <2>3. lane' \in 0..2 * MaxCards /\ lane' = lane + 2 /\ lane' <= 2 * made
    BY <1>3 DEF PrepareSign
  <2>4. QED BY <1>3, <2>2, <2>3 DEF PrepareSign
<1>4. CASE PreparePreview
  BY <1>4 DEF PreparePreview
<1>5. QED BY <1>1, <1>2, <1>3, <1>4

\* The operator and a stranger leave cards and nonces alone.
LEMMA OthersRanges ==
  ASSUME TypeInv,
         \/ Approve \/ Reconfigure \/ Switch \/ KillSwitch
         \/ \E c \in 1..MaxCards : Expire(c)
         \/ StrangerClaims \/ UNCHANGED vars
  PROVE  TypeInv'
<1> USE ActivationAssumption DEF TypeInv, TypeOK, Ranges, Steps, public, operator, spool
<1>1. CASE Approve \/ Reconfigure \/ Switch \/ KillSwitch
  BY <1>1 DEF Approve, Reconfigure, Switch, KillSwitch
<1>2. CASE \E c \in 1..MaxCards : Expire(c)
  BY <1>2 DEF Expire
<1>3. CASE StrangerClaims
  BY <1>3 DEF StrangerClaims
<1>4. CASE UNCHANGED vars
  BY <1>4 DEF vars
<1>5. QED BY <1>1, <1>2, <1>3, <1>4

\* A note in time or late spends a nonce that was signed for it (_apply_note).
LEMMA NotesRanges ==
  ASSUME TypeInv, ApplyNote \/ \E n \in wire : Arrive(n)
  PROVE  TypeInv'
<1> USE ActivationAssumption DEF TypeInv, TypeOK, Ranges, operator, spool
<1>1. CASE \E n \in wire : Arrive(n)
  BY <1>1 DEF Arrive, Admitted, Write
<1>2. CASE ApplyNote
  <2>1. UNCHANGED <<docs, preview, made, lane, rows, landed, site, expired>>
    BY <1>2 DEF ApplyNote
  <2>2. pc \notin {"idle", "attest", "sign", "preview"}
    BY <1>2 DEF ApplyNote
  <2>3. pc' \in Steps \ {"attest", "sign", "preview"}
    BY <1>2 DEF ApplyNote, PostNote, Steps
  <2>4. ASSUME NEW kind \in {"claim", "allow"}, NEW t, NEW u, PostNote(Note(kind), t, u)
        PROVE  /\ burnt' \in 0..lane /\ faults' \in 0..MaxFaults
               /\ {owner', allow'} \subseteq {None, Rosetta, Stranger}
               /\ \A n \in wire' : n.nonce \in Nat /\ n.nonce <= lane
    <3>1. Note(kind).nonce \in Nat /\ Note(kind).nonce <= lane
      BY DEF Note
    <3>2. faults' \in 0..MaxFaults
      BY <2>4 DEF PostNote, Fault
    <3>3. {owner', allow'} \subseteq {None, Rosetta, Stranger}
      BY <2>4 DEF PostNote, Write
    <3>4. \A n \in wire' : n.nonce \in Nat /\ n.nonce <= lane
      BY <2>4, <3>1 DEF PostNote
    <3>5. burnt' = burnt \/ burnt' = Note(kind).nonce
      BY <2>4 DEF PostNote
    <3>6. QED BY <3>1, <3>2, <3>3, <3>4, <3>5
  <2>5. /\ burnt' \in 0..lane /\ faults' \in 0..MaxFaults
        /\ {owner', allow'} \subseteq {None, Rosetta, Stranger}
        /\ \A n \in wire' : n.nonce \in Nat /\ n.nonce <= lane
    BY <1>2, <2>4 DEF ApplyNote
  <2>6. QED BY <2>1, <2>2, <2>3, <2>5
<1>3. QED BY <1>1, <1>2

\* The other steps of a command publish and announce the card at hand; one that
\* ends among its signatures has spent no more than they need.
LEMMA CommandRanges ==
  ASSUME TypeInv, Activate \/ Publish \/ Announce \/ Record \/ Refused \/ Crash
  PROVE  TypeInv'
<1> USE ActivationAssumption DEF TypeInv, TypeOK, Ranges, Steps, operator, spool, public
<1>1. CASE Activate
  BY <1>1 DEF Activate, Activatable, Verified
<1>2. CASE Publish
  BY <1>2 DEF Publish
<1>3. CASE Announce
  <2>1. docs.card \in 1..made
    BY <1>3 DEF Announce
  <2>2. landed' \subseteq 1..made
    BY <1>3, <2>1 DEF Announce
  <2>3. faults' \in 0..MaxFaults /\ pc' \in {"record", "idle"}
    BY <1>3 DEF Announce, Fault
  <2>4. QED BY <1>3, <2>2, <2>3 DEF Announce
<1>4. CASE Record
  BY <1>4 DEF Record
<1>5. CASE Refused
  BY <1>5 DEF Refused, SignedSome
<1>6. CASE Crash
  BY <1>6 DEF Crash, SignedSome, Fault
<1>7. QED BY <1>1, <1>2, <1>3, <1>4, <1>5, <1>6

\* Every variable stays in its range: the nonce lane never outgrows two for
\* each card, and no note spends a nonce beyond it.
THEOREM TypeCorrect == Spec => []TypeOK
<1>1. TypeInv /\ [Next]_vars => TypeInv'
  BY PrepareRanges, OthersRanges, NotesRanges, CommandRanges DEF Next
<1>2. TypeInv => TypeOK
  BY DEF TypeInv
<1>3. QED BY <1>1, <1>2, InitRanges, PTL DEF Spec
=============================================================================
