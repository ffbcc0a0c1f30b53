----------------------------- MODULE Activation -----------------------------
(* Launching the pilot (pilot.py): prepare signs a service card, two          *)
(* ownership notes and the announcement and writes a preview of them; the     *)
(* operator approves its digest; activate checks the preview again, publishes *)
(* the documents, claims the service room, lists itself as allowed there,     *)
(* announces and records the activation.                                      *)
(*                                                                            *)
(* Each command may die at any step and is run again by the operator.  The    *)
(* announcement goes through the delivery lane (module Delivery); notes are   *)
(* plain posts under one nonce counter per room, and may be lost or late.     *)
(* Documents are numbered: a card's number is its digest.                     *)
EXTENDS Naturals

CONSTANTS
  None,        \* no note
  Rosetta, Stranger, \* keys
  MaxCards,    \* bound: prepare commands
  MaxConfigs,  \* bound: configurations
  MaxFaults    \* bound: crashes, failed requests and half-done note writes

ASSUME ActivationAssumption ==
  /\ MaxCards \in Nat \ {0} /\ MaxConfigs \in Nat \ {0} /\ MaxFaults \in Nat
  /\ None # Rosetta /\ None # Stranger /\ Rosetta # Stranger

NoPreview == [card |-> 0, claim |-> 0, allow |-> 0, config |-> 0]

VARIABLES
  made,        \* cards made so far
  expired,     \* cards past valid_until
  docs, site,  \* the card and attestation in the spool, and on the public site
  lane,        \* the signer's nonce lane note:<room>
  rows,        \* cards with a stored announcement
  preview,     \* activation-preview.json
  approved,    \* previews whose digest the operator approved
  activation,  \* the preview activation.json names
  config,      \* the configuration both commands read
  running,     \* rosetta-pilot.service is up
  killed,      \* the kill switch file exists
  owner, allow, burnt, \* upstream notes and their nonce counter
  wire,        \* note requests still under way
  landed,      \* cards whose launch announcement shows
  pc, faults

spool    == <<made, docs, lane, rows, preview>>
public   == <<owner, allow, burnt, wire, landed, site>>
operator == <<approved, config, running, killed, expired>>
vars == <<spool, public, operator, activation, pc, faults>>

Steps == {"idle", "attest", "sign", "preview", "publish", "publish_attestation",
          "claim", "check_claim", "allow", "check_allow", "announce", "record"}

Init ==
  /\ made = 0 /\ expired = {} /\ lane = 0 /\ rows = {}
  /\ docs = [card |-> 0, att |-> 0] /\ site = [card |-> 0, att |-> 0]
  /\ preview = NoPreview /\ approved = {} /\ activation = NoPreview
  /\ config = 1 /\ running = FALSE /\ killed = FALSE
  /\ owner = None /\ allow = None /\ burnt = 0 /\ wire = {}
  /\ landed = {}
  /\ pc = "idle" /\ faults = 0

At(step) == pc = step
Goto(step) == pc' = step
Fault == faults < MaxFaults /\ faults' = faults + 1

\* verify_service_card: the attestation is this card's, and it is not over.
Verified(d) == d.card # 0 /\ d.card = d.att /\ d.card \notin expired

-----------------------------------------------------------------------------
(* prepare.  The wrapper refuses while the service is up.                     *)

\* The identity check and the card's signature, then service-card.json.
Prepare ==
  /\ At("idle") /\ ~running /\ ~killed /\ made < MaxCards
  /\ made' = made + 1
  /\ docs' = [docs EXCEPT !.card = made + 1]
  /\ Goto("attest")
  /\ UNCHANGED <<lane, rows, preview, public, operator, activation, faults>>

PrepareAttestation ==
  /\ At("attest")
  /\ docs' = [docs EXCEPT !.att = docs.card]
  /\ Goto("sign")
  /\ UNCHANGED <<made, lane, rows, preview, public, operator, activation, faults>>

\* Faulty variant: the identity check spends a nonce of the lane as well.
PrepareSignThree ==
  /\ At("sign") /\ ~killed
  /\ lane' = lane + 3
  /\ rows' = rows \cup {docs.card}
  /\ Goto("preview")
  /\ UNCHANGED <<made, docs, preview, public, operator, activation, faults>>

\* The claim, the allow-list and the announcement; the last is stored.
PrepareSign ==
  /\ At("sign") /\ ~killed
  /\ lane' = lane + 2
  /\ rows' = rows \cup {docs.card}
  /\ Goto("preview")
  /\ UNCHANGED <<made, docs, preview, public, operator, activation, faults>>

\* Faulty variant: a nonce lane per namespace, so that both notes carry one number.
PreviewOneNonce ==
  /\ At("preview")
  /\ preview' = [card |-> docs.card, claim |-> lane, allow |-> lane, config |-> config]
  /\ Goto("idle")
  /\ UNCHANGED <<made, docs, lane, rows, public, operator, activation, faults>>

PreparePreview ==
  /\ At("preview")
  /\ preview' = [card |-> docs.card, claim |-> lane - 1, allow |-> lane, config |-> config]
  /\ Goto("idle")
  /\ UNCHANGED <<made, docs, lane, rows, public, operator, activation, faults>>

-----------------------------------------------------------------------------
(* The operator.                                                              *)

Approve ==
  /\ preview # NoPreview /\ preview \notin approved /\ At("idle")
  /\ approved' = approved \cup {preview}
  /\ UNCHANGED <<spool, public, config, running, killed, expired, activation, pc, faults>>

Reconfigure ==
  /\ At("idle") /\ config < MaxConfigs
  /\ config' = config + 1
  /\ UNCHANGED <<spool, public, approved, running, killed, expired, activation, pc, faults>>

\* systemctl start or stop; the unit also starts with the host once enabled.
Switch ==
  /\ At("idle") /\ activation # NoPreview
  /\ running' = ~running
  /\ UNCHANGED <<spool, public, approved, config, killed, expired, activation, pc, faults>>

KillSwitch ==
  /\ killed' = ~killed
  /\ UNCHANGED <<spool, public, approved, config, running, expired, activation, pc, faults>>

Expire(c) ==
  /\ c \in 1..made /\ c \notin expired
  /\ expired' = expired \cup {c}
  /\ UNCHANGED <<spool, public, approved, config, running, killed, activation, pc, faults>>

-----------------------------------------------------------------------------
(* The upstream's notes.                                                      *)

Note(kind) == [kind |-> kind, nonce |-> IF kind = "claim" THEN preview.claim ELSE preview.allow]

\* The write gate: a claim of a room nobody else owns and nobody spoke in, an
\* allow-list of the owner; then the nonce.
Admitted(n) ==
  /\ n.nonce > burnt
  /\ IF n.kind = "claim" THEN owner = Rosetta \/ (owner = None /\ landed = {})
     ELSE owner = Rosetta

\* The note is written, unless it is create-only and exists.
Write(n) ==
  IF n.kind = "claim"
  THEN owner' = Rosetta /\ UNCHANGED allow
  ELSE allow' = Rosetta /\ UNCHANGED owner
Wrote(n) == n.kind = "allow" \/ owner = None

StrangerClaims ==
  /\ owner = None /\ landed = {}
  /\ owner' = Stranger
  /\ UNCHANGED <<spool, allow, burnt, wire, landed, site, operator, activation, pc, faults>>

\* A request the client gave up on arrives after all, or is lost.
Arrive(n) ==
  /\ n \in wire
  /\ wire' = wire \ {n}
  /\ \/ Admitted(n) /\ burnt' = n.nonce /\ Write(n)
     \/ UNCHANGED <<owner, allow, burnt>>
  /\ UNCHANGED <<spool, landed, site, operator, activation, pc, faults>>

-----------------------------------------------------------------------------
(* activate.                                                                  *)

\* Faulty variant: any approved digest will do.
ActivatableByAny ==
  /\ approved # {} /\ preview # NoPreview
  /\ Verified(docs) /\ preview.card = docs.att /\ preview.config = config
  /\ preview.card \in rows

\* The digest is that of the preview on disk, and the preview is still what
\* card, configuration and stored announcement amount to.
Activatable ==
  /\ preview \in approved
  /\ Verified(docs) /\ preview.card = docs.att /\ preview.config = config
  /\ preview.card \in rows

Activate ==
  /\ At("idle") /\ ~running /\ ~killed
  /\ Activatable
  /\ Goto("publish")
  /\ UNCHANGED <<spool, public, operator, activation, faults>>

\* Faulty variant: documents that are on the site already are not replaced again.
PublishUnlessThere ==
  /\ \/ /\ At("publish") /\ ~killed /\ Verified(docs)
        /\ site' = [site EXCEPT !.card = docs.card]
        /\ Goto(IF site.card = docs.card THEN "claim" ELSE "publish_attestation")
     \/ /\ At("publish_attestation")
        /\ site' = [site EXCEPT !.att = docs.att]
        /\ Goto("claim")
  /\ UNCHANGED <<spool, owner, allow, burnt, wire, landed, operator, activation, faults>>

\* ServiceDocumentPublisher.publish: gate and card are checked again, then the
\* files are replaced one by one, the attestation last.
Publish ==
  /\ \/ /\ At("publish") /\ ~killed /\ Verified(docs)
        /\ site' = [site EXCEPT !.card = docs.card]
        /\ Goto("publish_attestation")
     \/ /\ At("publish_attestation")
        /\ site' = [site EXCEPT !.att = docs.att]
        /\ Goto("claim")
  /\ UNCHANGED <<spool, owner, allow, burnt, wire, landed, operator, activation, faults>>

\* What a post of a note does: accepted, refused by the gate, refused because
\* it exists (its nonce is spent all the same), spent without a write, or lost
\* on the way, to arrive later or never.
PostNote(n, then, check) ==
  \/ /\ Admitted(n) /\ Wrote(n)
     /\ burnt' = n.nonce /\ Write(n)
     /\ Goto(then)
     /\ UNCHANGED <<wire, faults>>
  \/ /\ Admitted(n) /\ ~Wrote(n)
     /\ burnt' = n.nonce
     /\ Goto(check)
     /\ UNCHANGED <<owner, allow, wire, faults>>
  \/ /\ ~Admitted(n)
     /\ Goto(check)
     /\ UNCHANGED <<owner, allow, burnt, wire, faults>>
  \/ /\ Fault
     /\ \/ wire' = wire \cup {n} /\ UNCHANGED burnt
        \/ Admitted(n) /\ burnt' = n.nonce /\ UNCHANGED wire
     /\ Goto(check)
     /\ UNCHANGED <<owner, allow>>

\* read_note shows the exact approved value.
NoteVisible(kind) == IF kind = "claim" THEN owner = Rosetta ELSE allow = Rosetta

ApplyNote ==
  /\ \/ At("claim") /\ PostNote(Note("claim"), "allow", "check_claim")
     \/ At("allow") /\ PostNote(Note("allow"), "announce", "check_allow")
     \/ /\ \/ At("check_claim") /\ Goto(IF NoteVisible("claim") THEN "allow" ELSE "idle")
           \/ At("check_allow") /\ Goto(IF NoteVisible("allow") THEN "announce" ELSE "idle")
        /\ UNCHANGED <<owner, allow, burnt, wire, faults>>
  /\ UNCHANGED <<spool, landed, site, operator, activation>>

\* gateway.announce: delivered; or raised, delivered or not.
Announce ==
  /\ At("announce")
  /\ \/ /\ ~killed /\ allow = Rosetta
        /\ landed' = landed \cup {docs.card}
        /\ \/ Goto("record") /\ UNCHANGED faults
           \/ Goto("idle") /\ Fault
     \/ Goto("idle") /\ (killed \/ allow # Rosetta) /\ UNCHANGED <<landed, faults>>
  /\ UNCHANGED <<spool, owner, allow, burnt, wire, site, operator, activation>>

\* The presence row and activation.json; the wrapper starts the service.
Record ==
  /\ At("record")
  /\ activation' = preview
  /\ running' = TRUE
  /\ Goto("idle")
  /\ UNCHANGED <<spool, public, approved, config, killed, expired, faults>>

\* A command that ends among the signatures may have spent some of the lane.
SignedSome == lane' \in IF At("sign") THEN lane..(lane + 2) ELSE {lane}

\* The guard of a later step fails.
Refused ==
  /\ \/ At("sign") /\ killed
     \/ At("publish") /\ (killed \/ ~Verified(docs))
  /\ SignedSome /\ Goto("idle")
  /\ UNCHANGED <<made, docs, rows, preview, public, operator, activation, faults>>

Crash ==
  /\ ~At("idle") /\ Fault
  /\ SignedSome /\ Goto("idle")
  /\ UNCHANGED <<made, docs, rows, preview, public, operator, activation>>

Command == \/ PrepareAttestation \/ PrepareSign \/ PreparePreview
           \/ Publish \/ ApplyNote \/ Announce \/ Record \/ Refused

Next ==
  \/ Prepare \/ PrepareAttestation \/ PrepareSign \/ PreparePreview
  \/ Approve \/ Reconfigure \/ Switch \/ KillSwitch
  \/ \E c \in 1..MaxCards : Expire(c)
  \/ StrangerClaims \/ \E n \in wire : Arrive(n)
  \/ Activate \/ Publish \/ ApplyNote \/ Announce \/ Record
  \/ Refused \/ Crash

Spec == Init /\ [][Next]_vars

\* Commands run to their end, and the operator runs an approved activation
\* again until it is on file.
FairSpec == Spec /\ WF_vars(Command)
                 /\ SF_vars(Activate /\ activation # preview)

-----------------------------------------------------------------------------
(* Properties.                                                                *)

\* Every variable stays in its declared set.
TypeOK ==
  /\ made \in 0..MaxCards /\ expired \subseteq 1..made /\ rows \subseteq 1..made
  /\ docs.card \in 0..made /\ docs.att \in 0..docs.card
  /\ site.card \in 0..made /\ site.att \in 0..made
  /\ lane \in 0..2 * MaxCards /\ burnt \in 0..lane
  /\ preview.claim <= lane /\ preview.allow <= lane
  /\ {owner, allow} \subseteq {None, Rosetta, Stranger}
  /\ landed \subseteq 1..made
  /\ pc \in Steps /\ faults \in 0..MaxFaults

Launched(p) ==
  /\ p \in approved /\ p.card \in landed
  /\ owner = Rosetta /\ allow = Rosetta
  /\ site = [card |-> p.card, att |-> p.card]

\* activation.json comes last: when it names a preview, that preview was
\* approved, its card is announced and published with its own attestation, and
\* both notes are Rosetta's, whatever was lost, late, refused or interrupted on
\* the way (activate, _apply_note).
ActivatedComplete ==
  [][activation' # activation => Launched(activation')]_vars

\* No public effect of a launch without the operator's approval of a preview
\* that names it (activate compares digests before its first write).
LaunchApproved ==
  LET cards == {p.card : p \in approved} IN
  /\ {site.card, site.att} \ {0} \subseteq cards
  /\ landed \subseteq cards
  /\ owner = Rosetta \/ wire # {} => approved # {}

\* An approved launch whose preview stays current, with neither the kill switch
\* nor a stranger in its way, is activated in the end, unless the upstream spent
\* the nonce of one of its notes without writing it (_apply_note).
NoncesLeft ==
  /\ owner = Rosetta \/ preview.claim > burnt
  /\ allow = Rosetta \/ preview.claim >= burnt
ActivationCompletes ==
  <>[](/\ preview \in approved /\ Activatable /\ ~killed /\ ~running
       /\ owner # Stranger /\ NoncesLeft) => []<>(activation = preview)
=============================================================================
