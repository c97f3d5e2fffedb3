---------------------- MODULE AutonomousCampaignProofs ----------------------
(***************************************************************************)
(* Proofs about AutonomousCampaign, for every number of positions and      *)
(* activations, with any pauses, raising writes and deaths of the helper:  *)
(* apply is run once for a position, its outcome says what happened to the *)
(* photo, and a decision to write is taken only under an activation; the   *)
(* counters follow the evidence, and what a campaign at rest says is true. *)
(*                                                                         *)
(* The argument for the first three: the decision is on disk before        *)
(* anything is applied and is never taken back, and a position that has    *)
(* one is settled from its evidence, never applied again.  For the last    *)
(* two: evidence only grows, each mutation counts what it adds, a write    *)
(* that raises closes admission and counts nothing, and a position leaves  *)
(* without an outcome only when admission is closed.                       *)
(***************************************************************************)
EXTENDS AutonomousCampaign, FiniteSetTheorems, TLAPS

Undecided == {"gate", "reading", "admitting"}

Unapplied == {"reviewing", "linking", "linked"}

Decided == Unapplied \cup {"applying", "receipt"}

Unsettling == {"idle", "denied", "damaged", "failing", "releasing"}

Types ==
  /\ evidence \in [Position -> Evidence] /\ pc \in [Position -> Steps]
  /\ applies \in [Position -> {0, 1}] /\ changed \in SUBSET Position
  /\ "authorization" \in DOMAIN store /\ store.authorization \in 0..MaxActivations
  /\ "alive" \in DOMAIN drive /\ activations \in 0..MaxActivations /\ failures \in Nat

\* Admission is open for the last activation, and not once a pause was accepted.
AuthorizationIsLast ==
  store.authorization # 0 => accepted = "activation" /\ store.authorization = activations

NoThreadNoWork == ~drive.alive => Idle

\* What the step of a position, its evidence and its photo say of each other.
Sound(p) ==
  /\ (applies[p] # 0 \/ p \in changed) => evidence[p].decision # 0
  /\ pc[p] \in Undecided => evidence[p].decision = 0
  /\ pc[p] \in Decided => evidence[p].decision # 0
  /\ pc[p] \in Unapplied => applies[p] = 0 /\ p \notin changed
  /\ pc[p] = "applying" => evidence[p].row = "writing"
  /\ p \in changed => evidence[p].row \in {"writing", "verified", "uncertain"}
  /\ evidence[p].row = "verified" => p \in changed
  /\ pc[p] \notin Unsettling => evidence[p].outcome = "none"
  /\ evidence[p].outcome = "no_change" => p \notin changed
  /\ evidence[p].outcome = "saved" => evidence[p].row = "verified" /\ Provenance(evidence[p])

CampaignInv ==
  Types /\ AuthorizationIsLast /\ NoThreadNoWork /\ \A p \in Position : Sound(p)
-----------------------------------------------------------------------------
(***************************************************************************)
(* What writes do, whether they raise or not.                              *)
(***************************************************************************)

\* Admission stays as it was or is closed.
StoreKeeps == "authorization" \in DOMAIN store' /\ store'.authorization \in {0, store.authorization}

DriveKeeps == "alive" \in DOMAIN drive' /\ drive'.alive = drive.alive

LEMMA ClosesAdmission ==
  ASSUME NEW s, "authorization" \in DOMAIN s, NEW reason, NEW raised \in {0, 1},
         failures \in Nat, FailClosed(s, reason, raised)
  PROVE  /\ "authorization" \in DOMAIN store' /\ store'.authorization = 0
         /\ failures' \in Nat /\ (raised = 1 => failures' # failures)
<1> DEFINE closed == [s EXCEPT !.authorization = 0, !.failure = reason]
<1>1. "authorization" \in DOMAIN closed /\ closed.authorization = 0
  OBVIOUS
<1>2. PICK ledger :
        \/ store' = [closed EXCEPT !.ledger = ledger]
        \/ store' = [closed EXCEPT !.failure = "storage", !.ledger.state = "paused",
                                   !.ledger.reason = "storage"]
  BY DEF FailClosed
<1>3. failures' = failures + raised \/ failures' = failures + raised + 1
  BY DEF FailClosed
<1> HIDE DEF closed
<1>4. "authorization" \in DOMAIN store' /\ store'.authorization = 0
  BY <1>1, <1>2
<1> QED
  BY <1>3, <1>4

LEMMA MutateEffect ==
  ASSUME Types, NEW p \in Position, NEW written \in Evidence,
         NEW s, "authorization" \in DOMAIN s, Mutate(p, written, s)
  PROVE  /\ evidence' \in [Position -> Evidence]
         /\ evidence'[p] \in {evidence[p], written}
         /\ \A q \in Position \ {p} : evidence'[q] = evidence[q]
         /\ "authorization" \in DOMAIN store' /\ store'.authorization \in {0, s.authorization}
         /\ failures' \in Nat
<1> DEFINE ledger == [s.ledger EXCEPT !.in_flight = Cardinality(s.inFlight)]
<1>1. \E e \in {evidence[p], written} : evidence' = [evidence EXCEPT ![p] = e]
  BY DEF Mutate
<1>2. evidence[p] \in Evidence
  BY DEF Types
<1>3. /\ evidence' \in [Position -> Evidence] /\ evidence'[p] \in {evidence[p], written}
      /\ \A q \in Position \ {p} : evidence'[q] = evidence[q]
  BY <1>1, <1>2 DEF Types
<1>4. \/ store' = [s EXCEPT !.ledger = ledger] /\ failures' = failures
      \/ FailClosed(store, "storage", 1)
      \/ FailClosed([s EXCEPT !.ledger = store.ledger], "storage", 1)
  BY DEF Mutate
<1>5. /\ "authorization" \in DOMAIN store' /\ store'.authorization \in {0, s.authorization}
      /\ failures' \in Nat
  <2>1. CASE store' = [s EXCEPT !.ledger = ledger] /\ failures' = failures
    <3> HIDE DEF ledger
    <3> QED
      BY <2>1 DEF Types
  <2>2. CASE FailClosed(store, "storage", 1)
    BY <2>2, ClosesAdmission DEF Types
  <2>3. CASE FailClosed([s EXCEPT !.ledger = store.ledger], "storage", 1)
    <3>1. "authorization" \in DOMAIN [s EXCEPT !.ledger = store.ledger]
      OBVIOUS
    <3> QED
      BY <2>3, <3>1, ClosesAdmission DEF Types
  <2> QED
    BY <1>4, <2>1, <2>2, <2>3
<1> QED
  BY <1>3, <1>5

LEMMA WriteEffect ==
  ASSUME Types, NEW p \in Position, NEW written \in Evidence, Write(p, written)
  PROVE  /\ evidence' \in [Position -> Evidence]
         /\ evidence'[p] \in {evidence[p], written}
         /\ \A q \in Position \ {p} : evidence'[q] = evidence[q]
         /\ failures' \in Nat /\ (failures' = failures => evidence'[p] = written)
<1>1. \E e \in {evidence[p], written} : evidence' = [evidence EXCEPT ![p] = e]
  BY DEF Write
<1>2. evidence[p] \in Evidence
  BY DEF Types
<1>3. \/ failures' = failures /\ evidence' = [evidence EXCEPT ![p] = written]
      \/ failures' = failures + 1
  BY DEF Write
<1> QED
  BY <1>1, <1>2, <1>3 DEF Types

-----------------------------------------------------------------------------
(***************************************************************************)
(* A step of one position.                                                 *)
(***************************************************************************)

Elsewhere(p) ==
  \A q \in Position \ {p} :
    /\ evidence'[q] = evidence[q] /\ pc'[q] = pc[q] /\ applies'[q] = applies[q]
    /\ q \in changed' <=> q \in changed

LEMMA PositionStep ==
  ASSUME CampaignInv, NEW p \in Position, Elsewhere(p), Sound(p)', drive.alive,
         evidence' \in [Position -> Evidence], pc' \in [Position -> Steps],
         applies' \in [Position -> {0, 1}], changed' \in SUBSET Position,
         StoreKeeps, DriveKeeps, failures' \in Nat,
         UNCHANGED <<authorized, accepted, activations>>
  PROVE  CampaignInv'
<1> USE DEF CampaignInv
<1>1. Types'
  <2>1. 0 \in 0..MaxActivations
    BY CampaignConstants
  <2> QED
    BY <2>1 DEF Types, StoreKeeps, DriveKeeps
<1>2. AuthorizationIsLast'
  BY DEF AuthorizationIsLast, StoreKeeps
<1>3. NoThreadNoWork'
  BY DEF NoThreadNoWork, DriveKeeps
<1>4. \A q \in Position : Sound(q)'
  <2>1. ASSUME NEW q \in Position \ {p} PROVE Sound(q)'
    BY <2>1 DEF Elsewhere, Sound, Provenance, Authorized
  <2> QED
    BY <2>1
<1> QED
  BY <1>1, <1>2, <1>3, <1>4

\* The parts of the evidence that the argument is about.
SameEvidence(p) ==
  /\ evidence'[p].decision = evidence[p].decision /\ evidence'[p].reviewed = evidence[p].reviewed
  /\ evidence'[p].link = evidence[p].link /\ evidence'[p].row = evidence[p].row
  /\ evidence'[p].outcome = evidence[p].outcome

\* A step that decides nothing and settles nothing.
LEMMA MoveKeeps ==
  ASSUME CampaignInv, NEW p \in Position, NEW step \in Steps \ Decided, Goto(p, step),
         step \in Undecided => evidence[p].decision = 0,
         step \notin Unsettling => evidence[p].outcome = "none",
         evidence' \in [Position -> Evidence], SameEvidence(p),
         \A q \in Position \ {p} : evidence'[q] = evidence[q],
         drive.alive, StoreKeeps, DriveKeeps, failures' \in Nat, UnchangedRest
  PROVE  CampaignInv'
<1>1. pc' \in [Position -> Steps] /\ pc'[p] = step /\ \A q \in Position \ {p} : pc'[q] = pc[q]
  BY DEF Goto, CampaignInv, Types
<1>2. UNCHANGED <<authorized, accepted, activations, applies, changed>>
  BY DEF UnchangedRest, history, bounds
<1>3. Elsewhere(p)
  BY <1>1, <1>2 DEF Elsewhere
<1>4. Sound(p)'
  <2>1. Sound(p)
    BY DEF CampaignInv
  <2> QED
    BY <1>1, <1>2, <2>1 DEF Sound, SameEvidence, Provenance, Authorized, Decided, Unapplied
<1>5. applies' \in [Position -> {0, 1}] /\ changed' \in SUBSET Position
  BY <1>2 DEF CampaignInv, Types
<1> QED
  BY <1>1, <1>2, <1>3, <1>4, <1>5, PositionStep

\* A settlement: the outcome is written or not, and the position is left.
LEMMA SettleKeeps ==
  ASSUME CampaignInv, NEW p \in Position, NEW outcome \in Outcomes, Settle(p, outcome),
         pc[p] \notin Unsettling, NEW step \in Unsettling, Goto(p, step),
         outcome = "no_change" => p \notin changed,
         outcome = "saved" => evidence[p].row = "verified" /\ Provenance(evidence[p]),
         DriveKeeps, UnchangedRest
  PROVE  CampaignInv'
<1> DEFINE written == [evidence[p] EXCEPT !.outcome = outcome]
<1> DEFINE s == [store EXCEPT !.ledger = SettledLedger(p, outcome), !.inFlight = @ \ {p},
                   !.authorization = IF SettledLedger(p, outcome).state = "completed"
                                     THEN 0 ELSE @]
<1>1. evidence[p] \in Evidence /\ Sound(p) /\ Types
  BY DEF CampaignInv, Types
<1>2. written \in Evidence
  BY <1>1 DEF Evidence
<1>3. /\ written.outcome = outcome
      /\ written.decision = evidence[p].decision /\ written.reviewed = evidence[p].reviewed
      /\ written.link = evidence[p].link /\ written.row = evidence[p].row
  BY <1>1 DEF Evidence
<1>4. "authorization" \in DOMAIN s /\ s.authorization \in {0, store.authorization}
  BY <1>1 DEF Types
<1>5. Mutate(p, written, s)
  BY DEF Settle
<1> HIDE DEF written, s
<1>6. /\ evidence' \in [Position -> Evidence] /\ evidence'[p] \in {evidence[p], written}
      /\ \A q \in Position \ {p} : evidence'[q] = evidence[q]
      /\ StoreKeeps /\ failures' \in Nat
  BY <1>1, <1>2, <1>4, <1>5, MutateEffect DEF StoreKeeps
<1>7. pc' \in [Position -> Steps] /\ pc'[p] = step /\ \A q \in Position \ {p} : pc'[q] = pc[q]
  BY <1>1 DEF Goto, Types, Unsettling, Steps
<1>8. UNCHANGED <<authorized, accepted, activations, applies, changed>>
  BY DEF UnchangedRest, history, bounds
<1>9. Sound(p)'
  <2>1. step \notin Undecided /\ step \notin Decided
    BY DEF Unsettling, Undecided, Decided, Unapplied
  <2> QED
    BY <1>1, <1>3, <1>6, <1>7, <1>8, <2>1
    DEF Sound, Provenance, Authorized, Decided, Unapplied
<1>10. drive.alive
  <2>1. pc[p] # "idle"
    BY DEF Unsettling
  <2> QED
    BY <2>1 DEF CampaignInv, NoThreadNoWork, Idle
<1>11. Elsewhere(p)
  BY <1>6, <1>7, <1>8 DEF Elsewhere
<1>12. applies' \in [Position -> {0, 1}] /\ changed' \in SUBSET Position
  BY <1>1, <1>8 DEF Types
<1> QED
  BY <1>6, <1>7, <1>8, <1>9, <1>10, <1>11, <1>12, PositionStep

-----------------------------------------------------------------------------
(***************************************************************************)
(* One position, up to the gate.                                           *)
(***************************************************************************)

\* A step that leaves evidence and store alone.
LEMMA StillMove ==
  ASSUME CampaignInv, NEW p \in Position, NEW step \in Steps \ Decided, Goto(p, step),
         step \in Undecided => evidence[p].decision = 0,
         step \notin Unsettling => pc[p] \notin Unsettling,
         pc[p] # "idle", UNCHANGED <<evidence, store>>, failures' \in Nat, DriveKeeps,
         UnchangedRest
  PROVE  CampaignInv'
<1>1. drive.alive
  BY DEF CampaignInv, NoThreadNoWork, Idle
<1>2. step \notin Unsettling => evidence[p].outcome = "none"
  BY DEF CampaignInv, Sound
<1>3. evidence' \in [Position -> Evidence] /\ StoreKeeps /\ SameEvidence(p)
      /\ \A q \in Position \ {p} : evidence'[q] = evidence[q]
  BY DEF CampaignInv, Types, StoreKeeps, SameEvidence
<1> QED
  BY <1>1, <1>2, <1>3, MoveKeeps

LEMMA ReleaseKeeps ==
  ASSUME CampaignInv, NEW p \in Position, NEW step \in Unsettling, Goto(p, step), Release(p),
         pc[p] # "idle", DriveKeeps, UnchangedRest
  PROVE  CampaignInv'
<1> DEFINE s == [store EXCEPT !.inFlight = store.inFlight \ {p},
                   !.ledger.state = IF @ = "pausing" /\ store.inFlight \ {p} = {}
                                    THEN "paused" ELSE @]
<1>1. Mutate(p, evidence[p], s) /\ Types /\ evidence[p] \in Evidence
  BY DEF Release, CampaignInv, Types
<1>2. "authorization" \in DOMAIN s /\ s.authorization = store.authorization
  BY <1>1 DEF Types
<1> HIDE DEF s
<1>3. /\ evidence' \in [Position -> Evidence] /\ evidence'[p] = evidence[p]
      /\ \A q \in Position \ {p} : evidence'[q] = evidence[q]
      /\ StoreKeeps /\ failures' \in Nat
  BY <1>1, <1>2, MutateEffect DEF StoreKeeps
<1>4. step \in Steps \ Decided /\ step \notin Undecided
  BY DEF Unsettling, Steps, Decided, Unapplied, Undecided
<1>5. drive.alive
  BY DEF CampaignInv, NoThreadNoWork, Idle
<1> QED
  BY <1>3, <1>4, <1>5, MoveKeeps DEF SameEvidence

LEMMA ItemKeeps == ASSUME CampaignInv, NEW p \in Position, Item(p) PROVE CampaignInv'
<1>a. Types
  BY DEF CampaignInv
<1>1. CASE Reuse(p) \/ Prepare(p) \/ Prepared(p) \/ Analyzed(p) \/ TakeWrite(p)
  <2>1. PICK step \in {"queued", "preparing", "inferring", "waiting"} : Goto(p, step)
    BY <1>1 DEF Reuse, Prepare, Prepared, Analyzed, TakeWrite
  <2>2. pc[p] \in {"submitted", "preparing", "inferring", "queued"}
    BY <1>1 DEF Reuse, Prepare, Prepared, Analyzed, TakeWrite
  <2>3. UnchangedStore /\ UnchangedRest /\ UNCHANGED drive
    BY <1>1 DEF Reuse, Prepare, Prepared, Analyzed, TakeWrite
  <2>4. step \in Steps \ Decided /\ step \notin Undecided /\ pc[p] \notin Unsettling
    BY <2>2 DEF Steps, PhotosSteps, Decided, Unapplied, Undecided, Unsettling
  <2>5. UNCHANGED <<evidence, store>> /\ failures' \in Nat /\ DriveKeeps
    BY <1>a, <2>3 DEF UnchangedStore, DriveKeeps, Types
  <2> QED
    BY <2>1, <2>2, <2>3, <2>4, <2>5, StillMove
<1>2. CASE AnalysisFails(p)
  <2>1. PICK step \in {"idle", "denied"} : Goto(p, step)
    BY <1>2 DEF AnalysisFails, ThenOr
  <2>2. step \in Unsettling /\ pc[p] \notin Unsettling /\ "attention" \in Outcomes
    BY <1>2 DEF AnalysisFails, Unsettling, Outcomes
  <2>3. Settle(p, "attention") /\ DriveKeeps /\ UnchangedRest
    BY <1>a, <1>2 DEF AnalysisFails, DriveKeeps, Types
  <2> QED
    BY <2>1, <2>2, <2>3, SettleKeeps
<1>3. CASE StorageFails(p) \/ Shut(p)
  <2>1. PICK step \in {"idle", "failing", "releasing"} : Goto(p, step)
    BY <1>3 DEF StorageFails, Shut
  <2>2. step \in Steps \ Decided /\ step \notin Undecided /\ step \in Unsettling
    BY DEF Steps, Decided, Unapplied, Undecided, Unsettling
  <2>3. pc[p] # "idle" /\ evidence' = evidence /\ UnchangedRest
    BY <1>3 DEF StorageFails, Shut
  <2>4. StoreKeeps /\ DriveKeeps /\ failures' \in Nat
    <3>1. CASE StorageFails(p)
      BY <1>a, <3>1 DEF StorageFails, StoreKeeps, DriveKeeps, Types
    <3>2. CASE Shut(p)
      <4>1. \E reason : Fail(reason)
        BY <3>2 DEF Shut
      <4>2. PICK reason : FailClosed(store, reason, 0)
        BY <4>1 DEF Fail
      <4>3. DriveKeeps
        BY <1>a, <4>1 DEF Fail, DriveKeeps, Types
      <4> QED
        BY <1>a, <4>2, <4>3, ClosesAdmission DEF StoreKeeps, Types
    <3> QED
      BY <1>3, <3>1, <3>2
  <2>5. drive.alive
    BY <2>3 DEF CampaignInv, NoThreadNoWork, Idle
  <2>6. evidence' \in [Position -> Evidence] /\ SameEvidence(p)
        /\ \A q \in Position \ {p} : evidence'[q] = evidence[q]
    BY <1>a, <2>3 DEF Types, SameEvidence
  <2> QED
    BY <2>1, <2>2, <2>3, <2>4, <2>5, <2>6, MoveKeeps
<1>4. CASE ReleaseFailed(p)
  <2>1. Goto(p, "idle") /\ Release(p) /\ UnchangedRest /\ pc[p] # "idle"
    BY <1>4 DEF ReleaseFailed
  <2>2. DriveKeeps /\ "idle" \in Unsettling
    BY <1>a, <1>4 DEF ReleaseFailed, DriveKeeps, Types, Unsettling
  <2> QED
    BY <2>1, <2>2, ReleaseKeeps
<1> QED
  BY <1>1, <1>2, <1>3, <1>4 DEF Item

-----------------------------------------------------------------------------
(***************************************************************************)
(* The gate: the decision, the review, the link and the row.               *)
(***************************************************************************)

LEMMA SettleInGateKeeps ==
  ASSUME CampaignInv, NEW p \in Position, NEW outcome \in Outcomes,
         NEW step \in Unsettling, SettleInGate(p, outcome, step), pc[p] \notin Unsettling,
         outcome = "no_change" => p \notin changed,
         outcome = "saved" => evidence[p].row = "verified" /\ Provenance(evidence[p])
  PROVE  CampaignInv'
<1>1. Settle(p, outcome) /\ UnchangedRest
  BY DEF SettleInGate
<1>2. \E next \in Unsettling : Goto(p, next)
  <2>1. "failing" \in Unsettling
    BY DEF Unsettling
  <2> QED
    BY <2>1 DEF SettleInGate, ThenOr
<1>3. PICK next \in Unsettling : Goto(p, next)
  BY <1>2
<1>4. DriveKeeps
  BY DEF SettleInGate, LeaveGate, DriveKeeps, CampaignInv, Types
<1> QED
  BY <1>1, <1>3, <1>4, SettleKeeps

\* What recovery and the receipt say of a position is true of its photo.
LEMMA ReceiptIsTrue ==
  ASSUME NEW p \in Position, Sound(p)
  PROVE  /\ {RecoverDecision(evidence[p]), ReceiptOutcome(evidence[p])} \subseteq Outcomes
         /\ \A outcome \in {RecoverDecision(evidence[p]), ReceiptOutcome(evidence[p])} :
              /\ outcome = "no_change" => p \notin changed
              /\ outcome = "saved" => evidence[p].row = "verified" /\ Provenance(evidence[p])
BY DEF RecoverDecision, ReceiptOutcome, Outcomes, Sound

LEMMA EnterGateKeeps == ASSUME CampaignInv, NEW p \in Position, EnterGate(p) PROVE CampaignInv'
<1>a. Types /\ Sound(p) /\ evidence[p] \in Evidence
  BY DEF CampaignInv, Types
<1>b. pc[p] \notin Unsettling /\ pc[p] # "idle"
  BY DEF EnterGate, Unsettling
<1>1. CASE evidence[p].decision # 0
  <2>1. SettleInGate(p, RecoverDecision(evidence[p]), "idle") /\ "idle" \in Unsettling
    BY <1>1 DEF EnterGate, Unsettling
  <2> QED
    BY <1>a, <1>b, <2>1, ReceiptIsTrue, SettleInGateKeeps
<1>2. CASE evidence[p].decision = 0
  <2>1. /\ UnchangedRest /\ UNCHANGED drive
        /\ \/ UnchangedStore /\ Goto(p, "gate")
           \/ RecordAnalysis(p) /\ \E step \in {"gate", "failing"} : Goto(p, step)
    BY <1>2 DEF EnterGate, ThenOr
  <2>2. \A step \in {"gate", "failing"} : step \in Steps \ Decided
    BY DEF Steps, PhotosSteps, Decided, Unapplied
  <2>3. DriveKeeps /\ drive.alive /\ evidence[p].outcome = "none"
    BY <1>a, <1>b, <2>1 DEF DriveKeeps, Types, CampaignInv, NoThreadNoWork, Idle, Sound
  <2>4. CASE UnchangedStore /\ Goto(p, "gate")
    <3>1. UNCHANGED <<evidence, store>> /\ failures' \in Nat
      BY <1>a, <2>4 DEF UnchangedStore, Types
    <3> QED
      BY <1>2, <1>b, <2>1, <2>2, <2>3, <2>4, <3>1, StillMove
  <2>5. CASE RecordAnalysis(p) /\ \E step \in {"gate", "failing"} : Goto(p, step)
    <3> DEFINE written == [evidence[p] EXCEPT !.analysis = TRUE]
    <3> DEFINE s == [store EXCEPT !.ledger = Counted(@, "analyzed")]
    <3>1. Mutate(p, written, s)
      BY <2>5 DEF RecordAnalysis
    <3>2. "authorization" \in DOMAIN s /\ s.authorization = store.authorization
      BY <1>a DEF Types
    <3>3. /\ written \in Evidence
          /\ written.decision = evidence[p].decision /\ written.reviewed = evidence[p].reviewed
          /\ written.link = evidence[p].link /\ written.row = evidence[p].row
          /\ written.outcome = evidence[p].outcome
      BY <1>a DEF Evidence
    <3> HIDE DEF written, s
    <3>4. /\ evidence' \in [Position -> Evidence] /\ evidence'[p] \in {evidence[p], written}
          /\ \A q \in Position \ {p} : evidence'[q] = evidence[q]
          /\ StoreKeeps /\ failures' \in Nat
      BY <1>a, <3>1, <3>2, <3>3, MutateEffect DEF StoreKeeps
    <3>5. SameEvidence(p)
      BY <3>3, <3>4 DEF SameEvidence
    <3>6. PICK step \in {"gate", "failing"} : Goto(p, step)
      BY <2>5
    <3> QED
      BY <1>2, <2>1, <2>2, <2>3, <3>4, <3>5, <3>6, MoveKeeps
  <2> QED
    BY <2>1, <2>4, <2>5
<1> QED
  BY <1>1, <1>2 DEF EnterGate

\* A step of the decided position writes one file.
LEMMA FileStep ==
  ASSUME CampaignInv, NEW p \in Position, NEW written \in Evidence, Write(p, written),
         NEW step \in Steps, ThenOr(p, step, "failing"), pc[p] # "idle",
         UNCHANGED <<checkpoint, store, drive>>, UnchangedRest
  PROVE  /\ Elsewhere(p) /\ evidence'[p] \in {evidence[p], written}
         /\ pc'[p] = "failing" \/ (pc'[p] = step /\ evidence'[p] = written)
         /\ applies'[p] = applies[p] /\ (p \in changed' <=> p \in changed)
         /\ authorized' = authorized
         /\ Sound(p)' => CampaignInv'
<1>1. Types /\ "failing" \in Steps
  BY DEF CampaignInv, Steps
<1>2. /\ evidence' \in [Position -> Evidence] /\ evidence'[p] \in {evidence[p], written}
      /\ \A q \in Position \ {p} : evidence'[q] = evidence[q]
      /\ failures' \in Nat /\ (failures' = failures => evidence'[p] = written)
  BY <1>1, WriteEffect
<1>3. /\ pc' \in [Position -> Steps] /\ \A q \in Position \ {p} : pc'[q] = pc[q]
      /\ pc'[p] = "failing" \/ (pc'[p] = step /\ failures' = failures)
  BY <1>1 DEF ThenOr, Goto, Published, Types
<1>4. UNCHANGED <<authorized, accepted, activations, applies, changed>>
  BY DEF UnchangedRest, history, bounds
<1>5. StoreKeeps /\ DriveKeeps
  BY <1>1 DEF StoreKeeps, DriveKeeps, Types
<1>6. drive.alive
  BY DEF CampaignInv, NoThreadNoWork, Idle
<1>7. Elsewhere(p)
  BY <1>2, <1>3, <1>4 DEF Elsewhere
<1>8. applies' \in [Position -> {0, 1}] /\ changed' \in SUBSET Position
  BY <1>1, <1>4 DEF Types
<1>9. Sound(p)' => CampaignInv'
  BY <1>2, <1>3, <1>4, <1>5, <1>6, <1>7, <1>8, PositionStep
<1> QED
  BY <1>2, <1>3, <1>4, <1>7, <1>9

LEMMA AdmitKeeps == ASSUME CampaignInv, NEW p \in Position, Admit(p) PROVE CampaignInv'
<1>a. Types /\ Sound(p) /\ evidence[p] \in Evidence /\ pc[p] = "admitting" /\ UnchangedRest
      /\ UNCHANGED <<checkpoint, store, drive>>
  BY DEF Admit, CampaignInv, Types
<1>1. CASE store.authorization = 0
  <2>1. "paused" \in Steps \ Decided /\ "paused" \notin Undecided /\ pc[p] \notin Unsettling
    BY <1>a DEF Steps, PhotosSteps, Decided, Unapplied, Undecided, Unsettling
  <2>2. Goto(p, "paused") /\ UNCHANGED <<evidence, store>> /\ failures' \in Nat /\ DriveKeeps
    BY <1>1, <1>a DEF Admit, Types, DriveKeeps
  <2> QED
    BY <1>a, <2>1, <2>2, StillMove
<1>2. CASE store.authorization # 0
  <2> DEFINE written == [evidence[p] EXCEPT !.decision = store.authorization]
  <2>1. /\ written \in Evidence
        /\ written.decision # 0 /\ written.row = evidence[p].row
        /\ written.outcome = evidence[p].outcome
    BY <1>2, <1>a DEF Evidence, Types
  <2>2. Write(p, written) /\ ThenOr(p, "reviewing", "failing")
    BY <1>2 DEF Admit
  <2>3. "reviewing" \in Steps /\ pc[p] # "idle"
    BY <1>a DEF Steps, PhotosSteps
  <2> HIDE DEF written
  <2>4. /\ evidence'[p] \in {evidence[p], written}
        /\ pc'[p] = "failing" \/ (pc'[p] = "reviewing" /\ evidence'[p] = written)
        /\ applies'[p] = applies[p] /\ (p \in changed' <=> p \in changed)
        /\ Sound(p)' => CampaignInv'
    BY <1>a, <2>1, <2>2, <2>3, FileStep
  <2>5. evidence[p].outcome = "none" /\ applies[p] = 0 /\ p \notin changed
    BY <1>a DEF Sound, Undecided, Unsettling
  <2>6. Sound(p)'
    BY <1>a, <2>1, <2>4, <2>5 DEF Sound, Undecided, Decided, Unapplied, Unsettling
  <2> QED
    BY <2>4, <2>6
<1> QED
  BY <1>1, <1>2

LEMMA ReviewKeeps ==
  ASSUME CampaignInv, NEW p \in Position, Review(p) \/ Link(p)
  PROVE  CampaignInv'
<1>a. Types /\ Sound(p) /\ evidence[p] \in Evidence /\ UnchangedRest
      /\ UNCHANGED <<checkpoint, store, drive>>
  BY DEF Review, Link, CampaignInv, Types
<1>b. pc[p] \in {"reviewing", "linking"}
  BY DEF Review, Link
<1>1. PICK written \in Evidence, step \in {"linking", "linked"} :
        /\ Write(p, written) /\ ThenOr(p, step, "failing")
        /\ written.decision = evidence[p].decision /\ written.outcome = evidence[p].outcome
        /\ written.row \in {evidence[p].row, "not_run"}
  <2>1. CASE Review(p)
    <3> DEFINE written == [evidence[p] EXCEPT !.reviewed = TRUE, !.row = "not_run"]
    <3>1. /\ written \in Evidence /\ written.decision = evidence[p].decision
          /\ written.outcome = evidence[p].outcome /\ written.row = "not_run"
      BY <1>a DEF Evidence
    <3>2. Write(p, written) /\ ThenOr(p, "linking", "failing")
      BY <2>1 DEF Review
    <3> QED
      BY <3>1, <3>2
  <2>2. CASE Link(p)
    <3> DEFINE written == [evidence[p] EXCEPT !.link = evidence[p].decision]
    <3>1. /\ written \in Evidence /\ written.decision = evidence[p].decision
          /\ written.outcome = evidence[p].outcome /\ written.row = evidence[p].row
      BY <1>a DEF Evidence
    <3>2. Write(p, written) /\ ThenOr(p, "linked", "failing")
      BY <2>2 DEF Link
    <3> QED
      BY <3>1, <3>2
  <2> QED
    BY <2>1, <2>2
<1>2. step \in Steps /\ pc[p] # "idle"
  BY <1>b DEF Steps, PhotosSteps
<1>3. /\ evidence'[p] \in {evidence[p], written}
      /\ pc'[p] = "failing" \/ (pc'[p] = step /\ evidence'[p] = written)
      /\ applies'[p] = applies[p] /\ (p \in changed' <=> p \in changed)
      /\ Sound(p)' => CampaignInv'
  BY <1>a, <1>1, <1>2, FileStep
<1>4. /\ evidence[p].outcome = "none" /\ applies[p] = 0 /\ p \notin changed
      /\ evidence[p].decision # 0 /\ evidence[p].row # "verified"
  BY <1>a, <1>b DEF Sound, Decided, Unapplied, Unsettling
<1>5. Sound(p)'
  BY <1>1, <1>3, <1>4 DEF Sound, Undecided, Decided, Unapplied, Unsettling
<1> QED
  BY <1>3, <1>5

\* run_apply: the row is opened, the photo may change, the row is closed.
LEMMA ApplyKeeps ==
  ASSUME CampaignInv, NEW p \in Position, OpenRow(p) \/ ChangePhoto(p) \/ CloseRow(p)
  PROVE  CampaignInv'
<1>a. Types /\ Sound(p) /\ evidence[p] \in Evidence
  BY DEF CampaignInv, Types
<1>b. /\ UNCHANGED <<store, drive, failures, authorized, accepted, activations>>
      /\ StoreKeeps /\ DriveKeeps /\ failures' \in Nat
  <2>1. UNCHANGED <<store, drive, failures, authorized, accepted, activations>>
    BY DEF OpenRow, ChangePhoto, CloseRow, UnchangedStore, UnchangedRest, history, bounds
  <2> QED
    BY <1>a, <2>1 DEF StoreKeeps, DriveKeeps, Types
<1>c. drive.alive /\ pc[p] \in {"linked", "applying"}
  <2>1. pc[p] \in {"linked", "applying"}
    BY DEF OpenRow, ChangePhoto, CloseRow
  <2> QED
    BY <2>1 DEF CampaignInv, NoThreadNoWork, Idle
<1>d. /\ evidence[p].outcome = "none" /\ evidence[p].decision # 0
      /\ pc[p] = "linked" => applies[p] = 0 /\ p \notin changed
  BY <1>a, <1>c DEF Sound, Decided, Unapplied, Unsettling
<1>1. CASE OpenRow(p)
  <2>1. /\ pc[p] = "linked" /\ changed' = changed
        /\ pc' = [pc EXCEPT ![p] = "applying"]
        /\ evidence' = [evidence EXCEPT ![p] = [evidence[p] EXCEPT !.row = "writing"]]
        /\ applies' = [applies EXCEPT ![p] = applies[p] + 1]
    BY <1>1 DEF OpenRow, Goto
  <2> DEFINE written == [evidence[p] EXCEPT !.row = "writing"]
  <2>2. /\ written \in Evidence /\ written.row = "writing"
        /\ written.outcome = "none" /\ written.decision # 0
    BY <1>a, <1>d DEF Evidence
  <2> HIDE DEF written
  <2>3. /\ evidence' \in [Position -> Evidence] /\ evidence'[p] = written
        /\ pc' \in [Position -> Steps] /\ pc'[p] = "applying"
        /\ applies' \in [Position -> {0, 1}] /\ applies'[p] = 1
        /\ changed' \in SUBSET Position
    BY <1>a, <1>d, <2>1, <2>2 DEF Types, Steps, PhotosSteps, written
  <2>4. Elsewhere(p)
    BY <1>a, <2>1 DEF Elsewhere, Types
  <2>5. Sound(p)'
    BY <1>d, <2>1, <2>2, <2>3 DEF Sound, Undecided, Unapplied
  <2> QED
    BY <1>b, <1>c, <2>3, <2>4, <2>5, PositionStep
<1>2. CASE ChangePhoto(p)
  <2>1. /\ pc[p] = "applying" /\ changed' = changed \cup {p}
        /\ UNCHANGED <<pc, evidence, applies>>
    BY <1>2 DEF ChangePhoto, UnchangedStore
  <2>2. Elsewhere(p)
    BY <2>1 DEF Elsewhere
  <2>3. Sound(p)'
    BY <1>a, <1>d, <2>1 DEF Sound, Undecided, Decided, Unapplied
  <2>4. /\ evidence' \in [Position -> Evidence] /\ pc' \in [Position -> Steps]
        /\ applies' \in [Position -> {0, 1}] /\ changed' \in SUBSET Position
    BY <1>a, <2>1 DEF Types
  <2> QED
    BY <1>b, <1>c, <2>2, <2>3, <2>4, PositionStep
<1>3. CASE CloseRow(p)
  <2>1. PICK row \in {"verified", "uncertain", "noop", "failed"} :
          /\ pc[p] = "applying" /\ pc' = [pc EXCEPT ![p] = "receipt"]
          /\ evidence' = [evidence EXCEPT ![p] = [evidence[p] EXCEPT !.row = row]]
          /\ p \in changed => row \in {"verified", "uncertain"}
          /\ row = "verified" => p \in changed
    BY <1>3 DEF CloseRow, Goto
  <2> DEFINE written == [evidence[p] EXCEPT !.row = row]
  <2>2. /\ written \in Evidence /\ written.row = row
        /\ written.outcome = "none" /\ written.decision # 0
    BY <1>a, <1>d DEF Evidence
  <2> HIDE DEF written
  <2>3. UNCHANGED <<applies, changed>>
    BY <1>3 DEF CloseRow, UnchangedRest, history
  <2>4. /\ evidence' \in [Position -> Evidence] /\ evidence'[p] = written
        /\ pc' \in [Position -> Steps] /\ pc'[p] = "receipt"
        /\ applies' \in [Position -> {0, 1}] /\ changed' \in SUBSET Position
    BY <1>a, <2>1, <2>2, <2>3 DEF Types, Steps, PhotosSteps, written
  <2>5. Elsewhere(p)
    BY <1>a, <2>1, <2>3 DEF Elsewhere, Types
  <2>6. Sound(p)'
    BY <2>1, <2>2, <2>3, <2>4 DEF Sound, Undecided, Unapplied
  <2> QED
    BY <1>b, <1>c, <2>4, <2>5, <2>6, PositionStep
<1> QED
  BY <1>1, <1>2, <1>3

LEMMA GateKeeps ==
  ASSUME CampaignInv, NEW p \in Position, Gate(p) \/ ChangePhoto(p)
  PROVE  CampaignInv'
<1>a. Types /\ Sound(p) /\ {"attention", "no_change"} \subseteq Outcomes
      /\ {"idle", "denied", "damaged"} \subseteq Unsettling
  BY DEF CampaignInv, Outcomes, Unsettling
<1>1. CASE RejectSource(p) \/ ReviewOrApplyRaises(p) \/ LoseRow(p)
  <2>1. PICK step \in {"idle", "denied", "damaged"} : SettleInGate(p, "attention", step)
    BY <1>1 DEF RejectSource, ReviewOrApplyRaises, LoseRow
  <2>2. pc[p] \notin Unsettling
    BY <1>1 DEF RejectSource, ReviewOrApplyRaises, LoseRow, Unsettling
  <2> QED
    BY <1>a, <2>1, <2>2, SettleInGateKeeps
<1>2. CASE SettleUnread(p)
  <2>1. PICK outcome \in {"no_change", "attention"}, step \in {"idle", "denied"} :
          SettleInGate(p, outcome, step)
    BY <1>2 DEF SettleUnread
  <2>2. p \notin changed /\ pc[p] \notin Unsettling
    BY <1>2, <1>a DEF SettleUnread, Sound, Undecided, Unsettling
  <2> QED
    BY <1>a, <2>1, <2>2, SettleInGateKeeps
<1>3. CASE SettleReceipt(p)
  <2>1. PICK step \in {"idle", "denied"} : SettleInGate(p, ReceiptOutcome(evidence[p]), step)
    BY <1>3 DEF SettleReceipt
  <2>2. pc[p] \notin Unsettling
    BY <1>3 DEF SettleReceipt, Unsettling
  <2> QED
    BY <1>a, <2>1, <2>2, ReceiptIsTrue, SettleInGateKeeps
<1>4. CASE CheckEnabled(p) \/ ReadCurrent(p)
  <2>1. PICK step \in {"reading", "paused", "admitting"} : Goto(p, step)
    BY <1>4 DEF CheckEnabled, ReadCurrent
  <2>2. pc[p] \in {"gate", "reading"} /\ UnchangedStore /\ UnchangedRest /\ UNCHANGED drive
    BY <1>4 DEF CheckEnabled, ReadCurrent
  <2>3. step \in Steps \ Decided /\ pc[p] \notin Unsettling /\ pc[p] # "idle"
    BY <2>2 DEF Steps, PhotosSteps, Decided, Unapplied, Unsettling
  <2>4. evidence[p].decision = 0
    BY <1>a, <2>2 DEF Sound, Undecided
  <2>5. UNCHANGED <<evidence, store>> /\ failures' \in Nat /\ DriveKeeps
    BY <1>a, <2>2 DEF UnchangedStore, DriveKeeps, Types
  <2> QED
    BY <2>1, <2>2, <2>3, <2>4, <2>5, StillMove
<1>5. CASE ReleaseUnadmitted(p)
  <2>1. PICK step \in {"idle", "failing"} : Goto(p, step)
    BY <1>5 DEF ReleaseUnadmitted, ThenOr
  <2>2. Release(p) /\ UnchangedRest /\ pc[p] # "idle" /\ step \in Unsettling
    BY <1>5 DEF ReleaseUnadmitted, Unsettling
  <2>3. DriveKeeps
    BY <1>5, <1>a DEF ReleaseUnadmitted, LeaveGate, DriveKeeps, Types
  <2> QED
    BY <2>1, <2>2, <2>3, ReleaseKeeps
<1> QED
  BY <1>1, <1>2, <1>3, <1>4, <1>5, EnterGateKeeps, AdmitKeeps, ReviewKeeps, ApplyKeeps DEF Gate

-----------------------------------------------------------------------------
(***************************************************************************)
(* The thread, the controls and the death of the helper.                   *)
(***************************************************************************)

\* A step that leaves every position where it is, or at rest.
LEMMA CampaignStep ==
  ASSUME CampaignInv, Types', AuthorizationIsLast', NoThreadNoWork',
         UNCHANGED <<evidence, applies, changed>>, authorized \subseteq authorized',
         \A p \in Position : pc'[p] \in {pc[p], "idle"}
  PROVE  CampaignInv'
<1>1. ASSUME NEW p \in Position PROVE Sound(p)'
  <2>1. Sound(p)
    BY DEF CampaignInv
  <2>2. Provenance(evidence[p]) => Provenance(evidence[p])'
    BY DEF Provenance, Authorized
  <2> QED
    BY <2>1, <2>2 DEF Sound, Undecided, Decided, Unapplied, Unsettling
<1> QED
  BY <1>1 DEF CampaignInv

LEMMA ExamineKeeps == CampaignInv /\ Examine => CampaignInv'
<1> SUFFICES ASSUME CampaignInv, Examine PROVE CampaignInv'
  OBVIOUS
<1>a. Types /\ drive.alive /\ UNCHANGED <<authorized, accepted, activations, applies, changed>>
  BY DEF CampaignInv, Examine, history, bounds
<1>1. PICK p \in Pending :
        /\ MarkExamined(p)
        /\ drive' = [drive EXCEPT !.cursor = p + 1, !.broken = CapacityFull(p) \/ ~Published]
        /\ IF CapacityFull(p) THEN UNCHANGED pc ELSE ThenOr(p, "submitted", "idle")
  BY DEF Examine
<1>2. p \in Position /\ evidence[p].outcome = "none" /\ evidence[p] \in Evidence
  BY <1>a, <1>1 DEF Types, Pending
<1>3. DriveKeeps
  BY <1>a, <1>1 DEF DriveKeeps, Types
<1>4. CASE evidence' = evidence /\ store' = store /\ failures' = failures
  <2>1. CASE pc' = pc
    <3>1. Types' /\ AuthorizationIsLast' /\ NoThreadNoWork'
      BY <1>a, <1>3, <1>4, <2>1
      DEF Types, DriveKeeps, CampaignInv, AuthorizationIsLast, NoThreadNoWork
    <3> QED
      BY <1>a, <1>4, <2>1, <3>1, CampaignStep
  <2>2. CASE pc' # pc
    <3>1. PICK step \in {"submitted", "idle"} : Goto(p, step)
      BY <1>1, <2>2 DEF ThenOr
    <3>2. step \in Steps \ Decided /\ step \notin Undecided
      BY DEF Steps, Decided, Unapplied, Undecided
    <3>3. SameEvidence(p) /\ StoreKeeps /\ UnchangedRest
      BY <1>a, <1>4 DEF SameEvidence, StoreKeeps, Types, Examine, UnchangedRest
    <3> QED
      BY <1>a, <1>2, <1>3, <1>4, <3>1, <3>2, <3>3, MoveKeeps DEF Types
  <2> QED
    BY <2>1, <2>2
<1>5. CASE ~(evidence' = evidence /\ store' = store /\ failures' = failures)
  <2> DEFINE written == [evidence[p] EXCEPT !.examined = TRUE]
  <2> DEFINE s == [store EXCEPT !.inFlight = @ \cup {p}, !.ledger = Examined(p)]
  <2>1. Mutate(p, written, s) /\ ~CapacityFull(p)
    BY <1>1, <1>5 DEF MarkExamined
  <2>2. "authorization" \in DOMAIN s /\ s.authorization = store.authorization
    BY <1>a DEF Types
  <2>3. /\ written \in Evidence
        /\ written.decision = evidence[p].decision /\ written.reviewed = evidence[p].reviewed
        /\ written.link = evidence[p].link /\ written.row = evidence[p].row
        /\ written.outcome = evidence[p].outcome
    BY <1>2 DEF Evidence
  <2> HIDE DEF written, s
  <2>4. /\ evidence' \in [Position -> Evidence] /\ evidence'[p] \in {evidence[p], written}
        /\ \A q \in Position \ {p} : evidence'[q] = evidence[q]
        /\ StoreKeeps /\ failures' \in Nat
    BY <1>a, <1>2, <2>1, <2>2, <2>3, MutateEffect DEF StoreKeeps
  <2>5. SameEvidence(p) /\ UnchangedRest
    BY <2>3, <2>4 DEF SameEvidence, Examine, UnchangedRest
  <2>6. PICK step \in {"submitted", "idle"} : Goto(p, step)
    BY <1>1, <2>1 DEF ThenOr
  <2>7. step \in Steps \ Decided /\ step \notin Undecided
    BY DEF Steps, Decided, Unapplied, Undecided
  <2> QED
    BY <1>a, <1>2, <1>3, <2>4, <2>5, <2>6, <2>7, MoveKeeps
<1> QED
  BY <1>4, <1>5

\* The end of a thread, a pause and a crash close admission; an activation
\* opens it for itself.
LEMMA ControlKeeps ==
  CampaignInv /\ (DriveEnds \/ DriveBreaks \/ Activate \/ AdmitPause \/ RecordPause \/ Crash)
    => CampaignInv'
<1> SUFFICES ASSUME CampaignInv,
                    DriveEnds \/ DriveBreaks \/ Activate \/ AdmitPause \/ RecordPause \/ Crash
             PROVE  CampaignInv'
  OBVIOUS
<1>a. Types /\ AuthorizationIsLast /\ NoThreadNoWork /\ 0 \in 0..MaxActivations
      /\ MaxActivations \in Nat
  BY CampaignConstants DEF CampaignInv
<1>1. ASSUME DriveEnds \/ DriveBreaks PROVE CampaignInv'
  <2>1. /\ Idle /\ UNCHANGED <<evidence, authorized, pc, accepted, activations, applies, changed>>
        /\ "alive" \in DOMAIN drive'
    BY <1>1, <1>a DEF DriveEnds, DriveBreaks, history, bounds, Types
  <2>2. \/ UNCHANGED <<store, failures>>
        \/ /\ store' = [store EXCEPT !.authorization = 0,
                          !.ledger = [FinalLedger EXCEPT !.in_flight = Cardinality(store.inFlight)]]
           /\ UNCHANGED failures
        \/ FailClosed([store EXCEPT !.authorization = 0], "storage", 1)
        \/ FailClosed(store, "storage", 0)
    BY <1>1 DEF DriveEnds, DriveBreaks
  <2>3. StoreKeeps /\ failures' \in Nat
    <3>1. CASE UNCHANGED <<store, failures>>
      BY <1>a, <3>1 DEF StoreKeeps, Types
    <3>2. CASE /\ store' = [store EXCEPT !.authorization = 0,
                          !.ledger = [FinalLedger EXCEPT !.in_flight = Cardinality(store.inFlight)]]
               /\ UNCHANGED failures
      BY <1>a, <3>2 DEF StoreKeeps, Types
    <3>3. CASE FailClosed([store EXCEPT !.authorization = 0], "storage", 1)
      <4>1. "authorization" \in DOMAIN [store EXCEPT !.authorization = 0]
        BY <1>a DEF Types
      <4> QED
        BY <1>a, <3>3, <4>1, ClosesAdmission DEF StoreKeeps, Types
    <3>4. CASE FailClosed(store, "storage", 0)
      BY <1>a, <3>4, ClosesAdmission DEF StoreKeeps, Types
    <3> QED
      BY <2>2, <3>1, <3>2, <3>3, <3>4
  <2>4. Types' /\ AuthorizationIsLast' /\ NoThreadNoWork'
    BY <1>a, <2>1, <2>3 DEF Types, StoreKeeps, AuthorizationIsLast, NoThreadNoWork, Idle
  <2> QED
    BY <2>1, <2>4, CampaignStep
<1>2. ASSUME Activate PROVE CampaignInv'
  <2> DEFINE s == [store EXCEPT !.phase = "loaded"]
  <2>1. /\ UNCHANGED <<evidence, pc, applies, changed>> /\ ~drive.alive
        /\ accepted' = "activation" /\ activations' = activations + 1
        /\ activations < MaxActivations /\ Authorize(activations + 1, s)
    BY <1>2 DEF Activate
  <2>2. "authorization" \in DOMAIN s
    BY <1>a DEF Types
  <2> HIDE DEF s
  <2>3. authorized \subseteq authorized' /\ "alive" \in DOMAIN drive'
    <3>1. "alive" \in DOMAIN NewDrive
      BY DEF NewDrive
    <3> QED
      BY <1>a, <2>1, <3>1 DEF Authorize, Types
  <2>4. /\ "authorization" \in DOMAIN store' /\ store'.authorization \in {0, activations'}
        /\ failures' \in Nat
    <3>1. \/ (\E ledger : store' = [s EXCEPT !.authorization = activations + 1,
                                            !.failure = "none", !.ledger = ledger])
               /\ UNCHANGED failures
          \/ FailClosed(s, "storage", 1)
      BY <2>1 DEF Authorize
    <3>2. CASE FailClosed(s, "storage", 1)
      BY <1>a, <2>2, <3>2, ClosesAdmission DEF Types
    <3>3. CASE (\E ledger : store' = [s EXCEPT !.authorization = activations + 1,
                                             !.failure = "none", !.ledger = ledger])
               /\ UNCHANGED failures
      BY <1>a, <2>1, <2>2, <3>3 DEF Types
    <3> QED
      BY <3>1, <3>2, <3>3
  <2>5. activations' \in 0..MaxActivations
    BY <1>a, <2>1 DEF Types
  <2>6. Types' /\ AuthorizationIsLast' /\ NoThreadNoWork'
    BY <1>a, <2>1, <2>3, <2>4, <2>5 DEF Types, AuthorizationIsLast, NoThreadNoWork, Idle
  <2> QED
    BY <2>1, <2>3, <2>6, CampaignStep
<1>3. ASSUME AdmitPause \/ RecordPause PROVE CampaignInv'
  <2>1. /\ UNCHANGED <<evidence, authorized, pc, applies, changed, activations>>
        /\ DriveKeeps
    BY <1>3, <1>a DEF AdmitPause, RecordPause, disk, history, bounds, DriveKeeps, Types
  <2>2. "authorization" \in DOMAIN store' /\ store'.authorization = 0 /\ failures' \in Nat
    <3> DEFINE s == [store EXCEPT !.authorization = 0]
    <3>1. "authorization" \in DOMAIN s /\ s.authorization = 0
      BY <1>a DEF Types
    <3>2. \/ (store' = s \/ \E ledger : store' = [s EXCEPT !.ledger = ledger]) /\ UNCHANGED failures
          \/ FailClosed(s, "storage", 1)
      BY <1>3 DEF AdmitPause, RecordPause
    <3> HIDE DEF s
    <3> QED
      BY <1>a, <3>1, <3>2, ClosesAdmission DEF Types
  <2>3. Types' /\ AuthorizationIsLast' /\ NoThreadNoWork'
    BY <1>a, <2>1, <2>2 DEF Types, DriveKeeps, AuthorizationIsLast, NoThreadNoWork, Idle
  <2> QED
    BY <2>1, <2>3, CampaignStep
<1>4. ASSUME Crash PROVE CampaignInv'
  <2>1. /\ UNCHANGED <<evidence, authorized, applies, changed, activations, failures>>
        /\ pc' = [p \in Position |-> "idle"] /\ store'.authorization = 0
        /\ "authorization" \in DOMAIN store' /\ "alive" \in DOMAIN drive'
    BY <1>4 DEF Crash, disk, history, LoadStatus, NewDrive
  <2>2. Types' /\ AuthorizationIsLast' /\ NoThreadNoWork'
    BY <1>a, <2>1 DEF Types, AuthorizationIsLast, NoThreadNoWork, Idle, Steps
  <2> QED
    BY <2>1, <2>2, CampaignStep
<1> QED
  BY <1>1, <1>2, <1>3, <1>4

\* A restart settles decisions from their evidence, while nothing runs.
LEMMA ReconcileKeeps == CampaignInv /\ Reconcile => CampaignInv'
<1> SUFFICES ASSUME CampaignInv, Reconcile PROVE CampaignInv'
  OBVIOUS
<1>a. Types /\ Idle
  BY DEF CampaignInv, Reconcile, NoThreadNoWork
<1>1. PICK settled \in SUBSET Position : evidence' = RecoveredEvidence(settled)
  <2> DEFINE open == {p \in Position : evidence[p].decision # 0 /\ evidence[p].outcome = "none"}
  <2>1. \E settled \in SUBSET open : evidence' = RecoveredEvidence(settled)
    BY DEF Reconcile
  <2> QED
    BY <2>1
<1>2. UNCHANGED <<authorized, drive, pc, accepted, applies, changed, activations>>
  BY DEF Reconcile, history, bounds
<1>3. /\ "authorization" \in DOMAIN store' /\ store'.authorization = store.authorization
      /\ failures' \in Nat
  <2>1. store' = store \/ \E ledger : store' = [store EXCEPT !.phase = "loaded", !.ledger = ledger]
    BY DEF Reconcile
  <2>2. failures' \in Nat
    BY <1>a DEF Reconcile, Types
  <2> QED
    BY <1>a, <2>1, <2>2 DEF Types
<1>4. ASSUME NEW p \in Position PROVE evidence'[p] \in Evidence /\ Sound(p)'
  <2>1. Sound(p) /\ evidence[p] \in Evidence
    BY <1>a DEF CampaignInv, Types
  <2>2. evidence'[p] \in {evidence[p], [evidence[p] EXCEPT !.outcome = RecoverDecision(evidence[p])]}
    BY <1>1 DEF RecoveredEvidence
  <2>3. CASE evidence'[p] = evidence[p]
    BY <1>2, <2>1, <2>3 DEF Sound, Provenance, Authorized
  <2>4. CASE evidence'[p] = [evidence[p] EXCEPT !.outcome = RecoverDecision(evidence[p])]
    <3> DEFINE outcome == RecoverDecision(evidence[p])
    <3>1. /\ outcome \in Outcomes
          /\ outcome = "no_change" => p \notin changed
          /\ outcome = "saved" => evidence[p].row = "verified" /\ Provenance(evidence[p])
      BY <2>1, ReceiptIsTrue
    <3> HIDE DEF outcome
    <3>2. evidence'[p] = [evidence[p] EXCEPT !.outcome = outcome]
      BY <2>4 DEF outcome
    <3>3. /\ evidence'[p] \in Evidence /\ evidence'[p].outcome = outcome
          /\ evidence'[p].decision = evidence[p].decision
          /\ evidence'[p].reviewed = evidence[p].reviewed
          /\ evidence'[p].link = evidence[p].link /\ evidence'[p].row = evidence[p].row
      BY <2>1, <3>1, <3>2 DEF Evidence
    <3>4. pc'[p] = "idle"
      BY <1>a, <1>2 DEF Idle
    <3> QED
      BY <1>2, <2>1, <3>1, <3>3, <3>4
      DEF Sound, Provenance, Authorized, Undecided, Decided, Unapplied, Unsettling
  <2> QED
    BY <2>2, <2>3, <2>4
<1>5. evidence' \in [Position -> Evidence]
  BY <1>1, <1>4 DEF RecoveredEvidence
<1>6. Types' /\ AuthorizationIsLast' /\ NoThreadNoWork'
  BY <1>a, <1>2, <1>3, <1>5 DEF CampaignInv, Types, AuthorizationIsLast, NoThreadNoWork, Idle
<1> QED
  BY <1>4, <1>6 DEF CampaignInv

-----------------------------------------------------------------------------

LEMMA CampaignInit == Init => CampaignInv
<1> SUFFICES ASSUME Init PROVE CampaignInv
  OBVIOUS
<1>1. NoEvidence \in Evidence /\ "idle" \in Steps
  BY CampaignConstants DEF NoEvidence, Evidence, Steps
<1>2. Types
  BY <1>1, CampaignConstants DEF Init, Types, NewDrive
<1>3. AuthorizationIsLast /\ NoThreadNoWork
  BY DEF Init, AuthorizationIsLast, NoThreadNoWork, Idle
<1>4. \A p \in Position : Sound(p)
  BY DEF Init, Sound, NoEvidence, Undecided, Decided, Unapplied, Unsettling
<1> QED
  BY <1>2, <1>3, <1>4 DEF CampaignInv

LEMMA CampaignNext == CampaignInv /\ [Next]_vars => CampaignInv'
<1> SUFFICES ASSUME CampaignInv, [Next]_vars PROVE CampaignInv'
  OBVIOUS
<1>1. CASE UNCHANGED vars
  BY <1>1
  DEF vars, disk, history, bounds, CampaignInv, Types, AuthorizationIsLast, NoThreadNoWork,
      Idle, Sound, Provenance, Authorized
<1>2. CASE Next
  BY <1>2, ExamineKeeps, ItemKeeps, GateKeeps, ControlKeeps, ReconcileKeeps DEF Next, Dispatcher
<1> QED
  BY <1>1, <1>2

LEMMA CampaignInvariant == Spec => []CampaignInv
BY CampaignInit, CampaignNext, PTL DEF Spec

\* Apply is run once for a position, whatever raises, pauses, resumes or dies in
\* between: a position with a decision never reaches the gate's apply again
\* (autonomous_runtime.py:746-749, 560-562).
THEOREM AppliedOnce == Spec => []AppliesOnce
<1>1. CampaignInv => AppliesOnce
  BY DEF CampaignInv, Types, AppliesOnce
<1> QED
  BY <1>1, CampaignInvariant, PTL

\* A photo we changed has a decision and never ends as "no_change"; "saved" is
\* said only of a photo we changed whose row is verified and linked
\* (autonomous_runtime.py:692-704).
THEOREM OutcomesAreTrue == Spec => []OutcomesMatchPhotos
<1>1. CampaignInv => OutcomesMatchPhotos
  BY DEF CampaignInv, Sound, OutcomesMatchPhotos
<1> QED
  BY <1>1, CampaignInvariant, PTL

(***************************************************************************)
(* Only Admit decides.                                                     *)
(***************************************************************************)
DecisionsKept == \A q \in Position : evidence'[q].decision = evidence[q].decision

LEMMA WritingDecides ==
  ASSUME Types, NEW p \in Position, NEW written, written.decision = evidence[p].decision,
         Write(p, written) \/ \E s : Mutate(p, written, s)
  PROVE  DecisionsKept
<1>1. \E e \in {evidence[p], written} : evidence' = [evidence EXCEPT ![p] = e]
  BY DEF Mutate, Write
<1> QED
  BY <1>1 DEF Types, DecisionsKept

LEMMA MutationsDecide ==
  ASSUME Types, NEW p \in Position,
         \/ \E outcome : Settle(p, outcome)
         \/ Release(p) \/ RecordAnalysis(p) \/ MarkExamined(p) \/ Review(p) \/ Link(p)
  PROVE  DecisionsKept
<1>a. evidence[p] \in Evidence
  BY DEF Types
<1>1. CASE \E outcome : Settle(p, outcome)
  <2>1. PICK outcome : Settle(p, outcome)
    BY <1>1
  <2>2. [evidence[p] EXCEPT !.outcome = outcome].decision = evidence[p].decision
    BY <1>a DEF Evidence
  <2> QED
    BY <2>1, <2>2, WritingDecides DEF Settle
<1>2. CASE Release(p)
  BY <1>2, WritingDecides DEF Release
<1>3. CASE RecordAnalysis(p)
  <2>1. [evidence[p] EXCEPT !.analysis = TRUE].decision = evidence[p].decision
    BY <1>a DEF Evidence
  <2> QED
    BY <1>3, <2>1, WritingDecides DEF RecordAnalysis
<1>4. CASE MarkExamined(p)
  <2>1. [evidence[p] EXCEPT !.examined = TRUE].decision = evidence[p].decision
    BY <1>a DEF Evidence
  <2>2. \/ evidence' = evidence
        \/ \E s : Mutate(p, [evidence[p] EXCEPT !.examined = TRUE], s)
    BY <1>4 DEF MarkExamined
  <2> QED
    BY <2>1, <2>2, WritingDecides DEF DecisionsKept
<1>5. CASE Review(p)
  <2>1. [evidence[p] EXCEPT !.reviewed = TRUE, !.row = "not_run"].decision = evidence[p].decision
    BY <1>a DEF Evidence
  <2> QED
    BY <1>5, <2>1, WritingDecides DEF Review
<1>6. CASE Link(p)
  <2>1. [evidence[p] EXCEPT !.link = evidence[p].decision].decision = evidence[p].decision
    BY <1>a DEF Evidence
  <2> QED
    BY <1>6, <2>1, WritingDecides DEF Link
<1> QED
  BY <1>1, <1>2, <1>3, <1>4, <1>5, <1>6

LEMMA OnlyAdmitDecides ==
  ASSUME Types, Next PROVE DecisionsKept \/ \E p \in Position : Admit(p)
<1>1. CASE Dispatcher
  <2>1. CASE Examine
    <3>1. \E p \in Position : MarkExamined(p)
      BY <2>1 DEF Examine, Pending
    <3> QED
      BY <3>1, MutationsDecide
  <2>2. CASE DriveEnds \/ DriveBreaks
    BY <2>2 DEF DriveEnds, DriveBreaks, DecisionsKept
  <2> QED
    BY <1>1, <2>1, <2>2 DEF Dispatcher
<1>2. ASSUME NEW p \in Position, Item(p) PROVE DecisionsKept
  <2>1. CASE AnalysisFails(p) \/ ReleaseFailed(p)
    BY <2>1, MutationsDecide DEF AnalysisFails, ReleaseFailed
  <2>2. CASE ~(AnalysisFails(p) \/ ReleaseFailed(p))
    <3>1. evidence' = evidence
      BY <1>2, <2>2 DEF Item, Reuse, Prepare, Prepared, Analyzed, StorageFails, TakeWrite, Shut,
                        UnchangedStore
    <3> QED
      BY <3>1 DEF DecisionsKept
  <2> QED
    BY <2>1, <2>2
<1>3. ASSUME NEW p \in Position, Gate(p) \/ ChangePhoto(p), ~Admit(p) PROVE DecisionsKept
  <2>1. CASE EnterGate(p)
    <3>1. \/ \E outcome : Settle(p, outcome)
          \/ RecordAnalysis(p) \/ evidence' = evidence
      BY <2>1 DEF EnterGate, SettleInGate, UnchangedStore
    <3> QED
      BY <3>1, MutationsDecide DEF DecisionsKept
  <2>2. CASE \/ RejectSource(p) \/ SettleUnread(p) \/ ReviewOrApplyRaises(p) \/ LoseRow(p)
             \/ SettleReceipt(p)
    <3>1. \E outcome : Settle(p, outcome)
      BY <2>2 DEF RejectSource, SettleUnread, ReviewOrApplyRaises, LoseRow, SettleReceipt,
                  SettleInGate
    <3> QED
      BY <3>1, MutationsDecide
  <2>3. CASE ReleaseUnadmitted(p) \/ Review(p) \/ Link(p)
    BY <2>3, MutationsDecide DEF ReleaseUnadmitted
  <2>4. CASE CheckEnabled(p) \/ ReadCurrent(p) \/ ChangePhoto(p)
    BY <2>4 DEF CheckEnabled, ReadCurrent, ChangePhoto, UnchangedStore, DecisionsKept
  <2>5. CASE OpenRow(p) \/ CloseRow(p)
    <3>1. \E row : evidence' = [evidence EXCEPT ![p] = [evidence[p] EXCEPT !.row = row]]
      BY <2>5 DEF OpenRow, CloseRow
    <3> QED
      BY <3>1 DEF DecisionsKept, Types, Evidence
  <2> QED
    BY <1>3, <2>1, <2>2, <2>3, <2>4, <2>5 DEF Gate
<1>4. CASE Activate \/ AdmitPause \/ RecordPause \/ Crash
  BY <1>4 DEF Activate, AdmitPause, RecordPause, Crash, disk, DecisionsKept
<1>5. CASE Reconcile
  <2>1. \E settled : evidence' = RecoveredEvidence(settled)
    BY <1>5 DEF Reconcile
  <2> QED
    BY <2>1 DEF RecoveredEvidence, DecisionsKept, Types, Evidence
<1> QED
  BY <1>1, <1>2, <1>3, <1>4, <1>5 DEF Next

\* A decision to write is taken only while the last accepted control is an
\* activation, and names it: no write is admitted after a pause was accepted
\* (autonomous_runtime.py:784-785, autonomous_dispatcher.py:235-240).
THEOREM DecisionsAreAuthorized == Spec => AdmissionNeedsActivation
<1>1. ASSUME CampaignInv, Next, NEW p \in Position,
             evidence'[p].decision # evidence[p].decision
      PROVE  accepted = "activation" /\ evidence'[p].decision = activations
  <2>1. Types /\ AuthorizationIsLast
    BY <1>1 DEF CampaignInv
  <2>2. PICK q \in Position : Admit(q)
    BY <1>1, <2>1, OnlyAdmitDecides DEF DecisionsKept
  <2>3. store.authorization # 0 /\ Write(q, [evidence[q] EXCEPT !.decision = store.authorization])
    BY <1>1, <2>2 DEF Admit
  <2>4. \E e \in {evidence[q], [evidence[q] EXCEPT !.decision = store.authorization]} :
          evidence' = [evidence EXCEPT ![q] = e]
    BY <2>3 DEF Write
  <2>5. evidence'[p].decision = store.authorization
    BY <1>1, <2>1, <2>4 DEF Types, Evidence
  <2> QED
    BY <2>1, <2>3, <2>5 DEF AuthorizationIsLast
<1>2. CampaignInv /\ [Next]_vars =>
        [\A p \in Position :
           evidence'[p].decision # evidence[p].decision =>
             accepted = "activation" /\ evidence'[p].decision = activations]_vars
  BY <1>1
<1> QED
  BY <1>2, CampaignInvariant, PTL DEF Spec, AdmissionNeedsActivation

-----------------------------------------------------------------------------
(***************************************************************************)
(* Counting the evidence.                                                  *)
(***************************************************************************)

\* What the evidence of a position counts for.
Has(e, c) ==
  \/ c = "examined" /\ e.examined
  \/ c = "analyzed" /\ e.analysis
  \/ c \in Outcomes /\ e.outcome = c

With(files, c) == {p \in Position : Has(files[p], c)}

Grows(e, written) == \A c \in Counters : Has(e, c) => Has(written, c)

Gains(e, written, c) == IF Has(written, c) /\ ~Has(e, c) THEN 1 ELSE 0

LEMMA CountsAre ==
  ASSUME NEW files, NEW c \in Counters
  PROVE  CountsOf(files)[c] = Cardinality(With(files, c))
<1> DEFINE holds(p) == CASE c = "examined" -> files[p].examined
                         [] c = "analyzed" -> files[p].analysis
                         [] OTHER -> files[p].outcome = c
<1>1. CountsOf(files)[c] = Cardinality({p \in Position : holds(p)})
  BY DEF CountsOf
<1>2. {p \in Position : holds(p)} = With(files, c)
  <2>1. CASE c = "examined"
    BY <2>1 DEF With, Has, Outcomes
  <2>2. CASE c = "analyzed"
    BY <2>2 DEF With, Has, Outcomes
  <2>3. CASE c \in Outcomes
    BY <2>3 DEF With, Has, Outcomes
  <2> QED
    BY <2>1, <2>2, <2>3 DEF Counters
<1> QED
  BY <1>1, <1>2

LEMMA Positions ==
  /\ IsFiniteSet(Position) /\ Cardinality(Position) = Total
  /\ \A S \in SUBSET Position : IsFiniteSet(S) /\ Cardinality(S) \in 0..Total
<1>1. IsFiniteSet(Position) /\ Cardinality(Position) = Total
  <2>1. 1 \in Int /\ Total \in Int /\ Total >= 0
    BY CampaignConstants
  <2>2. /\ IsFiniteSet(1..Total)
        /\ Cardinality(1..Total) = IF 1 > Total THEN 0 ELSE Total - 1 + 1
    BY <2>1, FS_Interval
  <2> QED
    BY <2>1, <2>2 DEF Position
<1>2. ASSUME NEW S \in SUBSET Position PROVE IsFiniteSet(S) /\ Cardinality(S) \in 0..Total
  <2>1. IsFiniteSet(S) /\ Cardinality(S) <= Cardinality(Position)
    BY <1>1, FS_Subset
  <2>2. Cardinality(S) \in Nat
    BY <2>1, FS_CardinalityType
  <2> QED
    BY <1>1, <2>1, <2>2, CampaignConstants
<1> QED
  BY <1>1, <1>2

LEMMA CountsTyped ==
  ASSUME NEW files PROVE CountsOf(files) \in [Counters -> 0..Total]
<1>1. \A c \in Counters : CountsOf(files)[c] \in 0..Total
  <2>1. \A c \in Counters : With(files, c) \in SUBSET Position
    BY DEF With
  <2> QED
    BY <2>1, CountsAre, Positions
<1> QED
  BY <1>1 DEF CountsOf

LEMMA CountsGrow ==
  ASSUME NEW files, NEW others, \A p \in Position : Grows(files[p], others[p]),
         NEW c \in Counters
  PROVE  CountsOf(files)[c] <= CountsOf(others)[c]
<1>1. With(files, c) \in SUBSET With(others, c)
  BY DEF With, Grows
<1>2. IsFiniteSet(With(others, c))
  BY Positions DEF With
<1> QED
  BY <1>1, <1>2, CountsAre, FS_Subset

\* Writing one position counts it once for what it gains.
LEMMA CountsMove ==
  ASSUME NEW files \in [Position -> Evidence], NEW p \in Position, NEW written \in Evidence,
         Grows(files[p], written), NEW c \in Counters
  PROVE  CountsOf([files EXCEPT ![p] = written])[c]
           = CountsOf(files)[c] + Gains(files[p], written, c)
<1> DEFINE after == [files EXCEPT ![p] = written]
<1>1. after[p] = written /\ \A q \in Position \ {p} : after[q] = files[q]
  OBVIOUS
<1>2. IsFiniteSet(With(files, c)) /\ Cardinality(With(files, c)) \in Nat
  BY Positions DEF With
<1> HIDE DEF after
<1>3. CASE Has(written, c) /\ ~Has(files[p], c)
  <2>1. With(after, c) = With(files, c) \cup {p} /\ p \notin With(files, c)
    BY <1>1, <1>3 DEF With
  <2>2. Cardinality(With(after, c)) = Cardinality(With(files, c)) + 1
    BY <1>2, <2>1, FS_AddElement
  <2> QED
    BY <1>3, <2>2, CountsAre DEF Gains, after
<1>4. CASE ~(Has(written, c) /\ ~Has(files[p], c))
  <2>1. With(after, c) = With(files, c)
    BY <1>1, <1>4 DEF With, Grows
  <2>2. Gains(files[p], written, c) = 0
    BY <1>4 DEF Gains
  <2> QED
    BY <1>2, <2>1, <2>2, CountsAre DEF after
<1> QED
  BY <1>3, <1>4

\* The outcomes exclude each other: when their counts reach the total, every
\* position has one.
LEMMA AllSettled ==
  ASSUME NEW files, NEW count \in [Counters -> 0..Total],
         \A c \in Counters : count[c] <= CountsOf(files)[c],
         count["saved"] + count["no_change"] + count["attention"] = Total
  PROVE  \A p \in Position : files[p].outcome # "none"
<1> DEFINE A == With(files, "saved")
<1> DEFINE B == With(files, "no_change")
<1> DEFINE C == With(files, "attention")
<1>1. \A S \in {A, B, C} : IsFiniteSet(S) /\ Cardinality(S) \in Nat
  BY Positions DEF With
<1>2. A \cap B = {} /\ (A \cup B) \cap C = {}
  BY DEF With, Has, Outcomes
<1>3. {"saved", "no_change", "attention"} \subseteq Counters
  BY DEF Counters, Outcomes
<1>4. /\ count["saved"] <= Cardinality(A) /\ count["no_change"] <= Cardinality(B)
      /\ count["attention"] <= Cardinality(C)
  BY <1>3, CountsAre
<1>5. \A p \in A \cup B \cup C : files[p].outcome # "none"
  BY DEF With, Has, Outcomes
<1>6. A \cup B \cup C \in SUBSET Position
  BY DEF With
<1> HIDE DEF A, B, C
<1>7. IsFiniteSet(A \cup B) /\ Cardinality(A \cup B) = Cardinality(A) + Cardinality(B)
  <2>1. IsFiniteSet(A) /\ IsFiniteSet(B) /\ Cardinality(A) \in Nat /\ Cardinality(B) \in Nat
    BY <1>1
  <2>2. /\ IsFiniteSet(A \cup B)
        /\ Cardinality(A \cup B) = Cardinality(A) + Cardinality(B) - Cardinality(A \cap B)
    BY <2>1, FS_Union
  <2> QED
    <3>1. Cardinality(A \cap B) = 0
      BY <1>2, FS_EmptySet
    <3> QED
      BY <2>1, <2>2, <3>1
<1>8. Cardinality(A \cup B \cup C) = Cardinality(A) + Cardinality(B) + Cardinality(C)
  <2>1. IsFiniteSet(C) /\ Cardinality(C) \in Nat /\ Cardinality(A \cup B) \in Nat
    BY <1>1, <1>7
  <2>2. Cardinality(A \cup B \cup C)
          = Cardinality(A \cup B) + Cardinality(C) - Cardinality((A \cup B) \cap C)
    BY <1>7, <2>1, FS_Union
  <2> QED
    BY <1>2, <1>7, <2>1, <2>2, FS_EmptySet
<1>9. Cardinality(A \cup B \cup C) = Total
  <2>1. Cardinality(A \cup B \cup C) \in 0..Total
    BY <1>6, Positions
  <2>2. count["saved"] \in Nat /\ count["no_change"] \in Nat /\ count["attention"] \in Nat
    BY <1>3
  <2> QED
    BY <1>1, <1>4, <1>8, <2>1, <2>2, CampaignConstants
<1>10. A \cup B \cup C = Position
  BY <1>6, <1>9, Positions, FS_Subset
<1> QED
  BY <1>5, <1>10

-----------------------------------------------------------------------------
(***************************************************************************)
(* The counters and what the campaign says when it is at rest.  Both need  *)
(* what the store, the thread and the positions say of each other.         *)
(***************************************************************************)

Stored ==
  [phase : {"none", "status", "loaded"}, ledger : Checkpoint, inFlight : SUBSET Position,
   authorization : 0..MaxActivations, failure : {"none", "permission", "storage"}]

Drives ==
  [alive : BOOLEAN, generation : {"open", "revoked"},
   failure : {"none", "permission", "storage"}, cursor : 1..Total + 1, broken : BOOLEAN]

Behind(ledger) == \A c \in Counters : ledger.count[c] <= CountsOf(evidence)[c]

\* Work is in flight, and admission open, only in a loaded campaign.
OnlyLoadedWorks ==
  /\ store.phase # "loaded" => store.inFlight = {} /\ store.authorization = 0
  /\ store.phase = "none" => ~pausePending
  /\ drive.alive => store.phase = "loaded"

AdmissionRuns ==
  store.authorization # 0 => store.ledger.state = "running" /\ store.failure = "none"

CompletedIsSettled ==
  store.ledger.state = "completed" => \A p \in Position : evidence[p].outcome # "none"

\* A position leaves without an outcome only when admission is closed.
Stopped ==
  \A p \in Position :
    /\ pc[p] = "paused" => store.authorization = 0
    /\ pc[p] = "releasing" => drive.generation = "revoked"

InFlightWorks == \A p \in store.inFlight : pc[p] \notin {"idle", "denied", "damaged"}

\* What the thread went past has an outcome, unless admission is closed.
PassedIsSettled ==
  \A p \in Position :
    drive.alive /\ p < drive.cursor /\ pc[p] = "idle" /\ evidence[p].outcome = "none" =>
      drive.generation = "revoked" \/ store.authorization = 0 \/ drive.broken

\* While no write has raised.
Exact ==
  clean /\ store.phase # "status" =>
    /\ \A c \in Counters : store.ledger.count[c] = CountsOf(evidence)[c]
    /\ InFlightWorks /\ PassedIsSettled
    /\ ~drive.alive => store.ledger.state \in {"paused", "completed"}

LedgerInv ==
  /\ TypeOK /\ Behind(store.ledger) /\ Behind(checkpoint)
  /\ OnlyLoadedWorks /\ AdmissionRuns /\ CompletedIsSettled /\ Stopped /\ Exact

\* What a step from a good state to a sound one may use.
Settled == CampaignInv /\ CampaignInv' /\ LedgerInv

LEMMA TypesNow ==
  ASSUME TypeOK
  PROVE  /\ store \in Stored /\ drive \in Drives /\ checkpoint \in Checkpoint
         /\ store.ledger \in Checkpoint /\ store.inFlight \in SUBSET Position
         /\ Cardinality(store.inFlight) \in 0..Total
         /\ evidence \in [Position -> Evidence] /\ pc \in [Position -> Steps]
         /\ failures \in 0..MaxFailures /\ clean \in BOOLEAN
<1>1. store \in Stored /\ drive \in Drives
  BY DEF TypeOK, Stored, Drives
<1>2. store.ledger \in Checkpoint /\ store.inFlight \in SUBSET Position
  BY <1>1 DEF Stored
<1> QED
  BY <1>1, <1>2, Positions DEF TypeOK

ClosedStore(s, raised) ==
  /\ store' \in Stored /\ checkpoint' \in Checkpoint /\ failures' \in 0..MaxFailures
  /\ store'.phase = s.phase /\ store'.inFlight = s.inFlight /\ store'.authorization = 0
  /\ store'.ledger.count = s.ledger.count /\ store'.ledger.state \in {"pausing", "paused"}
  /\ checkpoint'.count \in {checkpoint.count, s.ledger.count}
  /\ clean' \in BOOLEAN /\ (raised = 1 => ~clean')
  /\ clean' => clean /\ store'.ledger.state = Stopping(s.inFlight)

LEMMA ClosedEffect ==
  ASSUME TypeOK, NEW s \in Stored, NEW reason \in {"permission", "storage"},
         NEW raised \in {0, 1}, raised = 1 => failures < MaxFailures,
         FailClosed(s, reason, raised)
  PROVE  ClosedStore(s, raised)
<1> DEFINE closed == [s EXCEPT !.authorization = 0, !.failure = reason]
<1> DEFINE ledger == [s.ledger EXCEPT !.state = Stopping(s.inFlight), !.reason = reason,
                                      !.in_flight = Cardinality(s.inFlight)]
<1> DEFINE shut == [closed EXCEPT !.failure = "storage", !.ledger.state = "paused",
                                  !.ledger.reason = "storage"]
<1>1. /\ s.ledger \in Checkpoint /\ s.inFlight \in SUBSET Position
      /\ Stopping(s.inFlight) \in {"pausing", "paused"}
      /\ 0 \in 0..MaxActivations /\ MaxFailures \in Nat /\ clean \in BOOLEAN
      /\ Cardinality(s.inFlight) \in 0..Total /\ failures \in 0..MaxFailures
  BY CampaignConstants, Positions DEF Stored, Stopping, TypeOK
<1>2. /\ ledger \in Checkpoint /\ ledger.count = s.ledger.count
      /\ ledger.state = Stopping(s.inFlight)
  BY <1>1 DEF Checkpoint, Reasons
<1>3. /\ closed \in Stored /\ closed.phase = s.phase /\ closed.inFlight = s.inFlight
      /\ closed.authorization = 0 /\ closed.ledger = s.ledger
  BY <1>1 DEF Stored
<1>4. CASE /\ failures' = failures + raised /\ clean' = (clean /\ raised = 0)
           /\ checkpoint' = ledger /\ store' = [closed EXCEPT !.ledger = ledger]
  <2> HIDE DEF closed, ledger
  <2>1. /\ store' \in Stored /\ store'.phase = s.phase /\ store'.inFlight = s.inFlight
        /\ store'.authorization = 0 /\ store'.ledger = ledger
    BY <1>2, <1>3, <1>4 DEF Stored
  <2>2. failures' \in 0..MaxFailures
    BY <1>1, <1>4
  <2>3. clean' \in BOOLEAN /\ (raised = 1 => ~clean') /\ (clean' => clean)
    <3>1. raised = 1 => ~(raised = 0)
      OBVIOUS
    <3>2. clean' = (clean /\ raised = 0) /\ clean \in BOOLEAN
      BY <1>1, <1>4
    <3> QED
      BY <3>1, <3>2, Zenon
  <2> QED
    BY <1>1, <1>2, <1>4, <2>1, <2>2, <2>3 DEF ClosedStore
<1>5. CASE /\ failures + raised < MaxFailures /\ failures' = failures + raised + 1
           /\ clean' = FALSE /\ checkpoint' \in {checkpoint, ledger} /\ store' = shut
  <2> HIDE DEF closed, ledger
  <2>1. /\ store' \in Stored /\ store'.phase = s.phase /\ store'.inFlight = s.inFlight
        /\ store'.authorization = 0 /\ store'.ledger.count = s.ledger.count
        /\ store'.ledger.state = "paused"
    BY <1>1, <1>3, <1>5 DEF Stored, Checkpoint, Reasons
  <2>2. failures' \in 0..MaxFailures
    BY <1>1, <1>5
  <2> QED
    BY <1>2, <1>5, <2>1, <2>2 DEF ClosedStore, TypeOK
<1> QED
  BY <1>4, <1>5 DEF FailClosed

Saved(p, written, s) ==
  /\ evidence' = [evidence EXCEPT ![p] = written]
  /\ failures' = failures /\ clean' = clean /\ checkpoint' = store'.ledger
  /\ store'.inFlight = s.inFlight /\ store'.authorization = s.authorization
  /\ store'.failure = s.failure
  /\ store'.ledger.count = s.ledger.count /\ store'.ledger.state = s.ledger.state

Raised(p, written) ==
  /\ \E e \in {evidence[p], written} : evidence' = [evidence EXCEPT ![p] = e]
  /\ failures' # failures /\ ~clean' /\ store'.authorization = 0
  /\ store'.ledger.count = store.ledger.count /\ store'.ledger.state \in {"pausing", "paused"}
  /\ checkpoint'.count \in {checkpoint.count, store.ledger.count}

StoreTyped ==
  /\ store' \in Stored /\ checkpoint' \in Checkpoint
  /\ failures' \in 0..MaxFailures /\ clean' \in BOOLEAN

\* A mutation is saved as it was meant, or it raised and the ledger is as
\* before, but for what it says of the failure.
LEMMA MutationEffect ==
  ASSUME TypeOK, NEW p \in Position, NEW written \in Evidence, NEW s \in Stored,
         s.phase = store.phase, Mutate(p, written, s)
  PROVE  /\ StoreTyped /\ store'.phase = store.phase
         /\ Saved(p, written, s) \/ Raised(p, written)
<1> DEFINE ledger == [s.ledger EXCEPT !.in_flight = Cardinality(s.inFlight)]
<1> DEFINE kept == [s EXCEPT !.ledger = store.ledger]
<1>1. store \in Stored /\ failures \in 0..MaxFailures /\ clean \in BOOLEAN
  BY TypesNow
<1>2. /\ ledger \in Checkpoint /\ ledger.count = s.ledger.count
      /\ ledger.state = s.ledger.state
  <2>1. s.ledger \in Checkpoint /\ s.inFlight \in SUBSET Position
    BY DEF Stored
  <2>2. Cardinality(s.inFlight) \in 0..Total
    BY <2>1, Positions
  <2> QED
    BY <2>1, <2>2 DEF Checkpoint
<1>3. /\ kept \in Stored /\ kept.phase = s.phase /\ kept.ledger = store.ledger
  BY <1>1 DEF Stored
<1> HIDE DEF ledger, kept
<1>4. \/ /\ evidence' = [evidence EXCEPT ![p] = written] /\ checkpoint' = ledger
         /\ store' = [s EXCEPT !.ledger = ledger] /\ UNCHANGED <<failures, clean>>
      \/ /\ failures < MaxFailures
         /\ \E e \in {evidence[p], written} : evidence' = [evidence EXCEPT ![p] = e]
         /\ FailClosed(store, "storage", 1) \/ FailClosed(kept, "storage", 1)
  BY DEF Mutate, ledger, kept
<1>5. CASE /\ evidence' = [evidence EXCEPT ![p] = written] /\ checkpoint' = ledger
           /\ store' = [s EXCEPT !.ledger = ledger] /\ UNCHANGED <<failures, clean>>
  <2>1. /\ store' \in Stored /\ store'.phase = s.phase /\ store'.inFlight = s.inFlight
        /\ store'.authorization = s.authorization /\ store'.failure = s.failure
        /\ store'.ledger = ledger
    BY <1>2, <1>5 DEF Stored
  <2> QED
    BY <1>1, <1>2, <1>5, <2>1 DEF Saved, StoreTyped
<1>6. CASE /\ failures < MaxFailures
           /\ \E e \in {evidence[p], written} : evidence' = [evidence EXCEPT ![p] = e]
           /\ FailClosed(store, "storage", 1) \/ FailClosed(kept, "storage", 1)
  <2>1. PICK closed \in {store, kept} : FailClosed(closed, "storage", 1)
    BY <1>6
  <2>2. /\ closed \in Stored /\ closed.phase = store.phase /\ closed.ledger = store.ledger
    BY <1>1, <1>3
  <2>3. ClosedStore(closed, 1)
    BY <1>6, <2>1, <2>2, ClosedEffect
  <2>4. failures' # failures
    BY <1>1, <2>1, <2>2, ClosesAdmission DEF Stored
  <2> QED
    BY <1>6, <2>2, <2>3, <2>4 DEF ClosedStore, Raised, StoreTyped
<1> QED
  BY <1>4, <1>5, <1>6

LEMMA TypesNext ==
  ASSUME TypeOK, CampaignInv', StoreTyped, drive' \in Drives, pausePending' \in BOOLEAN,
         authorized' \subseteq 1..MaxActivations, UNCHANGED <<accepted, bounds>>
  PROVE  TypeOK'
<1>1. /\ evidence' \in [Position -> Evidence] /\ pc' \in [Position -> Steps]
      /\ applies' \in [Position -> Nat] /\ changed' \subseteq Position
  BY DEF CampaignInv, Types
<1> QED
  BY <1>1 DEF TypeOK, StoreTyped, Stored, Drives, bounds

\* The evidence of every position only grows, so no ledger gets ahead of it.
LEMMA StaysBehind ==
  ASSUME NEW count \in [Counters -> 0..Total],
         \A c \in Counters : count[c] <= CountsOf(evidence)[c],
         \A q \in Position : Grows(evidence[q], evidence'[q])
  PROVE  \A c \in Counters : count[c] <= CountsOf(evidence')[c]
<1>1. ASSUME NEW c \in Counters PROVE count[c] <= CountsOf(evidence')[c]
  <2>1. CountsOf(evidence)[c] <= CountsOf(evidence')[c]
    BY CountsGrow
  <2>2. /\ CountsOf(evidence)[c] \in 0..Total /\ CountsOf(evidence')[c] \in 0..Total
        /\ count[c] \in 0..Total /\ count[c] <= CountsOf(evidence)[c]
    BY CountsTyped
  <2> QED
    BY <2>1, <2>2, CampaignConstants
<1> QED
  BY <1>1

DriveGoes ==
  /\ drive' \in Drives /\ drive'.alive = drive.alive
  /\ drive.generation = "revoked" => drive'.generation = "revoked"

OutcomesStay ==
  \A q \in Position : evidence[q].outcome # "none" => evidence'[q].outcome # "none"

LEMMA GrowingStays ==
  ASSUME evidence \in [Position -> Evidence], evidence' \in [Position -> Evidence],
         \A q \in Position : Grows(evidence[q], evidence'[q])
  PROVE  OutcomesStay
<1>1. ASSUME NEW q \in Position, evidence[q].outcome # "none"
      PROVE  evidence'[q].outcome # "none"
  <2>1. evidence[q].outcome \in Outcomes
    BY <1>1 DEF Evidence
  <2>2. Has(evidence[q], evidence[q].outcome)
    BY <2>1 DEF Has
  <2>3. Has(evidence'[q], evidence[q].outcome)
    BY <2>1, <2>2 DEF Grows, Counters
  <2> QED
    BY <2>1, <2>3 DEF Has, Outcomes
<1> QED
  BY <1>1 DEF OutcomesStay

\* A step of the thread or a position whose write raised.
LEMMA RaisedKeeps ==
  ASSUME Settled, StoreTyped, drive.alive, DriveGoes, store'.phase = store.phase,
         UNCHANGED <<authorized, pausePending, accepted, bounds>>,
         \A q \in Position : Grows(evidence[q], evidence'[q]),
         \A q \in Position : pc'[q] = "releasing" => pc[q] = "releasing",
         ~clean', store'.authorization = 0,
         store'.ledger.count = store.ledger.count, store'.ledger.state \in {"pausing", "paused"},
         checkpoint'.count \in {checkpoint.count, store.ledger.count}
  PROVE  LedgerInv'
<1> USE DEF Settled
<1>a. TypeOK
  BY DEF LedgerInv
<1>1. TypeOK'
  <2>1. authorized' \subseteq 1..MaxActivations /\ pausePending' \in BOOLEAN
    BY <1>a DEF TypeOK
  <2> QED
    BY <1>a, <2>1, TypesNext DEF DriveGoes
<1>2. Behind(store.ledger)' /\ Behind(checkpoint)'
  <2>1. /\ store.ledger.count \in [Counters -> 0..Total]
        /\ checkpoint.count \in [Counters -> 0..Total]
    BY <1>a, TypesNow DEF Checkpoint
  <2>2. \A c \in Counters : store.ledger.count[c] <= CountsOf(evidence')[c]
    BY <2>1, StaysBehind DEF LedgerInv, Behind
  <2>3. \A c \in Counters : checkpoint.count[c] <= CountsOf(evidence')[c]
    BY <2>1, StaysBehind DEF LedgerInv, Behind
  <2> QED
    BY <2>2, <2>3 DEF Behind, CountsOf
<1>3. OnlyLoadedWorks'
  BY DEF LedgerInv, OnlyLoadedWorks, DriveGoes
<1>4. AdmissionRuns' /\ CompletedIsSettled' /\ Exact'
  BY DEF AdmissionRuns, CompletedIsSettled, Exact
<1>5. Stopped'
  BY DEF LedgerInv, Stopped, DriveGoes
<1> QED
  BY <1>1, <1>2, <1>3, <1>4, <1>5 DEF LedgerInv

\* A mutation by the thread or a position.
LEMMA MutationKeeps ==
  ASSUME Settled, NEW p \in Position, NEW written \in Evidence, NEW s \in Stored,
         Mutate(p, written, s), s.phase = store.phase, drive.alive, DriveGoes,
         UNCHANGED <<authorized, pausePending, accepted, bounds>>,
         Grows(evidence[p], written),
         \A c \in Counters :
           s.ledger.count[c] = store.ledger.count[c] + Gains(evidence[p], written, c),
         \A q \in Position \ {p} : pc'[q] = pc[q],
         pc'[p] \notin {"paused", "releasing"},
         s.authorization \in {0, store.authorization},
         s.authorization # 0 => s.ledger.state = "running" /\ s.failure = "none",
         s.ledger.state = "completed" =>
           store.ledger.state = "completed" \/ Unsettled(s.ledger) = 0,
         s.inFlight \subseteq store.inFlight \cup {p},
         p \in s.inFlight /\ failures' = failures => pc'[p] \notin {"idle", "denied", "damaged"},
         failures' = failures /\ clean => PassedIsSettled'
  PROVE  LedgerInv'
<1> USE DEF Settled
<1>a. TypeOK /\ evidence \in [Position -> Evidence] /\ store.ledger \in Checkpoint
      /\ clean \in BOOLEAN
  BY TypesNow DEF LedgerInv
<1>b. /\ StoreTyped /\ store'.phase = store.phase
      /\ Saved(p, written, s) \/ Raised(p, written)
  BY <1>a, MutationEffect
<1>c. \A q \in Position : Grows(evidence[q], evidence'[q])
  <2>1. \E e \in {evidence[p], written} : evidence' = [evidence EXCEPT ![p] = e]
    BY <1>b DEF Saved, Raised
  <2> QED
    BY <1>a, <2>1 DEF Grows
<1>d. evidence' \in [Position -> Evidence]
  BY DEF CampaignInv, Types
<1>1. CASE Raised(p, written)
  <2>1. \A q \in Position : pc'[q] = "releasing" => pc[q] = "releasing"
    OBVIOUS
  <2> QED
    BY <1>1, <1>b, <1>c, <2>1, RaisedKeeps DEF Raised
<1>2. CASE Saved(p, written, s)
  <2>1. TypeOK'
    <3>1. authorized' \subseteq 1..MaxActivations /\ pausePending' \in BOOLEAN
      BY <1>a DEF TypeOK
    <3> QED
      BY <1>a, <1>b, <3>1, TypesNext DEF DriveGoes
  <2>2. ASSUME NEW c \in Counters
        PROVE  /\ store'.ledger.count[c] <= CountsOf(evidence')[c]
               /\ (clean /\ store.phase # "status" =>
                    store'.ledger.count[c] = CountsOf(evidence')[c])
    <3>1. CountsOf(evidence')[c] = CountsOf(evidence)[c] + Gains(evidence[p], written, c)
      BY <1>2, <1>a, CountsMove DEF Saved
    <3>2. store'.ledger.count[c] = store.ledger.count[c] + Gains(evidence[p], written, c)
      BY <1>2 DEF Saved
    <3>3. /\ CountsOf(evidence)[c] \in 0..Total /\ store.ledger.count[c] \in 0..Total
          /\ Gains(evidence[p], written, c) \in {0, 1}
      BY <1>a, CountsTyped DEF Checkpoint, Gains
    <3>4. /\ store.ledger.count[c] <= CountsOf(evidence)[c]
          /\ (clean /\ store.phase # "status" => store.ledger.count[c] = CountsOf(evidence)[c])
      BY DEF LedgerInv, Behind, Exact
    <3> HIDE DEF Settled
    <3> QED
      BY <3>1, <3>2, <3>3, <3>4, CampaignConstants
  <2>3. Behind(store.ledger)' /\ Behind(checkpoint)'
    <3>1. \A c \in Counters : store'.ledger.count[c] <= CountsOf(evidence')[c]
      BY <2>2
    <3>2. checkpoint' = store'.ledger
      BY <1>2 DEF Saved
    <3> QED
      BY <3>1, <3>2 DEF Behind, CountsOf
  <2>4. OnlyLoadedWorks'
    BY <1>b DEF LedgerInv, OnlyLoadedWorks, DriveGoes
  <2>5. AdmissionRuns'
    BY <1>2 DEF AdmissionRuns, Saved
  <2>6. CompletedIsSettled'
    <3>1. CASE store.ledger.state = "completed"
      <4>1. \A q \in Position : evidence[q].outcome # "none"
        BY <3>1 DEF LedgerInv, CompletedIsSettled
      <4>2. OutcomesStay
        BY <1>a, <1>c, <1>d, GrowingStays
      <4> QED
        BY <4>1, <4>2 DEF CompletedIsSettled, OutcomesStay
    <3>2. CASE store'.ledger.state = "completed" /\ store.ledger.state # "completed"
      <4>1. Unsettled(s.ledger) = 0 /\ store'.ledger.count = s.ledger.count
        BY <1>2, <3>2 DEF Saved
      <4>2. s.ledger.count \in [Counters -> 0..Total]
        BY DEF Stored, Checkpoint
      <4>3. /\ s.ledger.count["saved"] \in 0..Total /\ s.ledger.count["no_change"] \in 0..Total
            /\ s.ledger.count["attention"] \in 0..Total
        BY <4>2 DEF Counters, Outcomes
      <4>4. s.ledger.count["saved"] + s.ledger.count["no_change"]
              + s.ledger.count["attention"] = Total
        BY <4>1, <4>3, CampaignConstants DEF Unsettled
      <4>5. \A c \in Counters : s.ledger.count[c] <= CountsOf(evidence')[c]
        BY <2>2, <4>1
      <4> QED
        BY <4>2, <4>4, <4>5, AllSettled DEF CompletedIsSettled
    <3> QED
      BY <3>1, <3>2 DEF CompletedIsSettled
  <2>7. Stopped'
    BY <1>2 DEF LedgerInv, Stopped, DriveGoes, Saved
  <2>8. Exact'
    <3> SUFFICES ASSUME clean, store.phase # "status"
                 PROVE  /\ \A c \in Counters : store'.ledger.count[c] = CountsOf(evidence')[c]
                        /\ InFlightWorks' /\ PassedIsSettled'
      BY <1>2, <1>b DEF Exact, CountsOf, Saved, DriveGoes
    <3>1. \A c \in Counters : store'.ledger.count[c] = CountsOf(evidence')[c]
      BY <2>2
    <3>2. InFlightWorks'
      <4>1. InFlightWorks /\ store'.inFlight = s.inFlight /\ failures' = failures
        BY <1>2 DEF LedgerInv, Exact, Saved
      <4>2. ASSUME NEW q \in s.inFlight PROVE pc'[q] \notin {"idle", "denied", "damaged"}
        <5>1. q \in Position
          BY DEF Stored
        <5>2. CASE q = p
          BY <4>1, <5>2
        <5>3. CASE q # p
          BY <4>1, <5>1, <5>3 DEF InFlightWorks
        <5> QED
          BY <5>2, <5>3
      <4> QED
        BY <4>1, <4>2 DEF InFlightWorks
    <3>3. PassedIsSettled'
      BY <1>2 DEF Saved
    <3> QED
      BY <3>1, <3>2, <3>3
  <2> QED
    BY <2>1, <2>3, <2>4, <2>5, <2>6, <2>7, <2>8 DEF LedgerInv
<1> QED
  BY <1>b, <1>1, <1>2

\* A step of one position, as far as the others, the thread and the controls
\* are concerned.
PositionGoes(p) ==
  /\ drive.alive /\ DriveGoes
  /\ drive'.cursor = drive.cursor /\ (drive.broken => drive'.broken)
  /\ UNCHANGED <<authorized, pausePending, accepted, bounds>>
  /\ \A q \in Position \ {p} : pc'[q] = pc[q]

LEMMA PassedKept ==
  ASSUME PassedIsSettled, OutcomesStay, NEW p \in Position, PositionGoes(p),
         store'.authorization \in {0, store.authorization},
         pc'[p] = "idle" /\ evidence'[p].outcome = "none" =>
           drive'.generation = "revoked" \/ store'.authorization = 0 \/ drive'.broken
  PROVE  PassedIsSettled'
<1>1. ASSUME NEW q \in Position, q < drive'.cursor, pc'[q] = "idle",
             evidence'[q].outcome = "none"
      PROVE  drive'.generation = "revoked" \/ store'.authorization = 0 \/ drive'.broken
  <2>1. CASE q = p
    BY <1>1, <2>1
  <2>2. CASE q # p
    <3>1. pc[q] = "idle" /\ q < drive.cursor /\ drive.alive /\ evidence[q].outcome = "none"
      BY <1>1, <2>2 DEF PositionGoes, OutcomesStay
    <3>2. drive.generation = "revoked" \/ store.authorization = 0 \/ drive.broken
      BY <3>1 DEF PassedIsSettled
    <3> QED
      BY <3>2 DEF PositionGoes, DriveGoes
  <2> QED
    BY <2>1, <2>2
<1> QED
  BY <1>1 DEF PassedIsSettled

\* A step that touches neither the store nor what the counters count.
LEMMA QuietKeeps ==
  ASSUME Settled, NEW p \in Position, PositionGoes(p), UNCHANGED <<checkpoint, store, drive>>,
         failures' \in 0..MaxFailures, clean' \in BOOLEAN, clean' => clean,
         \A q \in Position, c \in Counters : Has(evidence'[q], c) <=> Has(evidence[q], c),
         pc'[p] \notin {"idle", "denied", "damaged", "releasing"},
         pc'[p] = "paused" => store.authorization = 0
  PROVE  LedgerInv'
<1>a. TypeOK /\ CampaignInv'
  BY DEF LedgerInv, Settled
<1>b. /\ evidence \in [Position -> Evidence] /\ evidence' \in [Position -> Evidence]
      /\ store \in Stored /\ checkpoint \in Checkpoint
  BY <1>a, TypesNow DEF CampaignInv, Types
<1>c. \A q \in Position : Grows(evidence[q], evidence'[q])
  BY DEF Grows
<1>d. OutcomesStay
  BY <1>b, <1>c, GrowingStays
<1>1. TypeOK'
  <2>1. authorized' \subseteq 1..MaxActivations /\ pausePending' \in BOOLEAN
    BY <1>a DEF TypeOK, PositionGoes
  <2>2. StoreTyped
    BY <1>b DEF StoreTyped
  <2> QED
    BY <1>a, <2>1, <2>2, TypesNext DEF PositionGoes, DriveGoes
<1>2. \A c \in Counters : CountsOf(evidence')[c] = CountsOf(evidence)[c]
  <2>1. \A c \in Counters : With(evidence', c) = With(evidence, c)
    BY DEF With
  <2> QED
    BY <2>1, CountsAre
<1>3. Behind(store.ledger)' /\ Behind(checkpoint)'
  <2>1. \A c \in Counters : /\ store.ledger.count[c] <= CountsOf(evidence')[c]
                            /\ checkpoint.count[c] <= CountsOf(evidence')[c]
    BY <1>2 DEF Settled, LedgerInv, Behind
  <2> QED
    BY <2>1 DEF Behind, CountsOf
<1>4. OnlyLoadedWorks' /\ AdmissionRuns'
  BY DEF Settled, LedgerInv, OnlyLoadedWorks, AdmissionRuns, PositionGoes
<1>5. CompletedIsSettled'
  BY <1>d DEF Settled, LedgerInv, CompletedIsSettled, OutcomesStay
<1>6. Stopped'
  BY DEF Settled, LedgerInv, Stopped, PositionGoes
<1>7. Exact'
  <2> SUFFICES ASSUME clean, store.phase # "status"
               PROVE  /\ \A c \in Counters : store.ledger.count[c] = CountsOf(evidence')[c]
                      /\ InFlightWorks' /\ PassedIsSettled'
    BY DEF Exact, CountsOf, PositionGoes
  <2>1. /\ \A c \in Counters : store.ledger.count[c] = CountsOf(evidence)[c]
        /\ InFlightWorks /\ PassedIsSettled
    BY DEF Settled, LedgerInv, Exact
  <2>2. InFlightWorks'
    <3>1. store.inFlight \in SUBSET Position
      BY <1>b DEF Stored
    <3> QED
      BY <2>1, <3>1 DEF InFlightWorks, PositionGoes
  <2>3. PassedIsSettled'
    BY <1>d, <2>1, PassedKept
  <2> QED
    BY <1>2, <2>1, <2>2, <2>3
<1> QED
  BY <1>1, <1>3, <1>4, <1>5, <1>6, <1>7 DEF LedgerInv

\* Counting what the evidence of a position is about to gain keeps within the total.
LEMMA CountedFits ==
  ASSUME LedgerInv, NEW p \in Position, NEW written \in Evidence, NEW k \in Counters,
         Grows(evidence[p], written), Gains(evidence[p], written, k) = 1
  PROVE  /\ Counted(store.ledger, k) \in Checkpoint
         /\ Counted(store.ledger, k).state = store.ledger.state
         /\ Counted(store.ledger, k).count = [store.ledger.count EXCEPT ![k] = @ + 1]
<1>1. store.ledger \in Checkpoint /\ evidence \in [Position -> Evidence]
  BY TypesNow DEF LedgerInv
<1>2. CountsOf([evidence EXCEPT ![p] = written])[k] = CountsOf(evidence)[k] + 1
  BY <1>1, CountsMove
<1>3. /\ CountsOf([evidence EXCEPT ![p] = written])[k] \in 0..Total
      /\ CountsOf(evidence)[k] \in 0..Total
  BY CountsTyped
<1>4. store.ledger.count[k] \in 0..Total /\ store.ledger.count[k] <= CountsOf(evidence)[k]
  BY <1>1 DEF LedgerInv, Behind, Checkpoint
<1>5. store.ledger.count[k] + 1 \in 0..Total
  BY <1>2, <1>3, <1>4, CampaignConstants
<1> QED
  BY <1>1, <1>5 DEF Counted, Checkpoint

\* settle: the outcome is counted once, and it says when all are settled.
LEMMA SettledEffect ==
  ASSUME LedgerInv, NEW p \in Position, NEW outcome \in Outcomes, evidence[p].outcome = "none"
  PROVE  LET ledger == SettledLedger(p, outcome)
             written == [evidence[p] EXCEPT !.outcome = outcome]
         IN  /\ ledger \in Checkpoint /\ written \in Evidence
             /\ Grows(evidence[p], written)
             /\ \A c \in Counters :
                  ledger.count[c] = store.ledger.count[c] + Gains(evidence[p], written, c)
             /\ ledger.state = "completed" =>
                  store.ledger.state = "completed" \/ Unsettled(ledger) = 0
             /\ store.authorization # 0 => ledger.state \in {"running", "completed"}
<1> DEFINE written == [evidence[p] EXCEPT !.outcome = outcome]
<1> DEFINE counted == Counted(store.ledger, outcome)
<1> DEFINE ledger == SettledLedger(p, outcome)
<1>a. /\ store \in Stored /\ store.ledger \in Checkpoint /\ evidence \in [Position -> Evidence]
      /\ evidence[p] \in Evidence
  BY TypesNow DEF LedgerInv
<1>1. /\ written \in Evidence /\ written.outcome = outcome
      /\ written.examined = evidence[p].examined /\ written.analysis = evidence[p].analysis
  BY <1>a DEF Evidence
<1> HIDE DEF written
<1>2. /\ Grows(evidence[p], written)
      /\ \A c \in Counters : Gains(evidence[p], written, c) = IF c = outcome THEN 1 ELSE 0
  BY <1>1 DEF Grows, Gains, Has, Outcomes, Counters
<1>3. outcome \in Counters
  BY DEF Counters
<1>4. Gains(evidence[p], written, outcome) = 1
  BY <1>2, <1>3
<1>5. /\ counted \in Checkpoint /\ counted.state = store.ledger.state
      /\ counted.count = [store.ledger.count EXCEPT ![outcome] = @ + 1]
  BY <1>1, <1>2, <1>3, <1>4, CountedFits
<1> HIDE DEF counted
<1>6. /\ ledger \in Checkpoint /\ ledger.count = counted.count
      /\ ledger.state \in {"running", "pausing", "paused", "completed"}
      /\ ledger.state = "completed" => counted.state = "completed" \/ Unsettled(counted) = 0
      /\ store.failure = "none" /\ counted.state = "running" =>
           ledger.state \in {"running", "completed"}
  <2>1. ledger = IF store.failure # "none"
                 THEN [counted EXCEPT !.state = Stopping(store.inFlight \ {p}),
                                      !.reason = store.failure]
                 ELSE IF Unsettled(counted) = 0 /\ store.inFlight \ {p} = {}
                 THEN [counted EXCEPT !.state = "completed", !.reason = "none"]
                 ELSE [counted EXCEPT !.state = IF counted.state = "pausing"
                                                    /\ store.inFlight \ {p} = {}
                                                THEN "paused" ELSE counted.state]
    BY DEF SettledLedger, counted
  <2>2. Stopping(store.inFlight \ {p}) \in {"pausing", "paused"}
    BY DEF Stopping
  <2>3. store.failure \in Reasons /\ "none" \in Reasons
    BY <1>a DEF Stored, Reasons
  <2> HIDE DEF ledger
  <2>4. CASE store.failure # "none"
    BY <1>5, <2>1, <2>2, <2>3, <2>4 DEF Checkpoint
  <2>5. CASE store.failure = "none" /\ Unsettled(counted) = 0 /\ store.inFlight \ {p} = {}
    BY <1>5, <2>1, <2>3, <2>5 DEF Checkpoint
  <2>6. CASE store.failure = "none" /\ ~(Unsettled(counted) = 0 /\ store.inFlight \ {p} = {})
    BY <1>5, <2>1, <2>6 DEF Checkpoint
  <2> QED
    BY <2>4, <2>5, <2>6
<1>7. Unsettled(ledger) = Unsettled(counted)
  BY <1>6 DEF Unsettled
<1>8. store.authorization # 0 => store.failure = "none" /\ counted.state = "running"
  BY <1>5 DEF LedgerInv, AdmissionRuns
<1>9. ASSUME NEW c \in Counters
      PROVE  ledger.count[c] = store.ledger.count[c] + Gains(evidence[p], written, c)
  <2>1. store.ledger.count \in [Counters -> 0..Total]
    BY <1>a DEF Checkpoint
  <2>2. ledger.count = [store.ledger.count EXCEPT ![outcome] = @ + 1]
    BY <1>5, <1>6
  <2>3. Gains(evidence[p], written, c) = IF c = outcome THEN 1 ELSE 0
    BY <1>2
  <2> HIDE DEF ledger
  <2> QED
    BY <2>1, <2>2, <2>3, CampaignConstants
<1> QED
  BY <1>1, <1>2, <1>5, <1>6, <1>7, <1>8, <1>9 DEF written

\* A settlement, whichever step asks for it.
LEMMA SettlementKeeps ==
  ASSUME Settled, NEW p \in Position, NEW outcome \in Outcomes, Settle(p, outcome),
         evidence[p].outcome = "none", PositionGoes(p), pc'[p] \notin {"paused", "releasing"}
  PROVE  LedgerInv'
<1> DEFINE written == [evidence[p] EXCEPT !.outcome = outcome]
<1> DEFINE ledger == SettledLedger(p, outcome)
<1> DEFINE s == [store EXCEPT !.ledger = ledger, !.inFlight = store.inFlight \ {p},
                   !.authorization = IF ledger.state = "completed" THEN 0
                                     ELSE store.authorization]
<1>a. LedgerInv /\ TypeOK /\ store \in Stored /\ evidence \in [Position -> Evidence]
  BY TypesNow DEF Settled, LedgerInv
<1>1. Mutate(p, written, s)
  BY DEF Settle
<1>2. /\ ledger \in Checkpoint /\ written \in Evidence /\ Grows(evidence[p], written)
      /\ \A c \in Counters :
           ledger.count[c] = store.ledger.count[c] + Gains(evidence[p], written, c)
      /\ ledger.state = "completed" =>
           store.ledger.state = "completed" \/ Unsettled(ledger) = 0
      /\ store.authorization # 0 => ledger.state \in {"running", "completed"}
  BY <1>a, SettledEffect
<1> HIDE DEF ledger
<1>3. /\ s \in Stored /\ s.phase = store.phase /\ s.ledger = ledger
      /\ s.inFlight = store.inFlight \ {p} /\ s.failure = store.failure
      /\ s.authorization \in {0, store.authorization}
      /\ s.authorization # 0 => ledger.state # "completed"
  <2>1. 0 \in 0..MaxActivations
    BY CampaignConstants
  <2> QED
    BY <1>a, <1>2, <2>1 DEF Stored
<1>4. written.outcome # "none"
  BY <1>a DEF Evidence, Outcomes
<1> HIDE DEF s, written
<1>5. s.authorization # 0 => s.ledger.state = "running" /\ s.failure = "none"
  BY <1>a, <1>2, <1>3 DEF LedgerInv, AdmissionRuns
<1>6. failures' = failures /\ clean => PassedIsSettled'
  <2> SUFFICES ASSUME failures' = failures, clean PROVE PassedIsSettled'
    OBVIOUS
  <2>1. Saved(p, written, s)
    BY <1>a, <1>1, <1>2, <1>3, MutationEffect DEF Raised
  <2>2. evidence'[p].outcome # "none" /\ store'.authorization \in {0, store.authorization}
    BY <1>3, <1>4, <1>a, <2>1 DEF Saved
  <2>3. PassedIsSettled
    BY <1>a DEF LedgerInv, Exact, PositionGoes, OnlyLoadedWorks
  <2>4. OutcomesStay
    BY <1>a, <1>4, <2>1 DEF OutcomesStay, Saved
  <2> QED
    BY <2>2, <2>3, <2>4, PassedKept
<1> QED
  BY <1>1, <1>2, <1>3, <1>5, <1>6, MutationKeeps DEF PositionGoes

\* release: the position is in flight no more.
LEMMA ReleasingKeeps ==
  ASSUME Settled, NEW p \in Position, Release(p), PositionGoes(p),
         pc'[p] \notin {"paused", "releasing"},
         store.authorization = 0 \/ drive.generation = "revoked"
  PROVE  LedgerInv'
<1> DEFINE state == IF store.ledger.state = "pausing" /\ store.inFlight \ {p} = {}
                    THEN "paused" ELSE store.ledger.state
<1> DEFINE s == [store EXCEPT !.inFlight = store.inFlight \ {p}, !.ledger.state = state]
<1>a. LedgerInv /\ TypeOK /\ store \in Stored /\ evidence \in [Position -> Evidence]
      /\ store.ledger \in Checkpoint /\ evidence[p] \in Evidence
  BY TypesNow DEF Settled, LedgerInv
<1>1. Mutate(p, evidence[p], s)
  BY DEF Release
<1>2. /\ state \in {"running", "pausing", "paused", "completed"}
      /\ state = "completed" => store.ledger.state = "completed"
      /\ store.ledger.state = "running" => state = "running"
  BY <1>a DEF Checkpoint
<1> HIDE DEF state
<1>3. /\ s \in Stored /\ s.phase = store.phase /\ s.ledger.state = state
      /\ s.ledger.count = store.ledger.count /\ s.authorization = store.authorization
      /\ s.failure = store.failure /\ s.inFlight = store.inFlight \ {p}
  BY <1>a, <1>2 DEF Stored, Checkpoint
<1> HIDE DEF s
<1>4. s.authorization # 0 => s.ledger.state = "running" /\ s.failure = "none"
  BY <1>a, <1>2, <1>3 DEF LedgerInv, AdmissionRuns
<1>5. Grows(evidence[p], evidence[p])
  BY DEF Grows
<1>6. \A c \in Counters :
        s.ledger.count[c] = store.ledger.count[c] + Gains(evidence[p], evidence[p], c)
  <2>1. \A c \in Counters : store.ledger.count[c] \in 0..Total
    BY <1>a DEF Checkpoint
  <2>2. \A c \in Counters : Gains(evidence[p], evidence[p], c) = 0
    BY DEF Gains
  <2> QED
    BY <1>3, <2>1, <2>2, CampaignConstants
<1>7. failures' = failures /\ clean => PassedIsSettled'
  <2> SUFFICES ASSUME failures' = failures, clean PROVE PassedIsSettled'
    OBVIOUS
  <2>1. Saved(p, evidence[p], s)
    BY <1>a, <1>1, <1>3, MutationEffect DEF Raised
  <2>2. OutcomesStay /\ store'.authorization = store.authorization
    BY <1>a, <1>3, <2>1 DEF OutcomesStay, Saved
  <2>3. PassedIsSettled
    BY <1>a DEF LedgerInv, Exact, PositionGoes, OnlyLoadedWorks
  <2>4. drive'.generation = "revoked" \/ store'.authorization = 0
    BY <2>2 DEF PositionGoes, DriveGoes
  <2> QED
    BY <2>2, <2>3, <2>4, PassedKept
<1> QED
  BY <1>a, <1>1, <1>2, <1>3, <1>4, <1>5, <1>6, <1>7, MutationKeeps DEF PositionGoes

\* record_analysis: counted when it is the first of the position.
LEMMA RecordingKeeps ==
  ASSUME Settled, NEW p \in Position, RecordAnalysis(p), ~evidence[p].analysis,
         PositionGoes(p), pc'[p] \in {"gate", "failing"}
  PROVE  LedgerInv'
<1> DEFINE written == [evidence[p] EXCEPT !.analysis = TRUE]
<1> DEFINE ledger == Counted(store.ledger, "analyzed")
<1> DEFINE s == [store EXCEPT !.ledger = ledger]
<1>a. LedgerInv /\ TypeOK /\ store \in Stored /\ evidence \in [Position -> Evidence]
      /\ store.ledger \in Checkpoint /\ evidence[p] \in Evidence /\ "analyzed" \in Counters
  BY TypesNow DEF Settled, LedgerInv, Counters
<1>1. Mutate(p, written, s)
  BY DEF RecordAnalysis
<1>2. /\ written \in Evidence /\ written.analysis /\ written.examined = evidence[p].examined
      /\ written.outcome = evidence[p].outcome
  BY <1>a DEF Evidence
<1> HIDE DEF written
<1>3. /\ Grows(evidence[p], written)
      /\ \A c \in Counters : Gains(evidence[p], written, c) = IF c = "analyzed" THEN 1 ELSE 0
  BY <1>2 DEF Grows, Gains, Has, Outcomes, Counters
<1>4. Gains(evidence[p], written, "analyzed") = 1
  BY <1>a, <1>3
<1>5. /\ ledger \in Checkpoint /\ ledger.state = store.ledger.state
      /\ ledger.count = [store.ledger.count EXCEPT !["analyzed"] = @ + 1]
  BY <1>a, <1>2, <1>3, <1>4, CountedFits
<1> HIDE DEF ledger
<1>6. /\ s \in Stored /\ s.phase = store.phase /\ s.ledger = ledger
      /\ s.inFlight = store.inFlight /\ s.failure = store.failure
      /\ s.authorization = store.authorization
  BY <1>a, <1>5 DEF Stored
<1> HIDE DEF s
<1>7. \A c \in Counters :
        s.ledger.count[c] = store.ledger.count[c] + Gains(evidence[p], written, c)
  <2>1. store.ledger.count \in [Counters -> 0..Total]
    BY <1>a DEF Checkpoint
  <2> QED
    BY <1>3, <1>5, <1>6, <2>1, CampaignConstants
<1>8. s.authorization # 0 => s.ledger.state = "running" /\ s.failure = "none"
  BY <1>a, <1>5, <1>6 DEF LedgerInv, AdmissionRuns
<1>9. failures' = failures /\ clean => PassedIsSettled'
  <2> SUFFICES ASSUME failures' = failures, clean PROVE PassedIsSettled'
    OBVIOUS
  <2>1. Saved(p, written, s)
    BY <1>a, <1>1, <1>2, <1>6, MutationEffect DEF Raised
  <2>2. OutcomesStay /\ store'.authorization = store.authorization
    BY <1>a, <1>2, <1>6, <2>1 DEF OutcomesStay, Saved
  <2>3. PassedIsSettled
    BY <1>a DEF LedgerInv, Exact, PositionGoes, OnlyLoadedWorks
  <2> QED
    BY <2>2, <2>3, PassedKept
<1> QED
  BY <1>a, <1>1, <1>2, <1>3, <1>5, <1>6, <1>7, <1>8, <1>9, MutationKeeps DEF PositionGoes

\* What a position's step does to the thread.
LEMMA ThreadGoes ==
  ASSUME Settled, NEW p \in Position, pc[p] # "idle", \E step : Goto(p, step), UnchangedRest,
         \/ drive' = drive
         \/ drive' = [drive EXCEPT !.broken = @ \/ ~Published]
         \/ \E f \in {"permission", "storage"} :
              drive' = [drive EXCEPT !.failure = f, !.generation = "revoked"]
  PROVE  PositionGoes(p)
<1>1. drive \in Drives /\ pc \in [Position -> Steps]
  BY TypesNow DEF Settled, LedgerInv
<1>2. DriveGoes /\ drive'.cursor = drive.cursor /\ (drive.broken => drive'.broken)
  <2>1. CASE drive' = [drive EXCEPT !.broken = @ \/ ~Published]
    <3>1. PICK b \in BOOLEAN : b = (drive.broken \/ ~Published)
      OBVIOUS
    <3>2. drive' = [drive EXCEPT !.broken = b] /\ (drive.broken => b)
      BY <2>1, <3>1
    <3> QED
      BY <1>1, <3>2 DEF DriveGoes, Drives
  <2>2. CASE \E f \in {"permission", "storage"} :
               drive' = [drive EXCEPT !.failure = f, !.generation = "revoked"]
    BY <1>1, <2>2 DEF DriveGoes, Drives
  <2>3. CASE drive' = drive
    BY <1>1, <2>3 DEF DriveGoes
  <2> QED
    BY <2>1, <2>2, <2>3
<1>3. drive.alive
  BY DEF Settled, CampaignInv, NoThreadNoWork, Idle
<1>4. \A q \in Position \ {p} : pc'[q] = pc[q]
  BY <1>1 DEF Goto
<1>5. UNCHANGED <<authorized, pausePending, accepted, bounds>>
  BY DEF UnchangedRest, history
<1> QED
  BY <1>2, <1>3, <1>4, <1>5 DEF PositionGoes

\* A step of the position alone, or with one file that the counters ignore.
LEMMA FileKeeps ==
  ASSUME Settled, NEW p \in Position, pc[p] # "idle", NEW step \in Steps, Goto(p, step),
         UNCHANGED <<authorized, pausePending, accepted, bounds>>,
         UNCHANGED <<checkpoint, store, drive>>,
         \/ UNCHANGED <<evidence, failures, clean>>
         \/ evidence' = evidence /\ failures < MaxFailures /\ failures' = failures + 1
              /\ clean' = clean
         \/ \E written \in Evidence :
              /\ written.examined = evidence[p].examined
              /\ written.analysis = evidence[p].analysis
              /\ written.outcome = evidence[p].outcome
              /\ Write(p, written),
         step \notin {"idle", "denied", "damaged", "releasing"},
         step = "paused" => store.authorization = 0
  PROVE  LedgerInv'
<1>1. /\ drive \in Drives /\ pc \in [Position -> Steps] /\ evidence \in [Position -> Evidence]
      /\ failures \in 0..MaxFailures /\ clean \in BOOLEAN
  BY TypesNow DEF Settled, LedgerInv
<1>2. PositionGoes(p) /\ pc'[p] = step
  <2>1. drive.alive
    BY DEF Settled, CampaignInv, NoThreadNoWork, Idle
  <2> QED
    BY <1>1, <2>1 DEF PositionGoes, DriveGoes, Goto
<1>3. /\ failures' \in 0..MaxFailures /\ clean' \in BOOLEAN /\ (clean' => clean)
      /\ \A q \in Position, c \in Counters : Has(evidence'[q], c) <=> Has(evidence[q], c)
  <2>1. CASE UNCHANGED <<evidence, failures, clean>>
    BY <1>1, <2>1
  <2>2. CASE evidence' = evidence /\ failures < MaxFailures /\ failures' = failures + 1
              /\ clean' = clean
    BY <1>1, <2>2, CampaignConstants
  <2>3. CASE \E written \in Evidence :
              /\ written.examined = evidence[p].examined
              /\ written.analysis = evidence[p].analysis
              /\ written.outcome = evidence[p].outcome
              /\ Write(p, written)
    <3>1. PICK written \in Evidence :
              /\ written.examined = evidence[p].examined
              /\ written.analysis = evidence[p].analysis
              /\ written.outcome = evidence[p].outcome
              /\ Write(p, written)
      BY <2>3
    <3>2. \E e \in {evidence[p], written} : evidence' = [evidence EXCEPT ![p] = e]
      BY <3>1 DEF Write
    <3>3. \A q \in Position, c \in Counters : Has(evidence'[q], c) <=> Has(evidence[q], c)
      BY <1>1, <3>1, <3>2 DEF Has
    <3>4. \/ UNCHANGED <<failures, clean>>
          \/ failures < MaxFailures /\ failures' = failures + 1 /\ ~clean' /\ clean' \in BOOLEAN
      BY <3>1 DEF Write
    <3> QED
      BY <1>1, <3>3, <3>4, CampaignConstants
  <2> QED
    BY <2>1, <2>2, <2>3
<1> QED
  BY <1>2, <1>3, QuietKeeps

\* _failed: admission is closed and the generation revoked.
LEMMA ShutKeeps == ASSUME Settled, NEW p \in Position, Shut(p) PROVE LedgerInv'
<1>a. /\ TypeOK /\ LedgerInv /\ store \in Stored /\ drive \in Drives
      /\ pc \in [Position -> Steps] /\ evidence \in [Position -> Evidence]
  BY TypesNow DEF Settled, LedgerInv
<1>1. PICK reason \in {"permission", "storage"} : Fail(reason)
  BY DEF Shut
<1>2. /\ FailClosed(store, reason, 0)
      /\ drive' = [drive EXCEPT !.failure = reason, !.generation = "revoked"]
  BY <1>1 DEF Fail
<1>3. ClosedStore(store, 0)
  BY <1>a, <1>2, ClosedEffect
<1>4. /\ evidence' = evidence /\ UnchangedRest /\ pc[p] \in {"denied", "damaged", "failing"}
      /\ Goto(p, IF pc[p] = "failing" THEN "releasing" ELSE "idle")
  BY DEF Shut
<1>5. PositionGoes(p) /\ drive'.generation = "revoked"
  BY <1>a, <1>2, <1>4, ThreadGoes DEF Drives
<1>6. TypeOK'
  <2>1. authorized' \subseteq 1..MaxActivations /\ pausePending' \in BOOLEAN
    BY <1>a, <1>5 DEF TypeOK, PositionGoes
  <2>2. StoreTyped
    BY <1>3 DEF StoreTyped, ClosedStore
  <2> QED
    BY <1>a, <1>5, <2>1, <2>2, TypesNext DEF PositionGoes, DriveGoes, Settled
<1>7. Behind(store.ledger)' /\ Behind(checkpoint)'
  <2>1. \A c \in Counters : /\ store'.ledger.count[c] <= CountsOf(evidence')[c]
                            /\ checkpoint'.count[c] <= CountsOf(evidence')[c]
    BY <1>a, <1>3, <1>4 DEF LedgerInv, Behind, ClosedStore
  <2> QED
    BY <2>1 DEF Behind, CountsOf
<1>8. OnlyLoadedWorks'
  BY <1>a, <1>3, <1>5 DEF LedgerInv, OnlyLoadedWorks, ClosedStore, PositionGoes, DriveGoes
<1>9. AdmissionRuns' /\ CompletedIsSettled' /\ Stopped'
  BY <1>a, <1>3, <1>5 DEF LedgerInv, AdmissionRuns, CompletedIsSettled, Stopped, ClosedStore
<1>10. Exact'
  <2> SUFFICES ASSUME clean', store.phase # "status"
               PROVE  /\ \A c \in Counters : store'.ledger.count[c] = CountsOf(evidence')[c]
                      /\ InFlightWorks' /\ PassedIsSettled'
    BY <1>3, <1>5 DEF Exact, CountsOf, ClosedStore, PositionGoes, DriveGoes
  <2>1. /\ \A c \in Counters : store.ledger.count[c] = CountsOf(evidence)[c]
        /\ InFlightWorks
    BY <1>a, <1>3 DEF LedgerInv, Exact, ClosedStore
  <2>2. \A c \in Counters : store'.ledger.count[c] = CountsOf(evidence')[c]
    BY <1>3, <1>4, <2>1 DEF ClosedStore
  <2>3. InFlightWorks'
    <3>1. store.inFlight \in SUBSET Position /\ store'.inFlight = store.inFlight
      BY <1>a, <1>3 DEF Stored, ClosedStore
    <3>2. p \in store.inFlight => pc'[p] = "releasing"
      BY <1>a, <1>4, <2>1 DEF InFlightWorks, Goto
    <3>3. \A q \in store.inFlight : pc'[q] \notin {"idle", "denied", "damaged"}
      BY <1>5, <2>1, <3>1, <3>2 DEF InFlightWorks, PositionGoes
    <3> QED
      BY <3>1, <3>3 DEF InFlightWorks
  <2>4. PassedIsSettled'
    BY <1>5 DEF PassedIsSettled
  <2> QED
    BY <2>2, <2>3, <2>4
<1> QED
  BY <1>6, <1>7, <1>8, <1>9, <1>10 DEF LedgerInv

LEMMA ItemLedger == ASSUME Settled, NEW p \in Position, Item(p) PROVE LedgerInv'
<1>a. /\ TypeOK /\ LedgerInv /\ Sound(p) /\ pc \in [Position -> Steps]
      /\ \A step \in {"queued", "preparing", "inferring", "waiting", "failing", "idle", "denied"} :
           step \in Steps
  BY TypesNow DEF Settled, LedgerInv, CampaignInv, Steps, PhotosSteps
<1>1. CASE Reuse(p) \/ Prepare(p) \/ Prepared(p) \/ Analyzed(p) \/ TakeWrite(p)
  <2>1. PICK step \in {"queued", "preparing", "inferring", "waiting"} : Goto(p, step)
    BY <1>1 DEF Reuse, Prepare, Prepared, Analyzed, TakeWrite
  <2>2. pc[p] # "idle" /\ UnchangedStore /\ UnchangedRest /\ UNCHANGED drive
    BY <1>1 DEF Reuse, Prepare, Prepared, Analyzed, TakeWrite
  <2> QED
    BY <1>a, <2>1, <2>2, FileKeeps DEF UnchangedStore, UnchangedRest, history
<1>2. CASE AnalysisFails(p)
  <2>1. PICK step \in {"idle", "denied"} : Goto(p, step)
    BY <1>2 DEF AnalysisFails, ThenOr
  <2>2. /\ Settle(p, "attention") /\ UnchangedRest /\ pc[p] \in {"preparing", "inferring"}
        /\ drive' = [drive EXCEPT !.broken = @ \/ ~Published]
    BY <1>2 DEF AnalysisFails
  <2>3. PositionGoes(p)
    BY <2>1, <2>2, ThreadGoes
  <2>4. evidence[p].outcome = "none" /\ pc'[p] = step /\ "attention" \in Outcomes
    BY <1>a, <2>1, <2>2 DEF Sound, Unsettling, Goto, Outcomes
  <2> QED
    BY <2>2, <2>3, <2>4, SettlementKeeps
<1>3. CASE StorageFails(p)
  <2>1. /\ Goto(p, "failing") /\ pc[p] # "idle" /\ failures < MaxFailures
        /\ failures' = failures + 1
        /\ UNCHANGED <<evidence, checkpoint, store, clean, drive>> /\ UnchangedRest
    BY <1>3 DEF StorageFails
  <2> QED
    BY <1>a, <2>1, FileKeeps DEF UnchangedRest, history
<1>4. CASE ReleaseFailed(p)
  <2>1. /\ Goto(p, "idle") /\ Release(p) /\ UnchangedRest /\ pc[p] = "releasing"
        /\ drive' = [drive EXCEPT !.broken = @ \/ ~Published]
    BY <1>4 DEF ReleaseFailed
  <2>2. PositionGoes(p) /\ pc'[p] = "idle"
    BY <1>a, <2>1, ThreadGoes DEF Goto
  <2>3. drive.generation = "revoked"
    BY <1>a, <2>1 DEF LedgerInv, Stopped
  <2> QED
    BY <2>1, <2>2, <2>3, ReleasingKeeps
<1> QED
  BY <1>1, <1>2, <1>3, <1>4, ShutKeeps DEF Item

\* Leaving the gate.
LEMMA GateGoes ==
  ASSUME Settled, NEW p \in Position, pc[p] # "idle", \E step : Goto(p, step), UnchangedRest,
         store' \in Stored, (IF Published THEN LeaveGate ELSE UNCHANGED drive) \/ LeaveGate
  PROVE  PositionGoes(p)
<1>1. \/ drive' = drive
      \/ \E f \in {"permission", "storage"} :
           drive' = [drive EXCEPT !.failure = f, !.generation = "revoked"]
  <2>1. drive' = drive \/ LeaveGate
    OBVIOUS
  <2>2. store'.failure \in {"none", "permission", "storage"}
    BY DEF Stored
  <2> QED
    BY <2>1, <2>2 DEF LeaveGate
<1> QED
  BY <1>1, ThreadGoes

LEMMA SettledInGate ==
  ASSUME Settled, NEW p \in Position, NEW outcome \in Outcomes,
         NEW step \in {"idle", "denied", "damaged"}, SettleInGate(p, outcome, step),
         pc[p] \notin Unsettling
  PROVE  LedgerInv'
<1>1. PICK next \in {"idle", "denied", "damaged", "failing"} : Goto(p, next)
  BY DEF SettleInGate, ThenOr
<1>2. /\ Settle(p, outcome) /\ UnchangedRest /\ pc[p] # "idle" /\ pc \in [Position -> Steps]
      /\ evidence[p].outcome = "none" /\ TypeOK
  BY TypesNow DEF SettleInGate, Unsettling, Settled, LedgerInv, CampaignInv, Sound
<1>3. store' \in Stored
  <2>1. TypeOK'  => store' \in Stored
    BY DEF TypeOK, Stored
  <2> DEFINE written == [evidence[p] EXCEPT !.outcome = outcome]
  <2> DEFINE s == [store EXCEPT !.ledger = SettledLedger(p, outcome), !.inFlight = @ \ {p},
                     !.authorization = IF SettledLedger(p, outcome).state = "completed"
                                       THEN 0 ELSE @]
  <2>2. Mutate(p, written, s)
    BY <1>2 DEF Settle
  <2>3. SettledLedger(p, outcome) \in Checkpoint /\ written \in Evidence
    BY <1>2, SettledEffect DEF Settled
  <2>4. s \in Stored /\ s.phase = store.phase
    <3>1. store \in Stored /\ 0 \in 0..MaxActivations
      BY <1>2, TypesNow, CampaignConstants
    <3> QED
      BY <2>3, <3>1 DEF Stored
  <2> HIDE DEF written, s
  <2> QED
    BY <1>2, <2>2, <2>3, <2>4, MutationEffect DEF StoreTyped
<1>4. PositionGoes(p)
  BY <1>1, <1>2, <1>3, GateGoes DEF SettleInGate
<1>5. pc'[p] = next
  BY <1>1, <1>2 DEF Goto
<1> QED
  BY <1>2, <1>4, <1>5, SettlementKeeps

LEMMA EnteringKeeps == ASSUME Settled, NEW p \in Position, EnterGate(p) PROVE LedgerInv'
<1>a. Sound(p) /\ pc[p] = "waiting" /\ pc[p] \notin Unsettling /\ pc \in [Position -> Steps]
      /\ {"gate", "failing"} \subseteq Steps
  BY TypesNow DEF Settled, LedgerInv, CampaignInv, EnterGate, Unsettling, Steps, PhotosSteps
<1>1. CASE evidence[p].decision # 0
  <2>1. SettleInGate(p, RecoverDecision(evidence[p]), "idle")
    BY <1>1 DEF EnterGate
  <2>2. RecoverDecision(evidence[p]) \in Outcomes
    BY <1>a, ReceiptIsTrue
  <2> QED
    BY <1>a, <2>1, <2>2, SettledInGate
<1>2. CASE evidence[p].decision = 0 /\ evidence[p].analysis
  <2>1. UnchangedStore /\ Goto(p, "gate") /\ UnchangedRest /\ UNCHANGED drive
    BY <1>2 DEF EnterGate
  <2> QED
    BY <1>a, <2>1, FileKeeps DEF UnchangedStore, UnchangedRest, history
<1>3. CASE evidence[p].decision = 0 /\ ~evidence[p].analysis
  <2>1. /\ RecordAnalysis(p) /\ UnchangedRest /\ UNCHANGED drive
        /\ \E step \in {"gate", "failing"} : Goto(p, step)
    BY <1>3 DEF EnterGate, ThenOr
  <2>2. PICK step \in {"gate", "failing"} : Goto(p, step)
    BY <2>1
  <2>3. PositionGoes(p) /\ pc'[p] = step
    BY <1>a, <2>1, <2>2, ThreadGoes DEF Goto
  <2> QED
    BY <1>3, <2>1, <2>2, <2>3, RecordingKeeps
<1> QED
  BY <1>1, <1>2, <1>3

LEMMA GateLedger ==
  ASSUME Settled, NEW p \in Position, Gate(p) \/ ChangePhoto(p)
  PROVE  LedgerInv'
<1>a. /\ TypeOK /\ LedgerInv /\ Sound(p) /\ pc \in [Position -> Steps]
      /\ evidence[p] \in Evidence /\ store \in Stored
      /\ evidence \in [Position -> Evidence]
      /\ \A step \in {"reading", "admitting", "paused", "reviewing", "linking", "linked",
                      "applying", "receipt", "failing"} : step \in Steps
      /\ {"attention", "no_change"} \subseteq Outcomes
  BY TypesNow DEF Settled, LedgerInv, CampaignInv, Steps, PhotosSteps, Outcomes
<1>1. CASE RejectSource(p) \/ ReviewOrApplyRaises(p) \/ LoseRow(p)
  <2>1. PICK step \in {"idle", "denied", "damaged"} : SettleInGate(p, "attention", step)
    BY <1>1 DEF RejectSource, ReviewOrApplyRaises, LoseRow
  <2>2. pc[p] \notin Unsettling
    BY <1>1 DEF RejectSource, ReviewOrApplyRaises, LoseRow, Unsettling
  <2> QED
    BY <1>a, <2>1, <2>2, SettledInGate
<1>2. CASE SettleUnread(p)
  <2>1. PICK outcome \in {"no_change", "attention"}, step \in {"idle", "denied"} :
          SettleInGate(p, outcome, step)
    BY <1>2 DEF SettleUnread
  <2>2. pc[p] \notin Unsettling
    BY <1>2 DEF SettleUnread, Unsettling
  <2> QED
    BY <1>a, <2>1, <2>2, SettledInGate
<1>3. CASE SettleReceipt(p)
  <2>1. PICK step \in {"idle", "denied"} : SettleInGate(p, ReceiptOutcome(evidence[p]), step)
    BY <1>3 DEF SettleReceipt
  <2>2. pc[p] \notin Unsettling /\ ReceiptOutcome(evidence[p]) \in Outcomes
    BY <1>3, <1>a, ReceiptIsTrue DEF SettleReceipt, Unsettling
  <2> QED
    BY <1>a, <2>1, <2>2, SettledInGate
<1>4. CASE CheckEnabled(p) \/ ReadCurrent(p)
  <2>1. PICK step \in {"reading", "paused", "admitting"} :
          Goto(p, step) /\ (step = "paused" => store.authorization = 0)
    BY <1>4 DEF CheckEnabled, ReadCurrent
  <2>2. pc[p] # "idle" /\ UnchangedStore /\ UnchangedRest /\ UNCHANGED drive
    BY <1>4 DEF CheckEnabled, ReadCurrent
  <2> QED
    BY <1>a, <2>1, <2>2, FileKeeps DEF UnchangedStore, UnchangedRest, history
<1>5. CASE Admit(p)
  <2>1. pc[p] # "idle" /\ UNCHANGED <<checkpoint, store, drive>> /\ UnchangedRest
    BY <1>5 DEF Admit
  <2>2. CASE store.authorization = 0
    BY <1>5, <1>a, <2>1, <2>2, FileKeeps DEF Admit, UnchangedRest, history
  <2>3. CASE store.authorization # 0
    <3> DEFINE written == [evidence[p] EXCEPT !.decision = store.authorization]
    <3>1. /\ written \in Evidence /\ written.examined = evidence[p].examined
          /\ written.analysis = evidence[p].analysis /\ written.outcome = evidence[p].outcome
      BY <1>a DEF Evidence, Stored
    <3>2. Write(p, written)
      BY <1>5, <2>3 DEF Admit
    <3>3. PICK step \in {"reviewing", "failing"} : Goto(p, step)
      BY <1>5, <2>3 DEF Admit, ThenOr
    <3> HIDE DEF written
    <3> QED
      BY <1>a, <2>1, <3>1, <3>2, <3>3, FileKeeps DEF UnchangedRest, history
  <2> QED
    BY <2>2, <2>3
<1>6. CASE Review(p) \/ Link(p)
  <2>1. pc[p] # "idle" /\ UNCHANGED <<checkpoint, store, drive>> /\ UnchangedRest
    BY <1>6 DEF Review, Link
  <2>2. PICK written \in Evidence :
          /\ written.examined = evidence[p].examined
          /\ written.analysis = evidence[p].analysis /\ written.outcome = evidence[p].outcome
          /\ Write(p, written)
    <3>1. CASE Review(p)
      <4> DEFINE written == [evidence[p] EXCEPT !.reviewed = TRUE, !.row = "not_run"]
      <4>1. /\ written \in Evidence /\ written.examined = evidence[p].examined
            /\ written.analysis = evidence[p].analysis /\ written.outcome = evidence[p].outcome
        BY <1>a DEF Evidence
      <4>2. Write(p, written)
        BY <3>1 DEF Review
      <4> HIDE DEF written
      <4> QED
        BY <4>1, <4>2
    <3>2. CASE Link(p)
      <4> DEFINE written == [evidence[p] EXCEPT !.link = evidence[p].decision]
      <4>1. /\ written \in Evidence /\ written.examined = evidence[p].examined
            /\ written.analysis = evidence[p].analysis /\ written.outcome = evidence[p].outcome
        BY <1>a DEF Evidence
      <4>2. Write(p, written)
        BY <3>2 DEF Link
      <4> HIDE DEF written
      <4> QED
        BY <4>1, <4>2
    <3> QED
      BY <1>6, <3>1, <3>2
  <2>3. PICK step \in {"linking", "linked", "failing"} : Goto(p, step)
    BY <1>6 DEF Review, Link, ThenOr
  <2> QED
    BY <1>a, <2>1, <2>2, <2>3, FileKeeps DEF UnchangedRest, history
<1>7. CASE OpenRow(p) \/ ChangePhoto(p) \/ CloseRow(p)
  <2>1. /\ pc[p] \in {"linked", "applying"} /\ UNCHANGED <<checkpoint, store, clean, failures, drive>>
        /\ UNCHANGED <<authorized, pausePending, accepted, bounds>>
    BY <1>7 DEF OpenRow, ChangePhoto, CloseRow, UnchangedStore, UnchangedRest, history
  <2>2. PICK written \in Evidence :
          /\ written.examined = evidence[p].examined
          /\ written.analysis = evidence[p].analysis /\ written.outcome = evidence[p].outcome
          /\ evidence' = [evidence EXCEPT ![p] = written]
    <3>1. CASE ChangePhoto(p)
      <4>1. evidence' = [evidence EXCEPT ![p] = evidence[p]]
        BY <1>a, <3>1 DEF ChangePhoto, UnchangedStore
      <4> QED
        BY <1>a, <4>1
    <3>2. CASE OpenRow(p) \/ CloseRow(p)
      <4>1. PICK row \in {"writing", "verified", "uncertain", "noop", "failed"} :
              evidence' = [evidence EXCEPT ![p] = [evidence[p] EXCEPT !.row = row]]
        BY <3>2 DEF OpenRow, CloseRow
      <4> DEFINE written == [evidence[p] EXCEPT !.row = row]
      <4>2. /\ written \in Evidence /\ written.examined = evidence[p].examined
            /\ written.analysis = evidence[p].analysis /\ written.outcome = evidence[p].outcome
        BY <1>a DEF Evidence
      <4>3. evidence' = [evidence EXCEPT ![p] = written]
        BY <4>1
      <4> HIDE DEF written
      <4> QED
        BY <4>2, <4>3
    <3> QED
      BY <1>7, <3>1, <3>2
  <2>3. Write(p, written)
    BY <2>1, <2>2 DEF Write
  <2>4. PICK step \in {"applying", "receipt"} : Goto(p, step)
    <3>1. CASE ChangePhoto(p)
      <4>1. pc' = [pc EXCEPT ![p] = "applying"]
        BY <1>a, <3>1 DEF ChangePhoto
      <4> QED
        BY <4>1 DEF Goto
    <3>2. CASE OpenRow(p) \/ CloseRow(p)
      BY <3>2 DEF OpenRow, CloseRow
    <3> QED
      BY <1>7, <3>1, <3>2
  <2> QED
    BY <1>a, <2>1, <2>2, <2>3, <2>4, FileKeeps
<1>8. CASE ReleaseUnadmitted(p)
  <2>1. /\ Release(p) /\ UnchangedRest /\ pc[p] = "paused"
        /\ \E step \in {"idle", "failing"} : Goto(p, step)
        /\ IF Published THEN LeaveGate ELSE UNCHANGED drive
    BY <1>8 DEF ReleaseUnadmitted, ThenOr
  <2>2. PICK step \in {"idle", "failing"} : Goto(p, step)
    BY <2>1
  <2>3. store' \in Stored
    <3> DEFINE s == [store EXCEPT !.inFlight = store.inFlight \ {p},
                       !.ledger.state = IF @ = "pausing" /\ store.inFlight \ {p} = {}
                                        THEN "paused" ELSE @]
    <3>1. Mutate(p, evidence[p], s)
      BY <2>1 DEF Release
    <3>2. s \in Stored /\ s.phase = store.phase
      BY <1>a DEF Stored, Checkpoint
    <3> HIDE DEF s
    <3> QED
      BY <1>a, <3>1, <3>2, MutationEffect DEF StoreTyped
  <2>4. PositionGoes(p) /\ pc'[p] = step
    BY <1>a, <2>1, <2>2, <2>3, GateGoes DEF Goto
  <2>5. store.authorization = 0
    BY <1>a, <2>1 DEF LedgerInv, Stopped
  <2> QED
    BY <2>1, <2>2, <2>4, <2>5, ReleasingKeeps
<1> QED
  BY <1>1, <1>2, <1>3, <1>4, <1>5, <1>6, <1>7, <1>8, EnteringKeeps DEF Gate

-----------------------------------------------------------------------------
(***************************************************************************)
(* The thread, the controls and the death of the helper, once more.        *)
(***************************************************************************)

LEMMA ExaminingPasses ==
  ASSUME PassedIsSettled, OutcomesStay, drive \in Drives, NEW p \in Pending, \A q \in Pending : p <= q,
         drive.alive, ~drive.broken, drive.generation = "open",
         drive'.cursor = p + 1, store'.authorization \in {0, store.authorization},
         \A q \in Position \ {p} : pc'[q] = pc[q], pc'[p] # "idle" \/ drive'.broken
  PROVE  PassedIsSettled'
<1>1. ASSUME NEW q \in Position, q < p + 1, pc'[q] = "idle", evidence'[q].outcome = "none",
             ~drive'.broken
      PROVE  store'.authorization = 0
  <2>1. q # p /\ p \in Position
    BY <1>1 DEF Pending
  <2>2. pc[q] = "idle" /\ evidence[q].outcome = "none"
    BY <1>1, <2>1 DEF OutcomesStay
  <2>3. q < drive.cursor
    <3>1. q \in Nat /\ p \in Nat /\ q < p
      BY <1>1, <2>1, CampaignConstants DEF Position
    <3>2. q \notin Pending
      BY <3>1
    <3>3. ~(q >= drive.cursor)
      BY <2>2, <3>2 DEF Pending
    <3>4. drive.cursor \in Nat
      BY CampaignConstants DEF Drives
    <3> QED
      BY <3>1, <3>3, <3>4
  <2>4. store.authorization = 0
    BY <2>2, <2>3 DEF PassedIsSettled
  <2> QED
    BY <2>4
<1> QED
  BY <1>1 DEF PassedIsSettled

LEMMA ExamineLedger == ASSUME Settled, Examine PROVE LedgerInv'
<1>a. /\ TypeOK /\ LedgerInv /\ drive.alive /\ ~drive.broken /\ drive.generation = "open"
      /\ UNCHANGED <<authorized, pausePending, accepted, bounds>>
      /\ store \in Stored /\ drive \in Drives /\ pc \in [Position -> Steps]
      /\ evidence \in [Position -> Evidence] /\ store.ledger \in Checkpoint
      /\ checkpoint \in Checkpoint /\ failures \in 0..MaxFailures /\ clean \in BOOLEAN
  BY TypesNow DEF Settled, LedgerInv, Examine, MayExamine, history
<1>1. PICK p \in Pending :
        /\ \A q \in Pending : p <= q
        /\ MarkExamined(p)
        /\ drive' = [drive EXCEPT !.cursor = p + 1, !.broken = CapacityFull(p) \/ ~Published]
        /\ IF CapacityFull(p) THEN UNCHANGED pc ELSE ThenOr(p, "submitted", "idle")
  BY DEF Examine
<1>2. p \in Position /\ evidence[p] \in Evidence /\ p + 1 \in 1..Total + 1
  BY <1>a, <1>1, CampaignConstants DEF Pending, Position
<1>3. /\ DriveGoes /\ drive'.cursor = p + 1 /\ drive'.generation = drive.generation
      /\ drive'.broken <=> CapacityFull(p) \/ ~Published
  <2>1. PICK b \in BOOLEAN : b = (CapacityFull(p) \/ ~Published)
    OBVIOUS
  <2>2. drive' = [drive EXCEPT !.cursor = p + 1, !.broken = b]
    BY <1>1, <2>1
  <2>3. DriveGoes /\ drive'.cursor = p + 1 /\ drive'.generation = drive.generation
        /\ drive'.broken = b
    BY <1>a, <1>2, <2>2 DEF DriveGoes, Drives
  <2> QED
    BY <2>1, <2>3
<1>4. /\ \A q \in Position \ {p} : pc'[q] = pc[q]
      /\ pc'[p] \in {"submitted", "idle"} \/ pc'[p] = pc[p]
      /\ pc'[p] # "idle" \/ drive'.broken
      /\ CapacityFull(p) => pc' = pc
      /\ ~CapacityFull(p) => pc'[p] = IF Published THEN "submitted" ELSE "idle"
  <2>1. CASE CapacityFull(p)
    BY <1>1, <1>3, <2>1
  <2>2. CASE ~CapacityFull(p)
    BY <1>a, <1>1, <1>2, <1>3, <2>2 DEF ThenOr, Goto
  <2> QED
    BY <2>1, <2>2
<1>5. ASSUME LedgerInv, clean, OutcomesStay, store'.authorization \in {0, store.authorization}
      PROVE  PassedIsSettled'
  <2>1. PassedIsSettled
    BY <1>a, <1>5 DEF LedgerInv, Exact, OnlyLoadedWorks
  <2> QED
    BY <1>a, <1>1, <1>3, <1>4, <1>5, <2>1, ExaminingPasses
<1>6. CASE p \in store.inFlight \/ CapacityFull(p)
  <2>1. UNCHANGED <<evidence, checkpoint, store, failures, clean>>
    BY <1>1, <1>6 DEF MarkExamined
  <2>2. StoreTyped
    BY <1>a, <2>1 DEF StoreTyped
  <2>3. TypeOK'
    <3>1. authorized' \subseteq 1..MaxActivations /\ pausePending' \in BOOLEAN
      BY <1>a DEF TypeOK
    <3> QED
      BY <1>a, <1>3, <2>2, <3>1, TypesNext DEF Settled, DriveGoes
  <2>4. Behind(store.ledger)' /\ Behind(checkpoint)'
    BY <1>a, <2>1 DEF LedgerInv, Behind, CountsOf
  <2>5. OnlyLoadedWorks' /\ AdmissionRuns' /\ CompletedIsSettled'
    BY <1>a, <1>3, <2>1
    DEF LedgerInv, OnlyLoadedWorks, AdmissionRuns, CompletedIsSettled, DriveGoes
  <2>6. pc'[p] = pc[p] \/ pc'[p] = "submitted"
    BY <1>4, <2>1 DEF Published
  <2>7. Stopped'
    BY <1>a, <1>3, <1>4, <2>1, <2>6 DEF LedgerInv, Stopped
  <2>8. Exact'
    <3> SUFFICES ASSUME clean, store.phase # "status"
                 PROVE  /\ \A c \in Counters : store.ledger.count[c] = CountsOf(evidence)[c]
                        /\ InFlightWorks' /\ PassedIsSettled'
      BY <1>a, <1>3, <2>1 DEF Exact, CountsOf, DriveGoes
    <3>1. /\ \A c \in Counters : store.ledger.count[c] = CountsOf(evidence)[c]
          /\ InFlightWorks
      BY <1>a DEF LedgerInv, Exact
    <3>2. PassedIsSettled'
      BY <1>a, <1>5, <2>1 DEF OutcomesStay
    <3>3. InFlightWorks'
      <4>1. store.inFlight \in SUBSET Position
        BY <1>a DEF Stored
      <4> QED
        BY <1>4, <2>1, <2>6, <3>1, <4>1 DEF InFlightWorks
    <3> QED
      BY <3>1, <3>2, <3>3
  <2> QED
    BY <2>3, <2>4, <2>5, <2>7, <2>8 DEF LedgerInv
<1>7. CASE ~(p \in store.inFlight \/ CapacityFull(p))
  <2> DEFINE written == [evidence[p] EXCEPT !.examined = TRUE]
  <2> DEFINE ledger == Examined(p)
  <2> DEFINE s == [store EXCEPT !.inFlight = store.inFlight \cup {p}, !.ledger = ledger]
  <2>1. Mutate(p, written, s)
    BY <1>1, <1>7 DEF MarkExamined
  <2>2. /\ written \in Evidence /\ written.examined /\ written.analysis = evidence[p].analysis
        /\ written.outcome = evidence[p].outcome
    BY <1>2 DEF Evidence
  <2> HIDE DEF written
  <2>3. /\ Grows(evidence[p], written) /\ "examined" \in Counters
        /\ \A c \in Counters : Gains(evidence[p], written, c) =
             IF c = "examined" /\ ~evidence[p].examined THEN 1 ELSE 0
    BY <2>2 DEF Grows, Gains, Has, Outcomes, Counters
  <2>4. /\ ledger \in Checkpoint /\ ledger.state = store.ledger.state
        /\ \A c \in Counters :
             ledger.count[c] = store.ledger.count[c] + Gains(evidence[p], written, c)
    <3>1. store.ledger.count \in [Counters -> 0..Total]
      BY <1>a DEF Checkpoint
    <3>2. CASE evidence[p].examined
      <4>1. ledger = store.ledger
        BY <3>2 DEF Examined
      <4>2. \A c \in Counters : Gains(evidence[p], written, c) = 0
        BY <2>3, <3>2
      <4> QED
        BY <1>a, <3>1, <4>1, <4>2, CampaignConstants
    <3>3. CASE ~evidence[p].examined
      <4>1. ledger = Counted(store.ledger, "examined")
        BY <3>3 DEF Examined
      <4>2. Gains(evidence[p], written, "examined") = 1
        BY <2>3, <3>3
      <4>3. /\ ledger \in Checkpoint /\ ledger.state = store.ledger.state
            /\ ledger.count = [store.ledger.count EXCEPT !["examined"] = @ + 1]
        <5>1. /\ LedgerInv /\ p \in Position /\ written \in Evidence /\ "examined" \in Counters
              /\ Grows(evidence[p], written) /\ Gains(evidence[p], written, "examined") = 1
          BY <1>a, <1>2, <2>2, <2>3, <4>2
        <5> HIDE DEF ledger
        <5>2. /\ Counted(store.ledger, "examined") \in Checkpoint
              /\ Counted(store.ledger, "examined").state = store.ledger.state
              /\ Counted(store.ledger, "examined").count
                   = [store.ledger.count EXCEPT !["examined"] = @ + 1]
          BY <5>1, CountedFits
        <5> QED
          BY <4>1, <5>2
      <4>4. \A c \in Counters : Gains(evidence[p], written, c) = IF c = "examined" THEN 1 ELSE 0
        BY <2>3, <3>3
      <4> HIDE DEF ledger
      <4> QED
        BY <3>1, <4>3, <4>4, CampaignConstants
    <3> QED
      BY <3>2, <3>3
  <2> HIDE DEF ledger
  <2>5. /\ s \in Stored /\ s.phase = store.phase /\ s.ledger = ledger
        /\ s.inFlight = store.inFlight \cup {p} /\ s.failure = store.failure
        /\ s.authorization = store.authorization
    BY <1>a, <1>2, <2>4 DEF Stored
  <2> HIDE DEF s
  <2>6. s.authorization # 0 => s.ledger.state = "running" /\ s.failure = "none"
    BY <1>a, <2>4, <2>5 DEF LedgerInv, AdmissionRuns
  <2>7. failures' = failures /\ clean => PassedIsSettled'
    <3> SUFFICES ASSUME failures' = failures, clean PROVE PassedIsSettled'
      OBVIOUS
    <3>1. Saved(p, written, s)
      BY <1>a, <1>2, <2>1, <2>2, <2>5, MutationEffect DEF Raised
    <3>2. OutcomesStay /\ store'.authorization = store.authorization
      BY <1>a, <1>2, <2>2, <2>5, <3>1 DEF OutcomesStay, Saved
    <3> QED
      BY <1>a, <1>5, <3>2
  <2>8. pc'[p] \in {"submitted", "idle"} /\ (failures' = failures => pc'[p] = "submitted")
    BY <1>4, <1>7 DEF Published
  <2> QED
    BY <1>a, <1>2, <1>3, <1>4, <2>1, <2>2, <2>3, <2>4, <2>5, <2>6, <2>7, <2>8, MutationKeeps
<1> QED
  BY <1>6, <1>7

\* The converse of AllSettled.
LEMMA SettledCounts ==
  ASSUME NEW files \in [Position -> Evidence], \A p \in Position : files[p].outcome # "none"
  PROVE  CountsOf(files)["saved"] + CountsOf(files)["no_change"]
           + CountsOf(files)["attention"] = Total
<1> DEFINE A == With(files, "saved")
<1> DEFINE B == With(files, "no_change")
<1> DEFINE C == With(files, "attention")
<1>1. /\ CountsOf(files)["saved"] = Cardinality(A) /\ CountsOf(files)["no_change"] = Cardinality(B)
      /\ CountsOf(files)["attention"] = Cardinality(C)
  BY CountsAre DEF Counters, Outcomes
<1>2. \A S \in {A, B, C} : IsFiniteSet(S) /\ Cardinality(S) \in Nat
  BY Positions DEF With
<1>3. A \cap B = {} /\ (A \cup B) \cap C = {}
  BY DEF With, Has, Outcomes
<1>4. A \cup B \cup C = Position
  BY DEF With, Has, Outcomes, Evidence
<1> HIDE DEF A, B, C
<1>5. IsFiniteSet(A \cup B) /\ Cardinality(A \cup B) = Cardinality(A) + Cardinality(B)
  <2>1. IsFiniteSet(A) /\ IsFiniteSet(B) /\ Cardinality(A) \in Nat /\ Cardinality(B) \in Nat
    BY <1>2
  <2>2. /\ IsFiniteSet(A \cup B)
        /\ Cardinality(A \cup B) = Cardinality(A) + Cardinality(B) - Cardinality(A \cap B)
    BY <2>1, FS_Union
  <2>3. Cardinality(A \cap B) = 0
    BY <1>3, FS_EmptySet
  <2> QED
    BY <2>1, <2>2, <2>3
<1>6. Cardinality(A \cup B \cup C) = Cardinality(A) + Cardinality(B) + Cardinality(C)
  <2>1. IsFiniteSet(C) /\ Cardinality(C) \in Nat /\ Cardinality(A) \in Nat /\ Cardinality(B) \in Nat
    BY <1>2
  <2>2. Cardinality(A \cup B \cup C)
          = Cardinality(A \cup B) + Cardinality(C) - Cardinality((A \cup B) \cap C)
    BY <1>5, <2>1, FS_Union
  <2>3. Cardinality((A \cup B) \cap C) = 0
    BY <1>3, FS_EmptySet
  <2> QED
    BY <1>5, <2>1, <2>2, <2>3
<1> QED
  BY <1>1, <1>4, <1>6, Positions

\* A control or an end of the thread writes no position.
LEMMA ControlLedger ==
  ASSUME LedgerInv, CampaignInv', StoreTyped, drive' \in Drives, pausePending' \in BOOLEAN,
         authorized' \subseteq 1..MaxActivations,
         accepted' \in {"none", "activation", "pause"}, activations' \in 0..MaxActivations,
         pauses' \in 0..MaxPauses, crashes' \in 0..MaxCrashes, evidence' = evidence,
         store'.ledger.count \in {store.ledger.count, checkpoint.count},
         checkpoint'.count \in {store.ledger.count, checkpoint.count},
         OnlyLoadedWorks', AdmissionRuns', CompletedIsSettled', Stopped',
         clean' /\ store'.phase # "status" =>
           /\ clean /\ store.phase # "status" /\ store'.ledger.count = store.ledger.count
           /\ InFlightWorks' /\ PassedIsSettled'
           /\ ~drive'.alive => store'.ledger.state \in {"paused", "completed"}
  PROVE  LedgerInv'
<1>1. TypeOK'
  <2>1. /\ evidence' \in [Position -> Evidence] /\ pc' \in [Position -> Steps]
        /\ applies' \in [Position -> Nat] /\ changed' \subseteq Position
    BY DEF CampaignInv, Types
  <2> QED
    BY <2>1 DEF TypeOK, StoreTyped, Stored, Drives
<1>2. Behind(store.ledger)' /\ Behind(checkpoint)'
  <2>1. \A c \in Counters : /\ store'.ledger.count[c] <= CountsOf(evidence')[c]
                            /\ checkpoint'.count[c] <= CountsOf(evidence')[c]
    BY DEF LedgerInv, Behind
  <2> QED
    BY <2>1 DEF Behind, CountsOf
<1>3. Exact'
  <2> SUFFICES ASSUME clean', store'.phase # "status"
               PROVE  \A c \in Counters : store'.ledger.count[c] = CountsOf(evidence')[c]
    BY DEF Exact, CountsOf
  <2> QED
    BY DEF LedgerInv, Exact
<1> QED
  BY <1>1, <1>2, <1>3 DEF LedgerInv

LEMMA NothingInFlight ==
  ASSUME CampaignInv, LedgerInv, Idle, clean, store.phase # "status"
  PROVE  store.inFlight = {}
BY TypesNow DEF LedgerInv, Exact, InFlightWorks, Idle

\* The thread ends without a word only after a write raised.
LEMMA UnsaidIsUnclean ==
  ASSUME LedgerInv, drive.alive, ~drive.broken, Idle, ~MayExamine, EndsUnsaid
  PROVE  ~clean
<1> SUFFICES ASSUME clean PROVE FALSE
  OBVIOUS
<1>1. /\ store.phase = "loaded" /\ store.ledger.state = "running"
      /\ drive.generation = "open" /\ store.authorization # 0
  BY DEF LedgerInv, OnlyLoadedWorks, AdmissionRuns, EndsUnsaid
<1>2. Pending = {}
  BY <1>1 DEF MayExamine
<1>3. PassedIsSettled /\ \A c \in Counters : store.ledger.count[c] = CountsOf(evidence)[c]
  BY <1>1 DEF LedgerInv, Exact
<1>4. ASSUME NEW p \in Position PROVE evidence[p].outcome # "none"
  <2>1. p \in Nat /\ drive.cursor \in Nat
    BY TypesNow, CampaignConstants DEF LedgerInv, Position, Drives
  <2>2. CASE p >= drive.cursor
    BY <1>2, <2>2 DEF Pending
  <2>3. CASE p < drive.cursor
    BY <1>1, <1>3, <2>3 DEF PassedIsSettled, Idle
  <2> QED
    BY <2>1, <2>2, <2>3
<1>5. store.ledger.count["saved"] + store.ledger.count["no_change"]
        + store.ledger.count["attention"] = Total
  <2>1. evidence \in [Position -> Evidence]
    BY TypesNow DEF LedgerInv
  <2>2. {"saved", "no_change", "attention"} \subseteq Counters
    BY DEF Counters, Outcomes
  <2> QED
    BY <1>3, <1>4, <2>1, <2>2, SettledCounts
<1> QED
  BY <1>5, CampaignConstants DEF EndsUnsaid, Unsettled

\* FinalLedger: what the thread says of the campaign as it ends.
LEMMA FinalIsTrue ==
  ASSUME LedgerInv
  PROVE  /\ FinalLedger \in Checkpoint /\ FinalLedger.count = store.ledger.count
         /\ FinalLedger.state \in {"paused", "completed"}
         /\ FinalLedger.state = "completed" => \A p \in Position : evidence[p].outcome # "none"
<1>1. store.ledger \in Checkpoint /\ drive.failure \in Reasons
  BY TypesNow DEF LedgerInv, Drives, Reasons
<1>2. /\ FinalLedger \in Checkpoint /\ FinalLedger.count = store.ledger.count
      /\ FinalLedger.state \in {"paused", "completed"}
      /\ FinalLedger.state = "completed" => Unsettled(store.ledger) = 0
  BY <1>1 DEF FinalLedger, Checkpoint, Reasons
<1>3. ASSUME Unsettled(store.ledger) = 0 PROVE \A p \in Position : evidence[p].outcome # "none"
  <2>1. store.ledger.count \in [Counters -> 0..Total]
    BY <1>1 DEF Checkpoint
  <2>2. {"saved", "no_change", "attention"} \subseteq Counters
    BY DEF Counters, Outcomes
  <2>3. /\ store.ledger.count["saved"] \in 0..Total /\ store.ledger.count["no_change"] \in 0..Total
        /\ store.ledger.count["attention"] \in 0..Total
    BY <2>1, <2>2
  <2>4. store.ledger.count["saved"] + store.ledger.count["no_change"]
          + store.ledger.count["attention"] = Total
    <3>1. \A x, y, z \in 0..Total : Total - (x + y + z) = 0 => x + y + z = Total
      BY CampaignConstants
    <3>2. Total - (store.ledger.count["saved"] + store.ledger.count["no_change"]
                     + store.ledger.count["attention"]) = 0
      BY <1>3 DEF Unsettled
    <3> QED
      BY <2>3, <3>1, <3>2
  <2> QED
    BY <2>1, <2>4, AllSettled DEF LedgerInv, Behind
<1> QED
  BY <1>2, <1>3

LEMMA DriveEndsLedger == ASSUME Settled, DriveEnds PROVE LedgerInv'
<1>a. /\ TypeOK /\ LedgerInv /\ drive.alive /\ ~drive.broken /\ Idle /\ ~MayExamine
      /\ evidence' = evidence
      /\ UNCHANGED <<authorized, pc, pausePending, accepted, activations, pauses, crashes>>
      /\ store \in Stored /\ drive \in Drives /\ checkpoint \in Checkpoint
      /\ Cardinality(store.inFlight) \in 0..Total /\ failures \in 0..MaxFailures
      /\ clean \in BOOLEAN /\ store.phase = "loaded"
  BY TypesNow DEF Settled, LedgerInv, DriveEnds, history, bounds, OnlyLoadedWorks
<1>b. /\ drive' \in Drives /\ ~drive'.alive /\ drive'.generation = drive.generation
  BY <1>a DEF DriveEnds, Drives
<1>c. /\ pausePending' \in BOOLEAN /\ authorized' \subseteq 1..MaxActivations
      /\ accepted' \in {"none", "activation", "pause"} /\ activations' \in 0..MaxActivations
      /\ pauses' \in 0..MaxPauses /\ crashes' \in 0..MaxCrashes
  BY <1>a DEF TypeOK
<1>d. Stopped'
  BY <1>a DEF Idle, Stopped
<1>e. PassedIsSettled'
  BY <1>b DEF PassedIsSettled
<1>1. CASE EndsUnsaid
  <2>1. UNCHANGED <<checkpoint, store, failures, clean>> /\ ~clean
    BY <1>a, <1>1, UnsaidIsUnclean DEF DriveEnds
  <2>2. StoreTyped
    BY <1>a, <2>1 DEF StoreTyped
  <2>3. OnlyLoadedWorks' /\ AdmissionRuns' /\ CompletedIsSettled'
    BY <1>a, <1>b, <2>1 DEF LedgerInv, OnlyLoadedWorks, AdmissionRuns, CompletedIsSettled
  <2> QED
    BY <1>a, <1>b, <1>c, <1>d, <2>1, <2>2, <2>3, ControlLedger DEF Settled
<1>2. CASE store' = [store EXCEPT !.authorization = 0,
                       !.ledger = [FinalLedger EXCEPT !.in_flight = Cardinality(store.inFlight)]]
           /\ checkpoint' = store'.ledger /\ UNCHANGED <<failures, clean>>
  <2> DEFINE ledger == [FinalLedger EXCEPT !.in_flight = Cardinality(store.inFlight)]
  <2>1. /\ ledger \in Checkpoint /\ ledger.count = store.ledger.count
        /\ ledger.state \in {"paused", "completed"}
        /\ ledger.state = "completed" => \A p \in Position : evidence[p].outcome # "none"
    <3> HIDE DEF ledger
    <3>1. FinalLedger \in Checkpoint
      BY <1>a, FinalIsTrue
    <3>2. /\ ledger \in Checkpoint /\ ledger.count = FinalLedger.count
          /\ ledger.state = FinalLedger.state
      BY <1>a, <3>1 DEF ledger, Checkpoint
    <3> QED
      BY <1>a, <3>2, FinalIsTrue
  <2>0. store' = [store EXCEPT !.authorization = 0, !.ledger = ledger]
    BY <1>2
  <2> HIDE DEF ledger
  <2>2. /\ store' \in Stored /\ store'.phase = store.phase /\ store'.inFlight = store.inFlight
        /\ store'.authorization = 0 /\ store'.ledger = ledger
    <3>1. store \in Stored /\ 0 \in 0..MaxActivations
      BY <1>a, CampaignConstants
    <3> QED
      BY <2>0, <2>1, <3>1 DEF Stored
  <2>3. StoreTyped
    BY <1>a, <1>2, <2>1, <2>2 DEF StoreTyped
  <2>4. OnlyLoadedWorks' /\ AdmissionRuns' /\ CompletedIsSettled'
    BY <1>a, <1>b, <2>1, <2>2
    DEF LedgerInv, OnlyLoadedWorks, AdmissionRuns, CompletedIsSettled
  <2>5. clean' => InFlightWorks'
    BY <1>a, <1>2, <2>2 DEF LedgerInv, Exact, InFlightWorks
  <2> QED
    BY <1>a, <1>b, <1>c, <1>d, <1>e, <1>2, <2>1, <2>2, <2>3, <2>4, <2>5, ControlLedger DEF Settled
<1>3. CASE /\ failures < MaxFailures
           /\ FailClosed([store EXCEPT !.authorization = 0], "storage", 1)
  <2> DEFINE s == [store EXCEPT !.authorization = 0]
  <2>1. /\ s \in Stored /\ s.phase = store.phase /\ s.inFlight = store.inFlight
        /\ s.ledger = store.ledger
    BY <1>a, CampaignConstants DEF Stored
  <2>2. FailClosed(s, "storage", 1)
    BY <1>3
  <2> HIDE DEF s
  <2>3. ClosedStore(s, 1)
    BY <1>a, <1>3, <2>1, <2>2, ClosedEffect
  <2>4. StoreTyped
    BY <2>3 DEF ClosedStore, StoreTyped
  <2>5. OnlyLoadedWorks' /\ AdmissionRuns' /\ CompletedIsSettled'
    BY <1>a, <1>b, <2>1, <2>3
    DEF LedgerInv, OnlyLoadedWorks, AdmissionRuns, CompletedIsSettled, ClosedStore
  <2> QED
    BY <1>a, <1>b, <1>c, <1>d, <2>1, <2>3, <2>4, <2>5, ControlLedger DEF ClosedStore, Settled
<1> QED
  BY <1>1, <1>2, <1>3 DEF DriveEnds

LEMMA DriveBreaksLedger == ASSUME Settled, DriveBreaks PROVE LedgerInv'
<1>a. /\ TypeOK /\ LedgerInv /\ CampaignInv /\ Idle /\ evidence' = evidence
      /\ UNCHANGED <<authorized, pc, pausePending, accepted, activations, pauses, crashes>>
      /\ store \in Stored /\ drive \in Drives /\ store.phase = "loaded"
      /\ failures \in 0..MaxFailures /\ FailClosed(store, "storage", 0)
  BY TypesNow DEF Settled, LedgerInv, DriveBreaks, history, bounds, OnlyLoadedWorks
<1>1. /\ drive' \in Drives /\ ~drive'.alive /\ drive'.generation = "revoked"
  BY <1>a DEF DriveBreaks, Drives
<1>2. ClosedStore(store, 0)
  BY <1>a, ClosedEffect
<1>3. StoreTyped /\ store'.ledger.count = store.ledger.count
      /\ checkpoint'.count \in {store.ledger.count, checkpoint.count}
  BY <1>2 DEF ClosedStore, StoreTyped
<1>4. OnlyLoadedWorks' /\ AdmissionRuns' /\ CompletedIsSettled' /\ Stopped'
  BY <1>a, <1>1, <1>2
  DEF LedgerInv, OnlyLoadedWorks, AdmissionRuns, CompletedIsSettled, Stopped, Idle, ClosedStore
<1>5. PassedIsSettled'
  BY <1>1 DEF PassedIsSettled
<1>6. ASSUME clean'
      PROVE  clean /\ InFlightWorks' /\ store'.ledger.state = "paused"
  <2>1. clean /\ store'.inFlight = store.inFlight
        /\ store'.ledger.state = Stopping(store.inFlight)
    BY <1>2, <1>6 DEF ClosedStore
  <2>2. store.inFlight = {}
    BY <1>a, <2>1, NothingInFlight
  <2> QED
    BY <2>1, <2>2 DEF Stopping, InFlightWorks
<1>7. /\ pausePending' \in BOOLEAN /\ authorized' \subseteq 1..MaxActivations
      /\ accepted' \in {"none", "activation", "pause"} /\ activations' \in 0..MaxActivations
      /\ pauses' \in 0..MaxPauses /\ crashes' \in 0..MaxCrashes
  BY <1>a DEF TypeOK
<1> QED
  BY <1>a, <1>1, <1>3, <1>4, <1>5, <1>6, <1>7, ControlLedger DEF Settled

LEMMA ActivateLedger == ASSUME Settled, Activate PROVE LedgerInv'
<1> DEFINE n == activations + 1
<1> DEFINE s == [store EXCEPT !.phase = "loaded"]
<1>a. /\ TypeOK /\ LedgerInv /\ CampaignInv /\ Idle /\ evidence' = evidence
      /\ UNCHANGED <<pc, pausePending, pauses, crashes>>
      /\ accepted' = "activation" /\ activations' = n /\ n \in 1..MaxActivations
      /\ ~drive.alive /\ store.phase \in {"none", "loaded"}
      /\ store \in Stored /\ drive \in Drives /\ checkpoint \in Checkpoint
      /\ Cardinality(store.inFlight) \in 0..Total
      /\ failures \in 0..MaxFailures /\ clean \in BOOLEAN /\ Authorize(n, s)
  <2>1. activations \in 0..MaxActivations /\ activations < MaxActivations
    BY DEF Activate, Settled, LedgerInv, TypeOK
  <2>2. n \in 1..MaxActivations
    BY <2>1, CampaignConstants
  <2> HIDE DEF n, s
  <2>3. Authorize(n, s) /\ activations' = n
    BY DEF Activate, n, s
  <2> QED
    BY <2>2, <2>3, TypesNow DEF Settled, LedgerInv, CampaignInv, NoThreadNoWork, Activate
<1>b. /\ s \in Stored /\ s.phase = "loaded" /\ s.ledger = store.ledger
      /\ s.inFlight = store.inFlight
  BY <1>a DEF Stored
<1> HIDE DEF n, s
<1>c. /\ pausePending' \in BOOLEAN /\ accepted' \in {"none", "activation", "pause"}
      /\ activations' \in 0..MaxActivations /\ pauses' \in 0..MaxPauses
      /\ crashes' \in 0..MaxCrashes
  BY <1>a, CampaignConstants DEF TypeOK
<1>d. Stopped'
  BY <1>a DEF Stopped, Idle
<1> DEFINE ledger == [s.ledger EXCEPT !.state = "running", !.reason = "none",
                                      !.in_flight = Cardinality(s.inFlight)]
<1>1. CASE /\ authorized' = authorized \cup {n}
           /\ store' = [s EXCEPT !.authorization = n, !.failure = "none", !.ledger = ledger]
           /\ checkpoint' = ledger /\ drive' = NewDrive /\ UNCHANGED <<failures, clean>>
  <2>1. /\ ledger \in Checkpoint /\ ledger.count = store.ledger.count
        /\ ledger.state = "running"
    <3>1. s.ledger \in Checkpoint /\ Cardinality(s.inFlight) \in 0..Total
      BY <1>a, <1>b DEF Stored
    <3> QED
      BY <1>b, <3>1 DEF Checkpoint, Reasons
  <2> HIDE DEF ledger
  <2>2. /\ store' \in Stored /\ store'.phase = "loaded" /\ store'.inFlight = store.inFlight
        /\ store'.failure = "none" /\ store'.ledger = ledger
    <3>1. n \in 0..MaxActivations
      BY <1>a, CampaignConstants
    <3> QED
      BY <1>b, <1>1, <2>1, <3>1 DEF Stored
  <2>3. drive' \in Drives /\ drive'.alive /\ drive'.cursor = 1
    BY <1>1, CampaignConstants DEF Drives, NewDrive
  <2>4. StoreTyped /\ authorized' \subseteq 1..MaxActivations
    <3>1. authorized \subseteq 1..MaxActivations
      BY <1>a DEF TypeOK
    <3> QED
      BY <1>a, <1>1, <2>1, <2>2, <3>1 DEF StoreTyped
  <2>5. OnlyLoadedWorks' /\ AdmissionRuns' /\ CompletedIsSettled'
    BY <2>1, <2>2, <2>3 DEF OnlyLoadedWorks, AdmissionRuns, CompletedIsSettled
  <2>6. PassedIsSettled'
    BY <2>3, CampaignConstants DEF PassedIsSettled, Position
  <2>7. clean' => clean /\ store.phase # "status" /\ InFlightWorks'
    BY <1>a, <1>1, <2>2 DEF LedgerInv, Exact, InFlightWorks
  <2>8. store'.ledger.count = store.ledger.count /\ checkpoint'.count = store.ledger.count
    BY <1>1, <2>1, <2>2
  <2> QED
    BY <1>a, <1>c, <1>d, <2>2, <2>3, <2>4, <2>5, <2>6, <2>7, <2>8, ControlLedger DEF Settled
<1>2. CASE /\ failures < MaxFailures /\ authorized' \in {authorized, authorized \cup {n}}
           /\ FailClosed(s, "storage", 1) /\ UNCHANGED drive
  <2>1. ClosedStore(s, 1)
    BY <1>a, <1>b, <1>2, ClosedEffect
  <2>2. StoreTyped /\ authorized' \subseteq 1..MaxActivations
    <3>1. authorized \subseteq 1..MaxActivations
      BY <1>a DEF TypeOK
    <3> QED
      BY <1>a, <1>2, <2>1, <3>1 DEF StoreTyped, ClosedStore
  <2>3. OnlyLoadedWorks' /\ AdmissionRuns' /\ CompletedIsSettled'
    BY <1>a, <1>b, <1>2, <2>1
    DEF OnlyLoadedWorks, AdmissionRuns, CompletedIsSettled, ClosedStore
  <2> QED
    BY <1>a, <1>b, <1>c, <1>d, <1>2, <2>1, <2>2, <2>3, ControlLedger DEF ClosedStore, Settled
<1> QED
  BY <1>a, <1>1, <1>2 DEF Authorize

LEMMA PauseLedger == ASSUME Settled, AdmitPause \/ RecordPause PROVE LedgerInv'
<1>a. /\ TypeOK /\ LedgerInv /\ CampaignInv /\ evidence' = evidence
      /\ UNCHANGED <<authorized, pc, activations, crashes>>
      /\ store \in Stored /\ drive \in Drives /\ checkpoint \in Checkpoint
      /\ store.ledger \in Checkpoint /\ Cardinality(store.inFlight) \in 0..Total
      /\ failures \in 0..MaxFailures /\ clean \in BOOLEAN /\ store.phase # "none"
  BY TypesNow
  DEF Settled, LedgerInv, AdmitPause, RecordPause, disk, history, bounds, OnlyLoadedWorks
<1>b. /\ authorized' \subseteq 1..MaxActivations /\ activations' \in 0..MaxActivations
      /\ crashes' \in 0..MaxCrashes
  BY <1>a DEF TypeOK
<1> DEFINE s == [store EXCEPT !.authorization = 0]
<1>c. /\ s \in Stored /\ s.phase = store.phase /\ s.inFlight = store.inFlight
      /\ s.ledger = store.ledger /\ s.authorization = 0
  BY <1>a, CampaignConstants DEF Stored
<1>1. CASE AdmitPause
  <2>1. store' = s /\ UNCHANGED <<checkpoint, failures, clean>>
    BY <1>1 DEF AdmitPause, disk
  <2> HIDE DEF s
  <2>2. /\ drive' \in Drives /\ drive'.alive = drive.alive /\ drive'.generation = "revoked"
    BY <1>1, <1>a DEF AdmitPause, Drives
  <2>3. /\ pausePending' \in BOOLEAN /\ accepted' \in {"none", "activation", "pause"}
        /\ pauses' \in 0..MaxPauses
    <3>1. pauses \in 0..MaxPauses /\ pauses < MaxPauses /\ pauses' = pauses + 1
      BY <1>1, <1>a DEF AdmitPause, TypeOK
    <3>2. pauses' \in 0..MaxPauses
      BY <3>1, CampaignConstants
    <3> QED
      BY <1>1, <3>2 DEF AdmitPause
  <2>4. StoreTyped
    BY <1>a, <1>c, <2>1 DEF StoreTyped
  <2>5. OnlyLoadedWorks' /\ AdmissionRuns' /\ CompletedIsSettled' /\ Stopped'
    BY <1>a, <1>c, <2>1, <2>2
    DEF LedgerInv, OnlyLoadedWorks, AdmissionRuns, CompletedIsSettled, Stopped
  <2>6. PassedIsSettled'
    BY <2>2 DEF PassedIsSettled
  <2>7. clean' /\ store'.phase # "status" =>
          /\ clean /\ store.phase # "status" /\ InFlightWorks'
          /\ ~drive'.alive => store'.ledger.state \in {"paused", "completed"}
    BY <1>a, <1>c, <2>1, <2>2 DEF LedgerInv, Exact, InFlightWorks
  <2> QED
    BY <1>a, <1>b, <1>c, <2>1, <2>2, <2>3, <2>4, <2>5, <2>6, <2>7, ControlLedger DEF Settled
<1>2. CASE RecordPause
  <2> DEFINE ledger == [s.ledger EXCEPT !.state = Stopping(s.inFlight), !.reason = "user_pause",
                                        !.in_flight = Cardinality(s.inFlight)]
  <2>1. /\ drive' = drive /\ ~pausePending' /\ pausePending' \in BOOLEAN
        /\ accepted' \in {"none", "activation", "pause"} /\ pauses' \in 0..MaxPauses
    BY <1>2, <1>a DEF RecordPause, TypeOK, history, bounds
  <2>2. \/ /\ store' = [s EXCEPT !.ledger = ledger] /\ checkpoint' = ledger
           /\ UNCHANGED <<failures, clean>>
        \/ failures < MaxFailures /\ FailClosed(s, "storage", 1)
    BY <1>2 DEF RecordPause
  <2> HIDE DEF s
  <2>3. CASE /\ store' = [s EXCEPT !.ledger = ledger] /\ checkpoint' = ledger
             /\ UNCHANGED <<failures, clean>>
    <3>1. /\ ledger \in Checkpoint /\ ledger.count = store.ledger.count
          /\ ledger.state = Stopping(store.inFlight) /\ ledger.state \in {"pausing", "paused"}
      <4>1. /\ s.ledger \in Checkpoint /\ Cardinality(s.inFlight) \in 0..Total
            /\ Stopping(s.inFlight) \in {"pausing", "paused"}
        BY <1>a, <1>c DEF Stopping
      <4> QED
        BY <1>c, <4>1 DEF Checkpoint, Reasons
    <3> HIDE DEF ledger
    <3>2. /\ store' \in Stored /\ store'.phase = store.phase /\ store'.authorization = 0
          /\ store'.inFlight = store.inFlight /\ store'.ledger = ledger
      BY <1>c, <2>3, <3>1 DEF Stored
    <3>3. StoreTyped
      BY <1>a, <2>3, <3>1, <3>2 DEF StoreTyped
    <3>4. OnlyLoadedWorks' /\ AdmissionRuns' /\ CompletedIsSettled' /\ Stopped'
      BY <1>a, <2>1, <3>1, <3>2
      DEF LedgerInv, OnlyLoadedWorks, AdmissionRuns, CompletedIsSettled, Stopped
    <3>5. PassedIsSettled'
      BY <3>2 DEF PassedIsSettled
    <3>6. ASSUME clean', store'.phase # "status"
          PROVE  /\ clean /\ store.phase # "status" /\ InFlightWorks'
                 /\ ~drive'.alive => store'.ledger.state \in {"paused", "completed"}
      <4>1. clean /\ store.phase # "status"
        BY <2>3, <3>2, <3>6
      <4>2. InFlightWorks'
        BY <1>a, <3>2, <4>1 DEF LedgerInv, Exact, InFlightWorks
      <4>3. ~drive.alive => store.inFlight = {}
        BY <1>a, <4>1, NothingInFlight DEF CampaignInv, NoThreadNoWork
      <4> QED
        BY <2>1, <3>1, <3>2, <4>1, <4>2, <4>3 DEF Stopping
    <3> QED
      BY <1>a, <1>b, <2>1, <2>3, <3>1, <3>2, <3>3, <3>4, <3>5, <3>6, ControlLedger DEF Settled
  <2>4. CASE failures < MaxFailures /\ FailClosed(s, "storage", 1)
    <3>1. ClosedStore(s, 1)
      BY <1>a, <1>c, <2>4, ClosedEffect
    <3>2. StoreTyped
      BY <3>1 DEF StoreTyped, ClosedStore
    <3>3. OnlyLoadedWorks' /\ AdmissionRuns' /\ CompletedIsSettled' /\ Stopped'
      BY <1>a, <1>c, <2>1, <3>1
      DEF LedgerInv, OnlyLoadedWorks, AdmissionRuns, CompletedIsSettled, Stopped, ClosedStore
    <3> QED
      BY <1>a, <1>b, <1>c, <2>1, <3>1, <3>2, <3>3, ControlLedger DEF ClosedStore, Settled
  <2> QED
    BY <2>2, <2>3, <2>4
<1> QED
  BY <1>1, <1>2

LEMMA CrashLedger == ASSUME Settled, Crash PROVE LedgerInv'
<1>a. /\ TypeOK /\ LedgerInv /\ evidence' = evidence
      /\ UNCHANGED <<checkpoint, authorized, accepted, clean, failures, activations, pauses>>
      /\ checkpoint \in Checkpoint /\ failures \in 0..MaxFailures /\ clean \in BOOLEAN
      /\ store' = LoadStatus /\ drive' = [NewDrive EXCEPT !.alive = FALSE]
      /\ pc' = [p \in Position |-> "idle"] /\ ~pausePending' /\ pausePending' \in BOOLEAN
  BY TypesNow DEF Settled, LedgerInv, Crash, disk, history
<1>1. /\ store' \in Stored /\ store'.phase = "status" /\ store'.inFlight = {}
      /\ store'.authorization = 0 /\ store'.ledger.count = checkpoint.count
      /\ store'.ledger.state = "paused"
  <2>1. 0 \in 0..MaxActivations
    BY CampaignConstants
  <2> QED
    BY <1>a, <2>1 DEF LoadStatus, Stored, Checkpoint, Reasons
<1>2. drive' \in Drives /\ ~drive'.alive
  <2>1. 1 \in 1..Total + 1
    BY CampaignConstants
  <2>2. drive' = [NewDrive EXCEPT !.alive = FALSE]
    BY <1>a
  <2> QED
    BY <2>1, <2>2 DEF Drives, NewDrive
<1>3. crashes' \in 0..MaxCrashes
  <2>1. crashes \in 0..MaxCrashes /\ crashes < MaxCrashes /\ crashes' = crashes + 1
    BY <1>a DEF Crash, TypeOK
  <2> QED
    BY <2>1, CampaignConstants
<1>4. /\ authorized' \subseteq 1..MaxActivations /\ accepted' \in {"none", "activation", "pause"}
      /\ activations' \in 0..MaxActivations /\ pauses' \in 0..MaxPauses
  BY <1>a DEF TypeOK
<1>5. StoreTyped
  BY <1>a, <1>1 DEF StoreTyped
<1>6. OnlyLoadedWorks' /\ AdmissionRuns' /\ CompletedIsSettled' /\ Stopped'
  BY <1>a, <1>1, <1>2 DEF OnlyLoadedWorks, AdmissionRuns, CompletedIsSettled, Stopped
<1> QED
  BY <1>a, <1>1, <1>2, <1>3, <1>4, <1>5, <1>6, ControlLedger DEF Settled

LEMMA ReconcileLedger == ASSUME Settled, Reconcile PROVE LedgerInv'
<1> DEFINE open == {p \in Position : evidence[p].decision # 0 /\ evidence[p].outcome = "none"}
<1>a. /\ TypeOK /\ LedgerInv /\ store.phase = "status" /\ ~drive.alive
      /\ UNCHANGED <<authorized, drive, pc, pausePending, history, bounds>>
      /\ store \in Stored /\ drive \in Drives /\ checkpoint \in Checkpoint
      /\ failures \in 0..MaxFailures /\ clean \in BOOLEAN /\ Idle
      /\ store.inFlight = {} /\ store.authorization = 0
      /\ evidence \in [Position -> Evidence] /\ evidence' \in [Position -> Evidence]
  BY TypesNow
  DEF Settled, LedgerInv, CampaignInv, Types, NoThreadNoWork, Reconcile, OnlyLoadedWorks
<1>b. authorized' \subseteq 1..MaxActivations /\ pausePending' \in BOOLEAN
  BY <1>a DEF TypeOK
<1>c. Stopped'
  BY <1>a DEF Stopped, Idle
<1>1. CASE /\ evidence' = RecoveredEvidence(open)
           /\ store' = [store EXCEPT !.phase = "loaded", !.ledger = Rebuilt(CountsOf(evidence'))]
           /\ checkpoint' = store'.ledger /\ clean' = TRUE /\ UNCHANGED failures
  <2> DEFINE ledger == Rebuilt(CountsOf(evidence'))
  <2>1. ledger \in Checkpoint /\ ledger.count = CountsOf(evidence') /\ ledger.state = "paused"
    <3>1. CountsOf(evidence') \in [Counters -> 0..Total] /\ 0 \in 0..Total
      BY CountsTyped, CampaignConstants
    <3> QED
      BY <3>1 DEF Rebuilt, Fresh, Checkpoint, Reasons
  <2>2. store' = [store EXCEPT !.phase = "loaded", !.ledger = ledger]
    BY <1>1
  <2> HIDE DEF ledger
  <2>3. /\ store' \in Stored /\ store'.phase = "loaded" /\ store'.ledger = ledger
        /\ store'.inFlight = {} /\ store'.authorization = 0
    BY <1>a, <2>1, <2>2 DEF Stored
  <2>4. StoreTyped
    BY <1>a, <1>1, <2>1, <2>3 DEF StoreTyped
  <2>5. TypeOK'
    BY <1>a, <1>b, <2>4, TypesNext DEF Settled, history
  <2>6. Behind(store.ledger)' /\ Behind(checkpoint)'
    <3>1. ASSUME NEW c \in Counters PROVE ledger.count[c] <= CountsOf(evidence')[c]
      <4>1. CountsOf(evidence')[c] \in 0..Total
        BY CountsTyped
      <4> QED
        BY <2>1, <4>1, CampaignConstants
    <3>2. \A c \in Counters : /\ store'.ledger.count[c] <= CountsOf(evidence')[c]
                              /\ checkpoint'.count[c] <= CountsOf(evidence')[c]
      BY <1>1, <2>3, <3>1
    <3> QED
      BY <3>2 DEF Behind, CountsOf
  <2>7. OnlyLoadedWorks' /\ AdmissionRuns' /\ CompletedIsSettled'
    BY <1>a, <2>1, <2>3 DEF OnlyLoadedWorks, AdmissionRuns, CompletedIsSettled
  <2>8. Exact'
    <3>1. \A c \in Counters : store'.ledger.count[c] = CountsOf(evidence')[c]
      BY <2>1, <2>3
    <3>2. InFlightWorks' /\ PassedIsSettled'
      BY <1>a, <2>3 DEF InFlightWorks, PassedIsSettled
    <3> QED
      BY <2>1, <2>3, <3>1, <3>2 DEF Exact, CountsOf
  <2> QED
    BY <1>c, <2>5, <2>6, <2>7, <2>8 DEF LedgerInv
<1>2. CASE /\ failures < MaxFailures /\ failures' = failures + 1
           /\ \E settled \in SUBSET open : evidence' = RecoveredEvidence(settled)
           /\ UNCHANGED <<store, checkpoint, clean>>
  <2>1. StoreTyped
    BY <1>a, <1>2, CampaignConstants DEF StoreTyped
  <2>2. TypeOK'
    BY <1>a, <1>b, <2>1, TypesNext DEF Settled, history
  <2>3. ASSUME NEW q \in Position PROVE Grows(evidence[q], evidence'[q])
    <3>1. PICK settled \in SUBSET open : evidence' = RecoveredEvidence(settled)
      BY <1>2
    <3>2. CASE q \in settled
      <4>1. evidence[q].outcome = "none" /\ evidence[q] \in Evidence
        BY <1>a, <3>2
      <4>2. evidence'[q] = [evidence[q] EXCEPT !.outcome = RecoverDecision(evidence[q])]
        BY <3>1, <3>2 DEF RecoveredEvidence
      <4>3. /\ evidence'[q].examined = evidence[q].examined
            /\ evidence'[q].analysis = evidence[q].analysis
        BY <4>1, <4>2 DEF Evidence
      <4> QED
        BY <4>1, <4>3 DEF Grows, Has, Outcomes
    <3>3. CASE q \notin settled
      BY <3>1, <3>3 DEF RecoveredEvidence, Grows
    <3> QED
      BY <3>2, <3>3
  <2>4. Behind(store.ledger)' /\ Behind(checkpoint)'
    <3>1. /\ store.ledger.count \in [Counters -> 0..Total]
          /\ checkpoint.count \in [Counters -> 0..Total]
      BY <1>a DEF Stored, Checkpoint
    <3>2. \A c \in Counters : store.ledger.count[c] <= CountsOf(evidence')[c]
      BY <1>a, <2>3, <3>1, StaysBehind DEF LedgerInv, Behind
    <3>3. \A c \in Counters : checkpoint.count[c] <= CountsOf(evidence')[c]
      BY <1>a, <2>3, <3>1, StaysBehind DEF LedgerInv, Behind
    <3> QED
      BY <1>2, <3>2, <3>3 DEF Behind, CountsOf
  <2>5. CompletedIsSettled'
    <3>1. OutcomesStay
      BY <1>a, <2>3, GrowingStays
    <3> QED
      BY <1>a, <1>2, <3>1 DEF LedgerInv, CompletedIsSettled, OutcomesStay
  <2>6. OnlyLoadedWorks' /\ AdmissionRuns' /\ Exact'
    BY <1>a, <1>2 DEF LedgerInv, OnlyLoadedWorks, AdmissionRuns, Exact
  <2> QED
    BY <1>c, <2>2, <2>4, <2>5, <2>6 DEF LedgerInv
<1> QED
  BY <1>1, <1>2 DEF Reconcile

LEMMA LedgerInit == Init => LedgerInv
<1> SUFFICES ASSUME Init PROVE LedgerInv
  OBVIOUS
<1>1. /\ 0 \in 0..MaxActivations /\ 0 \in 0..MaxFailures /\ 0 \in 0..MaxPauses
      /\ 0 \in 0..MaxCrashes /\ 0 \in 0..Total /\ 0 \in Nat /\ 1 \in 1..Total + 1
  BY CampaignConstants
<1>2. Fresh \in Checkpoint /\ Fresh.state = "paused" /\ \A c \in Counters : Fresh.count[c] = 0
  BY <1>1 DEF Fresh, Checkpoint, Reasons
<1>3. /\ store \in Stored /\ store.phase = "none" /\ store.inFlight = {}
      /\ store.authorization = 0 /\ store.ledger = Fresh
  BY <1>1, <1>2 DEF Init, Stored
<1>4. drive \in Drives /\ ~drive.alive
  BY <1>1 DEF Init, Drives, NewDrive
<1>5. TypeOK
  <2>1. NoEvidence \in Evidence /\ "idle" \in Steps
    BY <1>1 DEF NoEvidence, Evidence, Steps
  <2>2. evidence \in [Position -> Evidence] /\ pc \in [Position -> Steps]
    BY <2>1 DEF Init
  <2>3. checkpoint \in Checkpoint
    BY <1>2 DEF Init
  <2>4. applies \in [Position -> Nat]
    BY DEF Init
  <2> QED
    BY <1>1, <1>3, <1>4, <2>2, <2>3, <2>4 DEF Init, TypeOK, Stored, Drives
<1>6. ASSUME NEW c \in Counters PROVE CountsOf(evidence)[c] = 0
  <2>1. With(evidence, c) = {}
    BY DEF With, Has, Init, NoEvidence, Outcomes
  <2> QED
    BY <2>1, CountsAre, FS_EmptySet
<1>7. Behind(store.ledger) /\ Behind(checkpoint)
  BY <1>2, <1>3, <1>6 DEF Behind, Init
<1>8. OnlyLoadedWorks /\ AdmissionRuns /\ CompletedIsSettled /\ Stopped
  BY <1>2, <1>3, <1>4 DEF OnlyLoadedWorks, AdmissionRuns, CompletedIsSettled, Stopped, Init
<1>9. Exact
  BY <1>2, <1>3, <1>4, <1>6 DEF Exact, InFlightWorks, PassedIsSettled
<1> QED
  BY <1>5, <1>7, <1>8, <1>9 DEF LedgerInv

LEMMA LedgerNext == CampaignInv /\ LedgerInv /\ [Next]_vars => LedgerInv'
<1> SUFFICES ASSUME CampaignInv, LedgerInv, [Next]_vars PROVE LedgerInv'
  OBVIOUS
<1>1. Settled
  BY CampaignNext DEF Settled
<1>2. CASE UNCHANGED vars
  BY <1>2
  DEF vars, disk, history, bounds, LedgerInv, TypeOK, Behind, CountsOf, OnlyLoadedWorks,
      AdmissionRuns, CompletedIsSettled, Stopped, Exact, InFlightWorks, PassedIsSettled
<1>3. CASE Next
  <2>1. CASE Dispatcher
    BY <1>1, <2>1, ExamineLedger, DriveEndsLedger, DriveBreaksLedger DEF Dispatcher
  <2>2. CASE \E p \in Position : Item(p) \/ Gate(p) \/ ChangePhoto(p)
    BY <1>1, <2>2, ItemLedger, GateLedger
  <2>3. CASE Activate \/ AdmitPause \/ RecordPause \/ Crash \/ Reconcile
    BY <1>1, <2>3, ActivateLedger, PauseLedger, CrashLedger, ReconcileLedger
  <2> QED
    BY <1>3, <2>1, <2>2, <2>3 DEF Next
<1> QED
  BY <1>2, <1>3

LEMMA LedgerInvariant == Spec => [](CampaignInv /\ LedgerInv)
<1>1. Init => CampaignInv /\ LedgerInv
  BY CampaignInit, LedgerInit
<1>2. CampaignInv /\ LedgerInv /\ [Next]_vars => (CampaignInv /\ LedgerInv)'
  BY CampaignNext, LedgerNext
<1> QED
  BY <1>1, <1>2, PTL DEF Spec

\* Every state has its type, and neither the counters in memory nor the saved
\* ones ever count a position that the evidence on disk does not bear out; while
\* no write has raised since it was read they count each of them
\* (autonomous_runtime.py:54-68, 522-568).
THEOREM CountersAreTrue == Spec => []CountersFollowEvidence
<1>1. LedgerInv => CountersFollowEvidence
  <2> SUFFICES ASSUME LedgerInv PROVE CountersFollowEvidence
    OBVIOUS
  <2>1. store.ledger.count \in [Counters -> 0..Total]
    BY TypesNow DEF LedgerInv, Checkpoint
  <2>2. CountsOf(evidence) \in [Counters -> 0..Total]
    BY CountsTyped
  <2>3. store.phase = "loaded" /\ clean => store.ledger.count = CountsOf(evidence)
    BY <2>1, <2>2 DEF LedgerInv, Exact
  <2> QED
    BY <2>3 DEF LedgerInv, Behind, CountersFollowEvidence
<1> QED
  BY <1>1, LedgerInvariant, PTL

\* When the thread is gone and no write raised, the campaign says "paused" or
\* "completed", has nothing in flight, and says "completed" only when every
\* position has an outcome (autonomous_dispatcher.py:569-580).
THEOREM IdleIsTrue == Spec => []IdleIsHonest
<1>1. CampaignInv /\ LedgerInv => IdleIsHonest
  BY NothingInFlight
  DEF CampaignInv, NoThreadNoWork, LedgerInv, Exact, CompletedIsSettled, IdleIsHonest
<1> QED
  BY <1>1, LedgerInvariant, PTL
=============================================================================
