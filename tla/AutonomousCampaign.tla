------------------------- MODULE AutonomousCampaign -------------------------
(***************************************************************************)
(* One autonomous campaign: its evidence on disk (CampaignStore), the gate *)
(* that applies a proposal (AutomaticApplyGate) and the dispatcher thread  *)
(* that drives the positions (AutonomousCampaignRuntime._drive).           *)
(*                                                                         *)
(* Each hold of the store lock is one action.  A write may raise before or *)
(* after it is published, and the process may die between any two writes.  *)
(* Files are never damaged and identifiers never collide; revisions, which *)
(* only grow, are left out.                                                *)
(***************************************************************************)
EXTENDS Naturals, FiniteSets

CONSTANTS
  Total,           \* positions of the snapshot up to the campaign's limit
  PhotoCount,      \* config.photo_count: positions in flight
  MaxActivations,  \* bounds for model checking: starts and resumes,
  MaxPauses,       \* pauses,
  MaxFailures,     \* writes that raise
  MaxCrashes       \* and deaths of the helper

ASSUME CampaignConstants ==
  /\ Total \in Nat /\ PhotoCount \in Nat \ {0}
  /\ {MaxActivations, MaxPauses, MaxFailures, MaxCrashes} \subseteq Nat

Position == 1..Total

Outcomes == {"saved", "no_change", "attention"}

Counters == Outcomes \cup {"examined", "analyzed"}

Reasons == {"none", "recovered", "user_pause", "storage", "permission"}

\* positions/<p>: decision and link name the authorization they carry, row is
\* the apply state of the reviewed run.
Evidence ==
  [examined : BOOLEAN, analysis : BOOLEAN, decision : 0..MaxActivations,
   reviewed : BOOLEAN, link : 0..MaxActivations,
   row : {"none", "not_run", "writing", "verified", "noop", "failed", "uncertain"},
   outcome : Outcomes \cup {"none"}]

NoEvidence ==
  [examined |-> FALSE, analysis |-> FALSE, decision |-> 0, reviewed |-> FALSE,
   link |-> 0, row |-> "none", outcome |-> "none"]

Checkpoint ==
  [state : {"running", "pausing", "paused", "completed"}, reason : Reasons,
   count : [Counters -> 0..Total], in_flight : 0..Total]

Fresh ==
  [state |-> "paused", reason |-> "none", count |-> [c \in Counters |-> 0],
   in_flight |-> 0]

VARIABLES
  evidence,    \* disk: the directory of each position,
  checkpoint,  \* checkpoint.json
  authorized,  \* and authorizations/
  store,       \* the CampaignStore in memory
  drive,       \* the dispatcher thread and its generation
  pc,          \* where the work on each position stands
  pausePending,  \* a pause that is admitted and not recorded yet
  accepted,    \* history: the last accepted control,
  applies,     \* how often apply was run for a position,
  changed,     \* positions whose photo we changed,
  clean,       \* no write has raised since the evidence was last read
  activations, pauses, failures, crashes

disk == <<evidence, checkpoint, authorized>>
history == <<accepted, applies, changed>>
bounds == <<activations, pauses, crashes>>
vars == <<disk, store, drive, pc, pausePending, history, clean, bounds, failures>>

PhotosSteps == {"preparing", "gate", "reading", "admitting", "reviewing",
                "linking", "linked", "applying", "receipt", "paused"}

Steps == PhotosSteps \cup {"idle", "submitted", "inferring", "queued", "waiting",
                           "denied", "damaged", "failing", "releasing"}

Idle == \A p \in Position : pc[p] = "idle"

Unsettled(ledger) ==
  Total - (ledger.count["saved"] + ledger.count["no_change"] + ledger.count["attention"])

Stopping(inFlight) == IF inFlight # {} THEN "pausing" ELSE "paused"

-----------------------------------------------------------------------------
(***************************************************************************)
(* The store.  _store_mutation: when a write raises, admission closes; if  *)
(* the checkpoint that says so cannot be written either, it closes in      *)
(* memory.  s is the store as the mutation left it.                        *)
(***************************************************************************)

FailClosed(s, reason, raised) ==
  LET closed == [s EXCEPT !.authorization = 0, !.failure = reason]
      ledger == [s.ledger EXCEPT !.state = Stopping(s.inFlight), !.reason = reason,
                                 !.in_flight = Cardinality(s.inFlight)]
  IN \/ /\ failures' = failures + raised /\ clean' = (clean /\ raised = 0)
        /\ checkpoint' = ledger
        /\ store' = [closed EXCEPT !.ledger = ledger]
     \/ /\ failures + raised < MaxFailures /\ failures' = failures + raised + 1
        /\ clean' = FALSE
        /\ checkpoint' \in {checkpoint, ledger}
        /\ store' = [closed EXCEPT !.failure = "storage", !.ledger.state = "paused",
                                   !.ledger.reason = "storage"]

\* A mutation writes its evidence, then the checkpoint of s.
Mutate(p, written, s) ==
  LET ledger == [s.ledger EXCEPT !.in_flight = Cardinality(s.inFlight)]
  IN \/ /\ evidence' = [evidence EXCEPT ![p] = written]
        /\ checkpoint' = ledger /\ store' = [s EXCEPT !.ledger = ledger]
        /\ UNCHANGED <<failures, clean>>
     \/ /\ failures < MaxFailures /\ written # evidence[p]
        /\ \E published \in {evidence[p], written} :
             evidence' = [evidence EXCEPT ![p] = published]
        /\ FailClosed(store, "storage", 1)
     \/ /\ failures < MaxFailures
        /\ evidence' = [evidence EXCEPT ![p] = written]
        /\ FailClosed([s EXCEPT !.ledger = store.ledger], "storage", 1)

\* One file of a position, written outside a mutation.
Write(p, written) ==
  \/ evidence' = [evidence EXCEPT ![p] = written] /\ UNCHANGED <<failures, clean>>
  \/ /\ failures < MaxFailures /\ failures' = failures + 1 /\ clean' = FALSE
     /\ \E published \in {evidence[p], written} :
          evidence' = [evidence EXCEPT ![p] = published]

Published == failures' = failures

Goto(p, step) == pc' = [pc EXCEPT ![p] = step]

\* The step after a mutation or a write, and the one after it raised.
ThenOr(p, step, otherwise) == Goto(p, IF Published THEN step ELSE otherwise)

Counted(ledger, counter) == [ledger EXCEPT !.count[counter] = @ + 1]

\* settle
SettledLedger(p, outcome) ==
  LET ledger == Counted(store.ledger, outcome)
      left == store.inFlight \ {p}
  IN IF store.failure # "none"
     THEN [ledger EXCEPT !.state = Stopping(left), !.reason = store.failure]
     ELSE IF Unsettled(ledger) = 0 /\ left = {}
     THEN [ledger EXCEPT !.state = "completed", !.reason = "none"]
     ELSE [ledger EXCEPT !.state = IF @ = "pausing" /\ left = {} THEN "paused" ELSE @]

Settle(p, outcome) ==
  LET ledger == SettledLedger(p, outcome)
  IN Mutate(p, [evidence[p] EXCEPT !.outcome = outcome],
            [store EXCEPT !.ledger = ledger, !.inFlight = @ \ {p},
                          !.authorization = IF ledger.state = "completed" THEN 0 ELSE @])

Release(p) ==
  LET left == store.inFlight \ {p}
  IN Mutate(p, evidence[p],
            [store EXCEPT !.inFlight = left,
               !.ledger.state = IF @ = "pausing" /\ left = {} THEN "paused" ELSE @])

RecordAnalysis(p) ==
  Mutate(p, [evidence[p] EXCEPT !.analysis = TRUE],
         [store EXCEPT !.ledger = Counted(@, "analyzed")])

Authorized(n) == n # 0 /\ n \in authorized

\* autonomous_run_provenance: authorization, decision, review and link agree.
Provenance(e) == e.reviewed /\ Authorized(e.link) /\ e.link = e.decision

\* Faulty: anything the row does not call verified was not written.
ReceiptOutcomeByRow(e) == IF e.row = "verified" THEN "saved" ELSE "no_change"

ReceiptOutcome(e) ==
  IF ~Provenance(e) THEN "attention"
  ELSE IF e.row = "verified" THEN "saved"
  ELSE IF e.row = "noop" THEN "no_change"
  ELSE "attention"

RecoverDecision(e) == IF e.reviewed THEN ReceiptOutcome(e) ELSE "attention"

-----------------------------------------------------------------------------
(***************************************************************************)
(* The dispatcher thread.                                                  *)
(***************************************************************************)

\* _failed: the owner's failure, for this generation and the store.
Fail(reason) ==
  /\ FailClosed(store, reason, 0)
  /\ drive' = [drive EXCEPT !.failure = reason, !.generation = "revoked"]

Pending == {p \in Position : p >= drive.cursor /\ evidence[p].outcome = "none"}

MayExamine ==
  drive.generation = "open" /\ store.ledger.state = "running" /\ Pending # {}

\* Faulty: counts a position each time it is admitted.
ExaminedAgain(p) == Counted(store.ledger, "examined")

Examined(p) ==
  IF evidence[p].examined THEN store.ledger ELSE Counted(store.ledger, "examined")

CapacityFull(p) ==
  p \notin store.inFlight /\ Cardinality(store.inFlight) >= PhotoCount

MarkExamined(p) ==
  IF p \in store.inFlight \/ CapacityFull(p)
  THEN UNCHANGED <<evidence, checkpoint, store, failures, clean>>
  ELSE Mutate(p, [evidence[p] EXCEPT !.examined = TRUE],
              [store EXCEPT !.inFlight = @ \cup {p}, !.ledger = Examined(p)])

Examine ==
  /\ drive.alive /\ ~drive.broken /\ MayExamine
  /\ Cardinality({p \in Position : pc[p] # "idle"}) < PhotoCount
  /\ \E p \in Pending :
       /\ \A q \in Pending : p <= q
       /\ MarkExamined(p)
       /\ drive' = [drive EXCEPT !.cursor = p + 1, !.broken = CapacityFull(p) \/ ~Published]
       /\ IF CapacityFull(p) THEN UNCHANGED pc ELSE ThenOr(p, "submitted", "idle")
  /\ UNCHANGED <<authorized, pausePending, history, bounds>>

\* What the campaign says when its thread ends.
FinalLedger ==
  IF drive.failure # "none"
  THEN [store.ledger EXCEPT !.state = "paused", !.reason = drive.failure]
  ELSE IF Unsettled(store.ledger) = 0
  THEN [store.ledger EXCEPT !.state = "completed", !.reason = "none"]
  ELSE [store.ledger EXCEPT
          !.state = "paused",
          !.reason = IF @ \in {"permission", "storage"} THEN @ ELSE "user_pause"]

\* Faulty: says nothing of a pause.
EndsQuietly == drive.failure = "none" /\ Unsettled(store.ledger) # 0

\* Nothing to say: the campaign runs and its inventory is used up.
EndsUnsaid ==
  /\ drive.failure = "none" /\ Unsettled(store.ledger) # 0
  /\ drive.generation = "open" /\ store.authorization # 0

DriveEnds ==
  /\ drive.alive /\ ~drive.broken /\ Idle /\ ~MayExamine
  /\ drive' = [drive EXCEPT !.alive = FALSE]
  /\ IF EndsUnsaid
     THEN UNCHANGED <<evidence, checkpoint, store, failures, clean>>
     ELSE \/ /\ store' = [store EXCEPT !.authorization = 0,
                            !.ledger = [FinalLedger EXCEPT
                                          !.in_flight = Cardinality(store.inFlight)]]
             /\ checkpoint' = store'.ledger
             /\ UNCHANGED <<evidence, failures, clean>>
          \/ /\ failures < MaxFailures
             /\ FailClosed([store EXCEPT !.authorization = 0], "storage", 1)
             /\ UNCHANGED evidence
  /\ UNCHANGED <<authorized, pc, pausePending, history, bounds>>

\* An exception left the loop: the pool first waits for what it runs.
DriveBreaks ==
  /\ drive.alive /\ drive.broken /\ Idle
  /\ FailClosed(store, "storage", 0)
  /\ drive' = [drive EXCEPT !.alive = FALSE, !.failure = "storage",
                            !.generation = "revoked"]
  /\ UNCHANGED <<evidence, authorized, pc, pausePending, history, bounds>>

-----------------------------------------------------------------------------
(***************************************************************************)
(* One position, up to the gate.  Photos serves one caller at a time; an   *)
(* accepted write goes before the next read.                               *)
(***************************************************************************)

Writers == {p \in Position : pc[p] \in (PhotosSteps \ {"preparing"}) \cup {"waiting"}}

\* Faulty: a queued save already holds the lane.
LaneFreeQueued ==
  \A p \in Position : pc[p] \notin PhotosSteps \cup {"queued", "waiting"}

LaneFree == \A p \in Position : pc[p] \notin PhotosSteps

UnchangedStore == UNCHANGED <<evidence, checkpoint, store, clean, failures>>

UnchangedRest == UNCHANGED <<authorized, pausePending, history, bounds>>

\* _source: an analysis kept from an earlier activation is used again.
Reuse(p) ==
  /\ pc[p] = "submitted" /\ evidence[p].analysis /\ Goto(p, "queued")
  /\ UnchangedStore /\ UnchangedRest /\ UNCHANGED drive

Prepare(p) ==
  /\ pc[p] = "submitted" /\ ~evidence[p].analysis
  /\ LaneFree /\ Writers = {}
  /\ Goto(p, "preparing")
  /\ UnchangedStore /\ UnchangedRest /\ UNCHANGED drive

Prepared(p) ==
  /\ pc[p] = "preparing" /\ Goto(p, "inferring")
  /\ UnchangedStore /\ UnchangedRest /\ UNCHANGED drive

Analyzed(p) ==
  /\ pc[p] = "inferring" /\ Goto(p, "queued")
  /\ UnchangedStore /\ UnchangedRest /\ UNCHANGED drive

\* Preparation or inference failed: the position is settled; if that raises,
\* so does the future.
AnalysisFails(p) ==
  /\ pc[p] \in {"preparing", "inferring"}
  /\ Settle(p, "attention")
  /\ \E cause \in {"idle", "denied"} : ThenOr(p, cause, "idle")
  /\ drive' = [drive EXCEPT !.broken = @ \/ ~Published]
  /\ UnchangedRest

\* The export or the run could not be stored.
StorageFails(p) ==
  /\ pc[p] \in {"preparing", "inferring"} /\ failures < MaxFailures
  /\ Goto(p, "failing") /\ failures' = failures + 1
  /\ UNCHANGED <<evidence, checkpoint, store, clean, drive>> /\ UnchangedRest

TakeWrite(p) ==
  /\ pc[p] = "queued" /\ Writers = {} /\ Goto(p, "waiting")
  /\ UnchangedStore /\ UnchangedRest /\ UNCHANGED drive

\* After a permission or manifest error, and after an exception that
\* reached the item's handler.
Shut(p) ==
  /\ pc[p] \in {"denied", "damaged", "failing"}
  /\ Fail(IF pc[p] = "denied" THEN "permission" ELSE "storage")
  /\ Goto(p, IF pc[p] = "failing" THEN "releasing" ELSE "idle")
  /\ UNCHANGED evidence /\ UnchangedRest

ReleaseFailed(p) ==
  /\ pc[p] = "releasing" /\ Release(p) /\ Goto(p, "idle")
  /\ drive' = [drive EXCEPT !.broken = @ \/ ~Published]
  /\ UnchangedRest

-----------------------------------------------------------------------------
(***************************************************************************)
(* AutomaticApplyGate.process, in the one write thread.  Leaving the gate, *)
(* a failure latched in the store revokes the generation.                  *)
(***************************************************************************)

LeaveGate ==
  drive' = IF store'.failure = "none" THEN drive
           ELSE [drive EXCEPT !.failure = store'.failure, !.generation = "revoked"]

SettleInGate(p, outcome, step) ==
  /\ Settle(p, outcome) /\ ThenOr(p, step, "failing")
  /\ IF Published THEN LeaveGate ELSE UNCHANGED drive
  /\ UnchangedRest

\* Faulty: takes up a decision again.
EnterGateAgain(p) ==
  /\ pc[p] = "waiting" /\ LaneFree
  /\ IF evidence[p].analysis THEN UnchangedStore /\ Goto(p, "gate")
     ELSE RecordAnalysis(p) /\ ThenOr(p, "gate", "failing")
  /\ UnchangedRest /\ UNCHANGED drive

\* A decision left by an earlier attempt is settled from its evidence.  (A
\* position with an outcome is never pending.)
EnterGate(p) ==
  /\ pc[p] = "waiting" /\ LaneFree
  /\ IF evidence[p].decision # 0
     THEN SettleInGate(p, RecoverDecision(evidence[p]), "idle")
     ELSE /\ IF evidence[p].analysis THEN UnchangedStore /\ Goto(p, "gate")
             ELSE RecordAnalysis(p) /\ ThenOr(p, "gate", "failing")
          /\ UnchangedRest /\ UNCHANGED drive

\* Errors in the source, no UUID or too little confidence.
RejectSource(p) ==
  /\ pc[p] = "gate"
  /\ \E step \in {"idle", "denied"} : SettleInGate(p, "attention", step)

\* The first look at the authorization, before Photos is read again.
CheckEnabled(p) ==
  /\ pc[p] = "gate"
  /\ Goto(p, IF store.authorization # 0 THEN "reading" ELSE "paused")
  /\ UnchangedStore /\ UnchangedRest /\ UNCHANGED drive

ReadCurrent(p) ==
  /\ pc[p] = "reading" /\ Goto(p, "admitting")
  /\ UnchangedStore /\ UnchangedRest /\ UNCHANGED drive

\* The photo cannot be read, is another one, or has all values already.
SettleUnread(p) ==
  /\ pc[p] = "reading"
  /\ \/ SettleInGate(p, "no_change", "idle")
     \/ \E step \in {"idle", "denied"} : SettleInGate(p, "attention", step)

\* Faulty: trusts the look at the authorization before the read.
AdmitUnchecked(p) ==
  /\ pc[p] = "admitting"
  /\ Write(p, [evidence[p] EXCEPT !.decision = activations])
  /\ ThenOr(p, "reviewing", "failing")
  /\ UNCHANGED <<checkpoint, store, drive>> /\ UnchangedRest

\* The decision, under the store lock: where a pause is linearized.
Admit(p) ==
  /\ pc[p] = "admitting"
  /\ IF store.authorization = 0
     THEN UNCHANGED <<evidence, failures, clean>> /\ Goto(p, "paused")
     ELSE /\ Write(p, [evidence[p] EXCEPT !.decision = store.authorization])
          /\ ThenOr(p, "reviewing", "failing")
  /\ UNCHANGED <<checkpoint, store, drive>> /\ UnchangedRest

ReleaseUnadmitted(p) ==
  /\ pc[p] = "paused" /\ Release(p) /\ ThenOr(p, "idle", "failing")
  /\ IF Published THEN LeaveGate ELSE UNCHANGED drive
  /\ UnchangedRest

Review(p) ==
  /\ pc[p] = "reviewing"
  /\ Write(p, [evidence[p] EXCEPT !.reviewed = TRUE, !.row = "not_run"])
  /\ ThenOr(p, "linking", "failing")
  /\ UNCHANGED <<checkpoint, store, drive>> /\ UnchangedRest

Link(p) ==
  /\ pc[p] = "linking"
  /\ Write(p, [evidence[p] EXCEPT !.link = evidence[p].decision])
  /\ ThenOr(p, "linked", "failing")
  /\ UNCHANGED <<checkpoint, store, drive>> /\ UnchangedRest

\* The review or the apply raised something of its own.
ReviewOrApplyRaises(p) ==
  /\ pc[p] \in {"reviewing", "linked", "applying"}
  /\ SettleInGate(p, "attention", "idle")

\* run_apply opens the row; its photo may change until the row is closed.
OpenRow(p) ==
  /\ pc[p] = "linked" /\ Goto(p, "applying")
  /\ evidence' = [evidence EXCEPT ![p].row = "writing"]
  /\ applies' = [applies EXCEPT ![p] = @ + 1]
  /\ UNCHANGED <<checkpoint, store, clean, failures, drive, accepted, changed,
                 authorized, pausePending, bounds>>

ChangePhoto(p) ==
  /\ pc[p] = "applying" /\ p \notin changed
  /\ changed' = changed \cup {p}
  /\ UNCHANGED <<pc, accepted, applies, drive, authorized, pausePending, bounds>>
  /\ UnchangedStore

CloseRow(p) ==
  /\ pc[p] = "applying"
  /\ \E row \in (IF p \in changed THEN {"verified", "uncertain"} ELSE {"noop", "failed", "uncertain"}) :
       evidence' = [evidence EXCEPT ![p].row = row]
  /\ Goto(p, "receipt")
  /\ UNCHANGED <<checkpoint, store, clean, failures, drive>> /\ UnchangedRest

\* The row could not be saved, or apply refused the manifest.
LoseRow(p) ==
  /\ pc[p] \in {"linked", "applying"}
  /\ SettleInGate(p, "attention", "damaged")

SettleReceipt(p) ==
  /\ pc[p] = "receipt"
  /\ LET outcome == ReceiptOutcome(evidence[p])
     IN \E step \in {"idle"} \cup (IF outcome = "attention" THEN {"denied"} ELSE {}) :
          SettleInGate(p, outcome, step)

-----------------------------------------------------------------------------
(***************************************************************************)
(* Controls, and the death of the helper.                                  *)
(***************************************************************************)

NewDrive ==
  [alive |-> TRUE, generation |-> "open", failure |-> "none", cursor |-> 1,
   broken |-> FALSE]

Authorize(n, s) ==
  LET ledger == [s.ledger EXCEPT !.state = "running", !.reason = "none",
                                 !.in_flight = Cardinality(s.inFlight)]
  IN \/ /\ authorized' = authorized \cup {n}
        /\ store' = [s EXCEPT !.authorization = n, !.failure = "none", !.ledger = ledger]
        /\ checkpoint' = ledger /\ drive' = NewDrive
        /\ UNCHANGED <<failures, clean>>
     \/ /\ failures < MaxFailures /\ authorized' \in {authorized, authorized \cup {n}}
        /\ FailClosed(s, "storage", 1) /\ UNCHANGED drive

\* A start creates the campaign; start and resume authorize it and start a
\* thread.  Nothing runs when a write raises.
Activate ==
  /\ ~drive.alive /\ store.phase \in {"none", "loaded"}
  /\ activations < MaxActivations /\ activations' = activations + 1
  /\ accepted' = "activation"
  /\ Authorize(activations + 1, [store EXCEPT !.phase = "loaded"])
  /\ UNCHANGED <<evidence, pc, pausePending, applies, changed, pauses, crashes>>

\* admit_pause, under the runtime's lock: the intake, then revoke.
AdmitPause ==
  /\ store.phase # "none" /\ ~pausePending
  /\ pauses < MaxPauses /\ pauses' = pauses + 1
  /\ accepted' = "pause" /\ pausePending' = TRUE
  /\ store' = [store EXCEPT !.authorization = 0]
  /\ drive' = [drive EXCEPT !.generation = "revoked"]
  /\ UNCHANGED <<disk, pc, applies, changed, clean, failures, activations, crashes>>

\* CampaignStore.pause, once the earlier commands have ended.
RecordPause ==
  /\ pausePending /\ pausePending' = FALSE
  /\ LET s == [store EXCEPT !.authorization = 0]
         ledger == [s.ledger EXCEPT !.state = Stopping(s.inFlight), !.reason = "user_pause",
                                    !.in_flight = Cardinality(s.inFlight)]
     IN \/ /\ store' = [s EXCEPT !.ledger = ledger] /\ checkpoint' = ledger
           /\ UNCHANGED <<failures, clean>>
        \/ failures < MaxFailures /\ FailClosed(s, "storage", 1)
  /\ UNCHANGED <<evidence, authorized, drive, pc, history, bounds>>

\* The next helper reads the checkpoint alone.
LoadStatus ==
  [phase |-> "status", inFlight |-> {}, authorization |-> 0, failure |-> "none",
   ledger |-> [checkpoint EXCEPT !.state = "paused", !.reason = "recovered"]]

Crash ==
  /\ store.phase # "none" /\ crashes < MaxCrashes
  /\ crashes' = crashes + 1
  /\ store' = LoadStatus
  /\ drive' = [NewDrive EXCEPT !.alive = FALSE]
  /\ pc' = [p \in Position |-> "idle"] /\ pausePending' = FALSE
  /\ UNCHANGED <<disk, history, clean, failures, activations, pauses>>

\* load: decisions without an outcome are settled from their evidence, and
\* the counters are those of the evidence.
RecoveredEvidence(settled) ==
  [p \in Position |->
     IF p \in settled THEN [evidence[p] EXCEPT !.outcome = RecoverDecision(evidence[p])]
     ELSE evidence[p]]

CountsOf(files) ==
  [c \in Counters |-> Cardinality({p \in Position :
     CASE c = "examined" -> files[p].examined
       [] c = "analyzed" -> files[p].analysis
       [] OTHER -> files[p].outcome = c})]

Rebuilt(counts) == [Fresh EXCEPT !.reason = "recovered", !.count = counts]

Reconcile ==
  /\ store.phase = "status" /\ ~drive.alive /\ activations < MaxActivations
  /\ LET open == {p \in Position : evidence[p].decision # 0 /\ evidence[p].outcome = "none"}
     IN \/ /\ evidence' = RecoveredEvidence(open)
           /\ store' = [store EXCEPT !.phase = "loaded", !.ledger = Rebuilt(CountsOf(evidence'))]
           /\ checkpoint' = store'.ledger
           /\ clean' = TRUE /\ UNCHANGED failures
        \/ /\ failures < MaxFailures /\ failures' = failures + 1
           /\ \E settled \in SUBSET open : evidence' = RecoveredEvidence(settled)
           /\ UNCHANGED <<store, checkpoint, clean>>
  /\ UNCHANGED <<authorized, drive, pc, pausePending, history, bounds>>

Init ==
  /\ evidence = [p \in Position |-> NoEvidence]
  /\ checkpoint = Fresh /\ authorized = {}
  /\ store = [phase |-> "none", ledger |-> Fresh, inFlight |-> {},
              authorization |-> 0, failure |-> "none"]
  /\ drive = [NewDrive EXCEPT !.alive = FALSE]
  /\ pc = [p \in Position |-> "idle"]
  /\ pausePending = FALSE /\ clean = TRUE
  /\ accepted = "none" /\ applies = [p \in Position |-> 0] /\ changed = {}
  /\ activations = 0 /\ pauses = 0 /\ failures = 0 /\ crashes = 0

Item(p) ==
  \/ Reuse(p) \/ Prepare(p) \/ Prepared(p) \/ Analyzed(p)
  \/ AnalysisFails(p) \/ StorageFails(p) \/ TakeWrite(p)
  \/ Shut(p) \/ ReleaseFailed(p)

Gate(p) ==
  \/ EnterGate(p) \/ RejectSource(p) \/ CheckEnabled(p)
  \/ ReadCurrent(p) \/ SettleUnread(p) \/ Admit(p) \/ ReleaseUnadmitted(p)
  \/ Review(p) \/ Link(p) \/ ReviewOrApplyRaises(p)
  \/ OpenRow(p) \/ CloseRow(p) \/ LoseRow(p) \/ SettleReceipt(p)

Dispatcher == Examine \/ DriveEnds \/ DriveBreaks

Next ==
  \/ Dispatcher
  \/ \E p \in Position : Item(p) \/ Gate(p) \/ ChangePhoto(p)
  \/ Activate \/ AdmitPause \/ RecordPause \/ Crash \/ Reconcile

Spec == Init /\ [][Next]_vars

\* The helper's threads go on; its users, Photos and the disk may do nothing.
FairSpec ==
  /\ Spec /\ WF_vars(Dispatcher)
  /\ \A p \in Position : WF_vars(Item(p)) /\ WF_vars(Gate(p))

-----------------------------------------------------------------------------

TypeOK ==
  /\ evidence \in [Position -> Evidence]
  /\ checkpoint \in Checkpoint /\ authorized \subseteq 1..MaxActivations
  /\ store \in [phase : {"none", "status", "loaded"}, ledger : Checkpoint,
                inFlight : SUBSET Position, authorization : 0..MaxActivations,
                failure : {"none", "permission", "storage"}]
  /\ drive \in [alive : BOOLEAN, generation : {"open", "revoked"},
                failure : {"none", "permission", "storage"},
                cursor : 1..Total + 1, broken : BOOLEAN]
  /\ pc \in [Position -> Steps] /\ pausePending \in BOOLEAN /\ clean \in BOOLEAN
  /\ accepted \in {"none", "activation", "pause"}
  /\ applies \in [Position -> Nat] /\ changed \subseteq Position
  /\ activations \in 0..MaxActivations /\ pauses \in 0..MaxPauses
  /\ failures \in 0..MaxFailures /\ crashes \in 0..MaxCrashes

\* Apply is run once for a position, whatever raises, pauses, resumes or dies
\* in between (autonomous_runtime.py:746-749, 560-562).
AppliesOnce == \A p \in Position : applies[p] <= 1

\* A photo we changed has a decision and never ends as "no_change"; "saved" is
\* said only of a photo we changed whose row is verified and linked
\* (autonomous_runtime.py:692-704).
OutcomesMatchPhotos ==
  \A p \in Position :
    /\ p \in changed => evidence[p].decision # 0 /\ evidence[p].outcome # "no_change"
    /\ evidence[p].outcome = "saved" =>
         p \in changed /\ evidence[p].row = "verified" /\ Provenance(evidence[p])

\* Neither the campaign's counters nor the saved ones ever run ahead of the
\* evidence, and they equal it while no write has raised since it was read.
CountersFollowEvidence ==
  LET counts == CountsOf(evidence)
  IN /\ TypeOK
     /\ \A c \in Counters : store.ledger.count[c] <= counts[c] /\ checkpoint.count[c] <= counts[c]
     /\ store.phase = "loaded" /\ clean => store.ledger.count = counts

\* A decision to write is taken only while the last accepted control is an
\* activation, and names it: no write is admitted after a pause was accepted
\* (autonomous_runtime.py:784-785, autonomous_dispatcher.py:235-240).
AdmissionNeedsActivation ==
  [][\A p \in Position :
       evidence'[p].decision # evidence[p].decision =>
         accepted = "activation" /\ evidence'[p].decision = activations]_vars

\* When the thread is gone and no write raised, the campaign says "paused" or
\* "completed", has nothing in flight, and says "completed" only when every
\* position has an outcome (autonomous_dispatcher.py:569-580).
IdleIsHonest ==
  (store.phase = "loaded" /\ ~drive.alive /\ clean) =>
    /\ store.ledger.state \in {"paused", "completed"} /\ store.inFlight = {}
    /\ store.ledger.state = "completed" =>
         \A p \in Position : evidence[p].outcome # "none"

\* Every activation ends, at the latest when its inventory is used up: no
\* position is left waiting for the Photos lane or for another one's step
\* (autonomous_dispatcher.py:39-64, 546-568).
DrivesEnd == drive.alive ~> ~drive.alive
=============================================================================
