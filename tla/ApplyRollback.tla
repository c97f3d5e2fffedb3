--------------------------- MODULE ApplyRollback ---------------------------
(***************************************************************************)
(* run_apply and run_rollback (workflows.py) over one reviewed manifest    *)
(* and the Photos library, which its owner edits at the same time: Apple   *)
(* Events offer no compare-and-set.                                        *)
(*                                                                         *)
(* One operation runs at a time (_operation_locks: a second one fails      *)
(* without a change).  It walks the rows that need work; each read, setter *)
(* and read-back of a row is a step of its own, so an edit or a crash can  *)
(* fall between any two.  `run' is the operation's memory and is lost with *)
(* it; `disk' is manifest.json.  A failed save ends the operation with the *)
(* old file in place, which is what Crash does.                            *)
(***************************************************************************)
EXTENDS MutationManifest

CONSTANTS
  Library,        \* what a photo may hold when the manifest is first applied
  MaxOperations,  \* bounds for model checking: operations started,
  MaxEdits,       \* edits of the library
  MaxCrashes      \* and crashes

Texts == {"", "approved", "foreign"}

Content == [keywords : SUBSET Keyword, description : Texts]

ASSUME RollbackConstants ==
  /\ Library \subseteq Content
  /\ MaxOperations \in Nat /\ MaxEdits \in Nat /\ MaxCrashes \in Nat

VARIABLES
  disk,        \* the saved rows
  library,     \* keywords and description of each photo in Photos
  run,         \* the operation in progress
  introduced,  \* history: additions our setters made to a photo,
  captioned,   \* photos our setters put a caption into,
  raced,       \* photos edited while a row of theirs was open
  operations, edits, crashes

vars == <<disk, library, run, introduced, captioned, raced,
          operations, edits, crashes>>

history == <<introduced, captioned, raced, edits>>

Steps == {"recover", "next", "read", "refresh", "set keywords",
          "check keywords", "reread", "set caption", "check caption", "settle"}

\* What an operation holds: its rows to do, the row it works on and its copy
\* of it, the keywords and description it last read, the keywords it adds or
\* removes, the applied ones it did not find, and whether the caption is to
\* be written or removed.
Operation ==
  [op : {"idle", "apply", "rollback"}, step : Steps,
   todo : SUBSET Photo, photo : Photo \cup {0}, row : Row,
   existing : SUBSET Keyword, text : Texts, change : SUBSET Keyword,
   missing : SUBSET Keyword, caption : BOOLEAN, attempt : 0..2, failed : BOOLEAN]

Idle ==
  [op |-> "idle", step |-> "next", todo |-> {}, photo |-> 0,
   row |-> Reviewed(0), existing |-> {}, text |-> "", change |-> {},
   missing |-> {}, caption |-> FALSE, attempt |-> 0, failed |-> FALSE]

At(step) == run.op # "idle" /\ run.step = step

Applying(p, step) == run.op = "apply" /\ run.photo = p /\ run.step = step

RollingBack(p, step) == run.op = "rollback" /\ run.photo = p /\ run.step = step

Between(todo) == [Idle EXCEPT !.op = run.op, !.todo = todo]

RowDone == Between(run.todo \ {run.photo})

-----------------------------------------------------------------------------
(***************************************************************************)
(* _persist_mutation_checkpoint.  A row the reader would refuse raises:    *)
(* the operation ends with LOCK_OR_MANIFEST_FAILED and the file as it was. *)
(***************************************************************************)
Save(p, row, then) ==
  IF Loads(p, row)
  THEN disk' = [disk EXCEPT ![p] = row] /\ run' = then
  ELSE run' = Idle /\ UNCHANGED disk

\* Faulty: the receipt of the state before.
ReceiptedBefore(row) == [row EXCEPT !.rollbackReceipt = RollbackDigest(run.row)]

\* persist_rollback_state
Receipted(row) == [row EXCEPT !.rollbackReceipt = RollbackDigest(row)]

SaveRollback(p, row, then) == Save(p, Receipted(row), then)

\* How a row ends that could not be read.
FailedApply(row) == [row EXCEPT !.apply = "failed", !.applyError = "other"]

FailedRollback(row) == [row EXCEPT !.rollback = "failed", !.rollbackError = TRUE]

\* The rows are taken in the order of the manifest.
First(p, rows) == p \in rows /\ \A q \in rows : p <= q

Start(op) ==
  /\ run.op = "idle" /\ operations < MaxOperations
  /\ operations' = operations + 1
  /\ run' = [Idle EXCEPT !.op = op, !.step = "recover"]
  /\ UNCHANGED <<disk, library, history, crashes>>

StartApply == ApplyAccepts(disk) /\ Start("apply")

StartRollback == RollbackAccepts(disk) /\ Start("rollback")

Interrupted ==
  IF run.op = "apply" THEN {p \in Photo : disk[p].apply = "writing"}
  ELSE {p \in Photo : disk[p].rollback = "removing"}

\* A row left "writing": the write may or may not have reached Photos.
InterruptedWrite(p) ==
  LET row == [disk[p] EXCEPT !.apply = "uncertain", !.applyError = "INTERRUPTED_WRITE"]
  IN IF p \in Captioned /\ row.caption = "proposed"
     THEN [row EXCEPT !.wrote = TRUE, !.caption = "uncertain"]
     ELSE row

InterruptedRemoval(p) ==
  [disk[p] EXCEPT
     !.rollback = "uncertain", !.rollbackError = TRUE,
     !.caption = IF disk[p].wrote /\ @ # "removed" THEN "uncertain" ELSE @]

RecoverInterrupted ==
  /\ At("recover")
  /\ \E p \in Photo :
       /\ First(p, Interrupted)
       /\ IF run.op = "apply" THEN Save(p, InterruptedWrite(p), run)
          ELSE SaveRollback(p, InterruptedRemoval(p), run)
  /\ UNCHANGED <<library, history, operations, crashes>>

Actionable == IF run.op = "apply" THEN ToApply(disk) ELSE ToRollBack(disk)

OpenAdapters ==
  /\ At("recover") /\ Interrupted = {}
  /\ run' = Between(Actionable)
  /\ UNCHANGED <<disk, library, history, operations, crashes>>

\* Photos or PhotoScript is not available: the first row carries the cause.
AdaptersUnavailable ==
  /\ At("recover") /\ Interrupted = {}
  /\ \E p \in Photo :
       /\ First(p, Actionable)
       /\ IF run.op = "apply" THEN Save(p, FailedApply(disk[p]), Between({}))
          ELSE SaveRollback(p, FailedRollback(disk[p]), Between({}))
  /\ UNCHANGED <<library, history, operations, crashes>>

CancelledApply(row) ==
  [row EXCEPT !.apply = "cancelled", !.applied = {}, !.applyError = "other"]

CancelledRollback(row) == [row EXCEPT !.rollback = "cancelled", !.rollbackError = TRUE]

\* cancel_requested() before the next row.
Cancel ==
  /\ At("next")
  /\ \E p \in Photo :
       /\ First(p, run.todo)
       /\ IF run.op = "apply" THEN Save(p, CancelledApply(disk[p]), Between({}))
          ELSE SaveRollback(p, CancelledRollback(disk[p]), Between({}))
  /\ UNCHANGED <<library, history, operations, crashes>>

Return ==
  /\ At("next") /\ run.todo = {}
  /\ run' = Idle
  /\ UNCHANGED <<disk, library, history, operations, crashes>>

-----------------------------------------------------------------------------
(***************************************************************************)
(* One row of run_apply.                                                   *)
(***************************************************************************)

Retried(row) == [row EXCEPT !.applied = {}, !.applyError = "none"]

BeginApply ==
  /\ At("next") /\ run.op = "apply"
  /\ \E p \in Photo :
       /\ First(p, run.todo)
       /\ IF HasPayload(p)
          THEN /\ run' = [run EXCEPT !.photo = p, !.row = Retried(disk[p]),
                                     !.step = "read"]
               /\ UNCHANGED disk
          ELSE Save(p, [Retried(disk[p]) EXCEPT !.apply = "noop"],
                    Between(run.todo \ {p}))
  /\ UNCHANGED <<library, history, operations, crashes>>

\* The photo cannot be found, read or identified, in either of two reads.
ApplyReadFails(p) ==
  /\ Applying(p, "read") \/ Applying(p, "refresh")
  /\ Save(p, FailedApply(run.row), RowDone)
  /\ UNCHANGED <<library, history, operations, crashes>>

\* A caption seen now is kept, whatever the second read says.
ApplyRead(p) ==
  /\ Applying(p, "read")
  /\ LET present == p \in Captioned /\ library[p].description # ""
     IN run' = [run EXCEPT !.step = "refresh",
                           !.caption = p \in Captioned /\ ~present,
                           !.row.caption = IF present THEN "preserved" ELSE @]
  /\ UNCHANGED <<disk, library, history, operations, crashes>>

\* Faulty: every proposal, also those Photos has.
AdditionsAll(p, existing) == Proposed[p]

\* Proposals Photos does not have yet under any casing.
Additions(p, existing) == {k \in Proposed[p] : Key[k] \notin Keys(existing)}

ApplyRefresh(p) ==
  /\ Applying(p, "refresh")
  /\ LET seen == library[p]
         added == Additions(p, seen.keywords)
         caption == run.caption /\ seen.description = ""
         row == IF p \in Captioned /\ ~caption
                THEN [run.row EXCEPT !.caption = "preserved"] ELSE run.row
         opened == [row EXCEPT !.apply = "writing"]
     IN IF added = {} /\ ~caption
        THEN Save(p, [row EXCEPT !.apply = "noop"], RowDone)
        ELSE Save(p, opened,
                  [run EXCEPT !.row = opened, !.existing = seen.keywords,
                              !.text = seen.description, !.change = added,
                              !.caption = caption,
                              !.step = IF added # {} THEN "set keywords" ELSE "reread"])
  /\ UNCHANGED <<library, history, operations, crashes>>

AfterKeywords == IF run.caption THEN "reread" ELSE "settle"

\* _readback_contains, then applied_keywords.
ApplyKeywordsVerified(p) ==
  /\ Applying(p, "check keywords")
  /\ run.existing \cup run.change \subseteq library[p].keywords
  /\ run' = [run EXCEPT !.row.applied = run.change, !.step = AfterKeywords]
  /\ UNCHANGED <<disk, library, history, operations, crashes>>

\* The setter raised, or the read-back raised or did not show the values in
\* time.  The caption is written all the same.
ApplyKeywordsUnverified(p) ==
  /\ Applying(p, "check keywords")
  /\ run' = [run EXCEPT !.failed = TRUE, !.step = AfterKeywords]
  /\ UNCHANGED <<disk, library, history, operations, crashes>>

\* The last read before the caption setter.
ApplyReread(p) ==
  /\ Applying(p, "reread")
  /\ run' = IF library[p].description = ""
            THEN [run EXCEPT !.text = "", !.attempt = 1, !.step = "set caption"]
            ELSE [run EXCEPT !.row.caption = "preserved", !.caption = FALSE,
                             !.step = "settle"]
  /\ UNCHANGED <<disk, library, history, operations, crashes>>

ApplyRereadFails(p) ==
  /\ Applying(p, "reread")
  /\ run' = [run EXCEPT !.failed = TRUE, !.step = "settle"]
  /\ UNCHANGED <<disk, library, history, operations, crashes>>

ApplyCaptionVerified(p) ==
  /\ Applying(p, "check caption") /\ library[p].description = "approved"
  /\ run' = [run EXCEPT !.row.wrote = TRUE, !.row.caption = "verified",
                        !.step = "settle"]
  /\ UNCHANGED <<disk, library, history, operations, crashes>>

ApplyCaptionUnverified(p) ==
  /\ Applying(p, "check caption")
  /\ run' = [run EXCEPT !.failed = TRUE, !.step = "settle"]
  /\ UNCHANGED <<disk, library, history, operations, crashes>>

\* Faulty: a write that was not verified is left for the next apply to redo.
UnsettledRetryable(row) == FailedApply([row EXCEPT !.applied = {}, !.wrote = FALSE,
                                                  !.caption = "proposed"])

\* A part that was read back keeps its receipt when the other part failed.
Unsettled(row) ==
  [row EXCEPT !.apply = "uncertain", !.applyError = "other",
              !.receipt = IF row.applied # {} \/ row.wrote
                          THEN MutationDigest(row) ELSE @]

\* Faulty: what was approved instead of what was added.
SettledAsApproved(row) ==
  LET claimed == [row EXCEPT !.applied = Proposed[run.photo]]
  IN [claimed EXCEPT !.apply = "verified", !.receipt = MutationDigest(claimed)]

Settled(row) ==
  [row EXCEPT !.apply = "verified", !.applied = run.change,
              !.receipt = MutationDigest([row EXCEPT !.applied = run.change])]

SettleApply(p) ==
  /\ Applying(p, "settle")
  /\ Save(p, IF run.failed THEN Unsettled(run.row) ELSE Settled(run.row), RowDone)
  /\ UNCHANGED <<library, history, operations, crashes>>

-----------------------------------------------------------------------------
(***************************************************************************)
(* One row of run_rollback.                                                *)
(***************************************************************************)

BeginRollback ==
  /\ At("next") /\ run.op = "rollback"
  /\ \E p \in Photo :
       /\ First(p, run.todo)
       /\ run' = [run EXCEPT !.photo = p, !.step = "read",
                             !.row = [disk[p] EXCEPT !.rollbackError = FALSE]]
  /\ UNCHANGED <<disk, library, history, operations, crashes>>

RollbackReadFails(p) ==
  /\ RollingBack(p, "read") \/ RollingBack(p, "refresh")
  /\ SaveRollback(p, FailedRollback(run.row), RowDone)
  /\ UNCHANGED <<library, history, operations, crashes>>

\* Both reads test the caption alike: text that is not ours stays, and the
\* row is left for its owner to look at.
CaptionEdited(p) == run.row.wrote /\ library[p].description = "foreign"

Removal(row) == [row EXCEPT !.rollback = "uncertain", !.rollbackError = TRUE]

EditedCaptionKept(p) ==
  /\ RollingBack(p, "read") \/ RollingBack(p, "refresh")
  /\ CaptionEdited(p)
  /\ SaveRollback(p, [Removal(run.row) EXCEPT !.caption = "uncertain"], RowDone)
  /\ UNCHANGED <<library, history, operations, crashes>>

CaptionGone(p, row) ==
  IF row.wrote /\ library[p].description = ""
  THEN [row EXCEPT !.caption = "removed"] ELSE row

RollbackRead(p) ==
  /\ RollingBack(p, "read") /\ ~CaptionEdited(p)
  /\ run' = [run EXCEPT !.row = CaptionGone(p, @), !.step = "refresh"]
  /\ UNCHANGED <<disk, library, history, operations, crashes>>

\* _remaining_applied_keywords
Remaining(row) == row.applied \ row.rolled

CaseConflict(values, existing) == \E k \in values : Key[k] \in Keys(existing)

RollbackRefresh(p) ==
  /\ RollingBack(p, "refresh") /\ ~CaptionEdited(p)
  /\ LET seen == library[p]
         row == CaptionGone(p, run.row)
         caption == row.wrote /\ seen.description = "approved"
         removed == Remaining(row) \cap seen.keywords
         missing == Remaining(row) \ seen.keywords
         conflict == CaseConflict(missing, seen.keywords)
         opened == [row EXCEPT !.rollback = "removing"]
     IN IF removed = {} /\ ~caption
        THEN SaveRollback(p, [row EXCEPT
                                !.rollback = IF conflict THEN "casing_conflict"
                                             ELSE "already_absent",
                                !.rollbackError = conflict], RowDone)
        ELSE SaveRollback(p, opened,
               [run EXCEPT !.row = opened, !.existing = seen.keywords,
                           !.text = seen.description, !.change = removed,
                           !.missing = missing, !.caption = caption, !.attempt = 1,
                           !.step = IF removed # {} THEN "set keywords"
                                    ELSE "set caption"])
  /\ UNCHANGED <<library, history, operations, crashes>>

\* The keyword removal is saved before the caption is touched.
RollbackKeywordsVerified(p) ==
  /\ RollingBack(p, "check keywords")
  /\ library[p].keywords = run.existing \ run.change
  /\ LET row == [run.row EXCEPT !.rolled = @ \cup run.change]
     IN SaveRollback(p, row,
          [run EXCEPT !.row = row,
                      !.step = IF run.caption THEN "set caption" ELSE "settle"])
  /\ UNCHANGED <<library, history, operations, crashes>>

RollbackKeywordsUnverified(p) ==
  /\ RollingBack(p, "check keywords")
  /\ SaveRollback(p, Removal(run.row), RowDone)
  /\ UNCHANGED <<library, history, operations, crashes>>

RollbackCaptionVerified(p) ==
  /\ RollingBack(p, "check caption") /\ library[p].description = ""
  /\ run' = [run EXCEPT !.row.caption = "removed", !.step = "settle"]
  /\ UNCHANGED <<disk, library, history, operations, crashes>>

RollbackCaptionUnverified(p) ==
  /\ RollingBack(p, "check caption")
  /\ SaveRollback(p, [Removal(run.row) EXCEPT !.caption = "uncertain"], RowDone)
  /\ UNCHANGED <<library, history, operations, crashes>>

\* Faulty: applied keywords that were not found count as removed.
OutcomeIgnoringMissing ==
  IF CaseConflict(run.missing, run.existing) THEN "casing_conflict"
  ELSE "verified_removed"

Outcome ==
  IF CaseConflict(run.missing, run.existing) THEN "casing_conflict"
  ELSE IF run.missing # {} THEN "failed" ELSE "verified_removed"

SettleRollback(p) ==
  /\ RollingBack(p, "settle")
  /\ SaveRollback(p, [run.row EXCEPT !.rollback = Outcome,
                                     !.rollbackError = Outcome # "verified_removed"],
                  RowDone)
  /\ UNCHANGED <<library, history, operations, crashes>>

-----------------------------------------------------------------------------
(***************************************************************************)
(* PhotoScriptAdapter: a setter, then up to six reads of the value.  It    *)
(* may raise, or change nothing, or change the photo and still not show it *)
(* in time.  The keyword setter runs once; the caption setter runs again   *)
(* when the reads did not show the text.                                   *)
(***************************************************************************)

Target == IF run.op = "apply" THEN "approved" ELSE ""

\* Faulty: rollback removes every casing of an applied keyword.
DesiredByKey ==
  IF run.op = "apply" THEN run.existing \cup run.change
  ELSE {k \in run.existing : Key[k] \notin Keys(run.change)}

Desired ==
  IF run.op = "apply" THEN run.existing \cup run.change ELSE run.existing \ run.change

SetKeywords(p) ==
  /\ run.photo = p /\ At("set keywords")
  /\ \/ /\ library' = [library EXCEPT ![p].keywords = Desired]
        /\ introduced' = IF run.op = "apply"
             THEN [introduced EXCEPT ![p] = @ \cup (run.change \ library[p].keywords)]
             ELSE introduced
     \/ UNCHANGED <<library, introduced>>
  /\ run' = [run EXCEPT !.step = "check keywords"]
  /\ UNCHANGED <<disk, captioned, raced, edits, operations, crashes>>

SetCaption(p) ==
  /\ run.photo = p /\ At("set caption")
  /\ \/ /\ library' = [library EXCEPT ![p].description = Target]
        /\ captioned' = captioned \cup (IF run.op = "apply" THEN {p} ELSE {})
     \/ UNCHANGED <<library, captioned>>
  /\ run' = [run EXCEPT !.step = "check caption"]
  /\ UNCHANGED <<disk, introduced, raced, edits, operations, crashes>>

\* Six reads did not show the text: they saw what the photo has now or what
\* it had before the setter.
SetCaptionAgain(p) ==
  /\ run.photo = p /\ At("check caption") /\ run.attempt = 1
  /\ \E seen \in {library[p].description, run.text} \ {Target} :
       run' = [run EXCEPT !.text = seen, !.attempt = 2, !.step = "set caption"]
  /\ UNCHANGED <<disk, library, history, operations, crashes>>

\* The owner, in Photos or another program.
Edit(p) ==
  /\ edits < MaxEdits
  /\ \/ \E k \in Keyword :
          library' = [library EXCEPT ![p].keywords = (@ \ {k}) \cup ({k} \ @)]
     \/ \E t \in Texts \ {library[p].description} :
          library' = [library EXCEPT ![p].description = t]
  /\ edits' = edits + 1
  /\ raced' = IF run.row.apply = "writing" \/ run.row.rollback = "removing"
              THEN raced \cup ({run.photo} \cap {p}) ELSE raced
  /\ UNCHANGED <<disk, run, introduced, captioned, operations, crashes>>

Crash ==
  /\ run.op # "idle" /\ crashes < MaxCrashes
  /\ crashes' = crashes + 1
  /\ run' = Idle
  /\ UNCHANGED <<disk, library, history, operations>>

Init ==
  /\ disk = [p \in Photo |-> Reviewed(p)]
  /\ library \in [Photo -> Library]
  /\ run = Idle
  /\ introduced = [p \in Photo |-> {}]
  /\ captioned = {} /\ raced = {}
  /\ operations = 0 /\ edits = 0 /\ crashes = 0

ApplyRow(p) ==
  \/ ApplyRead(p) \/ ApplyReadFails(p) \/ ApplyRefresh(p)
  \/ ApplyKeywordsVerified(p) \/ ApplyKeywordsUnverified(p)
  \/ ApplyReread(p) \/ ApplyRereadFails(p)
  \/ ApplyCaptionVerified(p) \/ ApplyCaptionUnverified(p) \/ SettleApply(p)

RollbackRow(p) ==
  \/ RollbackRead(p) \/ RollbackReadFails(p) \/ EditedCaptionKept(p)
  \/ RollbackRefresh(p)
  \/ RollbackKeywordsVerified(p) \/ RollbackKeywordsUnverified(p)
  \/ RollbackCaptionVerified(p) \/ RollbackCaptionUnverified(p) \/ SettleRollback(p)

Next ==
  \/ StartApply \/ StartRollback
  \/ RecoverInterrupted \/ OpenAdapters \/ AdaptersUnavailable
  \/ Cancel \/ Return \/ BeginApply \/ BeginRollback
  \/ \E p \in Photo :
       \/ ApplyRow(p) \/ RollbackRow(p)
       \/ SetKeywords(p) \/ SetCaption(p) \/ SetCaptionAgain(p) \/ Edit(p)
  \/ Crash

Spec == Init /\ [][Next]_vars

-----------------------------------------------------------------------------

TypeOK ==
  /\ disk \in [Photo -> Row]
  /\ library \in [Photo -> Content]
  /\ run \in Operation
  /\ introduced \in [Photo -> SUBSET Keyword]
  /\ captioned \subseteq Photo /\ raced \subseteq Photo
  /\ operations \in 0..MaxOperations
  /\ edits \in 0..MaxEdits /\ crashes \in 0..MaxCrashes

\* Whatever is interrupted, the file never reaches a state whose receipts no
\* longer cover what it claims, or whose failures lost their cause: apply,
\* rollback and status would refuse it for good (workflows.py:1581-1653).
JournalStaysUsable ==
  /\ TypeOK
  /\ \A p \in Photo : EvidenceIsValid(disk[p]) /\ CauseKept(disk[p])

\* A keyword our setter put into a photo is either receipted, or its row says
\* to a reader that the outcome is open ("writing", "uncertain"): no crash,
\* failed read-back or retry forgets a write (README.md:344-345).
NoForgottenWrite ==
  \A p \in Photo :
    /\ introduced[p] \subseteq disk[p].applied \/ disk[p].apply \in {"writing", "uncertain"}
    /\ p \in captioned => disk[p].wrote \/ disk[p].apply \in {"writing", "uncertain"}

\* A receipt claims only what a setter of ours did: a row nobody else edited
\* while it was open lists keywords and a caption our setter put there
\* (README.md:402-403, "registradas después de una verificación exitosa").
ReceiptsAreEarned ==
  \A p \in Photo \ raced :
    disk[p].receipt # {} =>
      disk[p].applied \subseteq introduced[p] /\ (disk[p].wrote => p \in captioned)

\* verified_removed is said only when every applied keyword was taken back
\* and the caption this run wrote is gone, over any number of retries.
RemovalIsComplete ==
  \A p \in Photo :
    disk[p].rollback = "verified_removed" =>
      disk[p].rolled = disk[p].applied /\ (disk[p].wrote => disk[p].caption = "removed")

\* A setter never drops a keyword the operation had read, unless it is a
\* rollback and the row's receipt lists exactly that spelling: casing variants
\* and keywords of others stay (workflows.py:2013-2018, 2291-2295).
SeenKeywordsSurvive ==
  [][\A p \in Photo :
       edits' = edits =>
         \A k \in library[p].keywords \ library'[p].keywords :
           \/ k \notin run.existing
           \/ run.op = "rollback" /\ k \in disk[p].applied]_vars

\* A keyword or caption taken out of a photo that was not edited while its row
\* was open had been put there by this run (README.md:220-221, 406).
RollbackTakesOnlyOurs ==
  [][\A p \in Photo \ raced :
       (edits' = edits /\ run.op = "rollback") =>
         /\ library[p].keywords \ library'[p].keywords \subseteq introduced[p]
         /\ library'[p].description # library[p].description => p \in captioned]_vars

\* What status advises can be done: an apply it points to is accepted and has
\* a row to work on, and so is a rollback (README.md:386-389).
AdviceIsFollowable ==
  run.op = "idle" =>
    /\ NextAction(disk) = "review_then_apply" => ApplyAccepts(disk) /\ ToApply(disk) # {}
    /\ NextAction(disk) = "rollback_available" =>
         RollbackAccepts(disk) /\ ToRollBack(disk) # {}

Journal ==
  INSTANCE PhotoJournal WITH
    JournalPhoto <- Photo,
    apply <- [p \in Photo |-> disk[p].apply],
    rollback <- [p \in Photo |-> disk[p].rollback],
    content <- library

\* The detailed operations implement the journal's promise.
JournalSpec == Journal!JournalSpec

-----------------------------------------------------------------------------
(***************************************************************************)
(* A property the documentation states and the code does not keep.         *)
(***************************************************************************)

\* Before the caption setter runs, the operation last saw no text of others
\* (README.md:404-406; workflows.py:2067-2070).
SeenTextSurvives == At("set caption") => run.text # "foreign"
=============================================================================
