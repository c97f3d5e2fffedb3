------------------------ MODULE ApplyRollbackProofs ------------------------
(***************************************************************************)
(* Proofs about ApplyRollback: first, that every step of apply and         *)
(* rollback is a step of PhotoJournal or leaves its variables as they are; *)
(* second, what the saved rows claim, advise and remove.                   *)
(*                                                                         *)
(* The promise is about saved rows, while a step acts on the row in hand,  *)
(* so the invariant ties the two: the row in hand has the states of the    *)
(* saved one (reading: still unopened; opened: "writing" or "removing"),   *)
(* and the rows to do have not been opened since the operation took them.  *)
(* That is inductive only together with the types and with InHand, which   *)
(* says that a row stage has a photo.                                      *)
(***************************************************************************)
EXTENDS ApplyRollback, TLAPS

RowStages == {"read", "refresh", "set keywords", "check keywords", "reread",
              "set caption", "check caption", "settle"}

Unopened == {"not_run", "failed", "cancelled"}

Types ==
  /\ disk \in [Photo -> Row] /\ library \in [Photo -> Content]
  /\ run \in Operation

\* Only a row in hand has a step of its own.
InHand ==
  /\ run.step \in RowStages <=> run.photo \in Photo
  /\ run.step = "recover" => run.todo = {}
  /\ run.op = "idle" => run = Idle

Reading == run.step \in {"read", "refresh"}

Opened == run.step \in RowStages \ {"read", "refresh"}

ApplyWaits ==
  run.op = "apply" =>
    /\ \A p \in Photo : disk[p].rollback = "not_run"
    /\ \A p \in run.todo \ {run.photo} : disk[p].apply \in Unopened
    /\ Reading \/ Opened =>
         run.row.apply = disk[run.photo].apply /\ run.row.rollback = "not_run"
    /\ Reading => run.row.apply \in Unopened
    /\ Opened => run.row.apply = "writing"

RollbackWaits ==
  run.op = "rollback" =>
    /\ \A p \in run.todo \ {run.photo} :
         disk[p].apply = "verified" /\ disk[p].rollback \in Unopened
    /\ Reading \/ Opened =>
         /\ run.row.apply = disk[run.photo].apply
         /\ run.row.rollback = disk[run.photo].rollback
    /\ Reading => run.row.apply = "verified" /\ run.row.rollback \in Unopened
    /\ Opened => run.row.apply = "verified" /\ run.row.rollback = "removing"

-----------------------------------------------------------------------------

LEMMA ReviewedType ==
  ASSUME NEW p
  PROVE  Reviewed(p) \in Row
  BY DEF Reviewed, Row, ApplyStates, RollbackStates, CaptionStates

LEMMA IdleType == Idle \in Operation
  BY ReviewedType, ManifestConstants DEF Idle, Operation, Steps, Texts

LEMMA BetweenType ==
  ASSUME Types, NEW todo \in SUBSET Photo
  PROVE  Between(todo) \in Operation
  BY IdleType DEF Between, Operation, Types, Idle

LEMMA DigestTypes ==
  ASSUME NEW row \in Row
  PROVE  /\ MutationDigest(row) \in SUBSET MutationReceipt
         /\ RollbackDigest(row) \in SUBSET RollbackReceipt
  BY DEF Row, MutationDigest, MutationReceipt, RollbackDigest, RollbackReceipt

LEMMA AttemptTypes ==
  ASSUME NEW r \in Operation, NEW a \in 0..2, NEW t \in Texts, NEW s \in Steps
  PROVE  [r EXCEPT !.text = t, !.attempt = a, !.step = s] \in Operation
  BY DEF Operation

LEMMA RowEnds ==
  ASSUME NEW row \in Row
  PROVE  /\ FailedApply(row) \in Row /\ FailedRollback(row) \in Row
         /\ CancelledApply(row) \in Row /\ CancelledRollback(row) \in Row
         /\ Retried(row) \in Row /\ Removal(row) \in Row
         /\ [row EXCEPT !.apply = "noop"] \in Row
         /\ [row EXCEPT !.apply = "writing"] \in Row
         /\ [row EXCEPT !.rollback = "removing"] \in Row
         /\ \A s \in CaptionStates : [row EXCEPT !.caption = s] \in Row
         /\ \A s \in RollbackStates, e \in BOOLEAN :
              [row EXCEPT !.rollback = s, !.rollbackError = e] \in Row
         /\ \A e \in BOOLEAN : [row EXCEPT !.rollbackError = e] \in Row
         /\ \A k \in SUBSET Keyword : [row EXCEPT !.rolled = k] \in Row
         /\ \A k \in SUBSET Keyword : [row EXCEPT !.applied = k] \in Row
         /\ [row EXCEPT !.wrote = TRUE, !.caption = "verified"] \in Row
<1>1. FailedApply(row) \in Row /\ FailedRollback(row) \in Row
  BY ZenonT(30) DEF Row, FailedApply, FailedRollback, ApplyStates, RollbackStates
<1>2. CancelledApply(row) \in Row /\ CancelledRollback(row) \in Row
  BY ZenonT(30) DEF Row, CancelledApply, CancelledRollback, ApplyStates, RollbackStates
<1>3. Retried(row) \in Row /\ Removal(row) \in Row
  BY ZenonT(30) DEF Row, Retried, Removal, ApplyStates, RollbackStates, CaptionStates
<1>4. /\ [row EXCEPT !.apply = "noop"] \in Row
      /\ [row EXCEPT !.apply = "writing"] \in Row
      /\ [row EXCEPT !.rollback = "removing"] \in Row
      /\ \A s \in CaptionStates : [row EXCEPT !.caption = s] \in Row
  BY ZenonT(30) DEF Row, ApplyStates, RollbackStates
<1>5. /\ \A s \in RollbackStates, e \in BOOLEAN :
           [row EXCEPT !.rollback = s, !.rollbackError = e] \in Row
      /\ \A e \in BOOLEAN : [row EXCEPT !.rollbackError = e] \in Row
  BY ZenonT(30) DEF Row
<1>6. /\ \A k \in SUBSET Keyword : [row EXCEPT !.rolled = k] \in Row
      /\ \A k \in SUBSET Keyword : [row EXCEPT !.applied = k] \in Row
      /\ [row EXCEPT !.wrote = TRUE, !.caption = "verified"] \in Row
  BY ZenonT(30) DEF Row, CaptionStates
<1> QED
  BY <1>1, <1>2, <1>3, <1>4, <1>5, <1>6

LEMMA ReceiptedType ==
  ASSUME NEW row \in Row
  PROVE  Receipted(row) \in Row
  BY DigestTypes DEF Row, Receipted

LEMMA RowSettles ==
  ASSUME NEW row \in Row, run.change \in SUBSET Keyword
  PROVE  Unsettled(row) \in Row /\ Settled(row) \in Row
<1> DEFINE changed == [row EXCEPT !.applied = run.change]
<1>1. changed \in Row /\ MutationDigest(changed) \in SUBSET MutationReceipt
  BY RowEnds, DigestTypes
<1>2. Settled(row) \in Row
  BY <1>1 DEF Row, Settled, ApplyStates
<1>3. Unsettled(row) \in Row
  BY DigestTypes DEF Row, Unsettled, ApplyStates
<1> QED
  BY <1>2, <1>3

LEMMA InterruptedRows ==
  ASSUME Types, NEW p \in Photo
  PROVE  InterruptedWrite(p) \in Row /\ InterruptedRemoval(p) \in Row
  BY ZenonT(60) DEF Types, Row, InterruptedWrite, InterruptedRemoval,
         ApplyStates, RollbackStates, CaptionStates

LEMMA SaveTypes ==
  ASSUME Types, NEW p \in Photo, NEW row \in Row, NEW then \in Operation,
         Save(p, row, then), library' = library
  PROVE  Types'
  BY IdleType DEF Types, Save

LEMMA SaveRollbackTypes ==
  ASSUME Types, NEW p \in Photo, NEW row \in Row, NEW then \in Operation,
         SaveRollback(p, row, then), library' = library
  PROVE  Types'
  BY SaveTypes, ReceiptedType DEF SaveRollback

LEMMA HeldTypes ==
  ASSUME Types
  PROVE  /\ RowDone \in Operation
         /\ run.row \in Row
         /\ \A p \in Photo : disk[p] \in Row
         /\ \A p \in Photo : library[p] \in Content
         /\ Actionable \in SUBSET Photo
         /\ run.change \in SUBSET Keyword
<1>1. run.row \in Row /\ run.todo \in SUBSET Photo /\ run.change \in SUBSET Keyword
  BY DEF Types, Operation
<1>2. RowDone \in Operation
  BY <1>1, BetweenType DEF RowDone
<1>3. \A p \in Photo : disk[p] \in Row /\ library[p] \in Content
  BY DEF Types
<1> QED
  BY <1>1, <1>2, <1>3 DEF Actionable, ToApply, ToRollBack

LEMMA ControlTypes ==
  ASSUME Types,
         StartApply \/ StartRollback \/ RecoverInterrupted \/ OpenAdapters
           \/ AdaptersUnavailable \/ Cancel \/ Return \/ BeginApply \/ BeginRollback
           \/ Crash
  PROVE  Types'
<1> USE HeldTypes
<1>1. ASSUME NEW op \in {"apply", "rollback"}, Start(op) PROVE Types'
  BY <1>1, IdleType DEF Types, Start, Operation, Steps
<1>2. CASE StartApply \/ StartRollback
  BY <1>1, <1>2 DEF StartApply, StartRollback
<1>3. CASE RecoverInterrupted
  BY <1>3, SaveTypes, SaveRollbackTypes, InterruptedRows DEF RecoverInterrupted, Types
<1>4. CASE OpenAdapters
  BY <1>4, BetweenType DEF OpenAdapters, Types
<1>5. CASE AdaptersUnavailable
  BY <1>5, SaveTypes, SaveRollbackTypes, RowEnds, BetweenType DEF AdaptersUnavailable
<1>6. CASE Cancel
  BY <1>6, SaveTypes, SaveRollbackTypes, RowEnds, BetweenType DEF Cancel
<1>7. CASE Return \/ Crash
  BY <1>7, IdleType DEF Return, Crash, Types
<1>8. CASE BeginApply
  <2>1. PICK p \in Photo :
          /\ First(p, run.todo)
          /\ IF HasPayload(p)
             THEN /\ run' = [run EXCEPT !.photo = p, !.row = Retried(disk[p]),
                                        !.step = "read"]
                  /\ UNCHANGED disk
             ELSE Save(p, [Retried(disk[p]) EXCEPT !.apply = "noop"],
                       Between(run.todo \ {p}))
    BY <1>8 DEF BeginApply
  <2>2. Retried(disk[p]) \in Row /\ [Retried(disk[p]) EXCEPT !.apply = "noop"] \in Row
    BY RowEnds
  <2>3. run.todo \ {p} \in SUBSET Photo /\ library' = library
    BY <1>8 DEF Types, Operation, BeginApply
  <2>4. CASE HasPayload(p)
    <3>1. [run EXCEPT !.photo = p, !.row = Retried(disk[p]), !.step = "read"] \in Operation
      BY <2>2 DEF Types, Operation, Steps
    <3> QED
      BY <2>1, <2>3, <2>4, <3>1 DEF Types
  <2>5. CASE ~HasPayload(p)
    BY <2>1, <2>2, <2>3, <2>5, SaveTypes, BetweenType
  <2> QED
    BY <2>4, <2>5
<1>9. CASE BeginRollback
  <2>1. PICK p \in Photo :
          run' = [run EXCEPT !.photo = p, !.step = "read",
                             !.row = [disk[p] EXCEPT !.rollbackError = FALSE]]
    BY <1>9 DEF BeginRollback
  <2>2. [disk[p] EXCEPT !.rollbackError = FALSE] \in Row
    BY RowEnds
  <2> QED
    BY <1>9, <2>1, <2>2 DEF BeginRollback, Types, Operation, Steps
<1> QED
  BY <1>2, <1>3, <1>4, <1>5, <1>6, <1>7, <1>8, <1>9

LEMMA ApplyTypes ==
  ASSUME Types, NEW p \in Photo, ApplyRow(p)
  PROVE  Types'
<1> USE HeldTypes
<1>1. library' = library
  BY DEF ApplyRow, ApplyRead, ApplyReadFails, ApplyRefresh, ApplyKeywordsVerified,
         ApplyKeywordsUnverified, ApplyReread, ApplyRereadFails, ApplyCaptionVerified,
         ApplyCaptionUnverified, SettleApply
<1>2. CASE ApplyRead(p)
  <2>1. ASSUME NEW c \in BOOLEAN, NEW row \in Row
        PROVE  [run EXCEPT !.step = "refresh", !.caption = c, !.row = row] \in Operation
    BY DEF Types, Operation, Steps
  <2> DEFINE present == p \in Captioned /\ library[p].description # ""
             caption == IF present THEN "preserved" ELSE run.row.caption
  <2>2. [run.row EXCEPT !.caption = caption] \in Row
    <3>1. caption \in CaptionStates
      BY DEF Row, CaptionStates
    <3> QED
      BY <3>1, RowEnds
  <2>3. run' = [run EXCEPT !.step = "refresh", !.caption = p \in Captioned /\ ~present,
                           !.row = [run.row EXCEPT !.caption = caption]]
    BY <1>2 DEF ApplyRead, Types, Operation
  <2>4. disk' = disk
    BY <1>2 DEF ApplyRead
  <2> QED
    <3> HIDE DEF caption, present
    <3>1. run' \in Operation
      BY <2>1, <2>2, <2>3
    <3> QED
      BY <1>1, <2>4, <3>1 DEF Types
<1>3. CASE ApplyReadFails(p)
  BY <1>1, <1>3, SaveTypes, RowEnds DEF ApplyReadFails
<1>4. CASE ApplyRefresh(p)
  <2> DEFINE seen == library[p]
             added == Additions(p, seen.keywords)
             caption == run.caption /\ seen.description = ""
             row == IF p \in Captioned /\ ~caption
                    THEN [run.row EXCEPT !.caption = "preserved"] ELSE run.row
             opened == [row EXCEPT !.apply = "writing"]
             then == [run EXCEPT !.row = opened, !.existing = seen.keywords,
                              !.text = seen.description, !.change = added,
                              !.caption = caption,
                              !.step = IF added # {} THEN "set keywords" ELSE "reread"]
  <2>1. row \in Row
    BY RowEnds DEF CaptionStates
  <2>2. opened \in Row /\ [row EXCEPT !.apply = "noop"] \in Row
    BY <2>1, RowEnds
  <2>3. added \in SUBSET Keyword /\ seen \in Content
    BY ManifestConstants DEF Additions
  <2>4. caption \in BOOLEAN
    BY DEF Types, Operation
  <2>5. then \in Operation
    <3> HIDE DEF opened, added, caption
    <3> QED
      BY <2>2, <2>3, <2>4 DEF Types, Operation, Steps, Content
  <2>6. CASE added = {} /\ ~caption
    BY <1>1, <1>4, <2>2, <2>6, SaveTypes DEF ApplyRefresh
  <2>7. CASE ~(added = {} /\ ~caption)
    <3>1. Save(p, opened, then)
      BY <1>4, <2>7 DEF ApplyRefresh
    <3> QED
      BY <1>1, <2>2, <2>5, <3>1, SaveTypes
  <2> QED
    BY <2>6, <2>7
<1>5. CASE ApplyKeywordsVerified(p)
  <2>1. [run.row EXCEPT !.applied = run.change] \in Row
    BY RowEnds
  <2> QED
    BY <1>1, <1>5, <2>1 DEF ApplyKeywordsVerified, AfterKeywords, Types, Operation, Steps
<1>6. CASE ApplyKeywordsUnverified(p)
  BY <1>1, <1>6 DEF ApplyKeywordsUnverified, AfterKeywords, Types, Operation, Steps
<1>7. CASE ApplyReread(p)
  <2>1. [run.row EXCEPT !.caption = "preserved"] \in Row
    BY RowEnds DEF CaptionStates
  <2>2. CASE library[p].description = ""
    <3>1. run' = [run EXCEPT !.text = "", !.attempt = 1, !.step = "set caption"]
      BY <1>7, <2>2 DEF ApplyReread
    <3>2. 1 \in 0..2 /\ "" \in Texts /\ "set caption" \in Steps
      BY DEF Texts, Steps
    <3>3. run' \in Operation
      BY <3>1, <3>2, AttemptTypes DEF Types
    <3> QED
      BY <1>1, <1>7, <3>3 DEF ApplyReread, Types
  <2>3. CASE library[p].description # ""
    <3>1. run' = [run EXCEPT !.row = [run.row EXCEPT !.caption = "preserved"],
                             !.caption = FALSE, !.step = "settle"]
      BY <1>7, <2>3 DEF ApplyReread, Types, Operation
    <3>2. run' \in Operation
      BY <2>1, <3>1 DEF Types, Operation, Steps
    <3> QED
      BY <1>1, <1>7, <3>2 DEF ApplyReread, Types
  <2> QED
    BY <2>2, <2>3
<1>8. CASE ApplyRereadFails(p) \/ ApplyCaptionUnverified(p)
  BY <1>1, <1>8 DEF ApplyRereadFails, ApplyCaptionUnverified, Types, Operation, Steps
<1>9. CASE ApplyCaptionVerified(p)
  <2>1. [run.row EXCEPT !.wrote = TRUE, !.caption = "verified"] \in Row
    BY RowEnds
  <2> QED
    BY <1>1, <1>9, <2>1 DEF ApplyCaptionVerified, Types, Operation, Steps
<1>10. CASE SettleApply(p)
  BY <1>1, <1>10, SaveTypes, RowSettles DEF SettleApply
<1> QED
  BY <1>2, <1>3, <1>4, <1>5, <1>6, <1>7, <1>8, <1>9, <1>10 DEF ApplyRow

LEMMA RollbackTypes ==
  ASSUME Types, NEW p \in Photo, RollbackRow(p)
  PROVE  Types'
<1> USE HeldTypes
<1>1. library' = library
  BY DEF RollbackRow, RollbackRead, RollbackReadFails, EditedCaptionKept, RollbackRefresh,
         RollbackKeywordsVerified, RollbackKeywordsUnverified,
         RollbackCaptionVerified, RollbackCaptionUnverified, SettleRollback
<1>2. \A row \in Row : CaptionGone(p, row) \in Row
  BY RowEnds DEF CaptionGone, CaptionStates
<1>3. CASE RollbackRead(p)
  <2>1. run' \in Operation
    BY <1>2, <1>3 DEF RollbackRead, Types, Operation, Steps
  <2> QED
    BY <1>1, <1>3, <2>1 DEF RollbackRead, Types
<1>4. CASE RollbackReadFails(p)
  BY <1>1, <1>4, SaveRollbackTypes, RowEnds DEF RollbackReadFails
<1>5. Removal(run.row) \in Row /\ [Removal(run.row) EXCEPT !.caption = "uncertain"] \in Row
  BY RowEnds DEF CaptionStates
<1>6. CASE EditedCaptionKept(p)
  BY <1>1, <1>5, <1>6, SaveRollbackTypes DEF EditedCaptionKept
<1>7. CASE RollbackRefresh(p)
  <2> DEFINE seen == library[p]
             row == CaptionGone(p, run.row)
             caption == row.wrote /\ seen.description = "approved"
             removed == Remaining(row) \cap seen.keywords
             missing == Remaining(row) \ seen.keywords
             conflict == CaseConflict(missing, seen.keywords)
             opened == [row EXCEPT !.rollback = "removing"]
             closed == [row EXCEPT !.rollback = IF conflict THEN "casing_conflict"
                                                ELSE "already_absent",
                                   !.rollbackError = conflict]
             step == IF removed # {} THEN "set keywords" ELSE "set caption"
             held == [run EXCEPT !.row = opened, !.existing = seen.keywords,
                           !.text = seen.description, !.change = removed,
                           !.missing = missing, !.caption = caption]
             then == [run EXCEPT !.row = opened, !.existing = seen.keywords,
                           !.text = seen.description, !.change = removed,
                           !.missing = missing, !.caption = caption, !.attempt = 1,
                           !.step = IF removed # {} THEN "set keywords"
                                    ELSE "set caption"]
  <2>1. row \in Row /\ seen \in Content
    BY <1>2
  <2>2. conflict \in BOOLEAN /\ caption \in BOOLEAN
    BY <2>1 DEF CaseConflict, Row
  <2>3. removed \in SUBSET Keyword /\ missing \in SUBSET Keyword
    BY <2>1 DEF Remaining, Row
  <2>4. opened \in Row
    BY <2>1, RowEnds, ZenonT(60)
  <2>5. closed \in Row
    <3> HIDE DEF row, conflict
    <3> QED
      BY <2>1, <2>2, RowEnds DEF RollbackStates
  <2>6. then \in Operation
    <3> HIDE DEF opened, removed, missing, caption
    <3>1. held \in Operation
      BY <2>1, <2>2, <2>3, <2>4 DEF Types, Operation, Content
    <3>2. 1 \in 0..2 /\ step \in Steps /\ seen.description \in Texts
      BY <2>1 DEF Steps, Content
    <3>3. then = [held EXCEPT !.text = seen.description, !.attempt = 1, !.step = step]
      BY DEF Types, Operation
    <3> HIDE DEF held, then, step
    <3> QED
      BY <3>1, <3>2, <3>3, AttemptTypes
  <2>7. CASE removed = {} /\ ~caption
    <3>1. SaveRollback(p, closed, RowDone)
      BY <1>7, <2>7 DEF RollbackRefresh
    <3> QED
      BY <1>1, <2>5, <3>1, SaveRollbackTypes
  <2>8. CASE ~(removed = {} /\ ~caption)
    <3>1. SaveRollback(p, opened, then)
      BY <1>7, <2>8 DEF RollbackRefresh
    <3> QED
      BY <1>1, <2>4, <2>6, <3>1, SaveRollbackTypes
  <2> QED
    BY <2>7, <2>8
<1>8. CASE RollbackKeywordsVerified(p)
  <2> DEFINE row == [run.row EXCEPT !.rolled = @ \cup run.change]
             then == [run EXCEPT !.row = row,
                      !.step = IF run.caption THEN "set caption" ELSE "settle"]
  <2>1. row \in Row
    BY RowEnds DEF Row
  <2>2. then \in Operation
    <3> HIDE DEF row
    <3> QED
      BY <2>1 DEF Types, Operation, Steps
  <2> QED
    BY <1>1, <1>8, <2>1, <2>2, SaveRollbackTypes DEF RollbackKeywordsVerified
<1>9. CASE RollbackKeywordsUnverified(p)
  BY <1>1, <1>5, <1>9, SaveRollbackTypes DEF RollbackKeywordsUnverified
<1>10. CASE RollbackCaptionVerified(p)
  <2>1. [run.row EXCEPT !.caption = "removed"] \in Row
    BY RowEnds DEF CaptionStates
  <2> QED
    BY <1>1, <1>10, <2>1 DEF RollbackCaptionVerified, Types, Operation, Steps
<1>11. CASE RollbackCaptionUnverified(p)
  BY <1>1, <1>5, <1>11, SaveRollbackTypes DEF RollbackCaptionUnverified
<1>12. CASE SettleRollback(p)
  <2>1. Outcome \in RollbackStates
    BY DEF Outcome, RollbackStates
  <2>2. [run.row EXCEPT !.rollback = Outcome,
                        !.rollbackError = Outcome # "verified_removed"] \in Row
    BY <2>1, RowEnds
  <2> QED
    BY <1>1, <1>12, <2>2, SaveRollbackTypes DEF SettleRollback
<1> QED
  BY <1>3, <1>4, <1>6, <1>7, <1>8, <1>9, <1>10, <1>11, <1>12 DEF RollbackRow

LEMMA PhotoTypes ==
  ASSUME Types, NEW p \in Photo,
         SetKeywords(p) \/ SetCaption(p) \/ SetCaptionAgain(p) \/ Edit(p)
  PROVE  Types'
<1> USE HeldTypes
<1>1. CASE SetKeywords(p)
  <2>1. Desired \in SUBSET Keyword /\ run.step \in Steps
    BY DEF Desired, Types, Operation
  <2>2. [library EXCEPT ![p].keywords = Desired] \in [Photo -> Content]
    BY <2>1 DEF Types, Content
  <2>3. run' \in Operation /\ disk' = disk
    BY <1>1 DEF SetKeywords, Types, Operation, Steps
  <2> QED
    BY <1>1, <2>2, <2>3 DEF SetKeywords, Types
<1>2. CASE SetCaption(p)
  <2>1. [library EXCEPT ![p].description = Target] \in [Photo -> Content]
    BY DEF Types, Content, Texts, Target
  <2>2. run' \in Operation /\ disk' = disk
    BY <1>2 DEF SetCaption, Types, Operation, Steps
  <2> QED
    BY <1>2, <2>1, <2>2 DEF SetCaption, Types
<1>3. CASE SetCaptionAgain(p)
  <2>1. PICK seen \in {library[p].description, run.text} \ {Target} :
          run' = [run EXCEPT !.text = seen, !.attempt = 2, !.step = "set caption"]
    BY <1>3 DEF SetCaptionAgain
  <2>2. seen \in Texts
    BY DEF Types, Operation, Content
  <2>3. 2 \in 0..2 /\ "set caption" \in Steps
    BY DEF Steps
  <2>4. run' \in Operation
    BY <2>1, <2>2, <2>3, AttemptTypes DEF Types
  <2> QED
    BY <1>3, <2>4 DEF SetCaptionAgain, Types
<1>4. CASE Edit(p)
  <2>1. ASSUME NEW k \in Keyword
        PROVE  [library EXCEPT ![p].keywords = (@ \ {k}) \cup ({k} \ @)]
                 \in [Photo -> Content]
    BY DEF Types, Content
  <2>2. ASSUME NEW t \in Texts
        PROVE  [library EXCEPT ![p].description = t] \in [Photo -> Content]
    BY DEF Types, Content
  <2> QED
    BY <1>4, <2>1, <2>2 DEF Edit, Types
<1> QED
  BY <1>1, <1>2, <1>3, <1>4

LEMMA TypesStep == Types /\ [Next]_vars => Types'
  BY ControlTypes, ApplyTypes, RollbackTypes, PhotoTypes DEF Next, Types, vars

LEMMA TypesInit == Init => Types
  BY IdleType, ReviewedType, RollbackConstants DEF Init, Types

-----------------------------------------------------------------------------
(***************************************************************************)
(* What the operation knows of its rows.                                   *)
(***************************************************************************)

Phase == InHand /\ ApplyWaits /\ RollbackWaits

LEMMA NoPhotoZero == 0 \notin Photo
  BY ManifestConstants DEF Photo

LEMMA IdlePhase ==
  ASSUME run' = Idle
  PROVE  Phase'
  BY NoPhotoZero DEF Phase, InHand, ApplyWaits, RollbackWaits, Idle, RowStages,
                     Reading, Opened

\* Between two rows.
LEMMA BetweenPhase ==
  ASSUME Types, Types', NEW todo \in SUBSET Photo, run' = Between(todo), run.op # "idle",
         run.op = "apply" =>
           /\ \A p \in Photo : disk'[p].rollback = "not_run"
           /\ \A p \in todo : disk'[p].apply \in Unopened,
         run.op = "rollback" =>
           \A p \in todo : disk'[p].apply = "verified" /\ disk'[p].rollback \in Unopened
  PROVE  Phase'
<1>1. /\ run'.op = run.op /\ run'.todo = todo /\ run'.step = "next" /\ run'.photo = 0
  BY DEF Between, Idle
<1>2. ~Reading' /\ ~Opened'
  BY <1>1 DEF Reading, Opened, RowStages
<1> QED
  BY <1>1, <1>2, NoPhotoZero DEF Phase, InHand, ApplyWaits, RollbackWaits, RowStages

LEMMA RowDonePhase ==
  ASSUME Types, Types', Phase, run.op # "idle", run.photo \in Photo, NEW row \in Row,
         run.op = "apply" => row.rollback = "not_run",
         Save(run.photo, row, RowDone)
  PROVE  Phase'
<1>1. CASE run' = Idle
  BY <1>1, IdlePhase
<1>2. CASE disk' = [disk EXCEPT ![run.photo] = row] /\ run' = RowDone
  <2>1. run.todo \ {run.photo} \in SUBSET Photo
    BY DEF Types, Operation
  <2>2. \A p \in Photo : disk'[p] = IF p = run.photo THEN row ELSE disk[p]
    BY <1>2 DEF Types
  <2>3. run.op = "apply" =>
           /\ \A p \in Photo : disk'[p].rollback = "not_run"
           /\ \A p \in run.todo \ {run.photo} : disk'[p].apply \in Unopened
    BY <2>1, <2>2 DEF Phase, ApplyWaits
  <2>4. run.op = "rollback" =>
           \A p \in run.todo \ {run.photo} :
              disk'[p].apply = "verified" /\ disk'[p].rollback \in Unopened
    BY <2>1, <2>2 DEF Phase, RollbackWaits
  <2> QED
    BY <1>2, <2>1, <2>3, <2>4, BetweenPhase DEF RowDone
<1> QED
  BY <1>1, <1>2 DEF Save

\* A step of a row that saves nothing.
LEMMA RowStepPhase ==
  ASSUME Types, Types', Phase, disk' = disk, run.op # "idle",
         run'.op = run.op, run'.todo = run.todo, run'.photo = run.photo,
         run.photo \in Photo, run'.step \in RowStages,
         run'.row.apply = run.row.apply, run'.row.rollback = run.row.rollback,
         Reading <=> Reading'
  PROVE  Phase'
<1>1. run.step \in RowStages /\ (Opened <=> Opened')
  BY DEF Phase, InHand, Reading, Opened, RowStages
<1>2. InHand'
  BY <1>1 DEF InHand, RowStages
<1>3. ApplyWaits'
  BY <1>1 DEF Phase, ApplyWaits
<1>4. RollbackWaits'
  BY <1>1 DEF Phase, RollbackWaits
<1> QED
  BY <1>2, <1>3, <1>4 DEF Phase

\* A row is saved and worked on.
LEMMA OpenedPhase ==
  ASSUME Types, Types', Phase, run.op # "idle", run.photo \in Photo, NEW row \in Row,
         NEW then, Save(run.photo, row, then),
         then.op = run.op, then.todo = run.todo, then.photo = run.photo,
         then.step \in RowStages \ {"read", "refresh"},
         then.row.apply = row.apply, then.row.rollback = row.rollback,
         run.op = "apply" => row.apply = "writing" /\ row.rollback = "not_run",
         run.op = "rollback" => row.apply = "verified" /\ row.rollback = "removing"
  PROVE  Phase'
<1>1. CASE run' = Idle
  BY <1>1, IdlePhase
<1>2. CASE disk' = [disk EXCEPT ![run.photo] = row] /\ run' = then
  <2>1. \A p \in Photo : disk'[p] = IF p = run.photo THEN row ELSE disk[p]
    BY <1>2 DEF Types
  <2>2. Opened' /\ ~Reading' /\ run'.step \in RowStages
    BY <1>2 DEF Opened, Reading, RowStages
  <2>3. InHand'
    BY <1>2, <2>2 DEF InHand, RowStages
  <2>4. run.todo \in SUBSET Photo
    BY DEF Types, Operation
  <2>5. ApplyWaits'
    BY <1>2, <2>1, <2>2, <2>4 DEF Phase, ApplyWaits
  <2>6. RollbackWaits'
    BY <1>2, <2>1, <2>2, <2>4 DEF Phase, RollbackWaits
  <2> QED
    BY <2>3, <2>5, <2>6 DEF Phase
<1> QED
  BY <1>1, <1>2 DEF Save

LEMMA ControlPhase ==
  ASSUME Types, Types', Phase,
         StartApply \/ StartRollback \/ RecoverInterrupted \/ OpenAdapters
           \/ AdaptersUnavailable \/ Cancel \/ Return \/ BeginApply \/ BeginRollback
           \/ Crash
  PROVE  Phase'
<1> USE HeldTypes
<1>1. ASSUME NEW op \in {"apply", "rollback"}, Start(op),
             op = "apply" => ApplyAccepts(disk)
      PROVE  Phase'
  <2>1. /\ run'.op = op /\ run'.todo = {} /\ run'.step = "recover" /\ run'.photo = 0
        /\ disk' = disk
    BY <1>1 DEF Start, Idle
  <2>2. ~Reading' /\ ~Opened'
    BY <2>1 DEF Reading, Opened, RowStages
  <2>3. op = "apply" => \A p \in Photo : disk[p].rollback = "not_run"
    BY <1>1 DEF ApplyAccepts
  <2> QED
    BY <2>1, <2>2, <2>3, NoPhotoZero
       DEF Phase, InHand, ApplyWaits, RollbackWaits, RowStages
<1>2. CASE StartApply \/ StartRollback
  BY <1>1, <1>2 DEF StartApply, StartRollback
<1>3. CASE RecoverInterrupted
  <2>1. PICK p \in Photo :
          IF run.op = "apply" THEN Save(p, InterruptedWrite(p), run)
          ELSE SaveRollback(p, InterruptedRemoval(p), run)
    BY <1>3 DEF RecoverInterrupted
  <2>2. CASE run' = Idle
    BY <2>2, IdlePhase
  <2>3. CASE /\ run' = run
             /\ disk' = [disk EXCEPT ![p] = IF run.op = "apply" THEN InterruptedWrite(p)
                                            ELSE Receipted(InterruptedRemoval(p))]
    <3>1. run.step = "recover" /\ run.todo = {} /\ run.op # "idle"
      BY <1>3 DEF RecoverInterrupted, At, Phase, InHand
    <3>2. run.op = "apply" => \A q \in Photo : disk'[q].rollback = "not_run"
      BY <2>3 DEF Types, Row, InterruptedWrite, Phase, ApplyWaits
    <3>3. ~Reading' /\ ~Opened'
      BY <2>3, <3>1 DEF Reading, Opened, RowStages
    <3> QED
      BY <2>3, <3>1, <3>2, <3>3 DEF Phase, InHand, ApplyWaits, RollbackWaits
  <2> QED
    BY <2>1, <2>2, <2>3 DEF Save, SaveRollback
<1>4. CASE OpenAdapters
  <2>1. Actionable \in SUBSET Photo /\ run.op # "idle" /\ disk' = disk
    BY <1>4 DEF OpenAdapters, At
  <2>2. run.op = "apply" => \A p \in Actionable : disk[p].apply \in Unopened
    BY DEF Actionable, ToApply, Unopened
  <2>3. run.op = "rollback" =>
          \A p \in Actionable : disk[p].apply = "verified" /\ disk[p].rollback \in Unopened
    BY DEF Actionable, ToRollBack, Unopened
  <2>4. run.op = "apply" => \A p \in Photo : disk[p].rollback = "not_run"
    BY DEF Phase, ApplyWaits
  <2> QED
    BY <1>4, <2>1, <2>2, <2>3, <2>4, BetweenPhase DEF OpenAdapters
<1>5. ASSUME NEW p \in Photo, NEW row \in Row, run.op # "idle",
             run.op = "apply" => row.rollback = "not_run",
             Save(p, row, Between({}))
      PROVE  Phase'
  <2>1. CASE run' = Idle
    BY <2>1, IdlePhase
  <2>2. CASE disk' = [disk EXCEPT ![p] = row] /\ run' = Between({})
    <3>1. run.op = "apply" => \A q \in Photo : disk'[q].rollback = "not_run"
      BY <1>5, <2>2 DEF Types, Phase, ApplyWaits
    <3> QED
      BY <1>5, <2>2, <3>1, BetweenPhase
  <2> QED
    BY <1>5, <2>1, <2>2 DEF Save
<1>6. CASE AdaptersUnavailable
  <2>1. PICK p \in Photo :
          IF run.op = "apply" THEN Save(p, FailedApply(disk[p]), Between({}))
          ELSE SaveRollback(p, FailedRollback(disk[p]), Between({}))
    BY <1>6 DEF AdaptersUnavailable
  <2>2. run.op = "apply" => FailedApply(disk[p]).rollback = "not_run"
    BY DEF FailedApply, Phase, ApplyWaits, Row
  <2> QED
    BY <1>5, <1>6, <2>1, <2>2, RowEnds, ReceiptedType
       DEF AdaptersUnavailable, At, SaveRollback
<1>10. CASE Cancel
  <2>1. PICK p \in Photo :
          IF run.op = "apply" THEN Save(p, CancelledApply(disk[p]), Between({}))
          ELSE SaveRollback(p, CancelledRollback(disk[p]), Between({}))
    BY <1>10 DEF Cancel
  <2>2. run.op = "apply" => CancelledApply(disk[p]).rollback = "not_run"
    BY DEF CancelledApply, Phase, ApplyWaits, Row
  <2> QED
    BY <1>5, <1>10, <2>1, <2>2, RowEnds, ReceiptedType DEF Cancel, At, SaveRollback
<1>7. CASE Return \/ Crash
  BY <1>7, IdlePhase DEF Return, Crash
<1>8. CASE BeginApply
  <2>1. PICK p \in Photo :
          /\ First(p, run.todo)
          /\ IF HasPayload(p)
             THEN /\ run' = [run EXCEPT !.photo = p, !.row = Retried(disk[p]),
                                        !.step = "read"]
                  /\ UNCHANGED disk
             ELSE Save(p, [Retried(disk[p]) EXCEPT !.apply = "noop"],
                       Between(run.todo \ {p}))
    BY <1>8 DEF BeginApply
  <2>2. /\ run.op = "apply" /\ run.photo = 0 /\ p \in run.todo
        /\ run.todo \in SUBSET Photo /\ p # 0
    BY <1>8, <2>1, NoPhotoZero DEF BeginApply, At, First, Types, Operation, Phase, InHand,
                                  RowStages
  <2>3. /\ \A q \in Photo : disk[q].rollback = "not_run"
        /\ \A q \in run.todo : disk[q].apply \in Unopened
    BY <2>2, NoPhotoZero DEF Phase, ApplyWaits
  <2>4. /\ Retried(disk[p]).apply = disk[p].apply
        /\ Retried(disk[p]).rollback = "not_run"
    BY <2>3 DEF Retried, Row
  <2>5. CASE HasPayload(p)
    <3>1. /\ run'.op = "apply" /\ run'.todo = run.todo /\ run'.photo = p
          /\ run'.step = "read" /\ run'.row = Retried(disk[p]) /\ disk' = disk
      BY <2>1, <2>2, <2>5 DEF Types, Operation
    <3>2. Reading' /\ ~Opened'
      BY <3>1 DEF Reading, Opened
    <3> QED
      BY <2>2, <2>3, <2>4, <3>1, <3>2
         DEF Phase, InHand, ApplyWaits, RollbackWaits, RowStages
  <2>6. CASE ~HasPayload(p)
    <3>1. CASE run' = Idle
      BY <3>1, IdlePhase
    <3>2. CASE /\ disk' = [disk EXCEPT ![p] = [Retried(disk[p]) EXCEPT !.apply = "noop"]]
               /\ run' = Between(run.todo \ {p})
      <4>1. \A q \in Photo : disk'[q].rollback = "not_run"
        BY <2>3, <3>2 DEF Types, Retried, Row
      <4>2. \A q \in run.todo \ {p} : disk'[q].apply \in Unopened
        BY <2>2, <2>3, <3>2 DEF Types
      <4> QED
        BY <2>2, <3>2, <4>1, <4>2, BetweenPhase
    <3> QED
      BY <2>1, <2>6, <3>1, <3>2 DEF Save
  <2> QED
    BY <2>5, <2>6
<1>9. CASE BeginRollback
  <2>1. PICK p \in Photo :
          /\ First(p, run.todo)
          /\ run' = [run EXCEPT !.photo = p, !.step = "read",
                                !.row = [disk[p] EXCEPT !.rollbackError = FALSE]]
    BY <1>9 DEF BeginRollback
  <2>2. /\ run.op = "rollback" /\ run.photo = 0 /\ p \in run.todo
        /\ run.todo \in SUBSET Photo /\ p # 0
    BY <1>9, <2>1, NoPhotoZero DEF BeginRollback, At, First, Types, Operation, Phase,
                                  InHand, RowStages
  <2>3. \A q \in run.todo : disk[q].apply = "verified" /\ disk[q].rollback \in Unopened
    BY <2>2, NoPhotoZero DEF Phase, RollbackWaits
  <2>4. /\ run'.op = "rollback" /\ run'.todo = run.todo /\ run'.photo = p
        /\ run'.step = "read" /\ disk' = disk
        /\ run'.row.apply = disk[p].apply /\ run'.row.rollback = disk[p].rollback
    BY <1>9, <2>1, <2>2 DEF BeginRollback, Types, Operation, Row
  <2>5. Reading' /\ ~Opened'
    BY <2>4 DEF Reading, Opened
  <2> QED
    BY <2>2, <2>3, <2>4, <2>5 DEF Phase, InHand, ApplyWaits, RollbackWaits, RowStages
<1> QED
  BY <1>2, <1>3, <1>4, <1>6, <1>10, <1>7, <1>8, <1>9

LEMMA ApplyPhase ==
  ASSUME Types, Types', Phase, NEW p \in Photo, ApplyRow(p)
  PROVE  Phase'
<1> USE HeldTypes
<1>1. run.op = "apply" /\ run.photo = p
  BY DEF ApplyRow, ApplyRead, ApplyReadFails, ApplyRefresh, ApplyKeywordsVerified,
         ApplyKeywordsUnverified, ApplyReread, ApplyRereadFails, ApplyCaptionVerified,
         ApplyCaptionUnverified, SettleApply, Applying
<1>2. run.step \in RowStages
  BY <1>1 DEF Phase, InHand
<1>3. run.row.rollback = "not_run"
  BY <1>1, <1>2 DEF Phase, ApplyWaits, Reading, Opened
<1>4. CASE ApplyRead(p)
  <2>1. /\ disk' = disk /\ run'.op = run.op /\ run'.todo = run.todo /\ run'.photo = p
        /\ run'.step = "refresh" /\ run'.row.apply = run.row.apply
        /\ run'.row.rollback = run.row.rollback
    BY <1>1, <1>4, ZenonT(60) DEF ApplyRead, Types, Operation, Row
  <2>2. Reading /\ Reading'
    BY <1>4, <2>1 DEF Reading, ApplyRead, Applying
  <2> QED
    BY <1>1, <2>1, <2>2, RowStepPhase DEF RowStages
<1>5. CASE ApplyReadFails(p)
  <2>1. FailedApply(run.row) \in Row /\ FailedApply(run.row).rollback = "not_run"
    BY <1>3, RowEnds DEF FailedApply, Row
  <2> QED
    BY <1>1, <1>5, <2>1, RowDonePhase DEF ApplyReadFails
<1>6. CASE ApplyRefresh(p)
  <2> DEFINE seen == library[p]
             added == Additions(p, seen.keywords)
             caption == run.caption /\ seen.description = ""
             row == IF p \in Captioned /\ ~caption
                    THEN [run.row EXCEPT !.caption = "preserved"] ELSE run.row
             opened == [row EXCEPT !.apply = "writing"]
             step == IF added # {} THEN "set keywords" ELSE "reread"
             then == [run EXCEPT !.row = opened, !.existing = seen.keywords,
                              !.text = seen.description, !.change = added,
                              !.caption = caption,
                              !.step = step]
  <2>1. row \in Row /\ row.rollback = "not_run"
    <3>1. row \in Row
      BY RowEnds DEF CaptionStates
    <3>2. [run.row EXCEPT !.caption = "preserved"].rollback = "not_run"
      BY <1>3 DEF Row
    <3> QED
      BY <1>3, <3>1, <3>2
  <2>2. /\ opened \in Row /\ [row EXCEPT !.apply = "noop"] \in Row
        /\ opened.apply = "writing" /\ opened.rollback = "not_run"
        /\ [row EXCEPT !.apply = "noop"].rollback = "not_run"
    <3> HIDE DEF row
    <3> QED
      BY <2>1, RowEnds DEF Row
  <2>3. CASE added = {} /\ ~caption
    BY <1>1, <1>6, <2>2, <2>3, RowDonePhase DEF ApplyRefresh
  <2>4. CASE ~(added = {} /\ ~caption)
    <3>1. Save(p, opened, then)
      BY <1>6, <2>4 DEF ApplyRefresh
    <3>2. /\ then.op = run.op /\ then.todo = run.todo /\ then.photo = run.photo
          /\ then.row = opened /\ then.step = step
      BY DEF Types, Operation
    <3>3. step \in RowStages \ {"read", "refresh"}
      BY DEF RowStages
    <3> HIDE DEF then, opened, step
    <3> QED
      BY <1>1, <2>2, <3>1, <3>2, <3>3, OpenedPhase
  <2> QED
    BY <2>3, <2>4
<1>7. ASSUME run.step \in RowStages \ {"read", "refresh"}, disk' = disk,
             run'.op = run.op, run'.todo = run.todo, run'.photo = run.photo,
             run'.step \in RowStages \ {"read", "refresh"},
             run'.row.apply = run.row.apply, run'.row.rollback = run.row.rollback
      PROVE  Phase'
  <2>1. ~Reading /\ ~Reading'
    BY <1>7 DEF Reading
  <2> QED
    BY <1>1, <1>7, <2>1, RowStepPhase
<1>8. CASE ApplyKeywordsVerified(p) \/ ApplyKeywordsUnverified(p)
  <2>1. /\ disk' = disk /\ run.step = "check keywords"
        /\ run'.op = run.op /\ run'.todo = run.todo /\ run'.photo = run.photo
        /\ run'.step \in {"reread", "settle"}
    BY <1>8 DEF ApplyKeywordsVerified, ApplyKeywordsUnverified, Applying, AfterKeywords,
                Types, Operation
  <2>2. run'.row = run.row \/ run'.row = [run.row EXCEPT !.applied = run.change]
    BY <1>8 DEF ApplyKeywordsVerified, ApplyKeywordsUnverified, Types, Operation
  <2>3. run'.row.apply = run.row.apply /\ run'.row.rollback = run.row.rollback
    BY <2>2 DEF Row
  <2> QED
    BY <1>7, <2>1, <2>3 DEF RowStages
<1>9. CASE ApplyReread(p)
  <2>1. /\ disk' = disk /\ run.step = "reread"
        /\ run'.op = run.op /\ run'.todo = run.todo /\ run'.photo = run.photo
        /\ run'.step \in {"set caption", "settle"}
    BY <1>9 DEF ApplyReread, Applying, Types, Operation
  <2>2. run'.row = run.row \/ run'.row = [run.row EXCEPT !.caption = "preserved"]
    BY <1>9 DEF ApplyReread, Types, Operation
  <2>3. run'.row.apply = run.row.apply /\ run'.row.rollback = run.row.rollback
    BY <2>2 DEF Row
  <2> QED
    BY <1>7, <2>1, <2>3 DEF RowStages
<1>10. CASE ApplyRereadFails(p) \/ ApplyCaptionVerified(p) \/ ApplyCaptionUnverified(p)
  <2>1. /\ disk' = disk /\ run.step \in {"reread", "check caption"}
        /\ run'.op = run.op /\ run'.todo = run.todo /\ run'.photo = run.photo
        /\ run'.step = "settle"
    BY <1>10 DEF ApplyRereadFails, ApplyCaptionVerified, ApplyCaptionUnverified, Applying,
                 Types, Operation
  <2>2. \/ run'.row = run.row
        \/ run'.row = [run.row EXCEPT !.wrote = TRUE, !.caption = "verified"]
    BY <1>10 DEF ApplyRereadFails, ApplyCaptionVerified, ApplyCaptionUnverified,
                 Types, Operation, Row
  <2>3. run'.row.apply = run.row.apply /\ run'.row.rollback = run.row.rollback
    BY <2>2 DEF Row
  <2> QED
    BY <1>7, <2>1, <2>3 DEF RowStages
<1>11. CASE SettleApply(p)
  <2>1. /\ Unsettled(run.row).rollback = "not_run" /\ Settled(run.row).rollback = "not_run"
        /\ Unsettled(run.row) \in Row /\ Settled(run.row) \in Row
    BY <1>3, RowSettles DEF Unsettled, Settled, Row
  <2> QED
    BY <1>1, <1>11, <2>1, RowDonePhase DEF SettleApply
<1> QED
  BY <1>4, <1>5, <1>6, <1>8, <1>9, <1>10, <1>11 DEF ApplyRow

LEMMA RollbackPhase ==
  ASSUME Types, Types', Phase, NEW p \in Photo, RollbackRow(p)
  PROVE  Phase'
<1> USE HeldTypes
<1>1. run.op = "rollback" /\ run.photo = p
  BY DEF RollbackRow, RollbackRead, RollbackReadFails, EditedCaptionKept, RollbackRefresh,
         RollbackKeywordsVerified, RollbackKeywordsUnverified, RollbackCaptionVerified,
         RollbackCaptionUnverified, SettleRollback, RollingBack
<1>2. run.step \in RowStages
  BY <1>1 DEF Phase, InHand
<1>3. ASSUME NEW row \in Row, SaveRollback(p, row, RowDone)
      PROVE  Phase'
  BY <1>1, <1>3, ReceiptedType, RowDonePhase DEF SaveRollback
<1>4. CASE RollbackRead(p)
  <2>1. /\ disk' = disk /\ run'.op = run.op /\ run'.todo = run.todo /\ run'.photo = p
        /\ run'.step = "refresh" /\ run'.row.apply = run.row.apply
        /\ run'.row.rollback = run.row.rollback
    BY <1>1, <1>4 DEF RollbackRead, CaptionGone, Types, Operation, Row
  <2>2. Reading /\ Reading'
    BY <1>4, <2>1 DEF Reading, RollbackRead, RollingBack
  <2> QED
    BY <1>1, <2>1, <2>2, RowStepPhase DEF RowStages
<1>5. CASE RollbackReadFails(p)
  BY <1>3, <1>5, RowEnds DEF RollbackReadFails
<1>6. Removal(run.row) \in Row /\ [Removal(run.row) EXCEPT !.caption = "uncertain"] \in Row
  BY RowEnds DEF CaptionStates
<1>7. CASE EditedCaptionKept(p)
  BY <1>3, <1>6, <1>7 DEF EditedCaptionKept
<1>8. ASSUME NEW row \in Row, NEW then, SaveRollback(p, row, then),
             then.op = run.op, then.todo = run.todo, then.photo = run.photo,
             then.step \in RowStages \ {"read", "refresh"}, then.row = row,
             row.apply = "verified", row.rollback = "removing"
      PROVE  Phase'
  <2>1. /\ Receipted(row) \in Row /\ Receipted(row).apply = "verified"
        /\ Receipted(row).rollback = "removing"
    BY <1>8, ReceiptedType DEF Receipted, Row
  <2> QED
    BY <1>1, <1>8, <2>1, OpenedPhase DEF SaveRollback
<1>9. CASE RollbackRefresh(p)
  <2> DEFINE seen == library[p]
             row == CaptionGone(p, run.row)
             caption == row.wrote /\ seen.description = "approved"
             removed == Remaining(row) \cap seen.keywords
             missing == Remaining(row) \ seen.keywords
             conflict == CaseConflict(missing, seen.keywords)
             opened == [row EXCEPT !.rollback = "removing"]
             closed == [row EXCEPT !.rollback = IF conflict THEN "casing_conflict"
                                                ELSE "already_absent",
                                   !.rollbackError = conflict]
             step == IF removed # {} THEN "set keywords" ELSE "set caption"
             then == [run EXCEPT !.row = opened, !.existing = seen.keywords,
                           !.text = seen.description, !.change = removed,
                           !.missing = missing, !.caption = caption, !.attempt = 1,
                           !.step = step]
  <2>1. Reading
    BY <1>9 DEF RollbackRefresh, RollingBack, Reading
  <2>2. row \in Row /\ row.apply = "verified"
    <3>1. run.row.apply = "verified"
      BY <1>1, <2>1 DEF Phase, RollbackWaits
    <3>2. row = run.row \/ row = [run.row EXCEPT !.caption = "removed"]
      BY DEF CaptionGone
    <3>3. row \in Row
      BY <3>2, RowEnds DEF CaptionStates
    <3> QED
      BY <3>1, <3>2, <3>3 DEF Row
  <2>3. conflict \in BOOLEAN
    BY DEF CaseConflict
  <2>4. /\ opened \in Row /\ closed \in Row
        /\ opened.apply = "verified" /\ opened.rollback = "removing"
    <3> HIDE DEF row, conflict
    <3>1. opened \in Row /\ closed \in Row
      BY <2>2, <2>3, RowEnds DEF RollbackStates
    <3>2. opened.apply = "verified" /\ opened.rollback = "removing"
      BY <2>2 DEF Row
    <3> QED
      BY <3>1, <3>2, SMTT(30)
  <2>5. CASE removed = {} /\ ~caption
    <3>1. SaveRollback(p, closed, RowDone)
      BY <1>9, <2>5 DEF RollbackRefresh
    <3> QED
      BY <1>3, <2>4, <3>1
  <2>6. CASE ~(removed = {} /\ ~caption)
    <3>1. SaveRollback(p, opened, then)
      BY <1>9, <2>6 DEF RollbackRefresh
    <3>2. /\ then.op = run.op /\ then.todo = run.todo /\ then.photo = run.photo
          /\ then.row = opened /\ then.step = step
      BY DEF Types, Operation
    <3>3. step \in RowStages \ {"read", "refresh"}
      BY DEF RowStages
    <3> HIDE DEF then, opened, step
    <3> QED
      BY <1>8, <2>4, <3>1, <3>2, <3>3
  <2> QED
    BY <2>5, <2>6
<1>10. CASE RollbackKeywordsVerified(p)
  <2> DEFINE row == [run.row EXCEPT !.rolled = @ \cup run.change]
             then == [run EXCEPT !.row = row,
                      !.step = IF run.caption THEN "set caption" ELSE "settle"]
  <2>1. Opened
    BY <1>10 DEF RollbackKeywordsVerified, RollingBack, Opened, RowStages
  <2>2. row \in Row /\ row.apply = "verified" /\ row.rollback = "removing"
    BY <1>1, <2>1, RowEnds, ZenonT(60) DEF Row, Phase, RollbackWaits
  <2>3. /\ then.op = run.op /\ then.todo = run.todo /\ then.photo = run.photo
        /\ then.row = row /\ then.step \in RowStages \ {"read", "refresh"}
    <3> HIDE DEF row
    <3> QED
      BY DEF Types, Operation, RowStages
  <2>4. SaveRollback(p, row, then)
    BY <1>10 DEF RollbackKeywordsVerified
  <2> HIDE DEF row, then
  <2> QED
    BY <1>8, <2>2, <2>3, <2>4
<1>11. CASE RollbackKeywordsUnverified(p)
  BY <1>3, <1>6, <1>11 DEF RollbackKeywordsUnverified
<1>12. CASE RollbackCaptionVerified(p)
  <2>1. /\ disk' = disk /\ run'.op = run.op /\ run'.todo = run.todo /\ run'.photo = p
        /\ run'.step = "settle" /\ run'.row.apply = run.row.apply
        /\ run'.row.rollback = run.row.rollback
    BY <1>1, <1>12 DEF RollbackCaptionVerified, Types, Operation, Row
  <2>2. ~Reading /\ ~Reading'
    BY <1>12, <2>1 DEF RollbackCaptionVerified, RollingBack, Reading
  <2> QED
    BY <1>1, <2>1, <2>2, RowStepPhase DEF RowStages
<1>13. CASE RollbackCaptionUnverified(p)
  BY <1>3, <1>6, <1>13 DEF RollbackCaptionUnverified
<1>14. CASE SettleRollback(p)
  <2>1. [run.row EXCEPT !.rollback = Outcome,
                        !.rollbackError = Outcome # "verified_removed"] \in Row
    BY RowEnds DEF Outcome, RollbackStates
  <2> QED
    BY <1>3, <1>14, <2>1 DEF SettleRollback
<1> QED
  BY <1>4, <1>5, <1>7, <1>9, <1>10, <1>11, <1>12, <1>13, <1>14 DEF RollbackRow

LEMMA PhotoPhase ==
  ASSUME Types, Types', Phase, NEW p \in Photo,
         SetKeywords(p) \/ SetCaption(p) \/ SetCaptionAgain(p) \/ Edit(p)
  PROVE  Phase'
<1>1. CASE Edit(p)
  BY <1>1 DEF Edit, Phase, InHand, ApplyWaits, RollbackWaits, Reading, Opened
<1>2. CASE SetKeywords(p) \/ SetCaption(p) \/ SetCaptionAgain(p)
  <2>1. /\ disk' = disk /\ run'.op = run.op /\ run'.todo = run.todo
        /\ run.photo = p /\ run'.photo = p /\ run'.row = run.row
        /\ {run.step, run'.step} \subseteq
              {"set keywords", "check keywords", "set caption", "check caption"}
        /\ run.op # "idle"
    BY <1>2 DEF SetKeywords, SetCaption, SetCaptionAgain, At, Types, Operation
  <2>2. ~Reading /\ ~Reading' /\ run'.step \in RowStages
    BY <2>1 DEF Reading, RowStages
  <2> QED
    BY <2>1, <2>2, RowStepPhase
<1> QED
  BY <1>1, <1>2

LEMMA PhaseStep == Types /\ Phase /\ [Next]_vars => Phase'
<1> SUFFICES ASSUME Types, Phase, [Next]_vars PROVE Phase'
  OBVIOUS
<1>1. Types'
  BY TypesStep
<1>2. CASE UNCHANGED vars
  BY <1>2 DEF vars, Phase, InHand, ApplyWaits, RollbackWaits, Reading, Opened
<1>3. CASE Next
  BY <1>1, <1>3, ControlPhase, ApplyPhase, RollbackPhase, PhotoPhase DEF Next
<1> QED
  BY <1>2, <1>3

LEMMA PhaseInit == Init => Phase
<1> SUFFICES ASSUME Init PROVE Phase
  OBVIOUS
<1>1. run = Idle /\ run.op = "idle" /\ run.step = "next" /\ run.photo = 0
  BY DEF Init, Idle
<1> QED
  BY <1>1, NoPhotoZero DEF Phase, InHand, ApplyWaits, RollbackWaits, RowStages

-----------------------------------------------------------------------------
(***************************************************************************)
(* The journal.                                                            *)
(***************************************************************************)

JournalStep == [Journal!JournalNext]_(Journal!journalVars)

\* Nothing the journal records changes.
LEMMA JournalStutters ==
  ASSUME \A p \in Photo : disk'[p].apply = disk[p].apply
                          /\ disk'[p].rollback = disk[p].rollback,
         library' = library, edits' = edits
  PROVE  JournalStep
  BY DEF JournalStep, Journal!journalVars

\* A saved row moves its apply column.
LEMMA JournalApplies ==
  ASSUME Types, NEW p \in Photo, NEW row \in Row, NEW then, Save(p, row, then),
         library' = library, edits' = edits, row.rollback = disk[p].rollback,
         \/ /\ disk[p].apply \in Unopened /\ disk[p].rollback = "not_run"
            /\ row.apply \in {"noop", "failed", "cancelled", "writing"}
         \/ disk[p].apply = "writing" /\ row.apply \in {"verified", "uncertain"}
  PROVE  JournalStep
<1>1. CASE disk' = disk
  BY <1>1, JournalStutters
<1>2. CASE disk' = [disk EXCEPT ![p] = row]
  <2>1. \A q \in Photo : disk'[q] = IF q = p THEN row ELSE disk[q]
    BY <1>2 DEF Types
  <2>2. [q \in Photo |-> disk'[q].rollback] = [q \in Photo |-> disk[q].rollback]
    BY <2>1
  <2>3. [q \in Photo |-> disk'[q].apply]
          = [[q \in Photo |-> disk[q].apply] EXCEPT ![p] = row.apply]
    BY <2>1
  <2>4. \/ Journal!OpenApply(p, row.apply)
            /\ row.apply \in {"noop", "failed", "cancelled", "writing"}
        \/ Journal!CloseApply(p, row.apply) /\ row.apply \in {"verified", "uncertain"}
    BY <2>2, <2>3 DEF Journal!OpenApply, Journal!CloseApply, Journal!Untouched, Unopened
  <2> QED
    BY <2>4 DEF JournalStep, Journal!JournalNext
<1> QED
  BY <1>1, <1>2 DEF Save

\* A saved row moves its rollback column.
LEMMA JournalRollsBack ==
  ASSUME Types, NEW p \in Photo, NEW row \in Row, NEW then, SaveRollback(p, row, then),
         library' = library, edits' = edits, row.apply = disk[p].apply,
         \/ /\ disk[p].apply = "verified" /\ disk[p].rollback \in Unopened
            /\ row.rollback \in {"already_absent", "casing_conflict", "failed",
                                 "cancelled", "uncertain", "removing"}
         \/ /\ disk[p].rollback = "removing"
            /\ row.rollback \in {"verified_removed", "failed", "casing_conflict",
                                 "uncertain"}
         \/ row.rollback = disk[p].rollback
  PROVE  JournalStep
<1>1. CASE disk' = disk
  BY <1>1, JournalStutters
<1>2. CASE disk' = [disk EXCEPT ![p] = Receipted(row)]
  <2>1. \A q \in Photo : disk'[q] = IF q = p THEN Receipted(row) ELSE disk[q]
    BY <1>2 DEF Types
  <2>2. Receipted(row).apply = row.apply /\ Receipted(row).rollback = row.rollback
    BY DEF Receipted, Row
  <2>3. [q \in Photo |-> disk'[q].apply] = [q \in Photo |-> disk[q].apply]
    BY <2>1, <2>2
  <2>4. [q \in Photo |-> disk'[q].rollback]
          = [[q \in Photo |-> disk[q].rollback] EXCEPT ![p] = row.rollback]
    BY <2>1, <2>2
  <2>5. CASE row.rollback = disk[p].rollback
    BY <2>1, <2>2, <2>5, JournalStutters
  <2>6. CASE row.rollback # disk[p].rollback
    <3>1. \/ /\ Journal!OpenRollback(p, row.rollback)
             /\ row.rollback \in {"already_absent", "casing_conflict", "failed",
                                  "cancelled", "uncertain", "removing"}
          \/ /\ Journal!CloseRollback(p, row.rollback)
             /\ row.rollback \in {"verified_removed", "failed", "casing_conflict",
                                  "uncertain"}
      BY <2>3, <2>4, <2>6
         DEF Journal!OpenRollback, Journal!CloseRollback, Journal!Untouched, Unopened
    <3> QED
      BY <3>1 DEF JournalStep, Journal!JournalNext
  <2> QED
    BY <2>5, <2>6
<1> QED
  BY <1>1, <1>2 DEF Save, SaveRollback

\* A setter changes a photo whose row is open; its owner may always edit it.
LEMMA JournalContent ==
  ASSUME Types, Types', Phase, NEW p \in Photo,
         SetKeywords(p) \/ SetCaption(p) \/ SetCaptionAgain(p) \/ Edit(p)
  PROVE  JournalStep
<1>1. disk' = disk
  BY DEF SetKeywords, SetCaption, SetCaptionAgain, Edit
<1>2. CASE library' = library /\ edits' = edits
  BY <1>1, <1>2, JournalStutters
<1>3. ASSUME library' # library
      PROVE  \E c \in Content : library' = [library EXCEPT ![p] = c]
  <2>1. \E c : library' = [library EXCEPT ![p] = c]
    BY <1>3 DEF SetKeywords, SetCaption, SetCaptionAgain, Edit, Types
  <2> QED
    BY <2>1 DEF Types
<1>4. CASE Edit(p)
  <2>1. \E c \in Content : library' = [library EXCEPT ![p] = c]
    <3>1. CASE library' = library
      BY <3>1 DEF Types
    <3> QED
      BY <1>3, <3>1
  <2>2. Journal!EditPhoto(p)
    BY <1>1, <1>4, <2>1 DEF Edit, Journal!EditPhoto
  <2> QED
    BY <2>2 DEF JournalStep, Journal!JournalNext
<1>5. CASE (SetKeywords(p) \/ SetCaption(p) \/ SetCaptionAgain(p)) /\ library' # library
  <2>1. run.photo = p /\ Opened /\ run.op \in {"apply", "rollback"} /\ edits' = edits
    BY <1>5 DEF SetKeywords, SetCaption, SetCaptionAgain, At, Opened, RowStages,
                Types, Operation, history
  <2>2. disk[p].apply = "writing" \/ disk[p].rollback = "removing"
    BY <2>1 DEF Phase, ApplyWaits, RollbackWaits
  <2>3. Journal!ChangePhoto(p)
    BY <1>1, <1>3, <1>5, <2>1, <2>2 DEF Journal!ChangePhoto
  <2> QED
    BY <2>3 DEF JournalStep, Journal!JournalNext
<1>6. SetKeywords(p) \/ SetCaption(p) \/ SetCaptionAgain(p) => edits' = edits
  BY DEF SetKeywords, SetCaption, SetCaptionAgain, history
<1> QED
  BY <1>2, <1>4, <1>5, <1>6

LEMMA JournalControls ==
  ASSUME Types, Phase,
         StartApply \/ StartRollback \/ RecoverInterrupted \/ OpenAdapters
           \/ AdaptersUnavailable \/ Cancel \/ Return \/ BeginApply \/ BeginRollback
           \/ Crash
  PROVE  JournalStep
<1> USE HeldTypes
<1>1. library' = library /\ edits' = edits
  BY DEF StartApply, StartRollback, Start, RecoverInterrupted, OpenAdapters,
         AdaptersUnavailable, Cancel, Return, BeginApply, BeginRollback, Crash, history
<1>2. CASE StartApply \/ StartRollback \/ OpenAdapters \/ Return \/ BeginRollback \/ Crash
  <2>1. disk' = disk
    BY <1>2 DEF StartApply, StartRollback, Start, OpenAdapters, Return, BeginRollback, Crash
  <2> QED
    BY <1>1, <2>1, JournalStutters
<1>3. CASE RecoverInterrupted
  <2>1. PICK p \in Photo :
          /\ p \in Interrupted
          /\ IF run.op = "apply" THEN Save(p, InterruptedWrite(p), run)
             ELSE SaveRollback(p, InterruptedRemoval(p), run)
    BY <1>3 DEF RecoverInterrupted, First
  <2>2. CASE run.op = "apply"
    <3>1. disk[p].apply = "writing"
      BY <2>1, <2>2 DEF Interrupted
    <3>2. /\ InterruptedWrite(p) \in Row /\ InterruptedWrite(p).apply = "uncertain"
          /\ InterruptedWrite(p).rollback = disk[p].rollback
      BY InterruptedRows DEF InterruptedWrite, Row
    <3> QED
      BY <1>1, <2>1, <2>2, <3>1, <3>2, JournalApplies
  <2>3. CASE run.op # "apply"
    <3>1. disk[p].rollback = "removing"
      BY <2>1, <2>3 DEF Interrupted
    <3>2. /\ InterruptedRemoval(p) \in Row /\ InterruptedRemoval(p).rollback = "uncertain"
          /\ InterruptedRemoval(p).apply = disk[p].apply
      BY InterruptedRows, ZenonT(60) DEF InterruptedRemoval, Row
    <3> QED
      BY <1>1, <2>1, <2>3, <3>1, <3>2, JournalRollsBack
  <2> QED
    BY <2>2, <2>3
<1>4. ASSUME NEW p \in Photo, NEW row \in Row, NEW then, run.op = "apply",
             disk[p].apply \in Unopened, row.rollback = disk[p].rollback,
             row.apply \in {"noop", "failed", "cancelled", "writing"}, Save(p, row, then)
      PROVE  JournalStep
  BY <1>1, <1>4, JournalApplies DEF Phase, ApplyWaits
<1>5. ASSUME NEW p \in Photo, NEW row \in Row, NEW then,
             disk[p].apply = "verified", disk[p].rollback \in Unopened,
             row.apply = disk[p].apply, row.rollback \in {"failed", "cancelled"},
             SaveRollback(p, row, then)
      PROVE  JournalStep
  BY <1>1, <1>5, JournalRollsBack
<1>6. ASSUME NEW p \in Photo
      PROVE  /\ FailedApply(disk[p]).apply = "failed"
             /\ FailedApply(disk[p]).rollback = disk[p].rollback
             /\ CancelledApply(disk[p]).apply = "cancelled"
             /\ CancelledApply(disk[p]).rollback = disk[p].rollback
             /\ FailedRollback(disk[p]).apply = disk[p].apply
             /\ FailedRollback(disk[p]).rollback = "failed"
             /\ CancelledRollback(disk[p]).apply = disk[p].apply
             /\ CancelledRollback(disk[p]).rollback = "cancelled"
  BY DEF FailedApply, FailedRollback, CancelledApply, CancelledRollback, Row
<1>7. CASE AdaptersUnavailable
  <2>1. PICK p \in Photo :
          /\ p \in Actionable
          /\ IF run.op = "apply" THEN Save(p, FailedApply(disk[p]), Between({}))
             ELSE SaveRollback(p, FailedRollback(disk[p]), Between({}))
    BY <1>7 DEF AdaptersUnavailable, First
  <2>2. IF run.op = "apply" THEN disk[p].apply \in Unopened
        ELSE disk[p].apply = "verified" /\ disk[p].rollback \in Unopened
    BY <2>1 DEF Actionable, ToApply, ToRollBack, Unopened
  <2> QED
    BY <1>4, <1>5, <1>6, <2>1, <2>2, RowEnds
<1>8. CASE Cancel \/ BeginApply
  <2>1. run.photo = 0 /\ run.todo \in SUBSET Photo /\ run.op \in {"apply", "rollback"}
    BY <1>8 DEF Cancel, BeginApply, At, Phase, InHand, RowStages, Types, Operation
  <2>2. \A p \in run.todo :
          IF run.op = "apply" THEN disk[p].apply \in Unopened
          ELSE disk[p].apply = "verified" /\ disk[p].rollback \in Unopened
    BY <2>1, NoPhotoZero DEF Phase, ApplyWaits, RollbackWaits
  <2>3. CASE Cancel
    <3>1. PICK p \in Photo :
            /\ p \in run.todo
            /\ IF run.op = "apply" THEN Save(p, CancelledApply(disk[p]), Between({}))
               ELSE SaveRollback(p, CancelledRollback(disk[p]), Between({}))
      BY <2>3 DEF Cancel, First
    <3> QED
      BY <1>4, <1>5, <1>6, <2>2, <3>1, RowEnds
  <2>4. CASE BeginApply
    <3>1. PICK p \in Photo :
            /\ p \in run.todo /\ run.op = "apply"
            /\ \/ disk' = disk
               \/ Save(p, [Retried(disk[p]) EXCEPT !.apply = "noop"],
                       Between(run.todo \ {p}))
      BY <2>4 DEF BeginApply, First
    <3>2. CASE disk' = disk
      BY <1>1, <3>2, JournalStutters
    <3>3. /\ [Retried(disk[p]) EXCEPT !.apply = "noop"] \in Row
          /\ [Retried(disk[p]) EXCEPT !.apply = "noop"].rollback = disk[p].rollback
          /\ [Retried(disk[p]) EXCEPT !.apply = "noop"].apply = "noop"
      <4>1. Retried(disk[p]) \in Row
        BY RowEnds
      <4>2. Retried(disk[p]).rollback = disk[p].rollback
        BY DEF Retried, Row
      <4>3. ASSUME NEW row \in Row
            PROVE  /\ [row EXCEPT !.apply = "noop"].rollback = row.rollback
                   /\ [row EXCEPT !.apply = "noop"].apply = "noop"
        BY DEF Row
      <4> QED
        BY <4>1, <4>2, <4>3, RowEnds
    <3> QED
      BY <1>4, <2>2, <3>1, <3>2, <3>3
  <2> QED
    BY <1>8, <2>3, <2>4
<1> QED
  BY <1>2, <1>3, <1>7, <1>8

LEMMA JournalApplyRow ==
  ASSUME Types, Phase, NEW p \in Photo, ApplyRow(p)
  PROVE  JournalStep
<1> USE HeldTypes
<1>1. run.op = "apply" /\ run.photo = p /\ library' = library /\ edits' = edits
  BY DEF ApplyRow, ApplyRead, ApplyReadFails, ApplyRefresh, ApplyKeywordsVerified,
         ApplyKeywordsUnverified, ApplyReread, ApplyRereadFails, ApplyCaptionVerified,
         ApplyCaptionUnverified, SettleApply, Applying, history
<1>2. /\ disk[p].rollback = "not_run"
      /\ Reading => disk[p].apply \in Unopened
      /\ Opened => disk[p].apply = "writing"
      /\ run.row.rollback = "not_run"
  BY <1>1 DEF Phase, InHand, ApplyWaits, Reading, Opened, RowStages
<1>3. CASE disk' = disk
  BY <1>1, <1>3, JournalStutters
<1>4. CASE ApplyReadFails(p)
  <2>1. /\ FailedApply(run.row) \in Row /\ FailedApply(run.row).apply = "failed"
        /\ FailedApply(run.row).rollback = "not_run"
    BY <1>2, RowEnds DEF FailedApply, Row
  <2>2. Reading /\ Save(p, FailedApply(run.row), RowDone)
    BY <1>4 DEF ApplyReadFails, Applying, Reading
  <2> QED
    BY <1>1, <1>2, <2>1, <2>2, JournalApplies
<1>5. CASE ApplyRefresh(p)
  <2> DEFINE row == IF p \in Captioned /\ ~(run.caption /\ library[p].description = "")
                    THEN [run.row EXCEPT !.caption = "preserved"] ELSE run.row
             noop == [row EXCEPT !.apply = "noop"]
             opened == [row EXCEPT !.apply = "writing"]
  <2>1. row \in Row /\ row.rollback = "not_run"
    <3>1. row \in Row
      BY RowEnds DEF CaptionStates
    <3>2. [run.row EXCEPT !.caption = "preserved"].rollback = "not_run"
      BY <1>2 DEF Row
    <3> QED
      BY <1>2, <3>1, <3>2
  <2>2. Reading /\ \E then : Save(p, noop, then) \/ Save(p, opened, then)
    BY <1>5 DEF ApplyRefresh, Applying, Reading
  <2>3. /\ noop \in Row /\ noop.apply = "noop" /\ noop.rollback = "not_run"
        /\ opened \in Row /\ opened.apply = "writing" /\ opened.rollback = "not_run"
    <3> HIDE DEF row
    <3> QED
      BY <2>1, RowEnds DEF Row
  <2> HIDE DEF noop, opened
  <2> QED
    BY <1>1, <1>2, <2>2, <2>3, JournalApplies
<1>6. CASE SettleApply(p)
  <2>1. /\ Unsettled(run.row) \in Row /\ Unsettled(run.row).apply = "uncertain"
        /\ Settled(run.row) \in Row /\ Settled(run.row).apply = "verified"
        /\ Unsettled(run.row).rollback = "not_run" /\ Settled(run.row).rollback = "not_run"
    BY <1>2, RowSettles DEF Unsettled, Settled, Row
  <2>2. Opened /\ \/ Save(p, Unsettled(run.row), RowDone)
                  \/ Save(p, Settled(run.row), RowDone)
    BY <1>6 DEF SettleApply, Applying, Opened, RowStages
  <2> QED
    BY <1>1, <1>2, <2>1, <2>2, JournalApplies
<1> QED
  BY <1>3, <1>4, <1>5, <1>6
     DEF ApplyRow, ApplyRead, ApplyKeywordsVerified, ApplyKeywordsUnverified, ApplyReread,
         ApplyRereadFails, ApplyCaptionVerified, ApplyCaptionUnverified

LEMMA JournalRollbackRow ==
  ASSUME Types, Phase, NEW p \in Photo, RollbackRow(p)
  PROVE  JournalStep
<1> USE HeldTypes
<1>1. run.op = "rollback" /\ run.photo = p /\ library' = library /\ edits' = edits
  BY DEF RollbackRow, RollbackRead, RollbackReadFails, EditedCaptionKept, RollbackRefresh,
         RollbackKeywordsVerified, RollbackKeywordsUnverified, RollbackCaptionVerified,
         RollbackCaptionUnverified, SettleRollback, RollingBack, history
<1>2. /\ run.row.apply = disk[p].apply /\ run.row.rollback = disk[p].rollback
      /\ disk[p].apply = "verified"
      /\ Reading => disk[p].rollback \in Unopened
      /\ Opened => disk[p].rollback = "removing"
  BY <1>1 DEF Phase, InHand, RollbackWaits, Reading, Opened, RowStages
<1>3. CASE disk' = disk
  BY <1>1, <1>3, JournalStutters
<1>4. ASSUME NEW row \in Row, NEW then, SaveRollback(p, row, then),
             row.apply = run.row.apply,
             \/ Reading /\ row.rollback \in {"already_absent", "casing_conflict", "failed",
                                             "cancelled", "uncertain", "removing"}
             \/ Opened /\ row.rollback \in {"verified_removed", "failed", "casing_conflict",
                                            "uncertain"}
             \/ row.rollback = run.row.rollback
      PROVE  JournalStep
  BY <1>1, <1>2, <1>4, JournalRollsBack
<1>5. CASE RollbackReadFails(p)
  <2>1. /\ FailedRollback(run.row) \in Row /\ FailedRollback(run.row).rollback = "failed"
        /\ FailedRollback(run.row).apply = run.row.apply
    BY RowEnds DEF FailedRollback, Row
  <2> QED
    BY <1>4, <1>5, <2>1 DEF RollbackReadFails, RollingBack, Reading
<1>6. /\ Removal(run.row) \in Row /\ Removal(run.row).rollback = "uncertain"
      /\ Removal(run.row).apply = run.row.apply
  BY RowEnds DEF Removal, Row
<1>7. /\ [Removal(run.row) EXCEPT !.caption = "uncertain"] \in Row
      /\ [Removal(run.row) EXCEPT !.caption = "uncertain"].rollback = "uncertain"
      /\ [Removal(run.row) EXCEPT !.caption = "uncertain"].apply = run.row.apply
  <2>1. ASSUME NEW row \in Row
        PROVE  /\ [row EXCEPT !.caption = "uncertain"].rollback = row.rollback
               /\ [row EXCEPT !.caption = "uncertain"].apply = row.apply
    BY DEF Row
  <2> QED
    BY <1>6, <2>1, RowEnds DEF CaptionStates
<1>8. CASE EditedCaptionKept(p)
  BY <1>4, <1>7, <1>8 DEF EditedCaptionKept, RollingBack, Reading
<1>9. CASE RollbackRefresh(p)
  <2> DEFINE row == CaptionGone(p, run.row)
             conflict == CaseConflict(Remaining(row) \ library[p].keywords,
                                      library[p].keywords)
             opened == [row EXCEPT !.rollback = "removing"]
             closed == [row EXCEPT !.rollback = IF conflict THEN "casing_conflict"
                                                ELSE "already_absent",
                                   !.rollbackError = conflict]
  <2>1. Reading /\ \E then : SaveRollback(p, opened, then) \/ SaveRollback(p, closed, then)
    BY <1>9 DEF RollbackRefresh, RollingBack, Reading
  <2>2. row \in Row /\ row.apply = run.row.apply
    <3>1. row = run.row \/ row = [run.row EXCEPT !.caption = "removed"]
      BY DEF CaptionGone
    <3>2. row \in Row
      BY <3>1, RowEnds DEF CaptionStates
    <3> QED
      BY <3>1, <3>2 DEF Row
  <2>3. conflict \in BOOLEAN
    BY DEF CaseConflict
  <2>4. /\ opened \in Row /\ opened.apply = run.row.apply /\ opened.rollback = "removing"
        /\ closed.apply = run.row.apply
        /\ closed.rollback \in {"casing_conflict", "already_absent"}
    <3> HIDE DEF row, conflict
    <3> QED
      BY <2>2, RowEnds, ZenonT(60) DEF Row
  <2>5. closed \in Row
    <3> HIDE DEF row, conflict
    <3> QED
      BY <2>2, <2>3, RowEnds DEF RollbackStates
  <2> HIDE DEF opened, closed
  <2> QED
    BY <1>4, <2>1, <2>4, <2>5
<1>10. CASE RollbackKeywordsVerified(p)
  <2> DEFINE row == [run.row EXCEPT !.rolled = @ \cup run.change]
  <2>1. row \in Row /\ row.apply = run.row.apply /\ row.rollback = run.row.rollback
    BY RowEnds, ZenonT(60) DEF Row
  <2>2. \E then : SaveRollback(p, row, then)
    BY <1>10 DEF RollbackKeywordsVerified
  <2> HIDE DEF row
  <2> QED
    BY <1>4, <2>1, <2>2
<1>11. CASE RollbackKeywordsUnverified(p)
  BY <1>4, <1>6, <1>11 DEF RollbackKeywordsUnverified, RollingBack, Opened, RowStages
<1>12. CASE RollbackCaptionUnverified(p)
  BY <1>4, <1>7, <1>12 DEF RollbackCaptionUnverified, RollingBack, Opened, RowStages
<1>13. CASE SettleRollback(p)
  <2> DEFINE row == [run.row EXCEPT !.rollback = Outcome,
                                    !.rollbackError = Outcome # "verified_removed"]
  <2>1. Outcome \in {"verified_removed", "failed", "casing_conflict"}
    BY DEF Outcome
  <2>2. row \in Row
    BY <2>1, RowEnds DEF RollbackStates
  <2>3. row.apply = run.row.apply /\ row.rollback = Outcome
    BY DEF Row
  <2>4. Opened /\ SaveRollback(p, row, RowDone)
    BY <1>13 DEF SettleRollback, RollingBack, Opened, RowStages
  <2> HIDE DEF row
  <2> QED
    BY <1>4, <2>1, <2>2, <2>3, <2>4
<1> QED
  BY <1>3, <1>5, <1>8, <1>9, <1>10, <1>11, <1>12, <1>13
     DEF RollbackRow, RollbackRead, RollbackCaptionVerified

LEMMA JournalFollows ==
  ASSUME Types, Phase, [Next]_vars
  PROVE  JournalStep
<1>1. Types'
  BY TypesStep
<1>2. CASE UNCHANGED vars
  BY <1>2, JournalStutters DEF vars
<1>3. CASE Next
  BY <1>1, <1>3, JournalControls, JournalApplyRow, JournalRollbackRow, JournalContent
     DEF Next
<1> QED
  BY <1>2, <1>3

\* The detailed operations implement the journal: the program changes a photo
\* only while its saved row is open, opens a row only from a state in which no
\* write of that direction is outstanding, and never touches a photo again
\* whose row is uncertain (run_apply and run_rollback, workflows.py:1861-2390).
THEOREM JournalIsImplemented == Spec => JournalSpec
<1>1. Init => Journal!JournalInit
  BY RollbackConstants DEF Init, Journal!JournalInit, Reviewed
<1>2. Init => Types /\ Phase
  BY TypesInit, PhaseInit
<1>3. Types /\ Phase /\ [Next]_vars => (Types /\ Phase)'
  BY TypesStep, PhaseStep
<1>4. Types /\ Phase /\ [Next]_vars => [Journal!JournalNext]_(Journal!journalVars)
  BY JournalFollows DEF JournalStep
<1> QED
  BY <1>1, <1>2, <1>3, <1>4, PTL DEF Spec, JournalSpec, Journal!JournalSpec

-----------------------------------------------------------------------------
(***************************************************************************)
(* What the saved rows say.                                                *)
(*                                                                         *)
(* A save publishes the row in hand, so what a saved row claims (GoodRows) *)
(* is inductive only with what is true of the row in hand (Holds): of an   *)
(* apply, that every keyword our setter put in is among those it means to  *)
(* add and, of a photo nobody edited, that a verified part was put in by   *)
(* it; of a rollback, that the row claims what its receipt claims and what *)
(* is still to be taken back.  The setters of Photos and the owner's edits *)
(* change history without a save; SetterGood and EditGood are those steps. *)
(***************************************************************************)

HistoryTypes ==
  /\ introduced \in [Photo -> SUBSET Keyword]
  /\ captioned \subseteq Photo /\ raced \subseteq Photo

Bounded ==
  /\ operations \in 0..MaxOperations
  /\ edits \in 0..MaxEdits /\ crashes \in 0..MaxCrashes

Open(row) == row.apply \in {"writing", "uncertain"}

Remembered(p, row) ==
  /\ introduced[p] \subseteq row.applied \/ Open(row)
  /\ p \in captioned => row.wrote \/ Open(row)

Earned(p, row) ==
  p \notin raced /\ row.receipt # {} =>
    row.applied \subseteq introduced[p] /\ (row.wrote => p \in captioned)

Removed(row) == row.rolled = row.applied /\ (row.wrote => row.caption = "removed")

Good(p, row) ==
  /\ Loads(p, row) /\ EvidenceIsValid(row) /\ CauseKept(row)
  /\ Remembered(p, row) /\ Earned(p, row)
  /\ row.rollback = "verified_removed" => Removed(row)

GoodRows == \A p \in Photo : Good(p, disk[p])

\* The row an apply holds: it had no receipt, and what our setters added is
\* what it meant to add.
Added(p) ==
  /\ introduced[p] \subseteq run.change
  /\ p \in captioned =>
       \/ run.step \in {"set caption", "check caption"}
       \/ run.step = "settle" /\ (run.failed \/ run.row.wrote)
  /\ run.change \cap run.existing = {}

\* The same of a photo nobody else has edited meanwhile.
AddedAlone(p) ==
  /\ run.step = "set keywords" => library[p].keywords = run.existing
  /\ run.step = "check keywords" =>
       library[p].keywords = run.existing \/ run.change \subseteq introduced[p]
  /\ run.step \in {"reread", "set caption", "check caption", "settle"} /\ ~run.failed =>
       run.change \subseteq introduced[p]
  /\ run.step \in {"set caption", "check caption"} /\ library[p].description # "" =>
       p \in captioned
  /\ run.row.applied \subseteq introduced[p]
  /\ run.row.wrote => p \in captioned

ApplyHolds ==
  run.op = "apply" =>
    /\ Reading \/ Opened => run.row.receipt = {} /\ run.row.rollbackReceipt = {}
    /\ Reading => run.row.applied = {} /\ run.row.wrote = FALSE
    /\ Opened => Added(run.photo)
    /\ Opened /\ run.photo \notin raced => AddedAlone(run.photo)

\* The row a rollback holds: what it claims was added, and what is left to do.
Left ==
  /\ Remaining(run.row) \subseteq
       run.missing \cup
       (IF run.step \in {"set keywords", "check keywords"} THEN run.change ELSE {})
  /\ run.change \subseteq run.row.applied
  /\ run.step \in {"set caption", "check caption"} => run.caption
  /\ run.caption => run.row.wrote
  /\ (~run.caption \/ run.step = "settle") /\ run.row.wrote => run.row.caption = "removed"

RollbackHolds ==
  run.op = "rollback" =>
    /\ Reading \/ Opened =>
         /\ run.row.applied = disk[run.photo].applied
         /\ run.row.wrote = disk[run.photo].wrote
         /\ run.row.receipt = disk[run.photo].receipt
    /\ Opened => Left
    /\ run.photo \notin raced /\ run.step = "set keywords" =>
         library[run.photo].keywords = run.existing

Holds == ApplyHolds /\ RollbackHolds

-----------------------------------------------------------------------------
(***************************************************************************)
(* Single rows.                                                            *)
(***************************************************************************)

\* Nothing was ever written for a row that may be applied.
LEMMA UnopenedIsClean ==
  ASSUME NEW p \in Photo, NEW row \in Row, Good(p, row), row.apply \in Unopened
  PROVE  /\ introduced[p] = {} /\ p \notin captioned
         /\ row.applied = {} /\ row.wrote = FALSE /\ row.receipt = {}
<1>1. row.applied = {} /\ row.wrote = FALSE
  BY DEF Good, Loads, StatesLoad, Unopened, Row
<1>2. row.receipt = {}
  BY DEF Good, EvidenceIsValid, Unopened
<1> QED
  BY <1>1, <1>2 DEF Good, Remembered, Open, Unopened

\* A row that ends before a write, or is opened for one.
LEMMA UnopenedGood ==
  ASSUME NEW p \in Photo, NEW old \in Row, Good(p, old), old.apply \in Unopened,
         NEW row \in Row, Loads(p, row),
         row.apply \in {"noop", "writing", "failed", "cancelled"},
         row.rollback = "not_run", row.receipt = {}, row.rollbackReceipt = {}
  PROVE  Good(p, row)
<1>1. EvidenceIsValid(row)
  BY DEF EvidenceIsValid
<1>2. CauseKept(row)
  BY DEF CauseKept, RollbackCauseKept, Loads, ErrorsLoad
<1>3. introduced[p] = {} /\ p \notin captioned
  BY UnopenedIsClean
<1> QED
  BY <1>1, <1>2, <1>3 DEF Good, Remembered, Earned

\* A row an apply closes.
LEMMA ClosedGood ==
  ASSUME NEW p \in Photo, NEW row \in Row, Loads(p, row),
         row.apply \in {"verified", "uncertain"}, row.rollback = "not_run",
         row.rollbackReceipt = {},
         row.receipt = IF row.applied # {} \/ row.wrote THEN MutationDigest(row) ELSE {},
         row.apply = "uncertain" => row.applyError = "other",
         Remembered(p, row), Earned(p, row)
  PROVE  Good(p, row)
<1>1. EvidenceIsValid(row)
  BY DEF EvidenceIsValid, InterruptedCaption
<1>2. CauseKept(row)
  BY DEF CauseKept, RollbackCauseKept
<1> QED
  BY <1>1, <1>2 DEF Good

\* A row a rollback saves: the additions and their receipt stay as they were.
LEMMA RolledBackGood ==
  ASSUME NEW p \in Photo, NEW old \in Row, Good(p, old), old.apply = "verified",
         NEW row \in Row, Loads(p, Receipted(row)), row.apply = "verified",
         row.applied = old.applied, row.wrote = old.wrote, row.receipt = old.receipt,
         row.rollback # "not_run", RollbackCauseKept(row),
         row.rollback = "verified_removed" => Removed(row)
  PROVE  Good(p, Receipted(row))
<1> DEFINE saved == Receipted(row)
<1>1. /\ saved.apply = "verified" /\ saved.applied = old.applied
      /\ saved.wrote = old.wrote /\ saved.receipt = old.receipt
      /\ saved.rollback = row.rollback /\ saved.rolled = row.rolled
      /\ saved.caption = row.caption /\ saved.rollbackError = row.rollbackError
      /\ saved.rollbackReceipt = RollbackDigest(row)
  BY DEF Receipted, Row
<1>2. RollbackDigest(saved) = RollbackDigest(row) /\ MutationDigest(saved) = MutationDigest(old)
  BY <1>1 DEF RollbackDigest, MutationDigest
<1> HIDE DEF saved
<1>3. EvidenceIsValid(saved)
  BY <1>1, <1>2 DEF EvidenceIsValid, InterruptedCaption, Good
<1>4. CauseKept(saved)
  BY <1>1 DEF CauseKept, RollbackCauseKept
<1>5. Remembered(p, saved) /\ Earned(p, saved)
  BY <1>1 DEF Good, Remembered, Earned, Open
<1>6. saved.rollback = "verified_removed" => Removed(saved)
  BY <1>1 DEF Removed
<1>7. Good(p, saved)
  BY <1>3, <1>4, <1>5, <1>6 DEF Good, saved
<1> QED
  BY <1>7 DEF saved

\* Saving one good row.
LEMMA SaveGood ==
  ASSUME Types, GoodRows, NEW p \in Photo, NEW row \in Row, NEW then, Save(p, row, then),
         UNCHANGED history, Loads(p, row) => Good(p, row)
  PROVE  GoodRows'
<1>1. CASE disk' = disk
  BY <1>1 DEF history, GoodRows, Good, Remembered, Earned
<1>2. CASE Loads(p, row) /\ disk' = [disk EXCEPT ![p] = row]
  <2>1. \A q \in Photo : disk'[q] = IF q = p THEN row ELSE disk[q]
    BY <1>2 DEF Types
  <2>2. \A q \in Photo : Good(q, disk'[q])
    BY <1>2, <2>1 DEF GoodRows
  <2> QED
    BY <2>2 DEF history, GoodRows, Good, Remembered, Earned
<1> QED
  BY <1>1, <1>2 DEF Save

LEMMA NothingHeld ==
  ASSUME run'.step \in {"recover", "next"}
  PROVE  Holds'
  BY DEF Holds, ApplyHolds, RollbackHolds, Reading, Opened, RowStages

-----------------------------------------------------------------------------
(***************************************************************************)
(* Steps between rows.                                                     *)
(***************************************************************************)

LEMMA RowSetters ==
  ASSUME NEW row \in Row
  PROVE  /\ FailedApply(row).apply = "failed" /\ CancelledApply(row).apply = "cancelled"
         /\ FailedApply(row).rollback = row.rollback
         /\ CancelledApply(row).rollback = row.rollback
         /\ FailedApply(row).receipt = row.receipt
         /\ CancelledApply(row).receipt = row.receipt
         /\ FailedApply(row).rollbackReceipt = row.rollbackReceipt
         /\ CancelledApply(row).rollbackReceipt = row.rollbackReceipt
         /\ Retried(row).apply = row.apply /\ Retried(row).rollback = row.rollback
         /\ Retried(row).receipt = row.receipt /\ Retried(row).applied = {}
         /\ Retried(row).rollbackReceipt = row.rollbackReceipt
         /\ Retried(row).wrote = row.wrote
  BY DEF FailedApply, CancelledApply, Retried, Row

\* What a rollback leaves of a row it does not finish.
LEMMA RollbackSetters ==
  ASSUME NEW row \in Row
  PROVE  /\ FailedRollback(row).apply = row.apply
         /\ FailedRollback(row).applied = row.applied
         /\ FailedRollback(row).wrote = row.wrote
         /\ FailedRollback(row).receipt = row.receipt
         /\ FailedRollback(row).rollback = "failed" /\ FailedRollback(row).rollbackError
         /\ CancelledRollback(row).apply = row.apply
         /\ CancelledRollback(row).applied = row.applied
         /\ CancelledRollback(row).wrote = row.wrote
         /\ CancelledRollback(row).receipt = row.receipt
         /\ CancelledRollback(row).rollback = "cancelled"
         /\ CancelledRollback(row).rollbackError
  BY DEF FailedRollback, CancelledRollback, Row

LEMMA RemovalSetters ==
  ASSUME NEW row \in Row, NEW s \in CaptionStates
  PROVE  /\ Removal(row).apply = row.apply /\ Removal(row).applied = row.applied
         /\ Removal(row).wrote = row.wrote /\ Removal(row).receipt = row.receipt
         /\ Removal(row).rollback = "uncertain" /\ Removal(row).rollbackError
         /\ [row EXCEPT !.caption = s].apply = row.apply
         /\ [row EXCEPT !.caption = s].applied = row.applied
         /\ [row EXCEPT !.caption = s].wrote = row.wrote
         /\ [row EXCEPT !.caption = s].receipt = row.receipt
         /\ [row EXCEPT !.caption = s].rollback = row.rollback
         /\ [row EXCEPT !.caption = s].rollbackError = row.rollbackError
         /\ [row EXCEPT !.caption = s].rollbackReceipt = row.rollbackReceipt
         /\ [row EXCEPT !.caption = s].rolled = row.rolled
         /\ [row EXCEPT !.caption = s].caption = s
  BY DEF Removal, Row

LEMMA InterruptedWriteGood ==
  ASSUME Types, GoodRows, NEW p \in Photo, disk[p].apply = "writing",
         Loads(p, InterruptedWrite(p))
  PROVE  Good(p, InterruptedWrite(p))
<1> DEFINE old == disk[p]
           row == InterruptedWrite(p)
<1>1. old \in Row /\ Good(p, old)
  BY DEF Types, GoodRows
<1>2. /\ old.applied = {} /\ old.wrote = FALSE /\ old.receipt = {}
      /\ old.rollback = "not_run" /\ old.rollbackReceipt = {}
  <2>1. old.applied = {} /\ old.wrote = FALSE /\ old.rollback = "not_run"
    BY <1>1 DEF Good, Loads, StatesLoad, Row
  <2> QED
    BY <1>1, <2>1 DEF Good, EvidenceIsValid
<1>3. /\ row.apply = "uncertain" /\ row.applyError = "INTERRUPTED_WRITE"
      /\ row.applied = {} /\ row.receipt = {} /\ row.rollback = "not_run"
      /\ row.rollbackReceipt = {}
      /\ row.wrote => row.caption = "uncertain"
  <2> DEFINE open == [old EXCEPT !.apply = "uncertain", !.applyError = "INTERRUPTED_WRITE"]
  <2>1. /\ open.apply = "uncertain" /\ open.applyError = "INTERRUPTED_WRITE"
        /\ open.applied = {} /\ open.receipt = {} /\ open.rollback = "not_run"
        /\ open.rollbackReceipt = {} /\ open.wrote = FALSE
    BY <1>1, <1>2 DEF Row
  <2>2. CASE p \in Captioned /\ open.caption = "proposed"
    <3>1. row = [old EXCEPT !.apply = "uncertain", !.applyError = "INTERRUPTED_WRITE",
                            !.wrote = TRUE, !.caption = "uncertain"]
      BY <1>1, <2>2 DEF InterruptedWrite, Row
    <3> HIDE DEF row
    <3> QED
      BY <1>1, <1>2, <3>1 DEF Row
  <2>3. CASE ~(p \in Captioned /\ open.caption = "proposed")
    BY <2>1, <2>3 DEF InterruptedWrite
  <2> QED
    BY <2>2, <2>3
<1> HIDE DEF old, row
<1>4. EvidenceIsValid(row)
  BY <1>3 DEF EvidenceIsValid, InterruptedCaption
<1>5. CauseKept(row)
  BY <1>3 DEF CauseKept, RollbackCauseKept
<1>6. Remembered(p, row) /\ Earned(p, row) /\ row.rollback # "verified_removed"
  BY <1>3 DEF Remembered, Earned, Open
<1>7. Loads(p, row) => Good(p, row)
  BY <1>4, <1>5, <1>6 DEF Good
<1> QED
  BY <1>7 DEF row

LEMMA InterruptedRemovalGood ==
  ASSUME Types, GoodRows, NEW p \in Photo, disk[p].rollback = "removing",
         Loads(p, Receipted(InterruptedRemoval(p)))
  PROVE  Good(p, Receipted(InterruptedRemoval(p)))
<1> DEFINE old == disk[p]
           row == InterruptedRemoval(p)
<1>1. old \in Row /\ Good(p, old) /\ row \in Row
  BY InterruptedRows DEF Types, GoodRows
<1>2. old.apply = "verified"
  BY <1>1 DEF Good, Loads, StatesLoad
<1>3. /\ row.apply = old.apply /\ row.applied = old.applied /\ row.wrote = old.wrote
      /\ row.receipt = old.receipt /\ row.rollback = "uncertain" /\ row.rollbackError
  BY <1>1 DEF InterruptedRemoval, Row
<1> HIDE DEF old, row
<1>4. Loads(p, Receipted(row)) => Good(p, Receipted(row))
  BY <1>1, <1>2, <1>3, RolledBackGood DEF RollbackCauseKept
<1> QED
  BY <1>4 DEF row

LEMMA ControlGood ==
  ASSUME Types, Phase, GoodRows, Holds,
         StartApply \/ StartRollback \/ RecoverInterrupted \/ OpenAdapters
           \/ AdaptersUnavailable \/ Cancel \/ Return \/ BeginApply \/ BeginRollback
           \/ Crash
  PROVE  GoodRows' /\ Holds'
<1> USE HeldTypes
<1>1. UNCHANGED history
  BY DEF StartApply, StartRollback, Start, RecoverInterrupted, OpenAdapters,
         AdaptersUnavailable, Cancel, Return, BeginApply, BeginRollback, Crash
<1>2. disk' = disk => GoodRows'
  BY <1>1 DEF history, GoodRows, Good, Remembered, Earned
<1>4. \A todo : Between(todo).step = "next" /\ Idle.step = "next"
  BY DEF Between, Idle
<1>3. CASE StartApply \/ StartRollback \/ OpenAdapters \/ Return \/ Crash
  <2>1. disk' = disk /\ run'.step \in {"recover", "next"}
    <3>1. CASE StartApply \/ StartRollback
      BY <3>1 DEF StartApply, StartRollback, Start, Idle
    <3>2. CASE OpenAdapters \/ Return \/ Crash
      BY <1>4, <3>2 DEF OpenAdapters, Return, Crash
    <3> QED
      BY <1>3, <3>1, <3>2
  <2> QED
    BY <1>2, <2>1, NothingHeld
<1>5. ASSUME NEW p \in Photo, NEW row, NEW then, Save(p, row, then),
             (then = run /\ run.step = "recover") \/ (\E todo : then = Between(todo))
      PROVE  Holds'
  BY <1>4, <1>5, NothingHeld DEF Save
<1>6. CASE RecoverInterrupted
  <2>1. PICK p \in Photo :
          /\ p \in Interrupted
          /\ IF run.op = "apply" THEN Save(p, InterruptedWrite(p), run)
             ELSE SaveRollback(p, InterruptedRemoval(p), run)
    BY <1>6 DEF RecoverInterrupted, First
  <2>2. run.step = "recover"
    BY <1>6 DEF RecoverInterrupted, At
  <2>3. CASE run.op = "apply"
    BY <1>1, <1>5, <2>1, <2>2, <2>3, InterruptedRows, InterruptedWriteGood, SaveGood
       DEF Interrupted
  <2>4. CASE run.op # "apply"
    BY <1>1, <1>5, <2>1, <2>2, <2>4, InterruptedRows, InterruptedRemovalGood, SaveGood,
       ReceiptedType DEF Interrupted, SaveRollback
  <2> QED
    BY <2>3, <2>4
<1>7. ASSUME NEW p \in Photo, NEW row \in Row, NEW then, Save(p, row, then),
             \E todo : then = Between(todo),
             disk[p].apply \in Unopened, disk[p].rollback = "not_run",
             row.apply \in {"noop", "failed", "cancelled"},
             row.rollback = disk[p].rollback, row.receipt = disk[p].receipt,
             row.rollbackReceipt = disk[p].rollbackReceipt
      PROVE  GoodRows' /\ Holds'
  <2>1. Good(p, disk[p]) /\ disk[p].receipt = {} /\ disk[p].rollbackReceipt = {}
    BY <1>7, UnopenedIsClean DEF GoodRows, Good, EvidenceIsValid
  <2>2. Loads(p, row) => Good(p, row)
    BY <1>7, <2>1, UnopenedGood
  <2> QED
    BY <1>1, <1>5, <1>7, <2>2, SaveGood
<1>8. ASSUME NEW p \in Photo, NEW row \in Row, NEW then, SaveRollback(p, row, then),
             \E todo : then = Between(todo), disk[p].apply = "verified",
             row.apply = disk[p].apply, row.applied = disk[p].applied,
             row.wrote = disk[p].wrote, row.receipt = disk[p].receipt,
             row.rollback \in {"failed", "cancelled"}, row.rollbackError
      PROVE  GoodRows' /\ Holds'
  <2>1. Loads(p, Receipted(row)) => Good(p, Receipted(row))
    BY <1>8, RolledBackGood DEF GoodRows, RollbackCauseKept
  <2> QED
    BY <1>1, <1>5, <1>8, <2>1, SaveGood, ReceiptedType DEF SaveRollback
<1>9. CASE AdaptersUnavailable
  <2>1. PICK p \in Photo :
          /\ p \in Actionable
          /\ IF run.op = "apply" THEN Save(p, FailedApply(disk[p]), Between({}))
             ELSE SaveRollback(p, FailedRollback(disk[p]), Between({}))
    BY <1>9 DEF AdaptersUnavailable, First
  <2>2. CASE run.op = "apply"
    <3>1. disk[p].apply \in Unopened /\ disk[p].rollback = "not_run"
      BY <2>1, <2>2 DEF Actionable, ToApply, Unopened, Phase, ApplyWaits
    <3> QED
      BY <1>7, <2>1, <2>2, <3>1, RowEnds, RowSetters
  <2>3. CASE run.op # "apply"
    <3>1. disk[p].apply = "verified"
      BY <2>1, <2>3 DEF Actionable, ToRollBack
    <3> QED
      BY <1>8, <2>1, <2>3, <3>1, RowEnds, RollbackSetters
  <2> QED
    BY <2>2, <2>3
<1>10. CASE Cancel
  <2>1. PICK p \in Photo :
          /\ p \in run.todo
          /\ IF run.op = "apply" THEN Save(p, CancelledApply(disk[p]), Between({}))
             ELSE SaveRollback(p, CancelledRollback(disk[p]), Between({}))
    BY <1>10 DEF Cancel, First
  <2>2. p # run.photo /\ run.op \in {"apply", "rollback"}
    BY <1>10, NoPhotoZero DEF Cancel, At, Phase, InHand, RowStages, Types, Operation
  <2>3. CASE run.op = "apply"
    <3>1. disk[p].apply \in Unopened /\ disk[p].rollback = "not_run"
      BY <2>1, <2>2, <2>3 DEF Phase, ApplyWaits
    <3> QED
      BY <1>7, <2>1, <2>3, <3>1, RowEnds, RowSetters
  <2>4. CASE run.op = "rollback"
    <3>1. disk[p].apply = "verified"
      BY <2>1, <2>2, <2>4 DEF Phase, RollbackWaits
    <3> QED
      BY <1>8, <2>1, <2>4, <3>1, RowEnds, RollbackSetters
  <2> QED
    BY <2>2, <2>3, <2>4
<1>11. CASE BeginApply
  <2>1. PICK p \in Photo :
          /\ p \in run.todo /\ run.op = "apply"
          /\ \/ /\ run' = [run EXCEPT !.photo = p, !.row = Retried(disk[p]),
                                       !.step = "read"]
                /\ disk' = disk
             \/ Save(p, [Retried(disk[p]) EXCEPT !.apply = "noop"],
                     Between(run.todo \ {p}))
    BY <1>11 DEF BeginApply, First
  <2>2. p # run.photo
    BY <1>11, NoPhotoZero DEF BeginApply, At, Phase, InHand, RowStages, Types, Operation
  <2>3. disk[p].apply \in Unopened /\ disk[p].rollback = "not_run" /\ Good(p, disk[p])
    BY <2>1, <2>2 DEF Phase, ApplyWaits, GoodRows
  <2>4. CASE disk' = disk /\ run' = [run EXCEPT !.photo = p, !.row = Retried(disk[p]),
                                               !.step = "read"]
    <3>1. run'.op = "apply" /\ run'.row = Retried(disk[p]) /\ run'.step = "read"
      BY <2>1, <2>4 DEF Types, Operation
    <3>2. /\ Retried(disk[p]).receipt = {} /\ Retried(disk[p]).rollbackReceipt = {}
          /\ Retried(disk[p]).applied = {} /\ Retried(disk[p]).wrote = FALSE
      <4>1. /\ disk[p].receipt = {} /\ disk[p].rollbackReceipt = {}
            /\ disk[p].wrote = FALSE
        BY <2>3, UnopenedIsClean DEF Good, EvidenceIsValid
      <4> QED
        BY <4>1, RowSetters
    <3>3. ~Opened'
      BY <3>1 DEF Opened
    <3> QED
      BY <1>2, <2>4, <3>1, <3>2, <3>3 DEF Holds, ApplyHolds, RollbackHolds
  <2>5. CASE Save(p, [Retried(disk[p]) EXCEPT !.apply = "noop"], Between(run.todo \ {p}))
    <3> DEFINE row == [Retried(disk[p]) EXCEPT !.apply = "noop"]
    <3>1. /\ row.rollback = Retried(disk[p]).rollback
          /\ row.receipt = Retried(disk[p]).receipt
          /\ row.rollbackReceipt = Retried(disk[p]).rollbackReceipt /\ row.apply = "noop"
      <4>1. ASSUME NEW r \in Row
            PROVE  /\ [r EXCEPT !.apply = "noop"].rollback = r.rollback
                   /\ [r EXCEPT !.apply = "noop"].receipt = r.receipt
                   /\ [r EXCEPT !.apply = "noop"].rollbackReceipt = r.rollbackReceipt
                   /\ [r EXCEPT !.apply = "noop"].apply = "noop"
        BY DEF Row
      <4> QED
        BY <4>1, RowEnds
    <3>2. row \in Row
      BY RowEnds
    <3>3. /\ row.rollback = disk[p].rollback /\ row.receipt = disk[p].receipt
          /\ row.rollbackReceipt = disk[p].rollbackReceipt
      BY <3>1, RowSetters
    <3>4. Save(p, row, Between(run.todo \ {p}))
      BY <2>5
    <3> HIDE DEF row
    <3> QED
      BY <1>7, <2>3, <3>1, <3>2, <3>3, <3>4
  <2> QED
    BY <2>1, <2>4, <2>5
<1>12. CASE BeginRollback
  <2>1. PICK p \in Photo :
          run' = [run EXCEPT !.photo = p, !.step = "read",
                             !.row = [disk[p] EXCEPT !.rollbackError = FALSE]]
    BY <1>12 DEF BeginRollback
  <2>2. disk' = disk /\ run.op = "rollback"
    BY <1>12 DEF BeginRollback
  <2>3. /\ run'.op = "rollback" /\ run'.photo = p /\ run'.step = "read"
        /\ run'.row = [disk[p] EXCEPT !.rollbackError = FALSE]
    BY <2>1, <2>2 DEF Types, Operation
  <2>4. /\ run'.row.applied = disk[p].applied /\ run'.row.wrote = disk[p].wrote
        /\ run'.row.receipt = disk[p].receipt
    BY <2>3 DEF Row
  <2>5. ~Opened'
    BY <2>3 DEF Opened
  <2> QED
    BY <1>2, <2>2, <2>3, <2>4, <2>5 DEF Holds, ApplyHolds, RollbackHolds
<1> QED
  BY <1>3, <1>6, <1>9, <1>10, <1>11, <1>12

-----------------------------------------------------------------------------
(***************************************************************************)
(* One row of apply.                                                       *)
(***************************************************************************)

LEMMA SettlesGood ==
  ASSUME Types, HistoryTypes, NEW p \in Photo, run.photo = p, run.op = "apply", Opened,
         run.step = "settle", run.row.rollback = "not_run", ApplyHolds,
         NEW row, row = IF run.failed THEN Unsettled(run.row) ELSE Settled(run.row),
         Loads(p, row)
  PROVE  Good(p, row)
<1> DEFINE held == run.row
<1>1. held \in Row /\ run.change \in SUBSET Keyword /\ run.failed \in BOOLEAN
  BY DEF Types, Operation
<1>2. /\ held.receipt = {} /\ held.rollbackReceipt = {} /\ held.rollback = "not_run"
      /\ Added(p) /\ (p \notin raced => AddedAlone(p))
  BY DEF ApplyHolds
<1> HIDE DEF held
<1>3. CASE run.failed
  <2>1. /\ row.apply = "uncertain" /\ row.applyError = "other" /\ row.applied = held.applied
        /\ row.wrote = held.wrote /\ row.rollback = "not_run" /\ row.rollbackReceipt = {}
        /\ row.receipt = IF held.applied # {} \/ held.wrote THEN MutationDigest(held) ELSE {}
    <3>1. row = Unsettled(held)
      BY <1>3 DEF held
    <3> QED
      BY <1>1, <1>2, <3>1 DEF Unsettled, Row
  <2>2. row \in Row
    BY <1>1, <1>3, RowSettles DEF held
  <2>3. row.receipt = IF row.applied # {} \/ row.wrote THEN MutationDigest(row) ELSE {}
    BY <2>1 DEF MutationDigest
  <2>4. Remembered(p, row)
    BY <2>1 DEF Remembered, Open
  <2>5. Earned(p, row)
    BY <1>2, <2>1 DEF Earned, AddedAlone, held
  <2> QED
    BY <2>1, <2>2, <2>3, <2>4, <2>5, ClosedGood
<1>4. CASE ~run.failed
  <2>1. /\ row.apply = "verified" /\ row.applied = run.change /\ row.wrote = held.wrote
        /\ row.rollback = "not_run" /\ row.rollbackReceipt = {}
        /\ row.receipt = {[applied |-> run.change, wrote |-> held.wrote]}
    <3>1. row = Settled(held)
      BY <1>4 DEF held
    <3> QED
      BY <1>1, <1>2, <3>1 DEF Settled, MutationDigest, Row
  <2>2. row \in Row
    BY <1>1, <1>4, RowSettles DEF held
  <2>3. row.receipt = IF row.applied # {} \/ row.wrote THEN MutationDigest(row) ELSE {}
    BY <2>1 DEF MutationDigest, Loads, StatesLoad
  <2>4. Remembered(p, row)
    BY <1>2, <1>4, <2>1 DEF Remembered, Added, held
  <2>5. Earned(p, row)
    BY <1>2, <1>4, <2>1 DEF Earned, AddedAlone, held
  <2> QED
    BY <2>1, <2>2, <2>3, <2>4, <2>5, ClosedGood
<1> QED
  BY <1>3, <1>4

LEMMA ApplyGood ==
  ASSUME Types, HistoryTypes, Phase, GoodRows, Holds, NEW p \in Photo, ApplyRow(p)
  PROVE  GoodRows' /\ Holds'
<1> USE HeldTypes
<1>1. run.op = "apply" /\ run.photo = p /\ library' = library /\ UNCHANGED history
  BY DEF ApplyRow, ApplyRead, ApplyReadFails, ApplyRefresh, ApplyKeywordsVerified,
         ApplyKeywordsUnverified, ApplyReread, ApplyRereadFails, ApplyCaptionVerified,
         ApplyCaptionUnverified, SettleApply, Applying
<1>2. /\ Good(p, disk[p]) /\ run.row.apply = disk[p].apply
      /\ run.row.rollback = "not_run" /\ run.row.receipt = {}
      /\ run.row.rollbackReceipt = {}
      /\ Reading => /\ disk[p].apply \in Unopened
                    /\ run.row.applied = {} /\ run.row.wrote = FALSE
      /\ Opened => Added(p) /\ (p \notin raced => AddedAlone(p))
  BY <1>1 DEF Phase, InHand, ApplyWaits, Holds, ApplyHolds, GoodRows, Reading, Opened,
              RowStages
<1>3. disk' = disk => GoodRows'
  BY <1>1 DEF history, GoodRows, Good, Remembered, Earned
<1>4. ASSUME NEW row \in Row, Save(p, row, RowDone), Loads(p, row) => Good(p, row)
      PROVE  GoodRows' /\ Holds'
  <2>1. run'.step = "next"
    <3>1. \A todo : Between(todo).step = "next" /\ Idle.step = "next"
      BY DEF Between, Idle
    <3> QED
      BY <1>4, <3>1 DEF Save, RowDone
  <2> QED
    BY <1>1, <1>4, <2>1, SaveGood, NothingHeld
<1>5. ASSUME NEW row \in Row, Reading, row.apply \in {"noop", "failed", "writing"},
             row.rollback = "not_run", row.receipt = {}, row.rollbackReceipt = {}
      PROVE  Loads(p, row) => Good(p, row)
  BY <1>2, <1>5, UnopenedGood
<1>6. CASE ApplyRead(p)
  <2>1. /\ disk' = disk /\ run'.op = "apply" /\ run'.step = "refresh"
        /\ \E s : run'.row = [run.row EXCEPT !.caption = s]
    BY <1>1, <1>6 DEF ApplyRead, Types, Operation
  <2>2. /\ run'.row.receipt = {} /\ run'.row.rollbackReceipt = {}
        /\ run'.row.applied = run.row.applied /\ run'.row.wrote = run.row.wrote
    BY <1>2, <2>1 DEF Row
  <2>3. Reading /\ ~Opened'
    BY <1>6, <2>1 DEF ApplyRead, Applying, Reading, Opened
  <2> QED
    BY <1>2, <1>3, <2>1, <2>2, <2>3 DEF Holds, ApplyHolds, RollbackHolds
<1>7. CASE ApplyReadFails(p)
  BY <1>2, <1>4, <1>5, <1>7, RowEnds, RowSetters DEF ApplyReadFails, Applying, Reading
<1>8. CASE ApplyRefresh(p)
  <2> DEFINE seen == library[p]
             added == Additions(p, seen.keywords)
             caption == run.caption /\ seen.description = ""
             row == IF p \in Captioned /\ ~caption
                    THEN [run.row EXCEPT !.caption = "preserved"] ELSE run.row
             noop == [row EXCEPT !.apply = "noop"]
             opened == [row EXCEPT !.apply = "writing"]
             then == [run EXCEPT !.row = opened, !.existing = seen.keywords,
                              !.text = seen.description, !.change = added,
                              !.caption = caption,
                              !.step = IF added # {} THEN "set keywords" ELSE "reread"]
  <2>1. Reading /\ introduced[p] = {} /\ p \notin captioned
    BY <1>2, <1>8, UnopenedIsClean DEF ApplyRefresh, Applying, Reading
  <2>2. /\ row \in Row /\ row.rollback = "not_run" /\ row.receipt = {}
        /\ row.rollbackReceipt = {} /\ row.applied = {} /\ row.wrote = FALSE
    <3> DEFINE preserved == [run.row EXCEPT !.caption = "preserved"]
    <3>1. preserved \in Row
      BY RowEnds DEF CaptionStates
    <3>2. /\ preserved.rollback = run.row.rollback /\ preserved.receipt = run.row.receipt
          /\ preserved.rollbackReceipt = run.row.rollbackReceipt
          /\ preserved.applied = run.row.applied /\ preserved.wrote = run.row.wrote
      BY DEF Row
    <3> QED
      BY <1>2, <2>1, <3>1, <3>2
  <2>3. ASSUME NEW s \in {"noop", "writing"}
        PROVE  /\ [row EXCEPT !.apply = s] \in Row /\ [row EXCEPT !.apply = s].apply = s
               /\ [row EXCEPT !.apply = s].rollback = "not_run"
               /\ [row EXCEPT !.apply = s].receipt = {}
               /\ [row EXCEPT !.apply = s].rollbackReceipt = {}
               /\ [row EXCEPT !.apply = s].applied = {}
               /\ [row EXCEPT !.apply = s].wrote = FALSE
    <3> HIDE DEF row
    <3> QED
      BY <2>2 DEF Row, ApplyStates
  <2>4. CASE added = {} /\ ~caption
    <3>1. Save(p, noop, RowDone)
      BY <1>8, <2>4 DEF ApplyRefresh
    <3> HIDE DEF row
    <3> QED
      BY <1>4, <1>5, <2>1, <2>3, <3>1
  <2>5. CASE ~(added = {} /\ ~caption)
    <3>1. Save(p, opened, then)
      BY <1>8, <2>5 DEF ApplyRefresh
    <3>2. GoodRows'
      <4> HIDE DEF row, then
      <4> QED
        BY <1>1, <1>5, <2>1, <2>3, <3>1, SaveGood
    <3>3. CASE run' = Idle
      BY <3>2, <3>3, NothingHeld DEF Idle
    <3>4. CASE run' = then
      <4>1. /\ run'.op = "apply" /\ run'.photo = p /\ run'.row = opened
            /\ run'.existing = library[p].keywords /\ run'.change = added
            /\ run'.step = IF added # {} THEN "set keywords" ELSE "reread"
        BY <1>1, <3>4 DEF Types, Operation
      <4>2. opened.receipt = {} /\ opened.rollbackReceipt = {} /\ opened.applied = {}
              /\ opened.wrote = FALSE
        BY <2>3
      <4>3. added \cap library[p].keywords = {}
        BY DEF Additions, Keys
      <4> HIDE DEF opened, added, then
      <4>4. Added(p)'
        BY <1>1, <2>1, <4>1, <4>3 DEF Added, history
      <4>5. AddedAlone(p)'
        BY <1>1, <2>1, <4>1, <4>2 DEF AddedAlone, history
      <4>6. ~Reading' /\ run'.op # "rollback"
        BY <4>1 DEF Reading
      <4> QED
        BY <3>2, <4>1, <4>2, <4>4, <4>5, <4>6 DEF Holds, ApplyHolds, RollbackHolds
    <3> QED
      BY <3>1, <3>2, <3>3, <3>4 DEF Save
  <2> QED
    BY <2>4, <2>5
<1>9. ASSUME Opened, disk' = disk, run'.op = "apply", run'.photo = p, Added(p)',
             run'.step \in {"reread", "set caption", "settle"},
             p \notin raced => AddedAlone(p)',
             run'.row.receipt = {}, run'.row.rollbackReceipt = {}
      PROVE  GoodRows' /\ Holds'
  <2>1. ~Reading' /\ raced' = raced
    BY <1>1, <1>9 DEF Reading, history
  <2> QED
    BY <1>3, <1>9, <2>1 DEF Holds, ApplyHolds, RollbackHolds
<1>10. CASE ApplyKeywordsVerified(p)
  <2>1. /\ disk' = disk /\ run'.op = "apply" /\ run'.photo = p
        /\ run'.change = run.change /\ run'.existing = run.existing
        /\ run'.failed = run.failed /\ run'.step \in {"reread", "settle"}
        /\ run'.row = [run.row EXCEPT !.applied = run.change]
    BY <1>1, <1>10 DEF ApplyKeywordsVerified, AfterKeywords, Types, Operation
  <2>2. /\ run'.row.receipt = {} /\ run'.row.rollbackReceipt = {}
        /\ run'.row.applied = run.change /\ run'.row.wrote = run.row.wrote
    BY <1>2, <2>1 DEF Row
  <2>3. Opened /\ run.step = "check keywords"
    BY <1>10 DEF ApplyKeywordsVerified, Applying, Opened, RowStages
  <2>4. p \notin raced => run.change \subseteq introduced[p]
    BY <1>2, <1>10, <2>3 DEF ApplyKeywordsVerified, Added, AddedAlone
  <2>5. Added(p)'
    BY <1>1, <1>2, <2>1, <2>3 DEF Added, history
  <2>6. p \notin raced => AddedAlone(p)'
    BY <1>1, <1>2, <2>1, <2>2, <2>3, <2>4 DEF AddedAlone, history
  <2> QED
    BY <1>9, <2>1, <2>2, <2>3, <2>5, <2>6
<1>11. CASE ApplyKeywordsUnverified(p)
  <2>1. /\ disk' = disk /\ run'.op = "apply" /\ run'.photo = p
        /\ run'.change = run.change /\ run'.existing = run.existing
        /\ run'.failed = TRUE /\ run'.step \in {"reread", "settle"}
        /\ run'.row = run.row
    BY <1>1, <1>11 DEF ApplyKeywordsUnverified, AfterKeywords, Types, Operation
  <2>2. Opened /\ run.step = "check keywords"
    BY <1>11 DEF ApplyKeywordsUnverified, Applying, Opened, RowStages
  <2>3. Added(p)'
    BY <1>1, <1>2, <2>1, <2>2 DEF Added, history
  <2>4. p \notin raced => AddedAlone(p)'
    BY <1>1, <1>2, <2>1, <2>2 DEF AddedAlone, history
  <2> QED
    BY <1>2, <1>9, <2>1, <2>2, <2>3, <2>4
<1>12. CASE ApplyReread(p)
  <2>1. /\ disk' = disk /\ run'.op = "apply" /\ run'.photo = p
        /\ run'.change = run.change /\ run'.existing = run.existing
        /\ run'.failed = run.failed
        /\ \/ /\ run'.step = "set caption" /\ library[p].description = ""
              /\ run'.row = run.row
           \/ /\ run'.step = "settle"
              /\ run'.row = [run.row EXCEPT !.caption = "preserved"]
    BY <1>1, <1>12 DEF ApplyReread, Types, Operation
  <2>2. /\ run'.row.receipt = {} /\ run'.row.rollbackReceipt = {}
        /\ run'.row.applied = run.row.applied /\ run'.row.wrote = run.row.wrote
    BY <1>2, <2>1 DEF Row
  <2>3. Opened /\ run.step = "reread"
    BY <1>12 DEF ApplyReread, Applying, Opened, RowStages
  <2>4. Added(p)'
    BY <1>1, <1>2, <2>1, <2>2, <2>3 DEF Added, history
  <2>5. p \notin raced => AddedAlone(p)'
    BY <1>1, <1>2, <2>1, <2>2, <2>3 DEF AddedAlone, history
  <2> QED
    BY <1>9, <2>1, <2>2, <2>3, <2>4, <2>5
<1>13. CASE ApplyRereadFails(p) \/ ApplyCaptionUnverified(p)
  <2>1. /\ disk' = disk /\ run'.op = "apply" /\ run'.photo = p
        /\ run'.change = run.change /\ run'.existing = run.existing
        /\ run'.failed = TRUE /\ run'.step = "settle" /\ run'.row = run.row
    BY <1>1, <1>13 DEF ApplyRereadFails, ApplyCaptionUnverified, Types, Operation
  <2>2. Opened
    BY <1>13 DEF ApplyRereadFails, ApplyCaptionUnverified, Applying, Opened, RowStages
  <2>3. Added(p)'
    BY <1>1, <1>2, <2>1, <2>2 DEF Added, history
  <2>4. p \notin raced => AddedAlone(p)'
    BY <1>1, <1>2, <2>1, <2>2 DEF AddedAlone, history
  <2> QED
    BY <1>2, <1>9, <2>1, <2>2, <2>3, <2>4
<1>14. CASE ApplyCaptionVerified(p)
  <2>1. /\ disk' = disk /\ run'.op = "apply" /\ run'.photo = p
        /\ run'.change = run.change /\ run'.existing = run.existing
        /\ run'.failed = run.failed /\ run'.step = "settle"
        /\ run'.row = [run.row EXCEPT !.wrote = TRUE, !.caption = "verified"]
    BY <1>1, <1>14 DEF ApplyCaptionVerified, Types, Operation, Row
  <2>2. /\ run'.row.receipt = {} /\ run'.row.rollbackReceipt = {}
        /\ run'.row.applied = run.row.applied /\ run'.row.wrote = TRUE
    BY <1>2, <2>1 DEF Row
  <2>3. Opened /\ run.step = "check caption" /\ library[p].description = "approved"
    BY <1>14 DEF ApplyCaptionVerified, Applying, Opened, RowStages
  <2>4. Added(p)'
    BY <1>1, <1>2, <2>1, <2>2, <2>3 DEF Added, history
  <2>5. p \notin raced => AddedAlone(p)'
    BY <1>1, <1>2, <2>1, <2>2, <2>3 DEF AddedAlone, history
  <2> QED
    BY <1>9, <2>1, <2>2, <2>3, <2>4, <2>5
<1>15. CASE SettleApply(p)
  <2>1. run.step = "settle" /\ Opened
    BY <1>15 DEF SettleApply, Applying, Opened, RowStages
  <2>2. PICK row : /\ row = IF run.failed THEN Unsettled(run.row) ELSE Settled(run.row)
                   /\ Save(p, row, RowDone)
    BY <1>15 DEF SettleApply
  <2>3. row \in Row
    BY <2>2, RowSettles
  <2>4. Loads(p, row) => Good(p, row)
    BY <1>1, <1>2, <2>1, <2>2, SettlesGood DEF Holds
  <2> QED
    BY <1>4, <2>2, <2>3, <2>4
<1> QED
  BY <1>6, <1>7, <1>8, <1>10, <1>11, <1>12, <1>13, <1>14, <1>15 DEF ApplyRow

-----------------------------------------------------------------------------
(***************************************************************************)
(* One row of rollback.                                                    *)
(***************************************************************************)

LEMMA RollbackRowGood ==
  ASSUME Types, Phase, GoodRows, Holds, NEW p \in Photo, RollbackRow(p)
  PROVE  GoodRows' /\ Holds'
<1> USE HeldTypes
<1>1. run.op = "rollback" /\ run.photo = p /\ library' = library /\ UNCHANGED history
  BY DEF RollbackRow, RollbackRead, RollbackReadFails, EditedCaptionKept, RollbackRefresh,
         RollbackKeywordsVerified, RollbackKeywordsUnverified, RollbackCaptionVerified,
         RollbackCaptionUnverified, SettleRollback, RollingBack
<1>2. /\ Good(p, disk[p]) /\ disk[p].apply = "verified"
      /\ run.row.apply = disk[p].apply /\ run.row.applied = disk[p].applied
      /\ run.row.wrote = disk[p].wrote /\ run.row.receipt = disk[p].receipt
      /\ Opened => Left /\ run.row.rollback = "removing"
  BY <1>1 DEF Phase, InHand, RollbackWaits, Holds, RollbackHolds, GoodRows, Reading, Opened,
              RowStages
<1>3. disk' = disk => GoodRows'
  BY <1>1 DEF history, GoodRows, Good, Remembered, Earned
<1>4. ASSUME NEW row \in Row, NEW then, SaveRollback(p, row, then),
             row.apply = run.row.apply, row.applied = run.row.applied,
             row.wrote = run.row.wrote, row.receipt = run.row.receipt,
             row.rollback # "not_run", RollbackCauseKept(row),
             Loads(p, Receipted(row)) /\ row.rollback = "verified_removed" => Removed(row)
      PROVE  GoodRows'
  <2>1. Loads(p, Receipted(row)) => Good(p, Receipted(row))
    BY <1>2, <1>4, RolledBackGood
  <2> QED
    BY <1>1, <1>4, <2>1, SaveGood, ReceiptedType DEF SaveRollback
<1>5. ASSUME NEW row, SaveRollback(p, row, RowDone)
      PROVE  Holds'
  <2>1. \A todo : Between(todo).step = "next" /\ Idle.step = "next"
    BY DEF Between, Idle
  <2> QED
    BY <1>5, <2>1, NothingHeld DEF Save, SaveRollback, RowDone
<1>6. CASE RollbackRead(p)
  <2>1. /\ disk' = disk /\ run'.op = "rollback" /\ run'.photo = p /\ run'.step = "refresh"
        /\ run'.row = CaptionGone(p, run.row)
    BY <1>1, <1>6 DEF RollbackRead, Types, Operation
  <2>2. /\ run'.row.applied = run.row.applied /\ run'.row.wrote = run.row.wrote
        /\ run'.row.receipt = run.row.receipt
    <3>1. run'.row = run.row \/ run'.row = [run.row EXCEPT !.caption = "removed"]
      BY <2>1 DEF CaptionGone
    <3> QED
      BY <3>1 DEF Row
  <2>3. ~Opened'
    BY <2>1 DEF Opened
  <2> QED
    BY <1>2, <1>3, <2>1, <2>2, <2>3 DEF Holds, ApplyHolds, RollbackHolds
<1>7. CASE RollbackReadFails(p)
  <2>1. SaveRollback(p, FailedRollback(run.row), RowDone)
    BY <1>7 DEF RollbackReadFails
  <2> QED
    BY <1>4, <1>5, <2>1, RowEnds, RollbackSetters DEF RollbackCauseKept
<1>8. ASSUME NEW row, row = Removal(run.row)
                      \/ row = [Removal(run.row) EXCEPT !.caption = "uncertain"],
             SaveRollback(p, row, RowDone)
      PROVE  GoodRows' /\ Holds'
  <2>1. "uncertain" \in CaptionStates /\ Removal(run.row) \in Row
    BY RowEnds DEF CaptionStates
  <2>2. /\ row \in Row /\ row.apply = run.row.apply /\ row.applied = run.row.applied
        /\ row.wrote = run.row.wrote /\ row.receipt = run.row.receipt
        /\ row.rollback = "uncertain" /\ row.rollbackError
    <3>1. CASE row = Removal(run.row)
      BY <2>1, <3>1, RemovalSetters
    <3>2. CASE row = [Removal(run.row) EXCEPT !.caption = "uncertain"]
      <4> DEFINE r == Removal(run.row)
      <4>1. /\ r \in Row /\ r.apply = run.row.apply /\ r.applied = run.row.applied
            /\ r.wrote = run.row.wrote /\ r.receipt = run.row.receipt
            /\ r.rollback = "uncertain" /\ r.rollbackError
        BY <2>1, RemovalSetters
      <4> HIDE DEF r
      <4>2. row = [r EXCEPT !.caption = "uncertain"]
        BY <3>2 DEF r
      <4>3. row \in Row
        BY <2>1, <4>1, <4>2, RowEnds
      <4> QED
        BY <4>1, <4>2, <4>3 DEF Row
    <3> QED
      BY <1>8, <3>1, <3>2
  <2> QED
    BY <1>4, <1>5, <1>8, <2>2 DEF RollbackCauseKept
<1>9. CASE EditedCaptionKept(p)
  BY <1>8, <1>9 DEF EditedCaptionKept
<1>10. CASE RollbackKeywordsUnverified(p)
  BY <1>8, <1>10 DEF RollbackKeywordsUnverified
<1>11. CASE RollbackCaptionUnverified(p)
  BY <1>8, <1>11 DEF RollbackCaptionUnverified
<1>12. CASE RollbackRefresh(p)
  <2> DEFINE seen == library[p]
             row == CaptionGone(p, run.row)
             caption == row.wrote /\ seen.description = "approved"
             removed == Remaining(row) \cap seen.keywords
             missing == Remaining(row) \ seen.keywords
             conflict == CaseConflict(missing, seen.keywords)
             opened == [row EXCEPT !.rollback = "removing"]
             closed == [row EXCEPT !.rollback = IF conflict THEN "casing_conflict"
                                                ELSE "already_absent",
                                   !.rollbackError = conflict]
             step == IF removed # {} THEN "set keywords" ELSE "set caption"
             then == [run EXCEPT !.row = opened, !.existing = seen.keywords,
                           !.text = seen.description, !.change = removed,
                           !.missing = missing, !.caption = caption, !.attempt = 1,
                           !.step = step]
  <2>1. /\ row \in Row /\ row.apply = run.row.apply /\ row.applied = run.row.applied
        /\ row.wrote = run.row.wrote /\ row.receipt = run.row.receipt
        /\ row.rolled = run.row.rolled
        /\ row.wrote /\ seen.description = "" => row.caption = "removed"
    <3>1. "removed" \in CaptionStates
      BY DEF CaptionStates
    <3> QED
      BY <3>1, RowEnds, RemovalSetters, ZenonT(60) DEF CaptionGone
  <2>2. row.wrote => seen.description \in {"", "approved"}
    BY <1>12, <2>1 DEF RollbackRefresh, CaptionEdited, Content, Texts
  <2>3. conflict \in BOOLEAN
    BY DEF CaseConflict
  <2>4. /\ closed \in Row /\ closed.apply = row.apply /\ closed.applied = row.applied
        /\ closed.wrote = row.wrote /\ closed.receipt = row.receipt
        /\ closed.rollback = IF conflict THEN "casing_conflict" ELSE "already_absent"
        /\ closed.rollbackError = conflict
    <3> HIDE DEF row, conflict
    <3>1. closed \in Row
      BY <2>1, <2>3, RowEnds, ZenonT(60) DEF RollbackStates
    <3> QED
      BY <2>1, <3>1, ZenonT(60) DEF Row
  <2>5. /\ opened \in Row /\ opened.apply = row.apply /\ opened.applied = row.applied
        /\ opened.wrote = row.wrote /\ opened.receipt = row.receipt
        /\ opened.rollback = "removing" /\ opened.rolled = row.rolled
        /\ opened.caption = row.caption
    <3> HIDE DEF row
    <3> QED
      BY <2>1 DEF Row, RollbackStates
  <2>6. CASE removed = {} /\ ~caption
    <3>1. SaveRollback(p, closed, RowDone)
      BY <1>12, <2>6 DEF RollbackRefresh
    <3> HIDE DEF row, closed, conflict
    <3> QED
      BY <1>4, <1>5, <2>1, <2>4, <3>1 DEF RollbackCauseKept
  <2>7. CASE ~(removed = {} /\ ~caption)
    <3>1. SaveRollback(p, opened, then)
      BY <1>12, <2>7 DEF RollbackRefresh
    <3>2. GoodRows'
      <4> HIDE DEF row, opened, then
      <4> QED
        BY <1>4, <2>1, <2>5, <3>1 DEF RollbackCauseKept
    <3>3. CASE run' = Idle
      BY <3>2, <3>3, NothingHeld DEF Idle
    <3>4. CASE run' = then /\ disk' = [disk EXCEPT ![p] = Receipted(opened)]
      <4>1. /\ run'.op = "rollback" /\ run'.photo = p /\ run'.row = opened
            /\ run'.existing = library[p].keywords /\ run'.change = removed
            /\ run'.missing = missing /\ run'.caption = caption /\ run'.step = step
        BY <1>1, <3>4 DEF Types, Operation
      <4>2. /\ disk'[p].applied = opened.applied /\ disk'[p].wrote = opened.wrote
            /\ disk'[p].receipt = opened.receipt
        <5>1. disk'[p] = Receipted(opened)
          BY <3>4 DEF Types
        <5> HIDE DEF opened
        <5> QED
          BY <2>5, <5>1 DEF Receipted, Row
      <4>3. Left'
        <5>1. Remaining(opened) = Remaining(row)
          BY <2>5 DEF Remaining
        <5>2. Remaining(opened) \subseteq missing \cup removed
          BY <5>1
        <5>3. removed \subseteq opened.applied
          BY <2>5 DEF Remaining
        <5>4. caption => opened.wrote
          BY <2>5
        <5>5. ~caption /\ opened.wrote => opened.caption = "removed"
          BY <2>1, <2>2, <2>5
        <5>6. step = "set caption" => caption /\ removed = {}
          BY <2>7
        <5>7. step = "set keywords" \/ step = "set caption"
          OBVIOUS
        <5> HIDE DEF opened, caption, removed, missing, step
        <5> QED
          BY <4>1, <5>2, <5>3, <5>4, <5>5, <5>6, <5>7 DEF Left, Remaining
      <4>4. ~Reading' /\ library' = library
        BY <1>1, <4>1 DEF Reading
      <4> HIDE DEF opened, removed, missing, caption, step, then
      <4> QED
        BY <3>2, <4>1, <4>2, <4>3, <4>4 DEF Holds, ApplyHolds, RollbackHolds
    <3> QED
      BY <3>1, <3>2, <3>3, <3>4 DEF Save, SaveRollback
  <2> QED
    BY <2>6, <2>7
<1>13. CASE RollbackKeywordsVerified(p)
  <2> DEFINE row == [run.row EXCEPT !.rolled = @ \cup run.change]
             step == IF run.caption THEN "set caption" ELSE "settle"
             then == [run EXCEPT !.row = row, !.step = step]
  <2>1. Opened /\ Left /\ run.step = "check keywords"
    BY <1>2, <1>13 DEF RollbackKeywordsVerified, RollingBack, Opened, RowStages
  <2>2. /\ row \in Row /\ row.apply = run.row.apply /\ row.applied = run.row.applied
        /\ row.wrote = run.row.wrote /\ row.receipt = run.row.receipt
        /\ row.rollback = "removing" /\ row.rolled = run.row.rolled \cup run.change
        /\ row.caption = run.row.caption
    <3>1. row \in Row
      BY RowEnds DEF Row
    <3> QED
      BY <1>2, <2>1, <3>1 DEF Row
  <2>3. SaveRollback(p, row, then)
    BY <1>13 DEF RollbackKeywordsVerified
  <2>4. GoodRows'
    <3> HIDE DEF row, then
    <3> QED
      BY <1>4, <2>2, <2>3 DEF RollbackCauseKept
  <2>5. CASE run' = Idle
    BY <2>4, <2>5, NothingHeld DEF Idle
  <2>6. CASE run' = then /\ disk' = [disk EXCEPT ![p] = Receipted(row)]
    <3>1. /\ run'.op = "rollback" /\ run'.photo = p /\ run'.row = row
          /\ run'.change = run.change /\ run'.missing = run.missing
          /\ run'.caption = run.caption /\ run'.step = step
      BY <1>1, <2>6 DEF Types, Operation
    <3>2. /\ disk'[p].applied = row.applied /\ disk'[p].wrote = row.wrote
          /\ disk'[p].receipt = row.receipt
      <4>1. disk'[p] = Receipted(row)
        BY <2>6 DEF Types
      <4> HIDE DEF row
      <4> QED
        BY <2>2, <4>1 DEF Receipted, Row
    <3> HIDE DEF row, then
    <3>3. Left'
      BY <2>1, <2>2, <3>1 DEF Left, Remaining
    <3>4. ~Reading'
      BY <3>1 DEF Reading
    <3> QED
      BY <2>4, <3>1, <3>2, <3>3, <3>4 DEF Holds, ApplyHolds, RollbackHolds
  <2> QED
    BY <2>3, <2>4, <2>5, <2>6 DEF Save, SaveRollback
<1>14. CASE RollbackCaptionVerified(p)
  <2>1. /\ disk' = disk /\ run'.op = "rollback" /\ run'.photo = p /\ run'.step = "settle"
        /\ run'.row = [run.row EXCEPT !.caption = "removed"]
        /\ run'.change = run.change /\ run'.missing = run.missing
        /\ run'.caption = run.caption
    BY <1>1, <1>14 DEF RollbackCaptionVerified, Types, Operation
  <2>2. /\ run'.row.applied = run.row.applied /\ run'.row.wrote = run.row.wrote
        /\ run'.row.receipt = run.row.receipt /\ run'.row.rolled = run.row.rolled
        /\ run'.row.caption = "removed"
    BY <2>1 DEF Row
  <2>3. Opened /\ Left /\ run.step = "check caption" /\ ~Reading'
    BY <1>2, <1>14, <2>1
       DEF RollbackCaptionVerified, RollingBack, Opened, RowStages, Reading
  <2>4. Left'
    BY <2>1, <2>2, <2>3 DEF Left, Remaining
  <2> QED
    BY <1>2, <1>3, <2>1, <2>2, <2>3, <2>4 DEF Holds, ApplyHolds, RollbackHolds
<1>15. CASE SettleRollback(p)
  <2> DEFINE row == [run.row EXCEPT !.rollback = Outcome,
                                    !.rollbackError = Outcome # "verified_removed"]
  <2>1. Opened /\ Left /\ run.step = "settle" /\ SaveRollback(p, row, RowDone)
    BY <1>2, <1>15 DEF SettleRollback, RollingBack, Opened, RowStages
  <2>2. /\ Outcome \in {"verified_removed", "failed", "casing_conflict"}
        /\ Outcome = "verified_removed" => run.missing = {}
    BY DEF Outcome
  <2>3. /\ row \in Row /\ row.apply = run.row.apply /\ row.applied = run.row.applied
        /\ row.wrote = run.row.wrote /\ row.receipt = run.row.receipt
        /\ row.rolled = run.row.rolled /\ row.caption = run.row.caption
        /\ row.rollback = Outcome /\ row.rollbackError = (Outcome # "verified_removed")
    <3>1. row \in Row
      BY <2>2, RowEnds, ZenonT(60) DEF RollbackStates
    <3> QED
      BY <3>1, ZenonT(60) DEF Row
  <2> HIDE DEF row
  <2>4. RollbackCauseKept(row)
    BY <2>2, <2>3 DEF RollbackCauseKept
  <2>5. Receipted(row).rolled = row.rolled /\ Receipted(row).applied = row.applied
    BY <2>3 DEF Receipted, Row
  <2>6. Loads(p, Receipted(row)) /\ row.rollback = "verified_removed" => Removed(row)
    <3> SUFFICES ASSUME Loads(p, Receipted(row)), row.rollback = "verified_removed"
                 PROVE  Removed(row)
      OBVIOUS
    <3>1. Remaining(run.row) = {}
      BY <2>1, <2>2, <2>3 DEF Left
    <3>2. row.applied \subseteq row.rolled
      BY <2>3, <3>1 DEF Remaining
    <3>3. row.rolled \subseteq row.applied
      BY <2>5 DEF Loads, StatesLoad
    <3>4. row.wrote => row.caption = "removed"
      BY <2>1, <2>3 DEF Left
    <3> QED
      BY <3>2, <3>3, <3>4 DEF Removed
  <2> QED
    BY <1>4, <1>5, <2>1, <2>2, <2>3, <2>4, <2>6
<1> QED
  BY <1>6, <1>7, <1>9, <1>10, <1>11, <1>12, <1>13, <1>14, <1>15 DEF RollbackRow

-----------------------------------------------------------------------------
(***************************************************************************)
(* Setters and edits.                                                      *)
(***************************************************************************)

LEMMA SetterGood ==
  ASSUME Types, HistoryTypes, Phase, GoodRows, Holds, NEW p \in Photo,
         SetKeywords(p) \/ SetCaption(p) \/ SetCaptionAgain(p)
  PROVE  GoodRows' /\ Holds'
<1>1. /\ disk' = disk /\ raced' = raced /\ run.photo = p /\ run.op \in {"apply", "rollback"}
      /\ run.step \in {"set keywords", "set caption", "check caption"}
      /\ run'.op = run.op /\ run'.photo = p /\ run'.row = run.row
      /\ run'.change = run.change /\ run'.existing = run.existing
      /\ run'.missing = run.missing /\ run'.caption = run.caption
      /\ run'.failed = run.failed
      /\ run'.step = IF run.step = "set keywords" THEN "check keywords"
                     ELSE IF run.step = "set caption" THEN "check caption"
                     ELSE "set caption"
  BY DEF SetKeywords, SetCaption, SetCaptionAgain, At, history, Types, Operation
<1>2. Opened /\ Opened' /\ ~Reading'
  BY <1>1 DEF Opened, Reading, RowStages
<1>3. /\ Good(p, disk[p])
      /\ run.op = "apply" => /\ disk[p].apply = "writing" /\ disk[p].receipt = {}
                             /\ Added(p) /\ (p \notin raced => AddedAlone(p))
                             /\ run.row.receipt = {} /\ run.row.rollbackReceipt = {}
      /\ run.op = "rollback" => Left
  BY <1>1, <1>2 DEF GoodRows, Good, EvidenceIsValid, Phase, ApplyWaits, Holds, ApplyHolds,
                    RollbackHolds
<1>4. \A q \in Photo \ {p} : /\ library'[q] = library[q] /\ introduced'[q] = introduced[q]
                             /\ q \in captioned' <=> q \in captioned
  BY DEF SetKeywords, SetCaption, SetCaptionAgain, history, Types, HistoryTypes
<1>5. run.op = "rollback" => introduced' = introduced /\ captioned' = captioned
  BY DEF SetKeywords, SetCaption, SetCaptionAgain, history
<1>6. GoodRows'
  <2>1. \A q \in Photo \ {p} : Good(q, disk[q])'
    BY <1>1, <1>4 DEF GoodRows, Good, Remembered, Earned
  <2>2. CASE run.op = "apply"
    <3>1. Remembered(p, disk[p])' /\ Earned(p, disk[p])'
      BY <1>1, <1>3, <2>2 DEF Remembered, Earned, Open
    <3> QED
      BY <1>1, <1>3, <2>1, <3>1 DEF GoodRows, Good
  <2>3. CASE run.op = "rollback"
    BY <1>1, <1>5, <2>3 DEF GoodRows, Good, Remembered, Earned
  <2> QED
    BY <1>1, <2>2, <2>3
<1>7. CASE run.op = "rollback"
  <2>1. Left'
    BY <1>1, <1>3, <1>7 DEF Left, Remaining
  <2> QED
    BY <1>1, <1>2, <1>6, <1>7, <2>1 DEF Holds, ApplyHolds, RollbackHolds
<1>8. CASE run.op = "apply"
  <2>1. CASE SetKeywords(p)
    <3>1. run.step = "set keywords" /\ captioned' = captioned
      BY <2>1 DEF SetKeywords, At
    <3>2. /\ introduced[p] \subseteq introduced'[p]
          /\ introduced'[p] \subseteq introduced[p] \cup run.change
      <4>1. CASE introduced' = introduced
        BY <4>1
      <4>2. CASE introduced' = [introduced EXCEPT
                                  ![p] = @ \cup (run.change \ library[p].keywords)]
        BY <4>2 DEF HistoryTypes
      <4> QED
        BY <1>8, <2>1, <4>1, <4>2 DEF SetKeywords
    <3>3. library[p].keywords = run.existing =>
            library'[p].keywords = run.existing \/ run.change \subseteq introduced'[p]
      <4>1. CASE UNCHANGED <<library, introduced>>
        BY <4>1
      <4>2. CASE introduced' = [introduced EXCEPT
                                  ![p] = @ \cup (run.change \ library[p].keywords)]
        BY <1>3, <1>8, <4>2 DEF Added, HistoryTypes
      <4> QED
        BY <1>8, <2>1, <4>1, <4>2 DEF SetKeywords
    <3>4. Added(p)'
      BY <1>1, <1>3, <1>8, <3>1, <3>2 DEF Added
    <3>5. p \notin raced => AddedAlone(p)'
      BY <1>1, <1>3, <1>8, <3>1, <3>2, <3>3 DEF AddedAlone
    <3> QED
      BY <1>1, <1>2, <1>3, <1>6, <1>8, <3>4, <3>5 DEF Holds, ApplyHolds, RollbackHolds
  <2>2. CASE SetCaption(p) \/ SetCaptionAgain(p)
    <3>1. /\ run.step \in {"set caption", "check caption"} /\ introduced' = introduced
          /\ captioned \subseteq captioned'
          /\ library'[p] = library[p] \/ p \in captioned'
      BY <1>8, <2>2 DEF SetCaption, SetCaptionAgain, At, history
    <3>2. Added(p)'
      BY <1>1, <1>3, <1>8, <3>1 DEF Added
    <3>3. p \notin raced => AddedAlone(p)'
      BY <1>1, <1>3, <1>8, <3>1 DEF AddedAlone
    <3> QED
      BY <1>1, <1>2, <1>3, <1>6, <1>8, <3>2, <3>3 DEF Holds, ApplyHolds, RollbackHolds
  <2> QED
    BY <2>1, <2>2
<1> QED
  BY <1>1, <1>7, <1>8

LEMMA EditGood ==
  ASSUME Types, HistoryTypes, Phase, GoodRows, Holds, NEW p \in Photo, Edit(p)
  PROVE  GoodRows' /\ Holds'
<1>1. /\ disk' = disk /\ run' = run /\ introduced' = introduced /\ captioned' = captioned
      /\ raced \subseteq raced'
      /\ \A q \in Photo \ {p} : library'[q] = library[q]
  BY DEF Edit, Types
<1>2. GoodRows'
  BY <1>1 DEF GoodRows, Good, Remembered, Earned
<1>3. CASE ~Opened
  <2>1. ~Opened' /\ (Reading' <=> Reading) /\ run.step # "set keywords"
    BY <1>1, <1>3 DEF Opened, Reading, RowStages
  <2> QED
    BY <1>1, <1>2, <2>1 DEF Holds, ApplyHolds, RollbackHolds
<1>4. CASE Opened /\ run.op # "idle"
  <2>1. run.row.apply = "writing" \/ run.row.rollback = "removing"
    BY <1>4 DEF Phase, ApplyWaits, RollbackWaits, Types, Operation
  <2>2. run.photo \in Photo
    BY <1>4 DEF Phase, InHand, Opened
  <2>3. run.photo \notin raced' => run.photo # p /\ library'[run.photo] = library[run.photo]
    BY <1>1, <2>1, <2>2 DEF Edit
  <2>4. Opened' /\ ~Reading' /\ ~Reading
    BY <1>1, <1>4 DEF Opened, Reading, RowStages
  <2>5. ApplyHolds'
    <3>1. run.op = "apply" => Added(run.photo)'
      BY <1>1, <1>4 DEF Holds, ApplyHolds, Added
    <3>2. run.op = "apply" /\ run.photo \notin raced' => AddedAlone(run.photo)'
      BY <1>1, <1>4, <2>3 DEF Holds, ApplyHolds, AddedAlone
    <3> QED
      BY <1>1, <1>4, <2>4, <3>1, <3>2 DEF Holds, ApplyHolds
  <2>6. RollbackHolds'
    BY <1>1, <1>4, <2>3, <2>4 DEF Holds, RollbackHolds, Left
  <2> QED
    BY <1>2, <2>5, <2>6 DEF Holds
<1>5. CASE run.op = "idle"
  BY <1>1, <1>2, <1>5 DEF Holds, ApplyHolds, RollbackHolds
<1> QED
  BY <1>3, <1>4, <1>5

-----------------------------------------------------------------------------
(***************************************************************************)
(* The invariant.                                                          *)
(***************************************************************************)

IInv == /\ Types /\ HistoryTypes /\ Phase /\ GoodRows /\ Holds

LEMMA HistoryStep ==
  ASSUME Types, HistoryTypes, Next
  PROVE  HistoryTypes'
<1>1. run.change \in SUBSET Keyword
  BY HeldTypes
<1>2. UNCHANGED <<introduced, captioned, raced>>
        \/ \E p \in Photo : SetKeywords(p) \/ SetCaption(p) \/ Edit(p)
  BY ZenonT(60) DEF Next, StartApply, StartRollback, Start, RecoverInterrupted, OpenAdapters,
         AdaptersUnavailable, Cancel, Return, BeginApply, BeginRollback, Crash, ApplyRow,
         ApplyRead, ApplyReadFails, ApplyRefresh, ApplyKeywordsVerified,
         ApplyKeywordsUnverified, ApplyReread, ApplyRereadFails, ApplyCaptionVerified,
         ApplyCaptionUnverified, SettleApply, RollbackRow, RollbackRead, RollbackReadFails,
         EditedCaptionKept, RollbackRefresh, RollbackKeywordsVerified,
         RollbackKeywordsUnverified, RollbackCaptionVerified, RollbackCaptionUnverified,
         SettleRollback, SetCaptionAgain, history
<1>3. ASSUME NEW p \in Photo, SetKeywords(p) PROVE HistoryTypes'
  <2>1. \/ introduced' = introduced
        \/ introduced' = [introduced EXCEPT
                            ![p] = @ \cup (run.change \ library[p].keywords)]
    BY <1>3 DEF SetKeywords
  <2>2. captioned' = captioned /\ raced' = raced
    BY <1>3 DEF SetKeywords
  <2> QED
    BY <1>1, <2>1, <2>2 DEF HistoryTypes
<1>4. ASSUME NEW p \in Photo, SetCaption(p) PROVE HistoryTypes'
  BY <1>4 DEF SetCaption, HistoryTypes
<1>5. ASSUME NEW p \in Photo, Edit(p) PROVE HistoryTypes'
  BY <1>5 DEF Edit, HistoryTypes
<1> QED
  BY <1>2, <1>3, <1>4, <1>5 DEF HistoryTypes

LEMMA IInvInit == Init => IInv
<1> SUFFICES ASSUME Init PROVE IInv
  OBVIOUS
<1>1. Types /\ Phase
  BY TypesInit, PhaseInit
<1>2. HistoryTypes
  BY DEF Init, HistoryTypes
<1>3. \A p \in Photo : Good(p, Reviewed(p)) /\ disk[p] = Reviewed(p)
  BY DEF Init, Reviewed, Good, Loads, ErrorsLoad, CaptionLoads, StatesLoad, EvidenceIsValid,
         CauseKept, RollbackCauseKept, Remembered, Earned
<1>4. run.op = "idle"
  BY DEF Init, Idle
<1> QED
  BY <1>1, <1>2, <1>3, <1>4 DEF IInv, GoodRows, Holds, ApplyHolds, RollbackHolds

LEMMA IInvStep == IInv /\ [Next]_vars => IInv'
<1> SUFFICES ASSUME IInv, [Next]_vars PROVE IInv'
  OBVIOUS
<1>1. Types' /\ Phase'
  BY TypesStep, PhaseStep DEF IInv
<1>2. CASE UNCHANGED vars
  BY <1>1, <1>2 DEF IInv, vars, history, HistoryTypes, GoodRows, Good, Remembered, Earned, Holds,
                    ApplyHolds, RollbackHolds, Added, AddedAlone, Left, Reading, Opened
<1>3. CASE Next
  <2>1. HistoryTypes'
    BY <1>3, HistoryStep DEF IInv
  <2>2. GoodRows' /\ Holds'
    BY <1>3, ControlGood, ApplyGood, RollbackRowGood, SetterGood, EditGood DEF Next, IInv
  <2> QED
    BY <1>1, <2>1, <2>2 DEF IInv
<1> QED
  BY <1>2, <1>3

LEMMA BoundedStep ==
  ASSUME Bounded, [Next]_vars
  PROVE  Bounded'
<1>1. \/ UNCHANGED <<operations, edits, crashes>>
      \/ (\E op \in {"apply", "rollback"} : Start(op)) \/ Crash \/ \E p \in Photo : Edit(p)
  BY ZenonT(60) DEF Next, vars, StartApply, StartRollback, RecoverInterrupted,
         OpenAdapters, AdaptersUnavailable, Cancel, Return, BeginApply, BeginRollback,
         ApplyRow, ApplyRead, ApplyReadFails, ApplyRefresh, ApplyKeywordsVerified,
         ApplyKeywordsUnverified, ApplyReread, ApplyRereadFails, ApplyCaptionVerified,
         ApplyCaptionUnverified, SettleApply, RollbackRow, RollbackRead, RollbackReadFails,
         EditedCaptionKept, RollbackRefresh, RollbackKeywordsVerified,
         RollbackKeywordsUnverified, RollbackCaptionVerified, RollbackCaptionUnverified,
         SettleRollback, SetKeywords, SetCaption, SetCaptionAgain, history
<1>2. CASE UNCHANGED <<operations, edits, crashes>>
  BY <1>2 DEF Bounded
<1>3. ASSUME NEW op \in {"apply", "rollback"}, Start(op) PROVE Bounded'
  BY <1>3, RollbackConstants DEF Start, history, Bounded
<1>4. CASE Crash
  BY <1>4, RollbackConstants DEF Crash, history, Bounded
<1>5. ASSUME NEW p \in Photo, Edit(p) PROVE Bounded'
  BY <1>5, RollbackConstants DEF Edit, Bounded
<1> QED
  BY <1>1, <1>2, <1>3, <1>4, <1>5

LEMMA Invariant == Spec => [](IInv /\ Bounded)
<1>1. Init => Bounded
  BY RollbackConstants DEF Init, Bounded
<1>2. Bounded /\ [Next]_vars => Bounded'
  BY BoundedStep
<1> QED
  BY <1>1, <1>2, IInvInit, IInvStep, PTL DEF Spec

-----------------------------------------------------------------------------

\* Whatever is interrupted, edited or retried, every saved row has the receipts
\* its claims need and its failures keep their cause, so that apply, rollback
\* and status never refuse the file for good (workflows.py:1581-1653).
THEOREM JournalAlwaysUsable == Spec => []JournalStaysUsable
<1>1. IInv /\ Bounded => JournalStaysUsable
  BY DEF IInv, Bounded, JournalStaysUsable, TypeOK, Types, HistoryTypes, GoodRows, Good
<1> QED
  BY <1>1, Invariant, PTL

\* A keyword or caption our setters put into a photo is receipted or its row
\* says that the outcome is open (README.md:344-345).
THEOREM NoWriteForgotten == Spec => []NoForgottenWrite
<1>1. IInv => NoForgottenWrite
  BY DEF IInv, NoForgottenWrite, GoodRows, Good, Remembered, Open
<1> QED
  BY <1>1, Invariant, PTL

\* A receipt of a photo nobody else edited while its row was open claims only
\* what our setters did (README.md:402-403).
THEOREM ReceiptsEarned == Spec => []ReceiptsAreEarned
<1>1. IInv => ReceiptsAreEarned
  BY DEF IInv, ReceiptsAreEarned, GoodRows, Good, Earned
<1> QED
  BY <1>1, Invariant, PTL

\* verified_removed is said only when every applied keyword was taken back and
\* the caption this run wrote is gone (workflows.py:2378-2386).
THEOREM RemovalComplete == Spec => []RemovalIsComplete
<1>1. IInv => RemovalIsComplete
  BY DEF IInv, RemovalIsComplete, GoodRows, Good, Removed
<1> QED
  BY <1>1, Invariant, PTL

\* The only steps that change Photos.
LEMMA WhoChangesPhotos ==
  ASSUME IInv, Bounded, Next, NEW p \in Photo, library'[p] # library[p], edits' = edits
  PROVE  SetKeywords(p) \/ SetCaption(p)
<1>1. \E q \in Photo : SetKeywords(q) \/ SetCaption(q) \/ Edit(q)
  BY DEF Next, StartApply, StartRollback, Start, RecoverInterrupted, OpenAdapters,
         AdaptersUnavailable, Cancel, Return, BeginApply, BeginRollback, Crash, ApplyRow,
         ApplyRead, ApplyReadFails, ApplyRefresh, ApplyKeywordsVerified,
         ApplyKeywordsUnverified, ApplyReread, ApplyRereadFails, ApplyCaptionVerified,
         ApplyCaptionUnverified, SettleApply, RollbackRow, RollbackRead, RollbackReadFails,
         EditedCaptionKept, RollbackRefresh, RollbackKeywordsVerified,
         RollbackKeywordsUnverified, RollbackCaptionVerified, RollbackCaptionUnverified,
         SettleRollback, SetCaptionAgain
<1>2. PICK q \in Photo : SetKeywords(q) \/ SetCaption(q) \/ Edit(q)
  BY <1>1
<1>3. q # p => library'[p] = library[p]
  BY <1>2 DEF SetKeywords, SetCaption, Edit, IInv, Types
<1>4. ~Edit(q)
  <2>1. edits \in Nat
    BY RollbackConstants DEF Bounded
  <2> QED
    BY <2>1 DEF Edit
<1> QED
  BY <1>2, <1>3, <1>4

LEMMA SetterReads ==
  ASSUME IInv, NEW p \in Photo, SetKeywords(p) \/ SetCaption(p)
  PROVE  /\ run.photo = p /\ Opened /\ run.op \in {"apply", "rollback"}
         /\ run.op = "rollback" =>
              /\ Left /\ run.row.applied = disk[p].applied /\ run.row.wrote = disk[p].wrote
              /\ disk[p].apply = "verified"
              /\ p \notin raced /\ run.step = "set keywords" =>
                   library[p].keywords = run.existing
<1>1. run.photo = p /\ Opened /\ run.op \in {"apply", "rollback"}
  BY DEF SetKeywords, SetCaption, At, Opened, RowStages, IInv, Types, Operation
<1> QED
  BY <1>1 DEF IInv, Holds, RollbackHolds, Phase, RollbackWaits

\* A setter never drops a keyword the operation had read, unless it is a
\* rollback and the receipt lists that very spelling (workflows.py:2013-2018,
\* 2291-2295).
THEOREM SeenKeywordsKept == Spec => SeenKeywordsSurvive
<1>1. ASSUME IInv, Bounded, Next, NEW p \in Photo, edits' = edits,
             NEW k \in library[p].keywords \ library'[p].keywords
      PROVE  k \notin run.existing \/ (run.op = "rollback" /\ k \in disk[p].applied)
  <2>1. library[p] # library'[p] /\ library[p].keywords # library'[p].keywords
    BY <1>1
  <2>2. SetKeywords(p) \/ SetCaption(p)
    BY <1>1, <2>1, WhoChangesPhotos
  <2>3. library \in [Photo -> Content]
    BY <1>1 DEF IInv, Types
  <2>4. SetKeywords(p)
    <3>1. ~SetCaption(p)
      BY <2>1, <2>3 DEF SetCaption, Content
    <3> QED
      BY <2>2, <3>1
  <2>5. library'[p].keywords = Desired
    BY <2>1, <2>3, <2>4 DEF SetKeywords, Content
  <2>6. CASE run.op = "apply"
    BY <1>1, <2>5, <2>6 DEF Desired
  <2>7. CASE run.op = "rollback"
    <3>1. run.change \subseteq disk[p].applied
      BY <1>1, <2>4, <2>7, SetterReads DEF Left
    <3> QED
      BY <1>1, <2>5, <2>7, <3>1 DEF Desired
  <2>8. run.op \in {"apply", "rollback"}
    BY <1>1, <2>4, SetterReads
  <2> QED
    BY <2>6, <2>7, <2>8
<1>2. IInv /\ Bounded /\ [Next]_vars =>
        [\A p \in Photo :
           edits' = edits =>
             \A k \in library[p].keywords \ library'[p].keywords :
               \/ k \notin run.existing
               \/ run.op = "rollback" /\ k \in disk[p].applied]_vars
  BY <1>1
<1> QED
  BY <1>2, Invariant, PTL DEF Spec, SeenKeywordsSurvive

\* A keyword or caption a rollback takes out of a photo that nobody edited
\* while its row was open had been put there by this run (README.md:220-221).
THEOREM OnlyOursAreTaken == Spec => RollbackTakesOnlyOurs
<1>1. ASSUME IInv, Bounded, Next, NEW p \in Photo \ raced, edits' = edits,
             run.op = "rollback", library'[p] # library[p]
      PROVE  /\ library[p].keywords \ library'[p].keywords \subseteq introduced[p]
             /\ library'[p].description # library[p].description => p \in captioned
  <2>1. SetKeywords(p) \/ SetCaption(p)
    BY <1>1, WhoChangesPhotos
  <2>2. disk[p].applied # {} \/ disk[p].wrote => disk[p].receipt # {}
    <3>1. EvidenceIsValid(disk[p])
      BY <1>1 DEF IInv, GoodRows, Good
    <3>2. disk[p].apply = "verified"
      BY <1>1, <2>1, SetterReads
    <3>3. MutationDigest(disk[p]) # {}
      BY DEF MutationDigest
    <3> QED
      BY <3>1, <3>2, <3>3 DEF EvidenceIsValid, InterruptedCaption
  <2>3. /\ disk[p].applied \subseteq introduced[p]
        /\ disk[p].wrote => p \in captioned
    BY <1>1, <2>2 DEF IInv, GoodRows, Good, Earned
  <2>4. CASE SetKeywords(p)
    <3>1. library'[p] = [library[p] EXCEPT !.keywords = Desired] /\ run.step = "set keywords"
      BY <1>1, <2>4 DEF SetKeywords, At, IInv, Types
    <3>2. library[p].keywords = run.existing /\ run.change \subseteq disk[p].applied
      BY <1>1, <2>1, <3>1, SetterReads DEF Left
    <3>3. /\ library'[p].keywords = run.existing \ run.change
          /\ library'[p].description = library[p].description
      BY <1>1, <3>1 DEF Desired, IInv, Types, Content
    <3> QED
      BY <2>3, <3>2, <3>3
  <2>5. CASE SetCaption(p)
    <3>1. run.step = "set caption" /\ library'[p].keywords = library[p].keywords
      BY <1>1, <2>5 DEF SetCaption, At, IInv, Types, Content
    <3>2. disk[p].wrote
      BY <1>1, <2>1, <3>1, SetterReads DEF Left
    <3> QED
      BY <2>3, <3>1, <3>2
  <2> QED
    BY <2>1, <2>4, <2>5
<1>2. IInv /\ Bounded /\ [Next]_vars =>
        [\A p \in Photo \ raced :
           (edits' = edits /\ run.op = "rollback") =>
             /\ library[p].keywords \ library'[p].keywords \subseteq introduced[p]
             /\ library'[p].description # library[p].description => p \in captioned]_vars
  BY <1>1
<1> QED
  BY <1>2, Invariant, PTL DEF Spec, RollbackTakesOnlyOurs

\* An apply or a rollback that status points to is accepted and has a row to
\* work on (README.md:386-389).
THEOREM AdviceFollowable == Spec => []AdviceIsFollowable
<1>1. ASSUME IInv, NextAction(disk) = "review_then_apply"
      PROVE  ApplyAccepts(disk) /\ ToApply(disk) # {}
  <2> DEFINE applies == ApplyStatesOf(disk)
             rollbacks == RollbackStatesOf(disk)
  <2>1. /\ applies \cap {"uncertain", "writing", "failed", "cancelled"} = {}
        /\ rollbacks \cap RollbackStates = {}
        /\ "not_run" \in applies
    <3> HIDE DEF applies, rollbacks
    <3> QED
      BY <1>1 DEF NextAction, Meets, RollbackStates, applies, rollbacks
  <2>2. \A p \in Photo : Good(p, disk[p]) /\ disk[p] \in Row
    BY <1>1 DEF IInv, GoodRows, Types
  <2>3. ASSUME NEW p \in Photo
        PROVE  disk[p].apply \in {"not_run", "noop"}
    <3>1. disk[p].apply # "verified"
      <4>1. disk[p].apply = "verified" => disk[p].applied # {} \/ disk[p].wrote
        BY <2>2 DEF Good, Loads, StatesLoad
      <4>2. disk[p].apply = "verified" => disk[p].rollback \in rollbacks
        BY <4>1 DEF RollbackStatesOf
      <4> QED
        BY <2>1, <2>2, <4>2 DEF Row
    <3>2. disk[p].apply \notin {"not_run", "noop"} => disk[p].apply \in applies
      BY DEF ApplyStatesOf
    <3> QED
      BY <2>1, <2>2, <3>1, <3>2 DEF Row, ApplyStates
  <2>4. \A p \in Photo : /\ disk[p].rollback = "not_run" /\ disk[p].receipt = {}
                         /\ EvidenceIsValid(disk[p])
    BY <2>2, <2>3 DEF Good, Loads, StatesLoad, EvidenceIsValid
  <2>5. PICK p \in Photo : HasPayload(p) /\ disk[p].apply = "not_run"
    BY <2>1 DEF ApplyStatesOf
  <2>6. CanRetry(disk)
    BY <2>3, <2>4, <2>5 DEF CanRetry, Retryable
  <2> QED
    BY <2>4, <2>5, <2>6 DEF ApplyAccepts, ToApply
<1>2. ASSUME IInv, NextAction(disk) = "rollback_available"
      PROVE  RollbackAccepts(disk) /\ ToRollBack(disk) # {}
  <2>1. "not_run" \in RollbackStatesOf(disk)
    BY <1>2 DEF NextAction
  <2> QED
    BY <1>2, <2>1 DEF RollbackStatesOf, ToRollBack, RollbackAccepts, IInv, GoodRows, Good,
                     CauseKept
<1>3. IInv => AdviceIsFollowable
  BY <1>1, <1>2 DEF AdviceIsFollowable
<1> QED
  BY <1>3, Invariant, PTL

=============================================================================
