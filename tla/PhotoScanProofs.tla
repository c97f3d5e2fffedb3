-------------------------- MODULE PhotoScanProofs --------------------------
(***************************************************************************)
(* Proofs about PhotoScan: what a scan exports stays while it is in use,   *)
(* what earlier scans left goes, every end of a scan comes to a manifest   *)
(* its reader takes, what it advises a review can do, and a review is      *)
(* accepted as the scan's.                                                 *)
(*                                                                         *)
(* Scans meet in two ways only: a recovery holds the lock of the workspace *)
(* it removes, and a scan that works holds its own (Locked).  So a step of *)
(* one scan leaves the others all they rely on (Frame, OthersKeep), and it *)
(* is enough to show of every step what it does to the scan that takes it. *)
(* Most steps change no file but the scan's own (OwnKeeps); a removal in   *)
(* another scan's run is the exception (ClearFrame).                       *)
(*                                                                         *)
(* Of the scan itself: exports are made at work only and in a workspace    *)
(* that its cleanup will recognise, and go with it (Exported), the rows    *)
(* are those of the first photos of the selection, and there is one more   *)
(* wherever the handler's cleanup can return to a photo (Recorded), what   *)
(* could be recovered is still to be looked at (Recovers), and what was    *)
(* written stays (Ended).                                                  *)
(* What is written is true by the lemmas about rows and manifests.         *)
(***************************************************************************)
EXTENDS PhotoScan, TLAPS

Places == {"start", "bridge", "recover", "recheck", "clear", "run", "root", "marker", "lock",
           "flock", "loop", "export", "analyse", "erase", "persist", "done", "dead"}

RecoveryPlaces == {"recover", "recheck", "clear"}

\* Before the first photo.
Before == {"start", "bridge", "run", "root", "marker", "lock", "flock"} \cup RecoveryPlaces

Whys == {"complete", "failed", "cancelled", "interrupted"}

ScannedRows ==
  [photo : Photos, identified : BOOLEAN, state : {"ready", "noop", "analysis_failed"},
   keywords : SUBSET ModelKeywords, caption : {"none", "plain", "named"}, routed : BOOLEAN,
   errors : SUBSET ((ScanStages \cup {"cleanup"})
                      \X (Codes \cup {"LOW_CONFIDENCE", "EXPORT_DELETE_FAILED"})),
   review : {NotReviewed}]

Manifests ==
  [schema : {2}, eligible : Nat, status : {"failed", "ready", "ready_with_errors"},
   runError : {"none", "CANCELLED", "WORKSPACE_FAILED"}, rows : Seq(ScannedRows)]

Files ==
  [dir : BOOLEAN, root : BOOLEAN, marker : BOOLEAN, lock : BOOLEAN, exports : SUBSET Photos]

Memory ==
  [pc : Places, sel : Seq(Photos), rows : Seq(ScannedRows), why : Whys, existed : BOOLEAN,
   todo : SUBSET Scans, target : Scans \cup {NoScan}, created : BOOLEAN, stale : SUBSET Scans,
   from : {"none"} \cup Working, spoilt : BOOLEAN]

Types ==
  /\ runsRoot \in BOOLEAN /\ fs \in [Scans -> Files]
  /\ holder \in [Scans -> Scans \cup {NoScan}] /\ scan \in [Scans -> Memory]
  /\ manifest = [s \in Scans |-> manifest[s]] /\ result = [s \in Scans |-> result[s]]
  /\ reviewed = [s \in Scans |-> reviewed[s]]

\* A recovery holds the lock of what it removes, a scan at work its own while it
\* has its workspace.
Locked(s) ==
  /\ scan[s].pc \in {"recheck", "clear"} =>
       scan[s].target \in Scans \ {s} /\ holder[scan[s].target] = s
  /\ scan[s].pc \in Working /\ scan[s].created => holder[s] = s

\* Exports are made at work only, in a workspace that is recognisably the scan's,
\* and with the workspace they go.
Exported(s) ==
  /\ scan[s].pc \in Before => fs[s].exports = {}
  /\ scan[s].pc \in Working =>
       IF scan[s].created THEN fs[s].exports # {} => fs[s].root /\ fs[s].marker
       ELSE scan[s].spoilt \/ fs[s].exports = {}
  /\ At(s, "analyse") /\ scan[s].created => Current(s) \in fs[s].exports
  /\ At(s, "persist") /\ scan[s].why \in {"complete", "cancelled"} /\ ~scan[s].spoilt =>
       fs[s].exports = {}

\* In the middle of a photo, or there again after the handler's cleanup.
AtPhoto(mem) ==
  \/ mem.pc \in {"export", "analyse"}
  \/ mem.pc = "erase" /\ mem.from \in {"export", "analyse"}

\* The rows are those of the first photos of the selection.
Recorded(s) ==
  /\ Distinct(scan[s].sel) /\ Len(scan[s].rows) <= Len(scan[s].sel)
  /\ \A i \in DOMAIN scan[s].rows :
       RowAccepted(scan[s].rows[i]) /\ scan[s].rows[i].photo = scan[s].sel[i]
  /\ scan[s].pc = "start" => scan[s].rows = <<>>
  /\ scan[s].pc \notin {"erase", "done", "dead"} => scan[s].from = "none"
  /\ AtPhoto(scan[s]) => Rest(s) > 0
  /\ scan[s].pc \in {"erase", "persist"} /\ scan[s].why = "complete" /\ scan[s].from = "none" =>
       Rest(s) = 0

\* What could be recovered when the recovery began is still to be looked at.
Recovers(s) ==
  /\ fs[s].root \/ At(s, "root") => fs[s].dir
  /\ s \notin scan[s].todo
  /\ At(s, "start") => scan[s].stale = {}
  /\ \A t \in scan[s].stale :
       /\ At(t, "dead")
       /\ Recoverable(t) => scan[s].pc \in {"dead", "done"}
                              \/ (scan[s].pc \in RecoveryPlaces /\ t \in scan[s].todo)

AdviceTrue(m, advice) ==
  /\ advice = "review_then_apply" => CanReview(m)
  /\ advice \in {"none", "fix_failed_scan"} => ~CanReview(m)

RowReviewed(proposed, row) ==
  /\ row.keywords \ row.review.manual \subseteq proposed.keywords
  /\ row.keywords \cap RefusedKeywords = {}
  /\ Approved(row) /\ row.errors # {} =>
       /\ \A e \in row.errors : e[1] = "analysis"
       /\ row.keywords = row.review.manual /\ row.review.captionOrigin # "model"

ReviewTrue(m, review) ==
  /\ ProvenanceAccepted(m, review)
  /\ \A i \in DOMAIN review.rows : RowReviewed(m.rows[i], review.rows[i])

\* What was written stays as it was.
Ended(s) ==
  /\ manifest[s] # NoManifest =>
       /\ At(s, "done") /\ manifest[s] \in Manifests /\ ManifestAccepted(manifest[s])
       /\ AdviceTrue(manifest[s], result[s])
  /\ reviewed[s] # NoManifest => manifest[s] # NoManifest /\ ReviewTrue(manifest[s], reviewed[s])

Good(s) == Locked(s) /\ Exported(s) /\ Recorded(s) /\ Recovers(s) /\ Ended(s)

ScanInv == Types /\ \A s \in Scans : Good(s)
-----------------------------------------------------------------------------
(***************************************************************************)
(* Rows and manifests.                                                     *)
(***************************************************************************)

LEMMA FailedRows ==
  ASSUME NEW p \in Photos, NEW code \in Codes,
         NEW row \in {UnreadRow(p, code), UnexportedRow(p, code)}
  PROVE  row \in ScannedRows /\ RowAccepted(row) /\ row.photo = p
<1>1. PICK identified \in BOOLEAN, stage \in {"metadata", "export"} :
        row = Row(p, identified, "analysis_failed", {}, "none", FALSE, {<<stage, code>>})
  BY DEF UnreadRow, UnexportedRow
<1> DEFINE errors == {<<stage, code>>}
<1>2. /\ errors \in SUBSET ((ScanStages \cup {"cleanup"})
                              \X (Codes \cup {"LOW_CONFIDENCE", "EXPORT_DELETE_FAILED"}))
      /\ \E e \in errors : e[1] \in ScanStages
  BY DEF ScanStages
<1>3. row = Row(p, identified, "analysis_failed", {}, "none", FALSE, errors)
  BY <1>1
<1> HIDE DEF errors
<1>4. row \in ScannedRows /\ row.photo = p
  BY <1>2, <1>3 DEF Row, ScannedRows
<1>5. RowAccepted(row)
  BY <1>2, <1>3 DEF Row, RowAccepted, ReviewFieldsAccepted, NotReviewed
<1> QED
  BY <1>4, <1>5

LEMMA AnalysedRows ==
  ASSUME NEW p \in Photos, NEW outcome \in Outcomes, NEW unlinked \in BOOLEAN
  PROVE  /\ AnalysedRow(p, outcome, unlinked) \in ScannedRows
         /\ AnalysedRow(p, outcome, unlinked).photo = p
<1> DEFINE Errors == SUBSET ((ScanStages \cup {"cleanup"})
                               \X (Codes \cup {"LOW_CONFIDENCE", "EXPORT_DELETE_FAILED"}))
<1>1. /\ Leftover(unlinked) \in Errors /\ {<<"analysis", "LOW_CONFIDENCE">>} \in Errors
      /\ \A code \in Codes : {<<"analysis", code>>} \in Errors
  BY DEF Leftover, ScanStages
<1>2. \A e, f \in Errors : e \cup f \in Errors
  OBVIOUS
<1>3. CASE \E code \in {"failed", "incompatible"} : outcome = Failure(code)
  <2>1. PICK code \in {"failed", "incompatible"} : outcome = Failure(code)
    BY <1>3
  <2>2. outcome.kind = "failed" /\ outcome.code = code /\ code \in Codes
    BY <2>1 DEF Failure, Codes
  <2>3. AnalysedRow(p, outcome, unlinked)
          = Row(p, TRUE, "analysis_failed", {}, "none", FALSE,
                {<<"analysis", code>>} \cup Leftover(unlinked))
    BY <2>2 DEF AnalysedRow
  <2>4. {<<"analysis", code>>} \cup Leftover(unlinked) \in Errors
    BY <1>1, <1>2, <2>2
  <2> QED
    BY <2>3, <2>4 DEF Row, ScannedRows
<1>4. CASE outcome = LowConfidence
  <2>1. AnalysedRow(p, outcome, unlinked)
          = Row(p, TRUE, "noop", {}, "none", TRUE,
                {<<"analysis", "LOW_CONFIDENCE">>} \cup Leftover(unlinked))
    BY <1>4 DEF AnalysedRow, LowConfidence
  <2>2. {<<"analysis", "LOW_CONFIDENCE">>} \cup Leftover(unlinked) \in Errors
    BY <1>1, <1>2
  <2> QED
    BY <2>1, <2>2 DEF Row, ScannedRows
<1>5. CASE \E k \in SUBSET ModelKeywords, c \in {"none", "plain", "named"} :
             outcome = Analysed(k, c)
  <2>1. PICK k \in SUBSET ModelKeywords, c \in {"none", "plain", "named"} : outcome = Analysed(k, c)
    BY <1>5
  <2>2. AnalysedRow(p, outcome, unlinked)
          = Row(p, TRUE, IF k # {} THEN "ready" ELSE "noop", k, c, TRUE, Leftover(unlinked))
    BY <2>1 DEF AnalysedRow, Analysed
  <2> QED
    BY <1>1, <2>1, <2>2 DEF Row, ScannedRows
<1> QED
  BY <1>3, <1>4, <1>5 DEF Outcomes

\* A row that nothing is selected of, or all that was proposed.
LEMMA SelectedRows ==
  ASSUME NEW row \in ScannedRows, RowAccepted(row), NEW choice,
         choice \in [keywords : SUBSET ModelKeywords, caption : BOOLEAN],
         SelectionAccepted(row, choice)
  PROVE  LET made == ReviewedRow(row, choice)
         IN  /\ RowAccepted(made) /\ made.photo = row.photo /\ made.errors = row.errors
             /\ RowMatches(row, made, 3) /\ made.keywords \subseteq row.keywords
             /\ Approved(made) => row.errors = {}
<1> DEFINE made == ReviewedRow(row, choice)
<1> DEFINE caption == IF choice.caption THEN row.caption ELSE "none"
<1> DEFINE state == IF row.state # "ready" THEN row.state
                    ELSE IF choice.keywords # {} THEN "ready" ELSE "noop"
<1>1. made = [row EXCEPT !.keywords = choice.keywords, !.caption = caption, !.state = state]
  BY DEF ReviewedRow
<1>2. caption \in {"none", row.caption} /\ (caption # "none" => choice.caption)
  OBVIOUS
<1>3. /\ row.state # "ready" => state = row.state
      /\ row.state = "ready" /\ choice.keywords # {} => state = "ready"
      /\ row.state = "ready" /\ choice.keywords = {} => state = "noop"
  OBVIOUS
<1> HIDE DEF caption, state
<1>4. /\ made.keywords = choice.keywords /\ made.caption = caption /\ made.state = state
      /\ made.photo = row.photo /\ made.identified = row.identified
      /\ made.routed = row.routed /\ made.errors = row.errors /\ made.review = row.review
      /\ row.review = NotReviewed
  BY <1>1 DEF ScannedRows
<1> HIDE DEF made
<1>5. choice.keywords \subseteq row.keywords
  BY DEF SelectionAccepted, Selects
<1>6. choice.keywords # {} \/ caption # "none" => row.errors = {} /\ row.identified
  BY <1>2 DEF SelectionAccepted, Selects
<1>7. caption # "none" => row.state \in {"ready", "noop"} /\ row.caption # "none"
  BY <1>2 DEF SelectionAccepted, Selects
<1>8. ReviewFieldsAccepted(made)
  BY <1>4 DEF ReviewFieldsAccepted, NotReviewed
<1>9. RowAccepted(made)
  <2>1. made.caption # "named"
    BY <1>2, <1>4 DEF RowAccepted
  <2>2. made.caption # "none" => made.state \in {"ready", "noop"}
    BY <1>3, <1>4, <1>7
  <2>3. made.state = "ready" => made.identified /\ made.keywords # {}
    BY <1>3, <1>4 DEF RowAccepted
  <2>4. made.state # "ready" => made.keywords = {}
    BY <1>3, <1>4, <1>5 DEF RowAccepted
  <2>5. made.state = "analysis_failed" => \E e \in made.errors : e[1] \in ScanStages
    BY <1>3, <1>4 DEF RowAccepted
  <2>6. ~made.identified => made.state = "analysis_failed"
    BY <1>3, <1>4 DEF RowAccepted
  <2> QED
    BY <1>8, <2>1, <2>2, <2>3, <2>4, <2>5, <2>6 DEF RowAccepted
<1>10. RowMatches(row, made, 3)
  BY <1>2, <1>3, <1>4, <1>5 DEF RowMatches
<1> QED
  BY <1>4, <1>5, <1>6, <1>9, <1>10 DEF Approved, made

LEMMA ApprovedRows ==
  ASSUME NEW row \in ScannedRows, RowAccepted(row), NEW approval \in Approvals,
         ApprovalAccepted(row, approval)
  PROVE  LET made == ApprovedRow(row, approval)
         IN  /\ made.photo = row.photo /\ made.review.reviewed /\ RowMatches(row, made, 4)
             /\ RowReviewed(row, made)
<1> DEFINE made == ApprovedRow(row, approval)
<1> DEFINE recovered == ManualRecovery(row, approval)
<1> DEFINE state == IF recovered THEN "ready" ELSE IF row.state # "ready" THEN row.state
                    ELSE IF approval.keywords # {} THEN "ready" ELSE "noop"
<1> DEFINE origin == Origin(row, approval.caption)
<1> DEFINE review == [reviewed |-> TRUE, keywords |-> row.keywords, caption |-> row.caption,
                      manual |-> approval.keywords \ row.keywords, captionOrigin |-> origin]
<1>1. made = [row EXCEPT !.keywords = approval.keywords, !.caption = approval.caption,
                         !.state = state, !.review = review]
  BY DEF ApprovedRow
<1>2. /\ recovered => state = "ready"
      /\ ~recovered => \/ row.state # "ready" /\ state = row.state
                       \/ row.state = "ready" /\ state \in {"ready", "noop"}
  OBVIOUS
<1>3. /\ review.reviewed /\ review.keywords = row.keywords /\ review.caption = row.caption
      /\ review.manual = approval.keywords \ row.keywords /\ review.captionOrigin = origin
  OBVIOUS
<1> HIDE DEF state, review
<1>4. /\ made.keywords = approval.keywords /\ made.caption = approval.caption /\ made.state = state
      /\ made.photo = row.photo /\ made.identified = row.identified
      /\ made.routed = row.routed /\ made.errors = row.errors /\ made.review = review
  BY <1>1 DEF ScannedRows
<1> HIDE DEF made
<1>5. recovered => /\ row.identified /\ row.state = "analysis_failed" /\ Approves(approval)
                   /\ row.keywords = {} /\ row.caption = "none" /\ row.errors # {}
                   /\ \A e \in row.errors : e[1] = "analysis"
  BY DEF ManualRecovery
<1>6. recovered => (approval.caption = "none" \/ origin = "manual")
  BY <1>5 DEF Origin
<1> HIDE DEF recovered, origin
<1>7. RowMatches(row, made, 4)
  <2>1. recovered => ManualRecoveryMatches(row, made, 4)
    BY <1>2, <1>3, <1>4, <1>5, <1>6 DEF ManualRecoveryMatches, Approves
  <2>2. /\ made.review.keywords = row.keywords /\ made.review.caption = row.caption
        /\ made.review.manual = made.keywords \ row.keywords
        /\ made.review.captionOrigin = Origin(row, made.caption)
    BY <1>3, <1>4 DEF origin
  <2>3. \/ row.state = "ready" /\ made.state \in {"ready", "noop"}
        \/ ManualRecoveryMatches(row, made, 4)
        \/ made.state = row.state
    BY <1>2, <1>4, <2>1
  <2> QED
    BY <1>4, <2>2, <2>3 DEF RowMatches
<1>8. RowReviewed(row, made)
  <2>1. made.keywords \ made.review.manual \subseteq row.keywords
    BY <1>3, <1>4
  <2>2. made.keywords \cap RefusedKeywords = {}
    BY <1>4 DEF ApprovalAccepted
  <2>3. ASSUME Approved(made), made.errors # {}
        PROVE  /\ \A e \in made.errors : e[1] = "analysis"
               /\ made.keywords = made.review.manual /\ made.review.captionOrigin # "model"
    <3>1. Approves(approval) /\ row.errors # {}
      BY <1>4, <2>3 DEF Approved, Approves
    <3>2. recovered
      BY <3>1 DEF ApprovalAccepted, recovered
    <3>3. origin # "model"
      BY <1>5, <3>2 DEF origin, Origin
    <3> QED
      BY <1>3, <1>4, <1>5, <3>2, <3>3
  <2> QED
    BY <2>1, <2>2, <2>3 DEF RowReviewed
<1> QED
  BY <1>3, <1>4, <1>7, <1>8 DEF made

LEMMA RowsMade ==
  ASSUME NEW rows \in Seq(ScannedRows), NEW made, DOMAIN made = DOMAIN rows,
         made = [i \in DOMAIN rows |-> made[i]]
  PROVE  Len(made) = Len(rows)
<1>1. Len(rows) \in Nat /\ DOMAIN made = 1..Len(rows)
  OBVIOUS
<1> QED
  BY <1>1

LEMMA SelectedManifest ==
  ASSUME NEW m \in Manifests, ManifestAccepted(m), SourceAccepted(m),
         NEW choices \in Selections(m),
         \A i \in DOMAIN m.rows : SelectionAccepted(m.rows[i], choices[i])
  PROVE  LET made == [m EXCEPT !.schema = 3,
                        !.rows = [i \in DOMAIN m.rows |-> ReviewedRow(m.rows[i], choices[i])]]
         IN  ManifestAccepted(made) /\ ReviewTrue(m, made)
<1> DEFINE rows == [i \in DOMAIN m.rows |-> ReviewedRow(m.rows[i], choices[i])]
<1> DEFINE made == [m EXCEPT !.schema = 3, !.rows = rows]
<1>1. /\ DOMAIN rows = DOMAIN m.rows /\ m.rows \in Seq(ScannedRows)
      /\ \A i \in DOMAIN m.rows : rows[i] = ReviewedRow(m.rows[i], choices[i])
  BY DEF Manifests
<1>2. Len(rows) = Len(m.rows)
  BY <1>1, RowsMade
<1> HIDE DEF rows
<1>3. /\ made.schema = 3 /\ made.eligible = m.eligible /\ made.status = m.status
      /\ made.runError = m.runError /\ made.rows = rows
  BY DEF Manifests
<1> HIDE DEF made
<1>4. \A i \in DOMAIN rows :
        /\ RowAccepted(rows[i]) /\ rows[i].photo = m.rows[i].photo
        /\ rows[i].errors = m.rows[i].errors /\ RowMatches(m.rows[i], rows[i], 3)
        /\ RowReviewed(m.rows[i], rows[i])
  <2> SUFFICES ASSUME NEW i \in DOMAIN m.rows
               PROVE  /\ RowAccepted(rows[i]) /\ rows[i].photo = m.rows[i].photo
                      /\ rows[i].errors = m.rows[i].errors /\ RowMatches(m.rows[i], rows[i], 3)
                      /\ RowReviewed(m.rows[i], rows[i])
    BY <1>1
  <2>1. m.rows[i] \in ScannedRows /\ RowAccepted(m.rows[i])
    BY <1>1 DEF ManifestAccepted
  <2>2. choices[i] \in [keywords : SUBSET ModelKeywords, caption : BOOLEAN]
    BY DEF Selections
  <2>3. /\ RowAccepted(rows[i]) /\ rows[i].photo = m.rows[i].photo
        /\ rows[i].errors = m.rows[i].errors /\ RowMatches(m.rows[i], rows[i], 3)
        /\ rows[i].keywords \subseteq m.rows[i].keywords
        /\ Approved(rows[i]) => m.rows[i].errors = {}
    BY <1>1, <2>1, <2>2, SelectedRows
  <2>4. m.rows[i].keywords \cap RefusedKeywords = {}
    BY <2>1, ScanAssumption DEF ScannedRows
  <2> QED
    BY <2>3, <2>4 DEF RowReviewed
<1>5. HasErrors(rows) <=> HasErrors(m.rows)
  BY <1>1, <1>4 DEF HasErrors
<1>6. UniquePhotos(m.rows) /\ UniquePhotos(rows)
  BY <1>1, <1>4 DEF ManifestAccepted, UniquePhotos
<1>7. ManifestAccepted(made)
  BY <1>2, <1>3, <1>4, <1>5, <1>6 DEF ManifestAccepted
<1>8. ReviewTrue(m, made)
  BY <1>1, <1>2, <1>3, <1>4, <1>6 DEF ReviewTrue, ProvenanceAccepted, reviewed_rows_match_source
<1> QED
  BY <1>7, <1>8 DEF made, rows

LEMMA ApprovedManifest ==
  ASSUME NEW m \in Manifests, ManifestAccepted(m), SourceAccepted(m),
         NEW approvals \in OnePhotoApprovals(m),
         \A i \in DOMAIN m.rows : ApprovalAccepted(m.rows[i], approvals[i])
  PROVE  ReviewTrue(m, [m EXCEPT !.schema = 4,
                          !.rows = [i \in DOMAIN m.rows |-> ApprovedRow(m.rows[i], approvals[i])]])
<1> DEFINE rows == [i \in DOMAIN m.rows |-> ApprovedRow(m.rows[i], approvals[i])]
<1> DEFINE made == [m EXCEPT !.schema = 4, !.rows = rows]
<1>1. /\ DOMAIN rows = DOMAIN m.rows /\ m.rows \in Seq(ScannedRows)
      /\ \A i \in DOMAIN m.rows : rows[i] = ApprovedRow(m.rows[i], approvals[i])
  BY DEF Manifests
<1>2. Len(rows) = Len(m.rows)
  BY <1>1, RowsMade
<1> HIDE DEF rows
<1>3. /\ made.schema = 4 /\ made.eligible = m.eligible /\ made.status = m.status
      /\ made.rows = rows
  BY DEF Manifests
<1> HIDE DEF made
<1>4. \A i \in DOMAIN rows : RowMatches(m.rows[i], rows[i], 4) /\ RowReviewed(m.rows[i], rows[i])
  <2> SUFFICES ASSUME NEW i \in DOMAIN m.rows
               PROVE  RowMatches(m.rows[i], rows[i], 4) /\ RowReviewed(m.rows[i], rows[i])
    BY <1>1
  <2>1. m.rows[i] \in ScannedRows /\ RowAccepted(m.rows[i])
    BY <1>1 DEF ManifestAccepted
  <2>2. approvals[i] \in Approvals
    <3>1. NoApproval \in Approvals
      BY DEF NoApproval, Approvals
    <3>2. PICK n \in DOMAIN m.rows, a \in Approvals :
            approvals = [j \in DOMAIN m.rows |-> IF j = n THEN a ELSE NoApproval]
      BY DEF OnePhotoApprovals
    <3> QED
      BY <3>1, <3>2
  <2> QED
    BY <1>1, <2>1, <2>2, ApprovedRows
<1>5. UniquePhotos(m.rows)
  BY DEF ManifestAccepted
<1>6. ReviewTrue(m, made)
  BY <1>1, <1>2, <1>3, <1>4, <1>5 DEF ReviewTrue, ProvenanceAccepted, reviewed_rows_match_source
<1> QED
  BY <1>6 DEF made, rows

\* What the review does with a selection or an approval.
LEMMA ReviewsAreTrue ==
  ASSUME NEW m \in Manifests, ManifestAccepted(m),
         NEW review \in {review_manifest(m, c) : c \in Selections(m)}
                        \cup {review_manifest_v4(m, a) : a \in OnePhotoApprovals(m)},
         review.accepted
  PROVE  ReviewTrue(m, review.manifest)
<1>1. CASE \E c \in Selections(m) : review = review_manifest(m, c)
  <2>1. PICK c \in Selections(m) : review = review_manifest(m, c)
    BY <1>1
  <2> DEFINE made == [m EXCEPT !.schema = 3,
                        !.rows = [i \in DOMAIN m.rows |-> ReviewedRow(m.rows[i], c[i])]]
  <2>2. /\ SourceAccepted(m) /\ \A i \in DOMAIN m.rows : SelectionAccepted(m.rows[i], c[i])
        /\ review = Accepted(made)
    BY <2>1 DEF review_manifest, Refused
  <2>3. ReviewTrue(m, made)
    BY <2>2, SelectedManifest
  <2> HIDE DEF made
  <2>4. review.manifest = made
    BY <2>2 DEF Accepted, Refused
  <2> QED
    BY <2>3, <2>4
<1>2. CASE \E a \in OnePhotoApprovals(m) : review = review_manifest_v4(m, a)
  <2>1. PICK a \in OnePhotoApprovals(m) : review = review_manifest_v4(m, a)
    BY <1>2
  <2> DEFINE made == [m EXCEPT !.schema = 4,
                        !.rows = [i \in DOMAIN m.rows |-> ApprovedRow(m.rows[i], a[i])]]
  <2>2. /\ SourceAccepted(m) /\ \A i \in DOMAIN m.rows : ApprovalAccepted(m.rows[i], a[i])
        /\ review = Accepted(made)
    BY <2>1 DEF review_manifest_v4, Refused
  <2>3. ReviewTrue(m, made)
    BY <2>2, ApprovedManifest
  <2> HIDE DEF made
  <2>4. review.manifest = made
    BY <2>2 DEF Accepted, Refused
  <2> QED
    BY <2>3, <2>4
<1> QED
  BY <1>1, <1>2

\* A review would accept something exactly when a row can be reviewed.
LEMMA ReviewableIsReviewed ==
  ASSUME NEW m \in Manifests, ManifestAccepted(m), SourceAccepted(m)
  PROVE  CanReview(m) <=> \E i \in DOMAIN m.rows : Reviewable(m.rows[i])
<1>a. m.rows \in Seq(ScannedRows) /\ \A i \in DOMAIN m.rows : m.rows[i] \in ScannedRows
  BY DEF Manifests
<1>1. ASSUME CanReview(m) PROVE \E i \in DOMAIN m.rows : Reviewable(m.rows[i])
  <2>1. PICK choices \in Selections(m) :
          /\ \E i \in DOMAIN choices : Selects(choices[i])
          /\ review_manifest(m, choices).accepted
    BY <1>1 DEF CanReview
  <2>2. PICK i \in DOMAIN m.rows : Selects(choices[i])
    BY <2>1 DEF Selections
  <2>3. SelectionAccepted(m.rows[i], choices[i])
    BY <2>1 DEF review_manifest, Refused
  <2>4. RowAccepted(m.rows[i])
    BY DEF ManifestAccepted
  <2>5. m.rows[i].state \in {"ready", "noop", "analysis_failed"}
    BY <1>a DEF ScannedRows
  <2>6. Reviewable(m.rows[i])
    <3>1. m.rows[i].errors = {} /\ choices[i].keywords \subseteq m.rows[i].keywords
      BY <2>2, <2>3 DEF SelectionAccepted
    <3>2. CASE choices[i].keywords # {}
      <4>1. m.rows[i].state = "ready"
        BY <2>4, <3>1, <3>2 DEF RowAccepted
      <4> QED
        BY <3>1, <4>1 DEF Reviewable
    <3>3. CASE choices[i].caption
      <4>1. m.rows[i].caption # "none" /\ m.rows[i].state \in {"ready", "noop"}
        BY <2>2, <2>3, <3>3 DEF SelectionAccepted
      <4> QED
        BY <3>1, <4>1 DEF Reviewable
    <3> QED
      BY <2>2, <3>2, <3>3 DEF Selects
  <2> QED
    BY <2>6
<1>2. ASSUME NEW i \in DOMAIN m.rows, Reviewable(m.rows[i]) PROVE CanReview(m)
  <2>1. PICK captioned \in BOOLEAN : captioned = (m.rows[i].caption # "none")
    OBVIOUS
  <2> DEFINE all == [keywords |-> m.rows[i].keywords, caption |-> captioned]
  <2> DEFINE choices == [j \in DOMAIN m.rows |-> IF j = i THEN all ELSE Nothing]
  <2>2. /\ all \in [keywords : SUBSET ModelKeywords, caption : BOOLEAN]
        /\ Nothing \in [keywords : SUBSET ModelKeywords, caption : BOOLEAN]
    BY <1>a DEF ScannedRows, Nothing
  <2>3. RowAccepted(m.rows[i])
    BY DEF ManifestAccepted
  <2>4. SelectionAccepted(m.rows[i], all) /\ Selects(all)
    <3>1. /\ m.rows[i].errors = {} /\ m.rows[i].state \in {"ready", "noop"}
          /\ m.rows[i].state = "ready" => m.rows[i].keywords # {}
          /\ m.rows[i].state = "noop" => m.rows[i].caption # "none"
      BY <1>2, <2>3 DEF Reviewable, RowAccepted
    <3>2. m.rows[i].identified
      BY <2>3, <3>1 DEF RowAccepted
    <3>3. Selects(all)
      BY <2>1, <3>1 DEF Selects
    <3> QED
      BY <2>1, <3>1, <3>2, <3>3 DEF SelectionAccepted
  <2>5. ~Selects(Nothing)
    BY DEF Nothing, Selects
  <2> HIDE DEF all
  <2>6. choices \in Selections(m)
    BY <2>2 DEF Selections
  <2>7. \A j \in DOMAIN m.rows : SelectionAccepted(m.rows[j], choices[j])
    BY <2>4, <2>5 DEF SelectionAccepted
  <2>8. i \in DOMAIN choices /\ Selects(choices[i])
    BY <2>4
  <2> HIDE DEF choices
  <2>9. review_manifest(m, choices).accepted
    <3> DEFINE made == [m EXCEPT !.schema = 3,
                          !.rows = [j \in DOMAIN m.rows |-> ReviewedRow(m.rows[j], choices[j])]]
    <3>1. ManifestAccepted(made)
      BY <2>6, <2>7, SelectedManifest
    <3>2. review_manifest(m, choices) = Accepted(made)
      BY <2>7 DEF review_manifest
    <3> HIDE DEF made
    <3> QED
      BY <3>1, <3>2 DEF Accepted
  <2> QED
    BY <2>6, <2>8, <2>9 DEF CanReview
<1> QED
  BY <1>1, <1>2

\* What a scan persists.
LEMMA BuiltIsTrue ==
  ASSUME Types, NEW s \in Scans, Recorded(s), At(s, "persist")
  PROVE  /\ Built(s) \in Manifests /\ ManifestAccepted(Built(s))
         /\ AdviceTrue(Built(s), Advised(s))
<1> DEFINE rows == scan[s].rows
<1> DEFINE sel == scan[s].sel
<1> DEFINE m == Built(s)
<1>a. /\ rows \in Seq(ScannedRows) /\ sel \in Seq(Photos) /\ scan[s].why \in Whys
      /\ Len(rows) \in Nat /\ Len(sel) \in Nat /\ Len(rows) <= Len(sel)
      /\ \A i \in DOMAIN rows : i \in DOMAIN sel /\ RowAccepted(rows[i]) /\ rows[i].photo = sel[i]
  BY DEF Types, Memory, Recorded
<1>1. UniquePhotos(rows)
  BY <1>a DEF UniquePhotos, Recorded, Distinct
<1>2. CASE scan[s].why = "complete"
  <2>1. m = Manifest(2, Len(sel), IF HasErrors(rows) THEN "ready_with_errors" ELSE "ready",
                     "none", rows)
    BY <1>2 DEF Built
  <2>2. Len(rows) = Len(sel)
    BY <1>2, <1>a DEF Recorded, At, Rest
  <2> HIDE DEF rows, sel, m
  <2>3. /\ m.schema = 2 /\ m.eligible = Len(rows) /\ m.runError = "none" /\ m.rows = rows
        /\ m.status = IF HasErrors(rows) THEN "ready_with_errors" ELSE "ready"
        /\ m \in Manifests
    BY <1>a, <2>1, <2>2 DEF Manifest, Manifests
  <2>4. ManifestAccepted(m)
    BY <1>1, <1>a, <2>3 DEF ManifestAccepted
  <2>5. CanReview(m) <=> \E i \in DOMAIN rows : Reviewable(rows[i])
    <3>1. SourceAccepted(m)
      BY <2>3 DEF SourceAccepted
    <3> QED
      BY <2>3, <2>4, <3>1, ReviewableIsReviewed
  <2>6. Advised(s) = Advice(rows)
    BY <1>2 DEF Advised, rows
  <2>7. AdviceTrue(m, Advised(s))
    BY <2>5, <2>6 DEF AdviceTrue, Advice
  <2> QED
    BY <2>3, <2>4, <2>7 DEF m
<1>3. CASE scan[s].why # "complete"
  <2>1. m = Manifest(2, Len(sel), "failed", RunError[scan[s].why], rows)
    BY <1>3 DEF Built
  <2>2. RunError[scan[s].why] \in {"CANCELLED", "WORKSPACE_FAILED"}
    BY <1>3, <1>a DEF RunError, Whys
  <2>b. Advised(s) \in {"fix_fatal_error", "fix_failed_scan"}
    BY <1>3, <1>a DEF Advised, Whys
  <2> HIDE DEF rows, sel, m
  <2>3. /\ m.schema = 2 /\ m.eligible = Len(sel) /\ m.rows = rows /\ m.status = "failed"
        /\ m.runError # "none" /\ m \in Manifests
    BY <1>a, <2>1, <2>2 DEF Manifest, Manifests
  <2>4. ManifestAccepted(m)
    BY <1>1, <1>a, <2>3 DEF ManifestAccepted
  <2>5. ~CanReview(m)
    BY <2>3 DEF CanReview, review_manifest, SourceAccepted, Refused
  <2> QED
    BY <2>3, <2>4, <2>5, <2>b DEF AdviceTrue, m
<1> QED
  BY <1>2, <1>3
-----------------------------------------------------------------------------
(***************************************************************************)
(* What a step leaves of the other scans.                                  *)
(***************************************************************************)

Shrinks(t) ==
  /\ fs'[t].dir = fs[t].dir /\ fs'[t].exports \subseteq fs[t].exports
  /\ (fs'[t].root => fs[t].root) /\ (fs'[t].marker => fs[t].marker)
  /\ (fs'[t].lock => fs[t].lock)

Frame(s) ==
  /\ Types' /\ scan[s].pc # "dead"
  /\ \A u \in Scans \ {s} :
       /\ scan'[u] = scan[u]
       /\ manifest'[u] = manifest[u] /\ result'[u] = result[u] /\ reviewed'[u] = reviewed[u]
  /\ \A t \in Scans : holder'[t] = holder[t] \/ holder[t] \in {s, NoScan}
  /\ \A t \in Scans \ {s} :
       fs'[t] = fs[t] \/ (At(s, "clear") /\ t = scan[s].target /\ Shrinks(t))

LEMMA OthersKeep ==
  ASSUME ScanInv, NEW s \in Scans, Frame(s), NEW u \in Scans \ {s} PROVE Good(u)'
<1>a. /\ Good(u) /\ Good(s) /\ Types /\ scan'[u] = scan[u] /\ u # NoScan
      /\ manifest'[u] = manifest[u] /\ result'[u] = result[u] /\ reviewed'[u] = reviewed[u]
      /\ fs'[u] = fs[u] \/ (At(s, "clear") /\ u = scan[s].target /\ Shrinks(u))
  BY ScanAssumption DEF ScanInv, Frame
<1>1. Locked(u)'
  <2>1. \A t \in Scans : holder[t] = u => holder'[t] = u
    BY <1>a DEF Frame
  <2> QED
    BY <1>a, <2>1 DEF Good, Locked
<1>2. scan[u].pc \in Working /\ scan[u].created => fs'[u] = fs[u]
  BY <1>a DEF Good, Locked, At
<1>3. fs'[u].exports \subseteq fs[u].exports
  BY <1>a DEF Shrinks
<1>4. Exported(u)'
  BY <1>a, <1>2, <1>3 DEF Good, Exported, At, Current, Working
<1>5. Recorded(u)'
  BY <1>a DEF Good, Recorded, Rest, AtPhoto
<1>6. Recovers(u)'
  <2>1. fs'[u].root \/ scan'[u].pc = "root" => fs'[u].dir
    BY <1>a DEF Good, Recovers, At, Shrinks
  <2>2. ASSUME NEW t \in scan[u].stale
        PROVE  /\ scan'[t].pc = "dead"
               /\ fs'[t].root /\ fs'[t].marker /\ fs'[t].lock => Recoverable(t)
    <3>1. t \in Scans /\ scan[t].pc = "dead"
      BY <1>a DEF Good, Recovers, At, Types, Memory
    <3>2. t # s
      BY <3>1 DEF Frame
    <3>3. fs'[t] = fs[t] \/ Shrinks(t)
      BY <3>1, <3>2 DEF Frame
    <3> QED
      BY <3>1, <3>2, <3>3 DEF Frame, Shrinks, Recoverable
  <2> QED
    BY <1>a, <2>1, <2>2 DEF Good, Recovers, At, Recoverable
<1>7. Ended(u)'
  BY <1>a DEF Good, Ended, At, AdviceTrue, ReviewTrue
<1> QED
  BY <1>1, <1>4, <1>5, <1>6, <1>7 DEF Good

LEMMA StepKeeps ==
  ASSUME ScanInv, NEW s \in Scans, Frame(s), Good(s)' PROVE ScanInv'
BY OthersKeep DEF ScanInv, Frame

\* A step that changes no file, or the lock of one workspace.
Quiet(s, mem) ==
  /\ mem \in Memory /\ scan' = [scan EXCEPT ![s] = mem]
  /\ \/ holder' = holder \/ holder' = Released(s)
     \/ \E t \in Scans : holder[t] = NoScan /\ holder' = [holder EXCEPT ![t] = s]

LEMMA QuietFrame ==
  ASSUME ScanInv, NEW s \in Scans, scan[s].pc # "dead", NEW mem, Quiet(s, mem),
         runsRoot' \in BOOLEAN, UNCHANGED <<fs, ends>>
  PROVE  Frame(s) /\ scan'[s] = mem
<1>a. Types
  BY DEF ScanInv
<1>1. scan' \in [Scans -> Memory] /\ scan'[s] = mem /\ \A u \in Scans \ {s} : scan'[u] = scan[u]
  BY <1>a DEF Quiet, Types
<1>2. /\ holder' \in [Scans -> Scans \cup {NoScan}]
      /\ \A t \in Scans : holder'[t] = holder[t] \/ holder[t] \in {s, NoScan}
  BY <1>a DEF Quiet, Types, Released
<1>3. Types'
  BY <1>a, <1>1, <1>2 DEF Types, ends
<1> QED
  BY <1>1, <1>2, <1>3 DEF Frame, ends

\* A step that leaves the locks and what others have of files.
LEMMA OwnFrame ==
  ASSUME ScanInv, NEW s \in Scans, scan[s].pc # "dead", NEW mem, Quiet(s, mem),
         NEW own \in Files, fs' = [fs EXCEPT ![s] = own], UNCHANGED <<runsRoot, ends>>
  PROVE  Frame(s) /\ scan'[s] = mem /\ fs'[s] = own
<1>a. Types
  BY DEF ScanInv
<1>1. scan' \in [Scans -> Memory] /\ scan'[s] = mem /\ \A u \in Scans \ {s} : scan'[u] = scan[u]
  BY <1>a DEF Quiet, Types
<1>2. /\ holder' \in [Scans -> Scans \cup {NoScan}]
      /\ \A t \in Scans : holder'[t] = holder[t] \/ holder[t] \in {s, NoScan}
  BY <1>a DEF Quiet, Types, Released
<1>3. fs' \in [Scans -> Files] /\ fs'[s] = own /\ \A t \in Scans \ {s} : fs'[t] = fs[t]
  BY <1>a DEF Types
<1>4. Types'
  BY <1>a, <1>1, <1>2, <1>3 DEF Types, ends
<1> QED
  BY <1>1, <1>2, <1>3, <1>4 DEF Frame, ends

\* Before it has ended a scan has no manifest.
LEMMA NotEnded ==
  ASSUME ScanInv, NEW s \in Scans, scan[s].pc # "done", UNCHANGED <<manifest, reviewed>>
  PROVE  Ended(s)'
BY DEF ScanInv, Good, Ended, At

\* A scan that ends without a manifest, or dies.
LEMMA LeavingKeeps ==
  ASSUME ScanInv, NEW s \in Scans, scan[s].pc \notin {"done", "dead"},
         NEW pc \in {"done", "dead"}, Goto(s, pc), holder' \in {holder, Released(s)},
         result' = [u \in Scans |-> result'[u]], \A u \in Scans \ {s} : result'[u] = result[u],
         fs' \in {fs, [fs EXCEPT ![s] = NoFiles]}, UNCHANGED <<runsRoot, manifest, reviewed>>
  PROVE  ScanInv'
<1>a. Types /\ Good(s)
  BY DEF ScanInv
<1> DEFINE mem == [scan[s] EXCEPT !.pc = pc]
<1>1. /\ mem \in Memory /\ mem.pc = pc /\ mem.sel = scan[s].sel /\ mem.rows = scan[s].rows
      /\ mem.stale = scan[s].stale /\ mem.todo = scan[s].todo
  <2>1. scan[s] \in Memory /\ pc \in Places
    BY <1>a DEF Types, Places
  <2> QED
    BY <2>1 DEF Memory
<1>b. scan' = [scan EXCEPT ![s] = mem]
  BY DEF Goto
<1> HIDE DEF mem
<1>2. scan' \in [Scans -> Memory] /\ scan'[s] = mem /\ \A u \in Scans \ {s} : scan'[u] = scan[u]
  BY <1>a, <1>b, <1>1 DEF Types
<1>3. /\ holder' \in [Scans -> Scans \cup {NoScan}]
      /\ \A t \in Scans : holder'[t] = holder[t] \/ holder[t] \in {s, NoScan}
  BY <1>a DEF Types, Released
<1>4. /\ fs' \in [Scans -> Files] /\ fs'[s] \in {fs[s], NoFiles}
      /\ \A t \in Scans \ {s} : fs'[t] = fs[t]
  <2>1. NoFiles \in Files
    BY DEF NoFiles, Files
  <2> QED
    BY <1>a, <2>1 DEF Types
<1>6. Types'
  BY <1>a, <1>2, <1>3, <1>4 DEF Types
<1>7. Frame(s)
  BY <1>2, <1>3, <1>4, <1>6 DEF Frame
<1>8. Locked(s)' /\ Exported(s)'
  BY <1>1, <1>2 DEF Locked, Exported, At, Before, RecoveryPlaces, Working
<1>9. Recorded(s)'
  BY <1>a, <1>1, <1>2 DEF Good, Recorded, AtPhoto
<1>10. Recovers(s)'
  <2>1. fs'[s].root => fs'[s].dir
    BY <1>a, <1>4 DEF Good, Recovers, NoFiles
  <2>2. \A t \in scan[s].stale : scan'[t].pc = "dead"
    <3> SUFFICES ASSUME NEW t \in scan[s].stale PROVE scan'[t].pc = "dead"
      OBVIOUS
    <3>1. t \in Scans /\ scan[t].pc = "dead"
      BY <1>a DEF Good, Recovers, At, Types, Memory
    <3> QED
      BY <1>2, <3>1
  <2> QED
    BY <1>a, <1>1, <1>2, <2>1, <2>2 DEF Good, Recovers, At
<1>11. Ended(s)'
  BY NotEnded
<1> QED
  BY <1>7, <1>8, <1>9, <1>10, <1>11, StepKeeps DEF Good

LEMMA EndingsKeep ==
  ASSUME ScanInv, NEW s \in Scans,
         \/ SelectFails(s) \/ BridgeFails(s) \/ RecoverFails(s) \/ MakeRunFails(s)
         \/ PersistFails(s) \/ Crash(s)
  PROVE  ScanInv'
<1>1. CASE SelectFails(s) \/ BridgeFails(s) \/ RecoverFails(s) \/ MakeRunFails(s) \/ PersistFails(s)
  <2>1. scan[s].pc \notin {"done", "dead"}
    BY <1>1 DEF SelectFails, BridgeFails, RecoverFails, MakeRunFails, PersistFails, At
  <2>2. PICK advice \in {"grant_photos_access", "fix_fatal_error", "grant_photos_automation"} :
          Fatal(s, advice)
    BY <1>1 DEF SelectFails, BridgeFails, RecoverFails, MakeRunFails, PersistFails
  <2>3. /\ holder' \in {holder, Released(s)} /\ runsRoot' = runsRoot
        /\ fs' \in {fs, [fs EXCEPT ![s] = NoFiles]}
    BY <1>1 DEF SelectFails, BridgeFails, RecoverFails, MakeRunFails, PersistFails, files
  <2>4. /\ Goto(s, "done") /\ result' = [result EXCEPT ![s] = advice]
        /\ UNCHANGED <<manifest, reviewed>>
    BY <2>2 DEF Fatal
  <2>5. /\ result' = [u \in Scans |-> result'[u]] /\ \A u \in Scans \ {s} : result'[u] = result[u]
        /\ UNCHANGED <<runsRoot, manifest, reviewed>> /\ "done" \in {"done", "dead"}
    BY <2>3, <2>4 DEF ScanInv, Types
  <2> QED
    BY <2>1, <2>3, <2>4, <2>5, LeavingKeeps
<1>2. CASE Crash(s)
  <2>1. /\ scan[s].pc \notin {"done", "dead"} /\ Goto(s, "dead")
        /\ holder' \in {holder, Released(s)} /\ fs' \in {fs, [fs EXCEPT ![s] = NoFiles]}
        /\ UNCHANGED <<runsRoot, manifest, reviewed>> /\ result' = result
    BY <1>2 DEF Crash, ends
  <2>2. /\ result' = [u \in Scans |-> result'[u]] /\ \A u \in Scans \ {s} : result'[u] = result[u]
        /\ "dead" \in {"done", "dead"}
    BY <2>1 DEF ScanInv, Types
  <2> QED
    BY <2>1, <2>2, LeavingKeeps
<1> QED
  BY <1>1, <1>2

LEMMA StaleStays ==
  ASSUME ScanInv, NEW s \in Scans, Frame(s), NEW t \in scan[s].stale
  PROVE  /\ t \in Scans /\ t # s /\ scan'[t].pc = "dead"
         /\ fs'[t].root /\ fs'[t].marker /\ fs'[t].lock => Recoverable(t)
<1>1. t \in Scans /\ scan[t].pc = "dead"
  BY DEF ScanInv, Good, Recovers, At, Types, Memory
<1>2. t # s
  BY <1>1 DEF Frame
<1>3. fs'[t] = fs[t] \/ Shrinks(t)
  BY <1>1, <1>2 DEF Frame
<1> QED
  BY <1>1, <1>2, <1>3 DEF Frame, Shrinks, Recoverable

LEMMA RowsStay ==
  ASSUME ScanInv, NEW s \in Scans, scan'[s].sel = scan[s].sel, scan'[s].rows = scan[s].rows,
         scan'[s].pc \notin {"start", "export", "analyse", "erase", "persist"},
         scan'[s].from = "none"
  PROVE  Recorded(s)'
BY DEF ScanInv, Good, Recorded, AtPhoto

-----------------------------------------------------------------------------
(***************************************************************************)
(* The steps before the run.                                               *)
(***************************************************************************)

LEMMA RecoveringMemory ==
  ASSUME ScanInv, NEW s \in Scans, NEW existed \in BOOLEAN, scan[s].pc # "dead"
  PROVE  LET mem == Recovering(s, existed)
         IN  /\ mem \in Memory /\ mem.pc = "recover" /\ mem.from = scan[s].from
             /\ mem.sel = scan[s].sel /\ mem.rows = scan[s].rows /\ s \notin mem.todo
             /\ \A t \in mem.stale : t \in mem.todo /\ t # s /\ scan[t].pc = "dead"
<1> DEFINE todo == {t \in Scans \ {s} : fs[t].dir}
<1> DEFINE stale == {t \in Scans : At(t, "dead") /\ Recoverable(t)}
<1> DEFINE mem == Recovering(s, existed)
<1>1. mem = [scan[s] EXCEPT !.pc = "recover", !.existed = existed, !.todo = todo, !.stale = stale]
  BY DEF Recovering
<1>2. scan[s] \in Memory /\ todo \in SUBSET Scans /\ stale \in SUBSET Scans
  BY DEF ScanInv, Types
<1>3. s \notin todo /\ \A t \in stale : t \in todo /\ t # s /\ scan[t].pc = "dead"
  BY DEF ScanInv, Good, Recovers, Recoverable, At
<1> HIDE DEF todo, stale
<1> HIDE DEF mem
<1>4. mem \in Memory
  <2>1. "recover" \in Places
    BY DEF Places
  <2> QED
    BY <1>1, <1>2, <2>1 DEF Memory
<1>5. /\ mem.pc = "recover" /\ mem.todo = todo /\ mem.stale = stale
      /\ mem.sel = scan[s].sel /\ mem.rows = scan[s].rows /\ mem.from = scan[s].from
  BY <1>1, <1>2 DEF Memory
<1> QED
  BY <1>3, <1>4, <1>5 DEF mem

LEMMA SelectKeeps ==
  ASSUME ScanInv, NEW s \in Scans, Select(s) PROVE ScanInv'
<1>a. Types /\ Good(s) /\ scan[s].pc = "start" /\ scan[s] \in Memory
  BY DEF ScanInv, Types, Select, At
<1> DEFINE next == IF runsRoot THEN Recovering(s, TRUE) ELSE [scan[s] EXCEPT !.pc = "bridge"]
<1>1. PICK sel \in SelectionsOf[s] : scan' = [scan EXCEPT ![s] = [next EXCEPT !.sel = sel]]
  BY DEF Select
<1>2. sel \in Seq(Photos) /\ Distinct(sel) /\ Len(sel) \in Nat
  BY ScanAssumption
<1>3. /\ next \in Memory /\ next.rows = <<>> /\ next.from = "none" /\ s \notin next.todo
      /\ next.pc \in {"recover", "bridge"}
      /\ next.pc = "bridge" => next.stale = {}
      /\ next.pc = "recover" =>
           \A t \in next.stale : t \in next.todo /\ t # s /\ scan[t].pc = "dead"
  <2>1. CASE runsRoot
    <3>1. next = Recovering(s, TRUE)
      BY <2>1
    <3> HIDE DEF next
    <3>2. scan[s].rows = <<>> /\ scan[s].from = "none"
      BY <1>a DEF Good, Recorded
    <3> QED
      BY <1>a, <3>1, <3>2, RecoveringMemory
  <2>2. CASE ~runsRoot
    <3>1. next = [scan[s] EXCEPT !.pc = "bridge"]
      BY <2>2
    <3>2. scan[s].stale = {} /\ scan[s].rows = <<>> /\ scan[s].from = "none" /\ s \notin scan[s].todo
      BY <1>a DEF Good, Recovers, Recorded, At
    <3> HIDE DEF next
    <3> QED
      BY <1>a, <3>1, <3>2 DEF Memory, Places
  <2> QED
    BY <2>1, <2>2
<1> DEFINE mem == [next EXCEPT !.sel = sel]
<1>4. scan' = [scan EXCEPT ![s] = mem]
  BY <1>1
<1> HIDE DEF next
<1>5. /\ mem \in Memory /\ mem.sel = sel /\ mem.rows = <<>> /\ mem.pc = next.pc
      /\ mem.stale = next.stale /\ mem.todo = next.todo /\ mem.from = "none"
  BY <1>2, <1>3 DEF Memory
<1> HIDE DEF mem
<1>6. Frame(s) /\ scan'[s] = mem
  <2>1. Quiet(s, mem)
    BY <1>4, <1>5 DEF Quiet, Select, files
  <2>2. runsRoot' \in BOOLEAN /\ UNCHANGED <<fs, ends>>
    BY <1>a DEF Select, files, Types
  <2> QED
    BY <1>a, <2>1, <2>2, QuietFrame
<1>7. Locked(s)'
  BY <1>3, <1>5, <1>6 DEF Locked, Working
<1>8. Exported(s)'
  BY <1>a, <1>3, <1>5, <1>6 DEF Good, Exported, Before, Select, files, At, RecoveryPlaces, Working
<1>9. Recorded(s)'
  <2>1. Len(<<>>) = 0 /\ DOMAIN <<>> = {}
    OBVIOUS
  <2> QED
    BY <1>2, <1>3, <1>5, <1>6, <2>1 DEF Recorded, AtPhoto
<1>10. Recovers(s)'
  <2>1. fs' = fs
    BY DEF Select, files
  <2>2. \A t \in mem.stale : mem.pc = "recover" /\ t \in mem.todo /\ scan'[t].pc = "dead"
    <3> SUFFICES ASSUME NEW t \in mem.stale
                 PROVE  mem.pc = "recover" /\ t \in mem.todo /\ scan'[t].pc = "dead"
      OBVIOUS
    <3>1. mem.pc = "recover" /\ t \in mem.todo /\ t # s /\ scan[t].pc = "dead"
      BY <1>3, <1>5
    <3>2. t \in Scans
      BY <1>5 DEF Memory
    <3> QED
      BY <1>6, <3>1, <3>2 DEF Frame
  <2> QED
    BY <1>a, <1>3, <1>5, <1>6, <2>1, <2>2 DEF Good, Recovers, At, RecoveryPlaces
<1>11. Ended(s)'
  BY <1>a, NotEnded DEF Select, ends
<1> QED
  BY <1>6, <1>7, <1>8, <1>9, <1>10, <1>11, StepKeeps DEF Good

LEMMA BridgeKeeps ==
  ASSUME ScanInv, NEW s \in Scans, Bridge(s) PROVE ScanInv'
<1>a. /\ Types /\ Good(s) /\ scan[s].pc = "bridge" /\ scan[s] \in Memory
      /\ scan[s].from = "none"
  BY DEF ScanInv, Types, Bridge, At, Good, Recorded
<1> DEFINE mem == IF scan[s].existed THEN [scan[s] EXCEPT !.pc = "run"] ELSE Recovering(s, FALSE)
<1>1. scan' = [scan EXCEPT ![s] = mem]
  BY DEF Bridge
<1>2. /\ mem \in Memory /\ mem.rows = scan[s].rows /\ mem.sel = scan[s].sel /\ s \notin mem.todo
      /\ mem.from = "none"
      /\ mem.pc \in {"recover", "run"}
      /\ mem.pc = "run" => mem.stale = scan[s].stale
      /\ mem.pc = "recover" => \A t \in mem.stale : t \in mem.todo /\ t # s /\ scan[t].pc = "dead"
  <2>1. CASE ~scan[s].existed
    <3>1. mem = Recovering(s, FALSE)
      BY <2>1
    <3> HIDE DEF mem
    <3> QED
      BY <1>a, <3>1, RecoveringMemory
  <2>2. CASE scan[s].existed
    <3>1. mem = [scan[s] EXCEPT !.pc = "run"] /\ s \notin scan[s].todo
      BY <1>a, <2>2 DEF Good, Recovers
    <3> HIDE DEF mem
    <3> QED
      BY <1>a, <3>1 DEF Memory, Places
  <2> QED
    BY <2>1, <2>2
<1> HIDE DEF mem
<1>3. Frame(s) /\ scan'[s] = mem
  <2>1. Quiet(s, mem)
    BY <1>1, <1>2 DEF Quiet, Bridge
  <2>2. runsRoot' \in BOOLEAN /\ UNCHANGED <<fs, ends>>
    BY DEF Bridge
  <2> QED
    BY <1>a, <2>1, <2>2, QuietFrame
<1>4. Locked(s)'
  BY <1>2, <1>3 DEF Locked, Working
<1>5. Exported(s)'
  BY <1>a, <1>2, <1>3 DEF Good, Exported, Before, Bridge, At, RecoveryPlaces, Working
<1>6. Recorded(s)'
  BY <1>2, <1>3, RowsStay
<1>7. Recovers(s)'
  <2>1. fs' = fs
    BY DEF Bridge
  <2>2. ASSUME NEW t \in mem.stale
        PROVE  scan'[t].pc = "dead" /\ (Recoverable(t) => mem.pc = "recover" /\ t \in mem.todo)
    <3>1. CASE mem.pc = "recover"
      <4>1. t \in mem.todo /\ t # s /\ t \in Scans /\ scan[t].pc = "dead"
        BY <1>2, <3>1 DEF Memory
      <4> QED
        BY <1>3, <3>1, <4>1 DEF Frame
    <3>2. CASE mem.pc = "run"
      <4>1. t \in scan[s].stale /\ scan'[t].pc = "dead"
        BY <1>2, <1>3, <3>2, StaleStays
      <4>2. ~Recoverable(t)
        BY <1>a, <4>1 DEF Good, Recovers, RecoveryPlaces
      <4> QED
        BY <4>1, <4>2
    <3> QED
      BY <1>2, <3>1, <3>2
  <2> QED
    BY <1>a, <1>2, <1>3, <2>1, <2>2 DEF Good, Recovers, At, RecoveryPlaces, Recoverable
<1>8. Ended(s)'
  BY <1>a, NotEnded DEF Bridge, ends
<1> QED
  BY <1>3, <1>4, <1>5, <1>6, <1>7, <1>8, StepKeeps DEF Good
-----------------------------------------------------------------------------
(***************************************************************************)
(* The steps in which a scan changes nothing but what is its own, and at   *)
(* most one lock.                                                          *)
(***************************************************************************)

\* What the scan has in memory and of files after such a step.
SoundPlace(s, mem, own) ==
  /\ mem.pc \notin {"start", "done", "dead"} /\ mem.sel = scan[s].sel
  /\ mem.pc \in {"recheck", "clear"} => mem.target \in Scans \ {s} /\ holder'[mem.target] = s
  /\ mem.pc \in Working =>
       IF mem.created THEN holder'[s] = s /\ (own.exports # {} => own.root /\ own.marker)
       ELSE mem.spoilt \/ own.exports = {}
  /\ mem.pc \in Before => own.exports = {}
  /\ mem.pc = "analyse" /\ mem.created => mem.sel[Len(mem.rows) + 1] \in own.exports
  /\ mem.pc = "persist" /\ mem.why \in {"complete", "cancelled"} /\ ~mem.spoilt =>
       own.exports = {}
  /\ own.root \/ mem.pc = "root" => own.dir
  /\ s \notin mem.todo
  /\ \A t \in mem.stale :
       t \in scan[s].stale /\ (Recoverable(t) => mem.pc \in RecoveryPlaces /\ t \in mem.todo)

SoundRows(s, mem) ==
  /\ Len(mem.rows) <= Len(mem.sel)
  /\ \A i \in DOMAIN mem.rows : RowAccepted(mem.rows[i]) /\ mem.rows[i].photo = mem.sel[i]
  /\ mem.pc # "erase" => mem.from = "none"
  /\ AtPhoto(mem) => Len(mem.sel) - Len(mem.rows) > 0
  /\ mem.pc \in {"erase", "persist"} /\ mem.why = "complete" /\ mem.from = "none" =>
       Len(mem.sel) - Len(mem.rows) = 0

Sound(s, mem, own) == SoundPlace(s, mem, own) /\ SoundRows(s, mem)

LEMMA OwnKeeps ==
  ASSUME ScanInv, NEW s \in Scans, scan[s].pc \notin {"done", "dead"}, NEW mem, Quiet(s, mem),
         NEW own \in Files, fs' = [fs EXCEPT ![s] = own], UNCHANGED <<runsRoot, ends>>,
         Sound(s, mem, own)
  PROVE  ScanInv'
<1>a. Types /\ Good(s)
  BY DEF ScanInv
<1>1. Frame(s) /\ scan'[s] = mem /\ fs'[s] = own
  BY OwnFrame
<1>2. Locked(s)'
  BY <1>1 DEF Locked, Sound, SoundPlace
<1>3. Exported(s)'
  BY <1>1 DEF Exported, Sound, SoundPlace, At, Current
<1>4. Recorded(s)'
  BY <1>a, <1>1 DEF Good, Recorded, Sound, SoundPlace, SoundRows, Rest
<1>5. Recovers(s)'
  <2>1. fs'[s].root \/ scan'[s].pc = "root" => fs'[s].dir
    BY <1>1 DEF Sound, SoundPlace
  <2>2. ASSUME NEW t \in mem.stale
        PROVE  /\ scan'[t].pc = "dead"
               /\ fs'[t].root /\ fs'[t].marker /\ fs'[t].lock =>
                    mem.pc \in RecoveryPlaces /\ t \in mem.todo
    <3>1. t \in scan[s].stale /\ (Recoverable(t) => mem.pc \in RecoveryPlaces /\ t \in mem.todo)
      BY DEF Sound, SoundPlace
    <3> QED
      BY <1>1, <3>1, StaleStays
  <2> QED
    BY <1>1, <2>1, <2>2 DEF Recovers, At, Recoverable, Sound, SoundPlace
<1>6. Ended(s)'
  BY NotEnded DEF ends
<1> QED
  BY <1>1, <1>2, <1>3, <1>4, <1>5, <1>6, StepKeeps DEF Good

\* What every such step finds.
LEMMA Found ==
  ASSUME ScanInv, NEW s \in Scans
  PROVE  /\ Types /\ scan[s] \in Memory /\ fs[s] \in Files /\ fs = [fs EXCEPT ![s] = fs[s]]
         /\ fs[s].root => fs[s].dir
         /\ s \notin scan[s].todo
         /\ scan[s].pc \notin {"erase", "done", "dead"} => scan[s].from = "none"
         /\ \A t \in scan[s].stale :
              Recoverable(t) => scan[s].pc \in {"dead", "done"} \cup RecoveryPlaces
         /\ \A t \in scan[s].stale :
              Recoverable(t) /\ scan[s].pc \in RecoveryPlaces => t \in scan[s].todo
<1>1. Types /\ scan[s] \in Memory /\ fs[s] \in Files /\ fs = [fs EXCEPT ![s] = fs[s]]
  BY DEF ScanInv, Types
<1>2. Good(s)
  BY DEF ScanInv
<1> QED
  BY <1>1, <1>2 DEF Good, Recovers, Recorded, RecoveryPlaces

LEMMA FoundRows ==
  ASSUME ScanInv, NEW s \in Scans
  PROVE  /\ Len(scan[s].sel) \in Nat /\ Len(scan[s].rows) \in Nat
         /\ Len(scan[s].rows) <= Len(scan[s].sel)
         /\ \A i \in DOMAIN scan[s].rows :
              RowAccepted(scan[s].rows[i]) /\ scan[s].rows[i].photo = scan[s].sel[i]
<1>1. scan[s] \in Memory /\ Recorded(s)
  BY DEF ScanInv, Types, Good
<1> QED
  BY <1>1 DEF Memory, Recorded

LEMMA SameRows ==
  ASSUME ScanInv, NEW s \in Scans, NEW mem, mem.sel = scan[s].sel, mem.rows = scan[s].rows,
         mem.pc # "erase" => mem.from = "none",
         AtPhoto(mem) => Len(mem.sel) - Len(mem.rows) > 0,
         mem.pc \in {"erase", "persist"} /\ mem.why = "complete" /\ mem.from = "none" =>
           Len(mem.sel) - Len(mem.rows) = 0
  PROVE  SoundRows(s, mem)
BY FoundRows DEF SoundRows

LEMMA RecoverSkipKeeps ==
  ASSUME ScanInv, NEW s \in Scans, RecoverSkip(s) PROVE ScanInv'
<1>a. scan[s].pc = "recover" /\ scan[s] \in Memory /\ scan[s].from = "none"
  BY Found DEF RecoverSkip, At
<1>1. PICK t \in scan[s].todo :
        /\ RecoverSkips(s, t)
        /\ scan' = [scan EXCEPT ![s].todo = @ \ {t},
                                ![s].stale = IF RecoverBusy(s, t) THEN @ \ {t} ELSE @]
  BY DEF RecoverSkip
<1> DEFINE stale == IF RecoverBusy(s, t) THEN scan[s].stale \ {t} ELSE scan[s].stale
<1> DEFINE mem == [scan[s] EXCEPT !.todo = @ \ {t}, !.stale = stale]
<1>2. scan' = [scan EXCEPT ![s] = mem]
  BY <1>1
<1>3. stale \subseteq scan[s].stale /\ (Recoverable(t) => t \notin stale)
  BY <1>1 DEF RecoverSkips
<1> HIDE DEF stale
<1>4. /\ mem \in Memory /\ mem.pc = "recover" /\ mem.sel = scan[s].sel /\ mem.rows = scan[s].rows
      /\ mem.todo = scan[s].todo \ {t} /\ mem.stale = stale /\ mem.from = "none"
  BY <1>a, <1>3 DEF Memory
<1> HIDE DEF mem
<1>5. fs[s].exports = {}
  BY <1>a DEF ScanInv, Good, Exported, Before, RecoveryPlaces
<1>6. SoundPlace(s, mem, fs[s])
  BY <1>a, <1>3, <1>4, <1>5, Found DEF SoundPlace, RecoveryPlaces, Working
<1>s. Sound(s, mem, fs[s])
  BY <1>a, <1>3, <1>4, <1>6, SameRows DEF Sound, AtPhoto
<1>7. Quiet(s, mem) /\ UNCHANGED <<runsRoot, fs, ends>>
  BY <1>2, <1>4 DEF Quiet, RecoverSkip, files
<1> QED
  BY <1>a, <1>s, <1>7, OwnKeeps, Found

LEMMA RecoverLockKeeps ==
  ASSUME ScanInv, NEW s \in Scans, RecoverLock(s) PROVE ScanInv'
<1>a. scan[s].pc = "recover" /\ scan[s] \in Memory /\ scan[s].from = "none"
  BY Found DEF RecoverLock, At
<1>1. PICK t \in scan[s].todo :
        /\ ~RecoverSkips(s, t) /\ holder' = [holder EXCEPT ![t] = s]
        /\ scan' = [scan EXCEPT ![s].pc = "recheck", ![s].target = t]
  BY DEF RecoverLock
<1> DEFINE mem == [scan[s] EXCEPT !.pc = "recheck", !.target = t]
<1>2. scan' = [scan EXCEPT ![s] = mem]
  BY <1>1
<1>3. /\ t \in Scans /\ holder[t] = NoScan /\ holder'[t] = s
      /\ Recoverable(t)
  BY <1>1, Found DEF RecoverSkips, RecoverBusy, Memory, Types
<1>4. /\ mem \in Memory /\ mem.pc = "recheck" /\ mem.sel = scan[s].sel /\ mem.rows = scan[s].rows
      /\ mem.target = t /\ mem.todo = scan[s].todo /\ mem.stale = scan[s].stale /\ mem.from = "none"
  BY <1>a, <1>3 DEF Memory, Places
<1> HIDE DEF mem
<1>5. fs[s].exports = {}
  BY <1>a DEF ScanInv, Good, Exported, Before, RecoveryPlaces
<1>b. t # s
  BY <1>1, Found
<1>6. SoundPlace(s, mem, fs[s])
  BY <1>a, <1>3, <1>4, <1>5, <1>b, Found DEF SoundPlace, RecoveryPlaces, Working
<1>s. Sound(s, mem, fs[s])
  BY <1>a, <1>3, <1>4, <1>6, SameRows DEF Sound, AtPhoto
<1>7. Quiet(s, mem) /\ UNCHANGED <<runsRoot, fs, ends>>
  BY <1>1, <1>2, <1>3, <1>4 DEF Quiet, RecoverLock
<1> QED
  BY <1>a, <1>s, <1>7, OwnKeeps, Found

LEMMA RecheckKeeps ==
  ASSUME ScanInv, NEW s \in Scans, Recheck(s) PROVE ScanInv'
<1> DEFINE t == scan[s].target
<1>a. /\ scan[s].pc = "recheck" /\ scan[s] \in Memory /\ t \in Scans \ {s} /\ holder[t] = s
      /\ fs[s].exports = {} /\ fs[s] \in Files /\ UNCHANGED <<runsRoot, fs, ends>>
      /\ scan[s].from = "none"
  BY Found DEF Recheck, At, ScanInv, Good, Locked, Exported, Before, RecoveryPlaces
<1>1. CASE fs[t].marker
  <2> DEFINE mem == [scan[s] EXCEPT !.pc = "clear"]
  <2>1. scan' = [scan EXCEPT ![s] = mem] /\ holder' = holder
    BY <1>1 DEF Recheck, Goto
  <2>2. /\ mem \in Memory /\ mem.pc = "clear" /\ mem.sel = scan[s].sel /\ mem.rows = scan[s].rows
        /\ mem.todo = scan[s].todo /\ mem.stale = scan[s].stale /\ mem.target = t
        /\ mem.from = "none"
    BY <1>a DEF Memory, Places
  <2> HIDE DEF mem, t
  <2>3. SoundPlace(s, mem, fs[s])
    BY <1>a, <2>1, <2>2, Found DEF SoundPlace, RecoveryPlaces, Working
  <2>s. Sound(s, mem, fs[s])
    BY <1>a, <2>1, <2>2, <2>3, SameRows DEF Sound, AtPhoto
  <2>4. Quiet(s, mem)
    BY <2>1, <2>2 DEF Quiet
  <2> QED
    BY <1>a, <2>s, <2>4, OwnKeeps, Found
<1>2. CASE ~fs[t].marker
  <2> DEFINE mem == [scan[s] EXCEPT !.pc = "recover", !.todo = @ \ {t}]
  <2>1. scan' = [scan EXCEPT ![s] = mem] /\ holder' = Released(s)
    BY <1>2 DEF Recheck
  <2>2. /\ mem \in Memory /\ mem.pc = "recover" /\ mem.sel = scan[s].sel
        /\ mem.rows = scan[s].rows /\ mem.todo = scan[s].todo \ {t} /\ mem.stale = scan[s].stale
        /\ mem.from = "none"
    BY <1>a DEF Memory, Places
  <2>b. ~Recoverable(t)
    BY <1>2 DEF Recoverable
  <2> HIDE DEF mem, t
  <2>3. SoundPlace(s, mem, fs[s])
    BY <1>a, <2>b, <2>2, Found DEF SoundPlace, RecoveryPlaces, Working
  <2>s. Sound(s, mem, fs[s])
    BY <1>a, <2>b, <2>2, <2>3, SameRows DEF Sound, AtPhoto
  <2>4. Quiet(s, mem)
    BY <2>1, <2>2 DEF Quiet
  <2> QED
    BY <1>a, <2>s, <2>4, OwnKeeps, Found
<1> QED
  BY <1>1, <1>2

LEMMA RecoverEndsKeeps ==
  ASSUME ScanInv, NEW s \in Scans, RecoverEnds(s) PROVE ScanInv'
<1>a. /\ scan[s].pc = "recover" /\ scan[s] \in Memory /\ scan[s].todo = {}
      /\ fs[s].exports = {} /\ fs[s] \in Files /\ UNCHANGED <<runsRoot, fs, holder, ends>>
      /\ scan[s].from = "none"
  BY Found DEF RecoverEnds, At, ScanInv, Good, Exported, Before, RecoveryPlaces, files
<1>1. PICK pc \in {"bridge", "run"} : Goto(s, pc)
  BY DEF RecoverEnds
<1> DEFINE mem == [scan[s] EXCEPT !.pc = pc]
<1>2. scan' = [scan EXCEPT ![s] = mem]
  BY <1>1 DEF Goto
<1>3. /\ mem \in Memory /\ mem.pc = pc /\ mem.sel = scan[s].sel /\ mem.rows = scan[s].rows
      /\ mem.todo = scan[s].todo /\ mem.stale = scan[s].stale /\ mem.from = "none"
  BY <1>a DEF Memory, Places
<1> HIDE DEF mem
<1>4. SoundPlace(s, mem, fs[s])
  BY <1>a, <1>3, Found DEF SoundPlace, RecoveryPlaces, Working
<1>s. Sound(s, mem, fs[s])
  BY <1>a, <1>3, <1>4, SameRows DEF Sound, AtPhoto
<1>5. Quiet(s, mem)
  BY <1>a, <1>2, <1>3 DEF Quiet
<1> QED
  BY <1>a, <1>s, <1>5, OwnKeeps, Found

-----------------------------------------------------------------------------
(***************************************************************************)
(* The steps that make the run and enter its workspace.                    *)
(***************************************************************************)

\* Past its recovery a scan has nothing left to recover.
LEMMA NothingStale ==
  ASSUME ScanInv, NEW s \in Scans,
         scan[s].pc \notin {"dead", "done"} \cup RecoveryPlaces, NEW t \in scan[s].stale
  PROVE  ~Recoverable(t)
BY Found

\* A step from one of these places to the next, with what it has of files.
LEMMA EntryKeeps ==
  ASSUME ScanInv, NEW s \in Scans, scan[s].pc \in {"run", "root", "marker", "lock", "flock"},
         NEW pc \in {"root", "marker", "lock", "flock", "erase", "persist"}, NEW why \in Whys,
         pc \in {"erase", "persist"} => why \in {"failed", "interrupted"},
         scan' = [scan EXCEPT ![s] = [scan[s] EXCEPT !.pc = pc, !.why = why]],
         NEW own \in Files, fs' = [fs EXCEPT ![s] = own],
         own.exports = fs[s].exports, own.root \/ pc = "root" => own.dir,
         UNCHANGED <<runsRoot, holder, ends>>
  PROVE  ScanInv'
<1>a. /\ scan[s] \in Memory /\ fs[s].exports = {} /\ scan[s].created \in BOOLEAN
      /\ pc \in Places /\ scan[s].from = "none"
  BY Found DEF ScanInv, Good, Exported, Before, Memory, Places
<1> DEFINE mem == [scan[s] EXCEPT !.pc = pc, !.why = why]
<1>1. /\ mem \in Memory /\ mem.pc = pc /\ mem.sel = scan[s].sel /\ mem.rows = scan[s].rows
      /\ mem.todo = scan[s].todo /\ mem.stale = scan[s].stale /\ mem.why = why
      /\ mem.from = "none"
  BY <1>a DEF Memory
<1>2. scan' = [scan EXCEPT ![s] = mem]
  OBVIOUS
<1> HIDE DEF mem
<1>3. SoundPlace(s, mem, own)
  BY <1>a, <1>1, Found, NothingStale DEF SoundPlace, RecoveryPlaces, Working
<1>s. Sound(s, mem, own)
  BY <1>a, <1>1, <1>3, SameRows DEF Sound, AtPhoto
<1>4. Quiet(s, mem)
  BY <1>1, <1>2 DEF Quiet
<1> QED
  BY <1>s, <1>4, OwnKeeps

LEMMA SameMemory ==
  ASSUME ScanInv, NEW s \in Scans, NEW pc, Goto(s, pc)
  PROVE  /\ scan' = [scan EXCEPT ![s] = [scan[s] EXCEPT !.pc = pc, !.why = scan[s].why]]
         /\ scan[s].why \in Whys
<1>1. scan[s] \in Memory
  BY Found
<1>2. [scan[s] EXCEPT !.pc = pc] = [scan[s] EXCEPT !.pc = pc, !.why = scan[s].why]
  BY <1>1 DEF Memory
<1> QED
  BY <1>1, <1>2 DEF Memory, Goto

LEMMA EntryStepsKeep ==
  ASSUME ScanInv, NEW s \in Scans,
         \/ MakeRun(s) \/ MakeRoot(s) \/ WriteMarker(s) \/ CreateLock(s)
         \/ EnterFails(s) \/ EnterInterrupted(s)
  PROVE  ScanInv'
<1>a. fs[s] \in Files /\ fs = [fs EXCEPT ![s] = fs[s]] /\ (fs[s].root => fs[s].dir) /\ Good(s)
  BY Found DEF ScanInv
<1>1. CASE MakeRun(s)
  <2> DEFINE own == [fs[s] EXCEPT !.dir = TRUE]
  <2>1. own \in Files /\ own.exports = fs[s].exports /\ own.dir
    BY <1>a DEF Files
  <2>2. /\ scan[s].pc = "run" /\ Goto(s, "root") /\ fs' = [fs EXCEPT ![s] = own]
        /\ UNCHANGED <<runsRoot, holder, ends>>
    BY <1>1 DEF MakeRun, At
  <2> HIDE DEF own
  <2> QED
    BY <2>1, <2>2, SameMemory, EntryKeeps
<1>2. CASE MakeRoot(s)
  <2> DEFINE own == [fs[s] EXCEPT !.root = TRUE]
  <2>1. scan[s].pc = "root" /\ fs[s].dir
    BY <1>a, <1>2 DEF MakeRoot, At, Good, Recovers
  <2>2. own \in Files /\ own.exports = fs[s].exports /\ own.dir
    BY <1>a, <2>1 DEF Files
  <2>3. /\ Goto(s, "marker") /\ fs' = [fs EXCEPT ![s] = own] /\ UNCHANGED <<runsRoot, holder, ends>>
    BY <1>2 DEF MakeRoot
  <2> HIDE DEF own
  <2> QED
    BY <2>1, <2>2, <2>3, SameMemory, EntryKeeps
<1>3. CASE WriteMarker(s)
  <2> DEFINE own == [fs[s] EXCEPT !.marker = TRUE]
  <2>1. own \in Files /\ own.exports = fs[s].exports /\ (own.root => own.dir)
    BY <1>a DEF Files
  <2>2. /\ scan[s].pc = "marker" /\ Goto(s, "lock") /\ fs' = [fs EXCEPT ![s] = own]
        /\ UNCHANGED <<runsRoot, holder, ends>>
    BY <1>3 DEF WriteMarker, At
  <2> HIDE DEF own
  <2> QED
    BY <2>1, <2>2, SameMemory, EntryKeeps
<1>4. CASE CreateLock(s)
  <2> DEFINE own == [fs[s] EXCEPT !.lock = TRUE]
  <2>1. own \in Files /\ own.exports = fs[s].exports /\ (own.root => own.dir)
    BY <1>a DEF Files
  <2>2. /\ scan[s].pc = "lock" /\ Goto(s, "flock") /\ fs' = [fs EXCEPT ![s] = own]
        /\ UNCHANGED <<runsRoot, holder, ends>>
    BY <1>4 DEF CreateLock, At
  <2> HIDE DEF own
  <2> QED
    BY <2>1, <2>2, SameMemory, EntryKeeps
<1>5. CASE EnterFails(s) \/ EnterInterrupted(s)
  <2>1. PICK pc \in {"erase", "persist"}, why \in {"failed", "interrupted"} :
          scan' = [scan EXCEPT ![s].pc = pc, ![s].why = why]
    BY <1>5 DEF EnterFails, EnterInterrupted
  <2>2. /\ scan[s].pc \in {"root", "marker", "lock", "flock"}
        /\ fs' = [fs EXCEPT ![s] = fs[s]] /\ UNCHANGED <<runsRoot, holder, ends>>
    BY <1>a, <1>5 DEF EnterFails, EnterInterrupted, files
  <2>3. scan' = [scan EXCEPT ![s] = [scan[s] EXCEPT !.pc = pc, !.why = why]] /\ why \in Whys
    BY <2>1 DEF Whys
  <2> QED
    BY <1>a, <2>2, <2>3, EntryKeeps
<1> QED
  BY <1>1, <1>2, <1>3, <1>4, <1>5

LEMMA FlockKeeps ==
  ASSUME ScanInv, NEW s \in Scans, Flock(s) PROVE ScanInv'
<1>a. /\ scan[s].pc = "flock" /\ scan[s] \in Memory /\ fs[s].exports = {} /\ fs[s] \in Files
      /\ UNCHANGED <<runsRoot, fs, ends>> /\ holder[s] = NoScan
      /\ holder' = [holder EXCEPT ![s] = s] /\ holder'[s] = s /\ scan[s].from = "none"
  BY Found DEF Flock, At, ScanInv, Good, Exported, Before, Types
<1> DEFINE mem == [scan[s] EXCEPT !.pc = "loop", !.created = TRUE]
<1>1. scan' = [scan EXCEPT ![s] = mem]
  BY DEF Flock
<1>2. /\ mem \in Memory /\ mem.pc = "loop" /\ mem.sel = scan[s].sel /\ mem.rows = scan[s].rows
      /\ mem.todo = scan[s].todo /\ mem.stale = scan[s].stale /\ mem.created
      /\ mem.from = "none"
  BY <1>a DEF Memory, Places
<1> HIDE DEF mem
<1>3. SoundPlace(s, mem, fs[s])
  BY <1>a, <1>2, Found, NothingStale DEF SoundPlace, RecoveryPlaces, Before, Working
<1>s. Sound(s, mem, fs[s])
  BY <1>a, <1>2, <1>3, SameRows DEF Sound, AtPhoto
<1>4. Quiet(s, mem)
  BY <1>a, <1>1, <1>2 DEF Quiet
<1> QED
  BY <1>a, <1>s, <1>4, OwnKeeps, Found
-----------------------------------------------------------------------------
(***************************************************************************)
(* The photos.                                                             *)
(***************************************************************************)

\* Where a cleanup leads, by the handler or at the end of the work, after what
\* an export may still lose.
LEMMA CleanupKeeps ==
  ASSUME ScanInv, NEW s \in Scans, scan[s].pc \in Working,
         NEW why \in Whys, NEW from \in {"none", scan[s].pc},
         why = "complete" /\ from = "none" => Rest(s) = 0, Cleanup(s, why, from),
         NEW own \in Files, fs' = [fs EXCEPT ![s] = own], own.exports \subseteq fs[s].exports,
         own.dir = fs[s].dir, own.root = fs[s].root, UNCHANGED <<runsRoot, ends>>
  PROVE  ScanInv'
<1>a. scan[s] \in Memory /\ Good(s) /\ fs[s] \in Files
  BY Found DEF ScanInv
<1>1. PICK matches \in BOOLEAN : matches = Matches(s)
  BY <1>a DEF Matches, Memory, Files
<1> DEFINE pc == IF matches THEN "erase" ELSE After(why, from)
<1> DEFINE back == IF matches THEN from ELSE "none"
<1> DEFINE mem == [scan[s] EXCEPT !.pc = pc, !.why = why, !.from = back, !.created = matches]
<1>2. scan' = [scan EXCEPT ![s] = mem] /\ holder' \in {holder, Released(s)}
  BY <1>1 DEF Cleanup
<1>b. /\ matches => pc = "erase" /\ back = from
      /\ ~matches => back = "none" /\ \/ pc = "persist" /\ (why = "complete" => from = "none")
                                      \/ pc = scan[s].pc
  BY DEF After
<1>c. pc \in {"erase", "persist"} \cup Working /\ back \in {"none"} \cup Working
  BY <1>b
<1> HIDE DEF pc, back
<1>3. /\ mem \in Memory /\ mem.pc = pc /\ mem.sel = scan[s].sel /\ mem.rows = scan[s].rows
      /\ mem.todo = scan[s].todo /\ mem.stale = scan[s].stale /\ mem.why = why
      /\ mem.from = back /\ mem.created = matches /\ mem.spoilt = scan[s].spoilt
  <2>1. pc \in Places
    BY <1>c DEF Places, Working
  <2>2. mem \in Memory
    BY <1>a, <1>c, <2>1 DEF Memory
  <2>3. /\ mem.pc = pc /\ mem.why = why /\ mem.from = back /\ mem.created = matches
        /\ mem.sel = scan[s].sel /\ mem.rows = scan[s].rows /\ mem.todo = scan[s].todo
        /\ mem.stale = scan[s].stale /\ mem.spoilt = scan[s].spoilt
    BY <1>a DEF Memory
  <2> QED
    BY <2>2, <2>3
<1> HIDE DEF mem
<1>4. ~matches => scan[s].spoilt \/ own.exports = {}
  BY <1>1, <1>a DEF Good, Exported, Matches
<1>d. \A t \in scan[s].stale : ~Recoverable(t)
  BY NothingStale DEF RecoveryPlaces, Working
<1>5. SoundRows(s, mem)
  <2>1. AtPhoto(mem) => scan[s].pc \in {"export", "analyse"}
    BY <1>b, <1>3 DEF AtPhoto
  <2>2. AtPhoto(mem) => Len(mem.sel) - Len(mem.rows) > 0
    BY <1>a, <1>3, <2>1 DEF Good, Recorded, AtPhoto, Rest
  <2>3. mem.pc \in {"erase", "persist"} /\ mem.why = "complete" /\ mem.from = "none" => Rest(s) = 0
    BY <1>b, <1>3 DEF Working
  <2>4. mem.pc # "erase" => mem.from = "none"
    BY <1>b, <1>3
  <2> QED
    BY <1>3, <2>2, <2>3, <2>4, SameRows DEF Rest
<1>6. SoundPlace(s, mem, own)
  <2>1. mem.pc \in Working => ~mem.created
    BY <1>1, <1>3, <1>b DEF Working
  <2>2. mem.pc # "erase" => mem.spoilt \/ own.exports = {}
    BY <1>3, <1>4, <1>b
  <2>3. mem.pc \notin {"start", "done", "dead"} \cup Before
    BY <1>3, <1>c DEF Working, Before, RecoveryPlaces
  <2>4. own.root => own.dir
    BY Found
  <2>5. s \notin mem.todo
    BY <1>3, Found
  <2> QED
    BY <1>3, <1>d, <2>1, <2>2, <2>3, <2>4, <2>5 DEF SoundPlace, Before, RecoveryPlaces, Working
<1>7. Sound(s, mem, own)
  BY <1>5, <1>6 DEF Sound
<1>8. Quiet(s, mem)
  BY <1>2, <1>3 DEF Quiet
<1>9. scan[s].pc \notin {"done", "dead"}
  BY DEF Working
<1> QED
  BY <1>7, <1>8, <1>9, OwnKeeps

LEMMA StopsKeep ==
  ASSUME ScanInv, NEW s \in Scans,
         StorageFails(s) \/ Cancel(s) \/ Interrupt(s) \/ Finish(s)
  PROVE  ScanInv'
<1>1. /\ scan[s].pc \in Working
      /\ \E why \in Whys, from \in {"none", scan[s].pc} :
           Cleanup(s, why, from) /\ (why = "complete" /\ from = "none" => Rest(s) = 0)
      /\ UNCHANGED <<runsRoot, fs, ends>>
  <2>1. CASE StorageFails(s)
    BY <2>1 DEF StorageFails, At, Whys, Working
  <2>2. CASE Cancel(s)
    BY <2>2 DEF Cancel, At, Whys, Working
  <2>3. CASE Interrupt(s)
    BY <2>3 DEF Interrupt, Whys, Working
  <2>4. CASE Finish(s)
    BY <2>4 DEF Finish, At, Whys, Working
  <2> QED
    BY <2>1, <2>2, <2>3, <2>4
<1>2. fs[s] \in Files /\ fs' = [fs EXCEPT ![s] = fs[s]]
  BY <1>1, Found
<1> QED
  BY <1>1, <1>2, CleanupKeeps

\* What an export leaves when it is unlinked, or could not be.
LEMMA Unlinked ==
  ASSUME ScanInv, NEW s \in Scans, NEW unlinked, NEW p,
         fs' = IF unlinked THEN [fs EXCEPT ![s].exports = @ \ {p}] ELSE fs
  PROVE  \E own \in Files :
           /\ fs' = [fs EXCEPT ![s] = own] /\ own.exports \subseteq fs[s].exports
           /\ own.dir = fs[s].dir /\ own.root = fs[s].root /\ own.marker = fs[s].marker
<1>a. fs[s] \in Files /\ fs = [fs EXCEPT ![s] = fs[s]]
  BY Found
<1>1. CASE unlinked
  <2> DEFINE own == [fs[s] EXCEPT !.exports = @ \ {p}]
  <2>1. fs' = [fs EXCEPT ![s] = own]
    BY <1>1
  <2>2. own \in Files /\ own.exports \subseteq fs[s].exports /\ own.dir = fs[s].dir
        /\ own.root = fs[s].root /\ own.marker = fs[s].marker
    BY <1>a DEF Files
  <2> HIDE DEF own
  <2> QED
    BY <2>1, <2>2
<1>2. CASE ~unlinked
  BY <1>a, <1>2
<1> QED
  BY <1>1, <1>2

LEMMA ContextCancelledKeeps ==
  ASSUME ScanInv, NEW s \in Scans, ContextCancelled(s) PROVE ScanInv'
<1>1. /\ scan[s].pc \in Working /\ Cleanup(s, "cancelled", "none")
      /\ UNCHANGED <<runsRoot, ends>> /\ "cancelled" \in Whys
  BY DEF ContextCancelled, At, Whys, Working
<1>2. PICK unlinked \in BOOLEAN :
        fs' = IF unlinked THEN [fs EXCEPT ![s].exports = @ \ {Current(s)}] ELSE fs
  BY DEF ContextCancelled, Unlink
<1>3. PICK own \in Files :
        /\ fs' = [fs EXCEPT ![s] = own] /\ own.exports \subseteq fs[s].exports
        /\ own.dir = fs[s].dir /\ own.root = fs[s].root
  BY <1>2, Unlinked
<1> QED
  BY <1>1, <1>3, CleanupKeeps

LEMMA Gap ==
  ASSUME NEW a \in Nat, NEW b \in Nat, a - b > 0 PROVE b + 1 <= a
OBVIOUS

LEMMA RoomLeft ==
  ASSUME ScanInv, NEW s \in Scans, Rest(s) > 0
  PROVE  Len(scan[s].rows) + 1 <= Len(scan[s].sel)
<1>1. Len(scan[s].sel) \in Nat /\ Len(scan[s].rows) \in Nat
  BY FoundRows
<1>2. Len(scan[s].sel) - Len(scan[s].rows) > 0
  BY DEF Rest
<1> QED
  BY <1>1, <1>2, Gap

\* One more row, of the photo whose turn it is.
LEMMA AddKeeps ==
  ASSUME ScanInv, NEW s \in Scans, scan[s].pc \in Working, Rest(s) > 0,
         NEW row \in ScannedRows, RowAccepted(row), row.photo = Current(s), Add(s, row),
         NEW own \in Files, fs' = [fs EXCEPT ![s] = own], own.exports \subseteq fs[s].exports,
         own.dir = fs[s].dir, own.root = fs[s].root, own.marker = fs[s].marker,
         UNCHANGED <<runsRoot, holder, ends>>
  PROVE  ScanInv'
<1>a. scan[s] \in Memory /\ Good(s)
  BY Found DEF ScanInv
<1> DEFINE rows == Append(scan[s].rows, row)
<1> DEFINE mem == [scan[s] EXCEPT !.pc = "loop", !.rows = rows]
<1>1. scan' = [scan EXCEPT ![s] = mem]
  BY DEF Add
<1>2. /\ rows \in Seq(ScannedRows) /\ Len(rows) = Len(scan[s].rows) + 1
      /\ Len(rows) <= Len(scan[s].sel)
      /\ \A i \in DOMAIN rows : RowAccepted(rows[i]) /\ rows[i].photo = scan[s].sel[i]
  <2>1. scan[s].rows \in Seq(ScannedRows)
    BY <1>a DEF Memory
  <2>2. /\ Len(scan[s].rows) \in Nat /\ Len(scan[s].sel) \in Nat
        /\ \A i \in DOMAIN scan[s].rows :
             RowAccepted(scan[s].rows[i]) /\ scan[s].rows[i].photo = scan[s].sel[i]
    BY FoundRows
  <2>3. /\ DOMAIN rows = 1..(Len(scan[s].rows) + 1)
        /\ \A i \in DOMAIN scan[s].rows : rows[i] = scan[s].rows[i]
        /\ rows[Len(scan[s].rows) + 1] = row
        /\ DOMAIN scan[s].rows = 1..Len(scan[s].rows)
        /\ rows \in Seq(ScannedRows) /\ Len(rows) = Len(scan[s].rows) + 1
    BY <2>1
  <2> HIDE DEF rows
  <2>4. Len(rows) <= Len(scan[s].sel)
    BY <2>3, RoomLeft
  <2>5. ASSUME NEW i \in DOMAIN rows
        PROVE  RowAccepted(rows[i]) /\ rows[i].photo = scan[s].sel[i]
    <3>1. CASE i = Len(scan[s].rows) + 1
      <4>1. rows[i] = row
        BY <2>3, <3>1
      <4> QED
        BY <3>1, <4>1 DEF Current
    <3>2. CASE i # Len(scan[s].rows) + 1
      <4>1. i \in DOMAIN scan[s].rows
        BY <2>2, <2>3, <3>2
      <4>2. rows[i] = scan[s].rows[i]
        BY <2>3, <4>1
      <4> QED
        BY <2>2, <4>1, <4>2
    <3> QED
      BY <3>1, <3>2
  <2> QED
    BY <2>3, <2>4, <2>5
<1> HIDE DEF rows
<1>3. /\ mem \in Memory /\ mem.pc = "loop" /\ mem.sel = scan[s].sel /\ mem.rows = rows
      /\ mem.todo = scan[s].todo /\ mem.stale = scan[s].stale /\ mem.created = scan[s].created
      /\ mem.spoilt = scan[s].spoilt /\ mem.from = "none"
  <2>1. scan[s].from = "none"
    BY Found DEF Working
  <2> QED
    BY <1>a, <1>2, <2>1 DEF Memory, Places
<1> HIDE DEF mem
<1>4. IF scan[s].created THEN holder'[s] = s /\ (own.exports # {} => own.root /\ own.marker)
      ELSE scan[s].spoilt \/ own.exports = {}
  BY <1>a DEF Good, Locked, Exported
<1>5. Sound(s, mem, own)
  <2>1. SoundRows(s, mem)
    BY <1>2, <1>3 DEF SoundRows, AtPhoto
  <2>2. SoundPlace(s, mem, own)
    BY <1>3, <1>4, Found, NothingStale DEF SoundPlace, RecoveryPlaces, Before, Working
  <2> QED
    BY <2>1, <2>2 DEF Sound
<1>6. Quiet(s, mem)
  BY <1>1, <1>3 DEF Quiet
<1>7. scan[s].pc \notin {"done", "dead"}
  BY DEF Working
<1> QED
  BY <1>5, <1>6, <1>7, OwnKeeps

\* The photo whose turn it is.
LEMMA CurrentPhoto ==
  ASSUME ScanInv, NEW s \in Scans, Rest(s) > 0 PROVE Current(s) \in Photos
<1>1. scan[s].sel \in Seq(Photos) /\ Len(scan[s].sel) \in Nat /\ Len(scan[s].rows) \in Nat
  BY Found, FoundRows DEF Memory
<1>2. Len(scan[s].rows) + 1 <= Len(scan[s].sel)
  BY RoomLeft
<1> QED
  BY <1>1, <1>2 DEF Current

LEMMA FailedPhotosKeep ==
  ASSUME ScanInv, NEW s \in Scans, Unread(s) \/ Unexported(s) PROVE ScanInv'
<1>1. scan[s].pc \in Working /\ Rest(s) > 0 /\ UNCHANGED <<runsRoot, fs, holder, ends>>
  BY DEF Unread, Unexported, At, files, Working, ScanInv, Good, Recorded, AtPhoto
<1>2. PICK code \in Codes :
        \E row \in {UnreadRow(Current(s), code), UnexportedRow(Current(s), code)} : Add(s, row)
  BY DEF Unread, Unexported, CodesTried, Codes
<1>5. PICK row \in {UnreadRow(Current(s), code), UnexportedRow(Current(s), code)} : Add(s, row)
  BY <1>2
<1>3. row \in ScannedRows /\ RowAccepted(row) /\ row.photo = Current(s)
  BY <1>1, FailedRows, CurrentPhoto
<1>4. fs[s] \in Files /\ fs' = [fs EXCEPT ![s] = fs[s]]
  BY <1>1, Found
<1> QED
  BY <1>1, <1>3, <1>4, <1>5, AddKeeps

LEMMA AnalyseKeeps ==
  ASSUME ScanInv, NEW s \in Scans, Analyse(s) PROVE ScanInv'
<1>1. /\ scan[s].pc \in Working /\ Rest(s) > 0 /\ UNCHANGED <<runsRoot, ends>>
  BY DEF Analyse, At, Working, ScanInv, Good, Recorded, AtPhoto
<1>2. PICK outcome \in OutcomesNow(s), unlinked \in BOOLEAN :
        LET row == AnalysedRow(Current(s), outcome, unlinked) IN
        /\ fs' = IF unlinked THEN [fs EXCEPT ![s].exports = @ \ {Current(s)}] ELSE fs
        /\ IF RowAccepted(row) THEN Add(s, row) /\ UNCHANGED holder ELSE Cleanup(s, "failed", "none")
  BY DEF Analyse, Unlink
<1> DEFINE row == AnalysedRow(Current(s), outcome, unlinked)
<1>b. outcome \in Outcomes
  <2>1. Failure("failed") \in Outcomes
    BY DEF Outcomes
  <2> QED
    BY <1>2, <2>1, ScanAssumption DEF OutcomesNow
<1>3. row \in ScannedRows /\ row.photo = Current(s)
  BY <1>1, <1>b, CurrentPhoto, AnalysedRows
<1>4. PICK own \in Files :
        /\ fs' = [fs EXCEPT ![s] = own] /\ own.exports \subseteq fs[s].exports
        /\ own.dir = fs[s].dir /\ own.root = fs[s].root /\ own.marker = fs[s].marker
  BY <1>2, Unlinked
<1>5. \/ RowAccepted(row) /\ Add(s, row) /\ UNCHANGED holder
      \/ Cleanup(s, "failed", "none")
  BY <1>2
<1> HIDE DEF row
<1>6. CASE RowAccepted(row) /\ Add(s, row) /\ UNCHANGED holder
  BY <1>1, <1>3, <1>4, <1>6, AddKeeps
<1>7. CASE Cleanup(s, "failed", "none")
  <2>1. "failed" \in Whys /\ "failed" # "complete"
    BY DEF Whys
  <2> QED
    BY <1>1, <1>4, <1>7, <2>1, CleanupKeeps
<1> QED
  BY <1>5, <1>6, <1>7

LEMMA DestinationKeeps ==
  ASSUME ScanInv, NEW s \in Scans, Destination(s) PROVE ScanInv'
<1>a. /\ scan[s].pc = "loop" /\ Rest(s) > 0 /\ scan[s] \in Memory /\ fs[s] \in Files
      /\ scan[s].created /\ fs[s].root /\ fs[s].marker /\ holder[s] = s
      /\ UNCHANGED <<runsRoot, fs, holder, ends>> /\ scan[s].from = "none"
  BY Found DEF Destination, At, Matches, ScanInv, Good, Locked, Working, files
<1> DEFINE mem == [scan[s] EXCEPT !.pc = "export"]
<1>1. scan' = [scan EXCEPT ![s] = mem]
  BY DEF Destination, Goto
<1>2. /\ mem \in Memory /\ mem.pc = "export" /\ mem.sel = scan[s].sel /\ mem.rows = scan[s].rows
      /\ mem.todo = scan[s].todo /\ mem.stale = scan[s].stale /\ mem.created = scan[s].created
      /\ mem.from = "none"
  BY <1>a DEF Memory, Places
<1> HIDE DEF mem
<1>3. Len(mem.sel) - Len(mem.rows) > 0
  BY <1>a, <1>2 DEF Rest
<1>4. SoundRows(s, mem)
  BY <1>2, <1>3, SameRows DEF AtPhoto
<1>5. SoundPlace(s, mem, fs[s])
  BY <1>a, <1>2, Found, NothingStale DEF SoundPlace, RecoveryPlaces, Before, Working
<1>6. Sound(s, mem, fs[s])
  BY <1>4, <1>5 DEF Sound
<1>7. Quiet(s, mem)
  BY <1>a, <1>1, <1>2 DEF Quiet
<1> QED
  BY <1>a, <1>6, <1>7, OwnKeeps, Found

LEMMA ExportKeeps ==
  ASSUME ScanInv, NEW s \in Scans, Export(s) PROVE ScanInv'
<1>a. /\ scan[s].pc = "export" /\ Rest(s) > 0 /\ scan[s] \in Memory /\ Good(s) /\ fs[s] \in Files
      /\ scan[s].created /\ fs[s].root /\ fs[s].marker /\ holder[s] = s
      /\ UNCHANGED <<runsRoot, holder, ends>> /\ scan[s].from = "none"
  BY Found DEF Export, At, Matches, ScanInv, Good, Locked, Recorded, AtPhoto, Working
<1> DEFINE own == [fs[s] EXCEPT !.exports = @ \cup {Current(s)}]
<1> DEFINE mem == [scan[s] EXCEPT !.pc = "analyse"]
<1>1. fs' = [fs EXCEPT ![s] = own] /\ scan' = [scan EXCEPT ![s] = mem]
  BY DEF Export, Goto
<1>2. /\ mem \in Memory /\ mem.pc = "analyse" /\ mem.sel = scan[s].sel /\ mem.rows = scan[s].rows
      /\ mem.todo = scan[s].todo /\ mem.stale = scan[s].stale /\ mem.created = scan[s].created
      /\ mem.from = "none"
  BY <1>a DEF Memory, Places
<1>3. Current(s) \in Photos
  BY <1>a, CurrentPhoto
<1>4. /\ own \in Files /\ own.root = fs[s].root /\ own.marker = fs[s].marker
      /\ own.dir = fs[s].dir /\ Current(s) \in own.exports
  BY <1>a, <1>3 DEF Files
<1> HIDE DEF mem, own
<1>b. Len(mem.sel) - Len(mem.rows) > 0 /\ mem.sel[Len(mem.rows) + 1] \in own.exports
  BY <1>a, <1>2, <1>4 DEF Rest, Current
<1>c. \A t \in scan[s].stale : ~Recoverable(t)
  BY <1>a, NothingStale DEF RecoveryPlaces
<1>d. SoundRows(s, mem)
  BY <1>2, <1>b, SameRows DEF AtPhoto
<1>e. SoundPlace(s, mem, own)
  BY <1>a, <1>2, <1>4, <1>b, <1>c, Found DEF SoundPlace, RecoveryPlaces, Before, Working
<1>5. Sound(s, mem, own)
  BY <1>d, <1>e DEF Sound
<1>6. Quiet(s, mem)
  BY <1>a, <1>1, <1>2 DEF Quiet
<1> QED
  BY <1>a, <1>1, <1>4, <1>5, <1>6, OwnKeeps
-----------------------------------------------------------------------------
(***************************************************************************)
(* The removal of a workspace.                                             *)
(***************************************************************************)

LEMMA EraseStopsKeeps ==
  ASSUME ScanInv, NEW s \in Scans, EraseStops(s) PROVE ScanInv'
<1>a. /\ scan[s].pc = "erase" /\ holder' = Released(s) /\ UNCHANGED <<runsRoot, fs, ends>>
      /\ scan[s] \in Memory /\ Good(s)
  BY Found DEF EraseStops, At, ScanInv
<1>1. PICK pc \in {"persist"} \cup Working, why \in Whys, spoilt \in BOOLEAN :
        /\ scan' = [scan EXCEPT ![s].pc = pc, ![s].why = why, ![s].from = "none",
                                ![s].created = FALSE, ![s].spoilt = spoilt]
        /\ \/ pc = "persist" /\ why \in {"failed", "interrupted"}
           \/ pc = scan[s].from /\ pc \in Working /\ spoilt
  <2>1. CASE \E why \in {"failed", "interrupted"} :
               scan' = [scan EXCEPT ![s].pc = "persist", ![s].why = why, ![s].from = "none",
                                    ![s].created = FALSE]
    <3>1. PICK why \in {"failed", "interrupted"} :
            scan' = [scan EXCEPT ![s] = [scan[s] EXCEPT !.pc = "persist", !.why = why,
                                           !.from = "none", !.created = FALSE]]
      BY <2>1
    <3>2. [scan[s] EXCEPT !.pc = "persist", !.why = why, !.from = "none", !.created = FALSE]
            = [scan[s] EXCEPT !.pc = "persist", !.why = why, !.from = "none", !.created = FALSE,
                              !.spoilt = scan[s].spoilt]
      BY <1>a DEF Memory
    <3>3. scan' = [scan EXCEPT ![s].pc = "persist", ![s].why = why, ![s].from = "none",
                               ![s].created = FALSE, ![s].spoilt = scan[s].spoilt]
      BY <3>1, <3>2
    <3>4. scan[s].spoilt \in BOOLEAN /\ why \in Whys
      BY <1>a DEF Memory, Whys
    <3> QED
      BY <3>3, <3>4
  <2>2. CASE /\ scan[s].from # "none"
             /\ scan' = [scan EXCEPT ![s].pc = scan[s].from, ![s].why = "complete",
                                     ![s].from = "none", ![s].created = FALSE, ![s].spoilt = TRUE]
    <3>1. scan[s].from \in Working /\ "complete" \in Whys
      BY <1>a, <2>2 DEF Memory, Whys
    <3> QED
      BY <2>2, <3>1
  <2> QED
    BY <2>1, <2>2 DEF EraseStops
<1> DEFINE mem == [scan[s] EXCEPT !.pc = pc, !.why = why, !.from = "none", !.created = FALSE,
                                  !.spoilt = spoilt]
<1>2. scan' = [scan EXCEPT ![s] = mem]
  BY <1>1
<1>3. /\ mem \in Memory /\ mem.pc = pc /\ mem.sel = scan[s].sel /\ mem.rows = scan[s].rows
      /\ mem.todo = scan[s].todo /\ mem.stale = scan[s].stale /\ mem.why = why
      /\ mem.from = "none" /\ ~mem.created /\ mem.spoilt = spoilt
  <2>1. pc \in Places
    BY <1>1 DEF Places, Working
  <2> QED
    BY <1>a, <2>1 DEF Memory
<1> HIDE DEF mem
<1>4. SoundPlace(s, mem, fs[s])
  <2>1. mem.pc \notin {"start", "done", "dead"} \cup Before
    BY <1>1, <1>3 DEF Working, Before, RecoveryPlaces
  <2>2. IF mem.pc = "persist" THEN mem.why \in {"failed", "interrupted"} ELSE mem.spoilt
    BY <1>1, <1>3 DEF Working
  <2> QED
    BY <1>a, <1>3, <2>1, <2>2, Found, NothingStale
       DEF SoundPlace, RecoveryPlaces, Before, Working
<1>5. SoundRows(s, mem)
  <2>1. AtPhoto(mem) => Rest(s) > 0
    BY <1>a, <1>1, <1>3 DEF Good, Recorded, AtPhoto
  <2>2. ~(mem.pc \in {"erase", "persist"} /\ mem.why = "complete")
    BY <1>1, <1>3 DEF Working
  <2> QED
    BY <1>3, <2>1, <2>2, SameRows DEF Rest
<1>6. Sound(s, mem, fs[s])
  BY <1>4, <1>5 DEF Sound
<1>7. Quiet(s, mem)
  BY <1>a, <1>2, <1>3 DEF Quiet
<1>8. fs[s] \in Files /\ fs' = [fs EXCEPT ![s] = fs[s]]
  BY <1>a, Found
<1>9. scan[s].pc \notin {"done", "dead"} /\ UNCHANGED <<runsRoot, ends>>
  BY <1>a
<1> QED
  BY <1>6, <1>7, <1>8, <1>9, OwnKeeps

\* A step of a scan whose memory, files and locks stay.
LEMMA StayKeeps ==
  ASSUME ScanInv, NEW s \in Scans, Frame(s), scan' = scan, holder' = holder,
         fs'[s] = fs[s], Ended(s)'
  PROVE  ScanInv'
<1>a. Good(s)
  BY DEF ScanInv
<1>1. Locked(s)' /\ Exported(s)'
  BY <1>a DEF Good, Locked, Exported, At, Current
<1>3. Recorded(s)'
  BY <1>a DEF Good, Recorded, Rest, AtPhoto
<1>2. Recovers(s)'
  <2>1. ASSUME NEW t \in scan[s].stale
        PROVE  /\ scan'[t].pc = "dead"
               /\ fs'[t].root /\ fs'[t].marker /\ fs'[t].lock => Recoverable(t)
    BY StaleStays
  <2> QED
    BY <1>a, <2>1 DEF Good, Recovers, At, Recoverable
<1> QED
  BY <1>1, <1>2, <1>3, StepKeeps DEF Good

LEMMA EraseEntryKeeps ==
  ASSUME ScanInv, NEW s \in Scans, RemoveEntry(s), scan[s].pc = "erase" PROVE ScanInv'
<1>a. /\ fs[s] \in Files /\ scan[s] \in Memory /\ (fs[s].root => fs[s].dir) /\ Erased(s) = s
      /\ UNCHANGED <<runsRoot, holder, scan, ends>> /\ Types
  BY Found DEF RemoveEntry, Erased, At
<1>1. PICK own \in Files :
        /\ fs' = [fs EXCEPT ![s] = own] /\ own.dir = fs[s].dir /\ own.root = fs[s].root
  <2>1. CASE fs' = [fs EXCEPT ![s].marker = FALSE]
    <3> DEFINE own == [fs[s] EXCEPT !.marker = FALSE]
    <3>1. own \in Files /\ own.dir = fs[s].dir /\ own.root = fs[s].root
      BY <1>a DEF Files
    <3>2. fs' = [fs EXCEPT ![s] = own]
      BY <2>1
    <3> HIDE DEF own
    <3> QED
      BY <3>1, <3>2
  <2>2. CASE fs' = [fs EXCEPT ![s].lock = FALSE]
    <3> DEFINE own == [fs[s] EXCEPT !.lock = FALSE]
    <3>1. own \in Files /\ own.dir = fs[s].dir /\ own.root = fs[s].root
      BY <1>a DEF Files
    <3>2. fs' = [fs EXCEPT ![s] = own]
      BY <2>2
    <3> HIDE DEF own
    <3> QED
      BY <3>1, <3>2
  <2>3. CASE \E p \in fs[s].exports : fs' = [fs EXCEPT ![s].exports = @ \ {p}]
    BY <2>3, Unlinked
  <2> QED
    BY <1>a, <2>1, <2>2, <2>3 DEF RemoveEntry
<1>2. scan' = [scan EXCEPT ![s] = scan[s]]
  BY <1>a DEF Types
<1>3. SoundPlace(s, scan[s], own)
  BY <1>a, <1>1, Found, NothingStale DEF SoundPlace, RecoveryPlaces, Before, Working
<1>4. Sound(s, scan[s], own)
  <2>1. /\ scan[s].why = "complete" /\ scan[s].from = "none" =>
             Len(scan[s].sel) - Len(scan[s].rows) = 0
        /\ AtPhoto(scan[s]) => Len(scan[s].sel) - Len(scan[s].rows) > 0
    BY DEF ScanInv, Good, Recorded, Rest
  <2> QED
    BY <1>a, <1>3, <2>1, SameRows DEF Sound
<1>5. Quiet(s, scan[s])
  BY <1>a, <1>2 DEF Quiet
<1> QED
  BY <1>a, <1>1, <1>4, <1>5, OwnKeeps

LEMMA EraseRootKeeps ==
  ASSUME ScanInv, NEW s \in Scans, RemoveRoot(s), scan[s].pc = "erase" PROVE ScanInv'
<1>a. /\ fs[s] \in Files /\ scan[s] \in Memory /\ Erased(s) = s /\ Good(s)
      /\ UNCHANGED <<runsRoot, ends>> /\ holder' = Released(s)
  BY Found DEF RemoveRoot, Erased, At, ScanInv
<1> DEFINE own == [fs[s] EXCEPT !.root = FALSE]
<1>1. fs' = [fs EXCEPT ![s] = own] /\ fs[s].exports = {}
  BY <1>a DEF RemoveRoot, NoFiles
<1>2. own \in Files /\ own.exports = {} /\ ~own.root
  BY <1>a, <1>1 DEF Files
<1> HIDE DEF own
<1> DEFINE pc == After(scan[s].why, scan[s].from)
<1> DEFINE mem == [scan[s] EXCEPT !.pc = pc, !.from = "none", !.created = FALSE]
<1>3. scan' = [scan EXCEPT ![s] = mem]
  BY <1>a DEF RemoveRoot, At
<1>b. \/ pc = "persist" /\ (scan[s].why = "complete" => scan[s].from = "none")
      \/ pc = scan[s].from /\ pc \in Working
  BY <1>a DEF After, Memory
<1> HIDE DEF pc
<1>4. /\ mem \in Memory /\ mem.pc = pc /\ mem.sel = scan[s].sel /\ mem.rows = scan[s].rows
      /\ mem.todo = scan[s].todo /\ mem.stale = scan[s].stale /\ mem.why = scan[s].why
      /\ mem.from = "none" /\ ~mem.created
  <2>1. pc \in Places
    BY <1>b DEF Places, Working
  <2> QED
    BY <1>a, <2>1 DEF Memory
<1> HIDE DEF mem
<1>5. SoundPlace(s, mem, own)
  <2>1. mem.pc \notin {"start", "done", "dead"} \cup Before
    BY <1>b, <1>4 DEF Working, Before, RecoveryPlaces
  <2> QED
    BY <1>a, <1>2, <1>4, <2>1, Found, NothingStale
       DEF SoundPlace, RecoveryPlaces, Before, Working
<1>6. SoundRows(s, mem)
  <2>1. AtPhoto(mem) => Rest(s) > 0
    BY <1>a, <1>b, <1>4 DEF Good, Recorded, AtPhoto
  <2>2. mem.pc \in {"erase", "persist"} /\ mem.why = "complete" => Rest(s) = 0
    BY <1>a, <1>b, <1>4 DEF Good, Recorded, Working
  <2> QED
    BY <1>4, <2>1, <2>2, SameRows DEF Rest
<1>7. Sound(s, mem, own)
  BY <1>5, <1>6 DEF Sound
<1>8. Quiet(s, mem)
  BY <1>a, <1>3, <1>4 DEF Quiet
<1> QED
  BY <1>a, <1>1, <1>2, <1>7, <1>8, OwnKeeps

\* A recovery removes what it holds of another scan's run.
Clears(s, t, mem, own) ==
  /\ mem \in Memory /\ scan' = [scan EXCEPT ![s] = mem] /\ holder' \in {holder, Released(s)}
  /\ own \in Files /\ fs' = [fs EXCEPT ![t] = own]
  /\ own.dir = fs[t].dir /\ own.exports \subseteq fs[t].exports /\ (own.root => fs[t].root)
  /\ (own.marker => fs[t].marker) /\ (own.lock => fs[t].lock)
  /\ UNCHANGED <<runsRoot, ends>>

LEMMA ClearFrame ==
  ASSUME ScanInv, NEW s \in Scans, scan[s].pc = "clear", NEW t, t = scan[s].target,
         NEW mem, NEW own, Clears(s, t, mem, own)
  PROVE  /\ Frame(s) /\ scan'[s] = mem /\ fs'[s] = fs[s]
         /\ t \in Scans \ {s} /\ fs'[t] = own
<1>a. Types /\ t \in Scans \ {s}
  BY DEF ScanInv, Good, Locked
<1>b. mem \in Memory /\ own \in Files
  BY DEF Clears
<1>1. scan' \in [Scans -> Memory] /\ scan'[s] = mem /\ \A u \in Scans \ {s} : scan'[u] = scan[u]
  BY <1>a, <1>b DEF Types, Clears
<1>2. /\ holder' \in [Scans -> Scans \cup {NoScan}]
      /\ \A u \in Scans : holder'[u] = holder[u] \/ holder[u] \in {s, NoScan}
  BY <1>a DEF Types, Released, Clears
<1>3. fs' \in [Scans -> Files] /\ fs'[t] = own /\ \A u \in Scans \ {t} : fs'[u] = fs[u]
  BY <1>a, <1>b DEF Types, Clears
<1>4. Shrinks(t)
  BY <1>3 DEF Shrinks, Clears
<1>5. Types'
  BY <1>a, <1>1, <1>2, <1>3 DEF Types, Clears, ends
<1>6. Frame(s)
  BY <1>1, <1>2, <1>3, <1>4, <1>5 DEF Frame, Clears, ends, At
<1> QED
  BY <1>a, <1>1, <1>3, <1>6

LEMMA ClearEntryKeeps ==
  ASSUME ScanInv, NEW s \in Scans, RemoveEntry(s), scan[s].pc = "clear" PROVE ScanInv'
<1> DEFINE t == scan[s].target
<1>a. /\ Types /\ scan[s] \in Memory /\ t \in Scans \ {s} /\ fs[t] \in Files /\ Erased(s) = t
      /\ UNCHANGED <<runsRoot, holder, scan, ends>>
  BY Found DEF RemoveEntry, Erased, At, ScanInv, Good, Locked, Types
<1>1. PICK own \in Files :
        /\ fs' = [fs EXCEPT ![t] = own]
        /\ own.dir = fs[t].dir /\ own.exports \subseteq fs[t].exports
        /\ (own.root => fs[t].root) /\ (own.marker => fs[t].marker) /\ (own.lock => fs[t].lock)
  <2>1. CASE fs' = [fs EXCEPT ![t].marker = FALSE]
    <3> DEFINE own == [fs[t] EXCEPT !.marker = FALSE]
    <3>1. /\ own \in Files /\ own.dir = fs[t].dir /\ own.exports \subseteq fs[t].exports
          /\ (own.root => fs[t].root) /\ (own.marker => fs[t].marker) /\ (own.lock => fs[t].lock)
      BY <1>a DEF Files
    <3>2. fs' = [fs EXCEPT ![t] = own]
      BY <2>1
    <3> HIDE DEF own
    <3> QED
      BY <3>1, <3>2
  <2>2. CASE fs' = [fs EXCEPT ![t].lock = FALSE]
    <3> DEFINE own == [fs[t] EXCEPT !.lock = FALSE]
    <3>1. /\ own \in Files /\ own.dir = fs[t].dir /\ own.exports \subseteq fs[t].exports
          /\ (own.root => fs[t].root) /\ (own.marker => fs[t].marker) /\ (own.lock => fs[t].lock)
      BY <1>a DEF Files
    <3>2. fs' = [fs EXCEPT ![t] = own]
      BY <2>2
    <3> HIDE DEF own
    <3> QED
      BY <3>1, <3>2
  <2>3. CASE \E p \in fs[t].exports : fs' = [fs EXCEPT ![t].exports = @ \ {p}]
    <3>1. PICK p \in fs[t].exports : fs' = [fs EXCEPT ![t].exports = @ \ {p}]
      BY <2>3
    <3> DEFINE own == [fs[t] EXCEPT !.exports = @ \ {p}]
    <3>2. /\ own \in Files /\ own.dir = fs[t].dir /\ own.exports \subseteq fs[t].exports
          /\ (own.root => fs[t].root) /\ (own.marker => fs[t].marker) /\ (own.lock => fs[t].lock)
      BY <1>a DEF Files
    <3>3. fs' = [fs EXCEPT ![t] = own]
      BY <3>1
    <3> HIDE DEF own
    <3> QED
      BY <3>2, <3>3
  <2> QED
    BY <1>a, <2>1, <2>2, <2>3 DEF RemoveEntry
<1>2. scan' = [scan EXCEPT ![s] = scan[s]] /\ holder' \in {holder, Released(s)}
  BY <1>a DEF Types
<1>b. t = scan[s].target
  OBVIOUS
<1> HIDE DEF t
<1>c. Clears(s, t, scan[s], own)
  BY <1>a, <1>1, <1>2 DEF Clears
<1>3. Frame(s) /\ fs'[s] = fs[s]
  BY <1>b, <1>c, ClearFrame
<1>4. Ended(s)'
  BY <1>a, NotEnded DEF ends
<1> QED
  BY <1>a, <1>3, <1>4, StayKeeps

LEMMA ClearRootKeeps ==
  ASSUME ScanInv, NEW s \in Scans, RemoveRoot(s), scan[s].pc = "clear" PROVE ScanInv'
<1> DEFINE t == scan[s].target
<1>a. /\ Types /\ scan[s] \in Memory /\ t \in Scans \ {s} /\ fs[t] \in Files /\ Erased(s) = t
      /\ UNCHANGED <<runsRoot, ends>> /\ holder' \in {holder, Released(s)} /\ Good(s)
  BY Found DEF RemoveRoot, Erased, At, ScanInv, Good, Locked, Types
<1> DEFINE own == [fs[t] EXCEPT !.root = FALSE]
<1>1. fs' = [fs EXCEPT ![t] = own]
  BY <1>a DEF RemoveRoot
<1>2. /\ own \in Files /\ own.dir = fs[t].dir /\ own.exports \subseteq fs[t].exports
      /\ ~own.root /\ (own.root => fs[t].root)
      /\ (own.marker => fs[t].marker) /\ (own.lock => fs[t].lock)
  BY <1>a DEF Files
<1> HIDE DEF own
<1> DEFINE mem == [scan[s] EXCEPT !.pc = "recover", !.todo = @ \ {t}]
<1>4. scan' = [scan EXCEPT ![s] = mem]
  BY <1>a DEF RemoveRoot, At
<1>5. /\ mem \in Memory /\ mem.pc = "recover" /\ mem.sel = scan[s].sel /\ mem.rows = scan[s].rows
      /\ mem.todo = scan[s].todo \ {t} /\ mem.stale = scan[s].stale
      /\ mem.from = "none"
  <2>1. scan[s].from = "none"
    BY Found
  <2> QED
    BY <1>a, <2>1 DEF Memory, Places
<1>b. t = scan[s].target
  OBVIOUS
<1> HIDE DEF mem, t
<1>6. Frame(s) /\ scan'[s] = mem /\ fs'[s] = fs[s] /\ fs'[t] = own
  <2>1. Clears(s, t, mem, own)
    BY <1>a, <1>1, <1>2, <1>4, <1>5 DEF Clears
  <2>2. Frame(s)
    BY <1>b, <2>1, ClearFrame
  <2>3. scan'[s] = mem
    BY <1>b, <2>1, ClearFrame
  <2>4. fs'[s] = fs[s] /\ fs'[t] = own
    BY <1>a, <1>1 DEF Types
  <2> QED
    BY <2>2, <2>3, <2>4
<1>7. Locked(s)' /\ Exported(s)'
  BY <1>a, <1>5, <1>6 DEF Good, Locked, Exported, At, Before, RecoveryPlaces, Working
<1>8. Recorded(s)'
  BY <1>5, <1>6, RowsStay
<1>9. Recovers(s)'
  <2>1. ASSUME NEW u \in scan[s].stale
        PROVE  /\ scan'[u].pc = "dead"
               /\ fs'[u].root /\ fs'[u].marker /\ fs'[u].lock => u \in mem.todo
    <3>1. Recoverable(u) => u \in scan[s].todo
      BY Found DEF RecoveryPlaces
    <3>2. /\ scan'[u].pc = "dead"
          /\ fs'[u].root /\ fs'[u].marker /\ fs'[u].lock => Recoverable(u)
      BY <1>6, StaleStays
    <3> QED
      BY <1>2, <1>5, <1>6, <3>1, <3>2
  <2> QED
    BY <1>a, <1>5, <1>6, <2>1 DEF Good, Recovers, At, Recoverable, RecoveryPlaces
<1>10. Ended(s)'
  BY NotEnded, <1>a DEF ends
<1> QED
  BY <1>6, <1>7, <1>8, <1>9, <1>10, StepKeeps DEF Good
-----------------------------------------------------------------------------
(***************************************************************************)
(* The manifest and its review.                                            *)
(***************************************************************************)

LEMMA PersistKeeps ==
  ASSUME ScanInv, NEW s \in Scans, Persist(s) PROVE ScanInv'
<1>a. /\ Types /\ Good(s) /\ scan[s] \in Memory /\ scan[s].pc = "persist" /\ holder' = Released(s)
      /\ UNCHANGED <<runsRoot, fs, reviewed>>
  BY Found DEF Persist, At, ScanInv
<1> DEFINE mem == [scan[s] EXCEPT !.pc = "done"]
<1>1. scan' = [scan EXCEPT ![s] = mem]
  BY DEF Persist, Goto
<1>2. /\ mem \in Memory /\ mem.pc = "done" /\ mem.sel = scan[s].sel /\ mem.rows = scan[s].rows
      /\ mem.todo = scan[s].todo /\ mem.stale = scan[s].stale
      /\ mem.from = "none"
  BY <1>a, Found DEF Memory, Places
<1> HIDE DEF mem
<1>3. scan' \in [Scans -> Memory] /\ scan'[s] = mem /\ \A u \in Scans \ {s} : scan'[u] = scan[u]
  BY <1>a, <1>1, <1>2 DEF Types
<1>4. /\ holder' \in [Scans -> Scans \cup {NoScan}]
      /\ \A t \in Scans : holder'[t] = holder[t] \/ holder[t] \in {s, NoScan}
  BY <1>a DEF Types, Released
<1>5. /\ manifest' = [u \in Scans |-> manifest'[u]] /\ result' = [u \in Scans |-> result'[u]]
      /\ manifest'[s] = Built(s) /\ result'[s] = Advised(s)
      /\ \A u \in Scans \ {s} : manifest'[u] = manifest[u] /\ result'[u] = result[u]
  <2>1. /\ manifest = [u \in Scans |-> manifest[u]] /\ result = [u \in Scans |-> result[u]]
        /\ manifest' = [manifest EXCEPT ![s] = Built(s)]
        /\ result' = [result EXCEPT ![s] = Advised(s)]
    BY <1>a DEF Types, Persist
  <2> QED
    BY <2>1
<1>6. Types'
  BY <1>a, <1>3, <1>4, <1>5 DEF Types
<1>7. Frame(s)
  BY <1>a, <1>3, <1>4, <1>5, <1>6 DEF Frame
<1>8. Locked(s)' /\ Exported(s)'
  BY <1>2, <1>3 DEF Locked, Exported, At, Before, RecoveryPlaces, Working
<1>9. Recorded(s)'
  BY <1>2, <1>3, RowsStay
<1>10. Recovers(s)'
  <2>1. \A t \in scan[s].stale : scan'[t].pc = "dead"
    BY <1>7, StaleStays
  <2> QED
    BY <1>a, <1>2, <1>3, <2>1 DEF Good, Recovers, At
<1>11. Ended(s)'
  <2>1. /\ Built(s) \in Manifests /\ ManifestAccepted(Built(s))
        /\ AdviceTrue(Built(s), Advised(s))
    BY <1>a, BuiltIsTrue DEF Good, At
  <2>2. reviewed'[s] = NoManifest
    BY <1>a DEF Good, Ended, At
  <2>3. AdviceTrue(manifest'[s], result'[s])
    BY <1>5, <2>1
  <2> QED
    BY <1>2, <1>3, <1>5, <2>1, <2>2, <2>3 DEF Ended, At, AdviceTrue
<1> QED
  BY <1>7, <1>8, <1>9, <1>10, <1>11, StepKeeps DEF Good

LEMMA ReviewKeeps ==
  ASSUME ScanInv, NEW s \in Scans, ReviewScan(s) PROVE ScanInv'
<1>a. /\ Types /\ Good(s) /\ manifest[s] # NoManifest
      /\ UNCHANGED <<runsRoot, fs, holder, scan, manifest, result>>
  BY DEF ReviewScan, files, ScanInv
<1>b. scan[s].pc = "done" /\ manifest[s] \in Manifests /\ ManifestAccepted(manifest[s])
  BY <1>a DEF Good, Ended, At
<1>1. PICK review \in {review_manifest(manifest[s], c) : c \in Selections(manifest[s])}
                      \cup {review_manifest_v4(manifest[s], a) : a \in OnePhotoApprovals(manifest[s])} :
        review.accepted /\ reviewed' = [reviewed EXCEPT ![s] = review.manifest]
  BY DEF ReviewScan
<1>2. ReviewTrue(manifest[s], review.manifest)
  BY <1>b, <1>1, ReviewsAreTrue
<1>3. /\ reviewed' = [u \in Scans |-> reviewed'[u]] /\ reviewed'[s] = review.manifest
      /\ \A u \in Scans \ {s} : reviewed'[u] = reviewed[u]
  <2>1. reviewed = [u \in Scans |-> reviewed[u]]
    BY <1>a DEF Types
  <2> QED
    BY <1>1, <2>1
<1>4. Types'
  BY <1>a, <1>3 DEF Types
<1>5. Frame(s)
  BY <1>a, <1>b, <1>3, <1>4 DEF Frame
<1>6. Ended(s)'
  <2>1. ReviewTrue(manifest[s], reviewed'[s])
    BY <1>2, <1>3
  <2> QED
    BY <1>a, <2>1 DEF Good, Ended, At, AdviceTrue, ReviewTrue
<1> QED
  BY <1>a, <1>5, <1>6, StayKeeps

-----------------------------------------------------------------------------
(***************************************************************************)
(* The invariant, and what it says of the scans.                           *)
(***************************************************************************)

LEMMA InitScanInv == Init => ScanInv
<1> SUFFICES ASSUME Init PROVE ScanInv
  OBVIOUS
<1>1. /\ Start \in Memory /\ Start.pc = "start" /\ Start.sel = <<>> /\ Start.rows = <<>>
      /\ Start.stale = {} /\ Start.todo = {} /\ Start.from = "none"
  <2>1. <<>> \in Seq(Photos) /\ <<>> \in Seq(ScannedRows)
    OBVIOUS
  <2> QED
    BY <2>1 DEF Start, Memory, Places, Whys
<1>2. NoFiles \in Files /\ NoFiles.exports = {} /\ ~NoFiles.root
  BY DEF NoFiles, Files
<1>3. Types
  BY <1>1, <1>2 DEF Init, Types
<1>4. ASSUME NEW s \in Scans PROVE Good(s)
  <2>1. /\ scan[s] = Start /\ fs[s] = NoFiles /\ manifest[s] = NoManifest
        /\ reviewed[s] = NoManifest
    BY DEF Init
  <2>2. Locked(s) /\ Exported(s)
    BY <1>1, <1>2, <2>1 DEF Locked, Exported, At, Working
  <2>3. Recorded(s)
    <3>1. Len(<<>>) = 0 /\ DOMAIN <<>> = {}
      OBVIOUS
    <3> QED
      BY <1>1, <2>1, <3>1 DEF Recorded, Distinct, AtPhoto
  <2>4. Recovers(s) /\ Ended(s)
    BY <1>1, <1>2, <2>1 DEF Recovers, Ended, At
  <2> QED
    BY <2>2, <2>3, <2>4 DEF Good
<1> QED
  BY <1>3, <1>4 DEF ScanInv

LEMMA StutterKeeps == ScanInv /\ UNCHANGED vars => ScanInv'
<1> SUFFICES ASSUME ScanInv, UNCHANGED vars PROVE ScanInv'
  OBVIOUS
<1> USE DEF vars
<1>1. Types'
  BY DEF ScanInv, Types
<1>2. ASSUME NEW s \in Scans PROVE Good(s)'
  <2>1. Good(s)
    BY DEF ScanInv
  <2>2. Locked(s)' /\ Exported(s)'
    BY <2>1 DEF Good, Locked, Exported, At, Current
  <2>4. Recorded(s)'
    BY <2>1 DEF Good, Recorded, Rest, AtPhoto
  <2>3. Recovers(s)' /\ Ended(s)'
    BY <2>1 DEF Good, Recovers, Ended, At, Recoverable, AdviceTrue, ReviewTrue
  <2> QED
    BY <2>2, <2>3, <2>4 DEF Good
<1> QED
  BY <1>1, <1>2 DEF ScanInv

LEMMA NextScanInv == ScanInv /\ [Next]_vars => ScanInv'
<1> SUFFICES ASSUME ScanInv, [Next]_vars PROVE ScanInv'
  OBVIOUS
<1>1. ASSUME NEW s \in Scans, Setup(s) PROVE ScanInv'
  BY <1>1, SelectKeeps, BridgeKeeps, RecoverSkipKeeps, RecoverLockKeeps, RecheckKeeps,
     RecoverEndsKeeps, EntryStepsKeep, EndingsKeep DEF Setup
<1>2. ASSUME NEW s \in Scans, Workspace(s) PROVE ScanInv'
  <2>1. CASE RemoveEntry(s)
    <3>1. scan[s].pc \in {"clear", "erase"}
      BY <2>1 DEF RemoveEntry
    <3> QED
      BY <2>1, <3>1, ClearEntryKeeps, EraseEntryKeeps
  <2>2. CASE RemoveRoot(s)
    <3>1. scan[s].pc \in {"clear", "erase"}
      BY <2>2 DEF RemoveRoot
    <3> QED
      BY <2>2, <3>1, ClearRootKeeps, EraseRootKeeps
  <2> QED
    BY <1>2, <2>1, <2>2, EntryStepsKeep, FlockKeeps, EraseStopsKeeps DEF Workspace
<1>3. ASSUME NEW s \in Scans, Work(s) PROVE ScanInv'
  BY <1>3, FailedPhotosKeep, StopsKeep, DestinationKeeps, ExportKeeps, ContextCancelledKeeps, AnalyseKeeps DEF Work
<1>4. ASSUME NEW s \in Scans, End(s) PROVE ScanInv'
  BY <1>4, PersistKeeps, ReviewKeeps, EndingsKeep DEF End
<1>5. CASE UNCHANGED vars
  BY <1>5, StutterKeeps
<1> QED
  BY <1>1, <1>2, <1>3, <1>4, <1>5 DEF Next

LEMMA ScanInvHolds == Spec => []ScanInv
BY InitScanInv, NextScanInv, PTL DEF Spec

\* Whatever other scans recover, however they and this one are interrupted or
\* killed, the export of the photo that a scan analyses is in its workspace while
\* the scan has one: TemporaryExportWorkspace.recover never takes the workspace of
\* a scan at work.  What takes it is the scan's own signal handler, which may let
\* the scan go on: then all its exports are gone, unless the removal failed, and
\* it makes no more.
THEOREM ExportsStay == Spec => []ExportsInUse
<1>1. ScanInv => ExportsInUse
  <2> SUFFICES ASSUME ScanInv PROVE ExportsInUse
    OBVIOUS
  <2>1. Types /\ \A s \in Scans : Good(s)
    BY DEF ScanInv
  <2>2. TypeOK
    <3>1. fs \in [Scans -> [dir : BOOLEAN, root : BOOLEAN, marker : BOOLEAN, lock : BOOLEAN,
                            exports : SUBSET Photos]]
      BY <2>1 DEF Types, Files
    <3>2. \A s \in Scans : scan[s].todo \subseteq Scans /\ scan[s].stale \subseteq Scans
      BY <2>1 DEF Types, Memory
    <3> QED
      BY <2>1, <3>1, <3>2 DEF TypeOK, Types
  <2> QED
    BY <2>1, <2>2 DEF ExportsInUse, Good, Exported, At
<1> QED
  BY <1>1, ScanInvHolds, PTL

\* A scan that is past TemporaryExportWorkspace.recover left none of the
\* workspaces of killed scans that it listed and no other recovery held.
THEOREM StaleGo == Spec => []StaleWorkspacesGo
<1>1. ScanInv => StaleWorkspacesGo
  BY DEF ScanInv, StaleWorkspacesGo, Good, Recovers, RecoveryPlaces
<1> QED
  BY <1>1, ScanInvHolds, PTL

\* Whatever its photos came to and however it ended, what run_scan persists is a
\* manifest its own reader accepts, complete when the scan was, with nothing
\* exported left behind it unless the cleanup of a signal handler failed.
THEOREM ScansAreRecorded == Spec => []ScanIsRecorded
<1>1. ScanInv => ScanIsRecorded
  <2> SUFFICES ASSUME ScanInv, NEW s \in Scans, At(s, "persist")
               PROVE  /\ ManifestAccepted(Built(s))
                      /\ scan[s].why = "complete" =>
                           [i \in DOMAIN scan[s].rows |-> scan[s].rows[i].photo] = scan[s].sel
                      /\ scan[s].why \in {"complete", "cancelled"} /\ ~scan[s].spoilt =>
                           fs[s].exports = {}
    BY DEF ScanIsRecorded
  <2>1. Types /\ Good(s) /\ scan[s] \in Memory
    BY Found DEF ScanInv
  <2>2. ManifestAccepted(Built(s))
    BY <2>1, BuiltIsTrue DEF Good
  <2>3. ASSUME scan[s].why = "complete"
        PROVE  [i \in DOMAIN scan[s].rows |-> scan[s].rows[i].photo] = scan[s].sel
    <3>1. /\ Len(scan[s].rows) = Len(scan[s].sel)
          /\ \A i \in DOMAIN scan[s].rows : scan[s].rows[i].photo = scan[s].sel[i]
      <4>1. Rest(s) = 0
        BY <2>1, <2>3 DEF Good, Recorded, At
      <4>2. Len(scan[s].rows) = Len(scan[s].sel)
        BY <4>1, FoundRows DEF Rest
      <4> QED
        BY <4>2, FoundRows
    <3>2. scan[s].sel \in Seq(Photos) /\ scan[s].rows \in Seq(ScannedRows)
      BY <2>1 DEF Memory
    <3>3. /\ DOMAIN scan[s].sel = DOMAIN scan[s].rows
          /\ scan[s].sel = [i \in DOMAIN scan[s].sel |-> scan[s].sel[i]]
      BY <3>1, <3>2
    <3> QED
      BY <3>1, <3>3
  <2>4. scan[s].why \in {"complete", "cancelled"} /\ ~scan[s].spoilt => fs[s].exports = {}
    BY <2>1 DEF Good, Exported
  <2> QED
    BY <2>2, <2>3, <2>4
<1> QED
  BY <1>1, ScanInvHolds, PTL

\* What run_scan advises is what a review of its manifest can do: it sends the
\* user to the review only when review_manifest would accept a selection of it.
THEOREM AdviceIsTrue == Spec => []AdviceMatchesReview
<1>1. ScanInv => AdviceMatchesReview
  BY DEF ScanInv, AdviceMatchesReview, Good, Ended, AdviceTrue
<1> QED
  BY <1>1, ScanInvHolds, PTL

\* A reviewed copy, by selection or by a person's approval of one photo, is one
\* that apply takes for this scan's, and claims for the model only what the
\* model proposed for that photo.
THEOREM ReviewsAreProven == Spec => []ReviewsAreAccepted
<1>1. ScanInv => ReviewsAreAccepted
  BY DEF ScanInv, ReviewsAreAccepted, Good, Ended, ReviewTrue, RowReviewed
<1> QED
  BY <1>1, ScanInvHolds, PTL

=============================================================================
