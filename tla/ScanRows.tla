------------------------------ MODULE ScanRows ------------------------------
(* The rows a scan builds and the rules its manifest is read with:             *)
(* _prepare_photo_analysis and _analyze_prepared_photo (workflows.py), and the *)
(* validation PhotoRecord and ScanManifest do whenever they are built or read  *)
(* (manifest.py).                                                              *)
(*                                                                             *)
(* A row keeps what the decisions depend on: whether the photo's identity was  *)
(* read, the scan state, the proposed keywords as a set, the caption, whether  *)
(* a model is recorded, and the errors as <<stage, code>>.  A caption is       *)
(* "plain", or "named" when it passed the scan only because a name confirmed   *)
(* by Maps was masked (workflows.py:1116-1122): the reader checks the caption  *)
(* without that name (manifest.py:455).  Titles, dates, durations and the      *)
(* technical trace are left out.                                               *)
EXTENDS Integers, Sequences

CONSTANTS Photos,        \* the assets of the library
          ModelKeywords  \* what the model may propose

Codes == {"failed", "denied", "incompatible"}   \* any other, PHOTOS_AUTOMATION_DENIED, PHOTOSCRIPT_UNAVAILABLE
ScanStages == {"metadata", "export", "analysis"}

(* What a review adds to a row; a scan leaves it out.                          *)
NotReviewed == [reviewed |-> FALSE, keywords |-> {}, caption |-> "none",
                manual |-> {}, captionOrigin |-> "none"]

Row(p, identified, state, keywords, caption, routed, errors) ==
  [photo |-> p, identified |-> identified, state |-> state, keywords |-> keywords,
   caption |-> caption, routed |-> routed, errors |-> errors, review |-> NotReviewed]

-----------------------------------------------------------------------------
(* The row of one photo                                                        *)

(* PhotoScript did not answer, or answered for another photo: no identity.     *)
UnreadRow(p, code) == Row(p, FALSE, "analysis_failed", {}, "none", FALSE, {<<"metadata", code>>})

UnexportedRow(p, code) == Row(p, TRUE, "analysis_failed", {}, "none", FALSE, {<<"export", code>>})

(* What the context, the model and the post-processing may come to.            *)
Failure(code) == [kind |-> "failed", code |-> code]
LowConfidence == [kind |-> "low"]
Analysed(keywords, caption) == [kind |-> "analysed", keywords |-> keywords, caption |-> caption]

Outcomes ==
  {Failure(code) : code \in {"failed", "incompatible"}} \cup {LowConfidence}
  \cup {Analysed(k, c) : k \in SUBSET ModelKeywords, c \in {"none", "plain", "named"}}

Leftover(unlinked) == IF unlinked THEN {} ELSE {<<"cleanup", "EXPORT_DELETE_FAILED">>}

(* A failure keeps nothing of the model, a low confidence proposes nothing,    *)
(* and otherwise the row is ready when there is a keyword to propose.          *)
AnalysedRow(p, outcome, unlinked) ==
  CASE outcome.kind = "failed" ->
         Row(p, TRUE, "analysis_failed", {}, "none", FALSE,
             {<<"analysis", outcome.code>>} \cup Leftover(unlinked))
    [] outcome.kind = "low" ->
         Row(p, TRUE, "noop", {}, "none", TRUE, {<<"analysis", "LOW_CONFIDENCE">>} \cup Leftover(unlinked))
    [] outcome.kind = "analysed" ->
         Row(p, TRUE, IF outcome.keywords # {} THEN "ready" ELSE "noop",
             outcome.keywords, outcome.caption, TRUE, Leftover(unlinked))

-----------------------------------------------------------------------------
(* What the reader accepts                                                     *)

ReviewFieldsAccepted(row) ==
  row.review.reviewed =>
    /\ row.review.manual \subseteq row.keywords
    /\ row.review.caption # "named"
    /\ (row.caption = "none") = (row.review.captionOrigin = "none")

RowAccepted(row) ==
  /\ row.caption # "named"
  /\ row.caption # "none" => row.state \in {"ready", "noop"}
  /\ row.state = "ready" => row.identified /\ row.keywords # {}
  /\ row.state # "ready" => row.keywords = {}
  /\ row.state = "analysis_failed" => \E e \in row.errors : e[1] \in ScanStages
  /\ ~row.identified => row.state = "analysis_failed"
  /\ ReviewFieldsAccepted(row)

HasErrors(rows) == \E i \in DOMAIN rows : rows[i].errors # {}

(* A manifest: its schema (2 from a scan, 3 and 4 from a review), how many     *)
(* photos were eligible, its status, its run error and its rows.               *)
Manifest(schema, eligible, status, runError, rows) ==
  [schema |-> schema, eligible |-> eligible, status |-> status, runError |-> runError, rows |-> rows]

UniquePhotos(rows) == \A i, j \in DOMAIN rows : rows[i].photo = rows[j].photo => i = j

ManifestAccepted(m) ==
  /\ \A i \in DOMAIN m.rows : RowAccepted(m.rows[i])
  /\ m.status # "failed" => m.eligible = Len(m.rows) /\ m.runError = "none"
  /\ m.status = "failed" => Len(m.rows) <= m.eligible /\ m.runError # "none"
  /\ m.status = "ready" => ~HasErrors(m.rows)
  /\ m.status = "ready_with_errors" => HasErrors(m.rows)
  /\ UniquePhotos(m.rows)
  /\ m.schema = 4 => \A i \in DOMAIN m.rows : m.rows[i].review.reviewed

-----------------------------------------------------------------------------
(* What a scan that ended advises                                              *)

CodesOf(rows) == {e[2] : e \in UNION {rows[i].errors : i \in DOMAIN rows}}

Reviewable(row) == row.errors = {} /\ (row.state = "ready" \/ (row.state = "noop" /\ row.caption # "none"))

FaultyAdvice(rows) ==    \* mutant: rows with errors count as reviewable
  IF \E i \in DOMAIN rows : rows[i].state = "ready" \/ rows[i].caption # "none" THEN "review_then_apply"
  ELSE IF HasErrors(rows) THEN "fix_failed_scan"
  ELSE "none"

(* A missing permission comes first, then a broken PhotoScript.                *)
Advice(rows) ==
  IF "denied" \in CodesOf(rows) THEN "grant_photos_automation"
  ELSE IF "incompatible" \in CodesOf(rows) THEN "fix_fatal_error"
  ELSE IF \E i \in DOMAIN rows : Reviewable(rows[i]) THEN "review_then_apply"
  ELSE IF HasErrors(rows) THEN "fix_failed_scan"
  ELSE "none"

=============================================================================
