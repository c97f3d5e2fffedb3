------------------------------- MODULE Review -------------------------------
(* The reviewed copy of a scan's manifest (service.py) and what decides later  *)
(* that it still belongs to that scan (manifest.reviewed_rows_match_source,    *)
(* called by apply and by the import of a manifest).                           *)
(*                                                                             *)
(* review_manifest (schema 3) selects among what was proposed for any photos;  *)
(* review_manifest_v4 takes edited values for one photo.  A keyword is         *)
(* something the model proposed, something typed in, or one the policy refuses *)
(* (unsafe, or already on the photo).                                          *)
EXTENDS ScanRows

CONSTANTS TypedKeywords,    \* keywords only a person gives
          RefusedKeywords   \* keywords taxonomy.proposed_keywords drops

Refused == [accepted |-> FALSE]
Accepted(m) == IF ManifestAccepted(m) THEN [accepted |-> TRUE, manifest |-> m] ELSE Refused

(* Both refuse a source that failed, or that is itself a review.               *)
SourceAccepted(source) == source.status # "failed" /\ source.schema = 2

-----------------------------------------------------------------------------
(* Schema 3                                                                    *)

(* What is selected for a row: keywords, and whether its caption.              *)
Nothing == [keywords |-> {}, caption |-> FALSE]
Selects(choice) == choice.keywords # {} \/ choice.caption

SelectionAccepted(row, choice) ==
  Selects(choice) =>
    /\ row.errors = {} /\ row.identified
    /\ choice.keywords \subseteq row.keywords
    /\ choice.caption => row.caption # "none" /\ row.state \in {"ready", "noop"}

ReviewedRow(row, choice) ==
  [row EXCEPT !.keywords = choice.keywords,
              !.caption = IF choice.caption THEN row.caption ELSE "none",
              !.state = IF row.state # "ready" THEN row.state
                        ELSE IF choice.keywords # {} THEN "ready" ELSE "noop"]

review_manifest(source, choices) ==
  IF SourceAccepted(source) /\ \A i \in DOMAIN source.rows : SelectionAccepted(source.rows[i], choices[i])
  THEN Accepted([source EXCEPT !.schema = 3,
                               !.rows = [i \in DOMAIN source.rows |-> ReviewedRow(source.rows[i], choices[i])]])
  ELSE Refused

-----------------------------------------------------------------------------
(* Schema 4                                                                    *)

(* What is approved for a row: keywords and a caption, possibly edited.        *)
NoApproval == [keywords |-> {}, caption |-> "none"]
Approves(approval) == approval.keywords # {} \/ approval.caption # "none"

(* A photo whose analysis failed, and only that, may be catalogued by hand.    *)
ManualRecovery(row, approval) ==
  /\ row.identified /\ row.state = "analysis_failed" /\ Approves(approval)
  /\ row.keywords = {} /\ row.caption = "none"
  /\ row.errors # {} /\ \A e \in row.errors : e[1] = "analysis"

ApprovalAccepted(row, approval) ==
  /\ approval.keywords \cap RefusedKeywords = {}
  /\ Approves(approval) => row.identified /\ (row.errors = {} \/ ManualRecovery(row, approval))
  /\ Approves(approval) /\ row.state = "analysis_failed" => ManualRecovery(row, approval)

Origin(row, caption) ==
  IF caption = "none" THEN "none" ELSE IF caption = row.caption THEN "model" ELSE "manual"

FaultyApprovedRow(row, approval) ==    \* mutant: what was typed in is recorded as the model's
  [row EXCEPT !.keywords = approval.keywords, !.caption = approval.caption,
              !.state = IF ManualRecovery(row, approval) THEN "ready"
                        ELSE IF row.state # "ready" THEN row.state
                        ELSE IF approval.keywords # {} THEN "ready" ELSE "noop",
              !.review = [reviewed |-> TRUE, keywords |-> row.keywords, caption |-> row.caption,
                          manual |-> {}, captionOrigin |-> Origin(row, approval.caption)]]

ApprovedRow(row, approval) ==
  [row EXCEPT !.keywords = approval.keywords, !.caption = approval.caption,
              !.state = IF ManualRecovery(row, approval) THEN "ready"
                        ELSE IF row.state # "ready" THEN row.state
                        ELSE IF approval.keywords # {} THEN "ready" ELSE "noop",
              !.review = [reviewed |-> TRUE, keywords |-> row.keywords, caption |-> row.caption,
                          manual |-> approval.keywords \ row.keywords,
                          captionOrigin |-> Origin(row, approval.caption)]]

review_manifest_v4(source, approvals) ==
  IF SourceAccepted(source) /\ \A i \in DOMAIN source.rows : ApprovalAccepted(source.rows[i], approvals[i])
  THEN Accepted([source EXCEPT !.schema = 4,
                               !.rows = [i \in DOMAIN source.rows |-> ApprovedRow(source.rows[i], approvals[i])]])
  ELSE Refused

-----------------------------------------------------------------------------
(* Whether a review still matches its source                                   *)

ManualRecoveryMatches(original, row, schema) ==
  /\ schema = 4 /\ original.state = "analysis_failed" /\ original.identified
  /\ original.keywords = {} /\ original.caption = "none"
  /\ original.errors # {} /\ \A e \in original.errors : e[1] = "analysis"
  /\ row.state = "ready" /\ (row.keywords # {} \/ row.caption # "none")
  /\ row.review.manual = row.keywords
  /\ row.caption = "none" \/ row.review.captionOrigin = "manual"

RowMatches(original, row, schema) ==
  /\ row.photo = original.photo /\ row.identified = original.identified
  /\ row.routed = original.routed /\ row.errors = original.errors
  /\ IF schema = 4
     THEN /\ row.review.keywords = original.keywords /\ row.review.caption = original.caption
          /\ row.review.manual = row.keywords \ original.keywords
          /\ row.review.captionOrigin = Origin(original, row.caption)
     ELSE /\ row.keywords \subseteq original.keywords
          /\ row.caption \in {"none", original.caption}
  /\ \/ original.state = "ready" /\ row.state \in {"ready", "noop"}
     \/ ManualRecoveryMatches(original, row, schema)
     \/ row.state = original.state

reviewed_rows_match_source(source, reviewed) ==
  /\ source.status = reviewed.status /\ source.eligible = reviewed.eligible
  /\ UniquePhotos(source.rows) /\ Len(reviewed.rows) = Len(source.rows)
  /\ \A i \in DOMAIN reviewed.rows :
       \E j \in DOMAIN source.rows : RowMatches(source.rows[j], reviewed.rows[i], reviewed.schema)

(* Apply and the import look for the source among the runs and accept the      *)
(* review when it is such a source and matches.                                *)
ProvenanceAccepted(source, reviewed) ==
  SourceAccepted(source) /\ reviewed_rows_match_source(source, reviewed)

-----------------------------------------------------------------------------
(* What a person may ask for                                                   *)

Approvals == [keywords : SUBSET (ModelKeywords \cup TypedKeywords \cup RefusedKeywords),
              caption : {"none", "plain", "edited"}]

Selections(source) == [DOMAIN source.rows -> [keywords : SUBSET ModelKeywords, caption : BOOLEAN]]

OnePhotoApprovals(source) ==
  {[i \in DOMAIN source.rows |-> IF i = n THEN a ELSE NoApproval] : n \in DOMAIN source.rows, a \in Approvals}

(* There is something of this scan that a review would bring to apply.         *)
CanReview(source) ==
  \E choices \in Selections(source) :
    /\ \E i \in DOMAIN choices : Selects(choices[i])
    /\ review_manifest(source, choices).accepted

=============================================================================
