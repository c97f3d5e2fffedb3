------------------------- MODULE MutationManifest -------------------------
(***************************************************************************)
(* One row of a reviewed manifest (PhotoRecord in manifest.py) as far as   *)
(* apply and rollback change it, the rules a saved row obeys, and the      *)
(* tests run_apply and run_rollback put to a loaded manifest.              *)
(*                                                                         *)
(* Keywords are members of a set and carry the canonical key the code      *)
(* compares them by; a caption is only "the approved one" or not, since    *)
(* applied_caption must equal proposed_caption.  A receipt digests the     *)
(* fields it covers, so it is the record of them, in a set that is empty   *)
(* while the row has none.  Every row of the manifest was scanned without  *)
(* an error: a row with one is skipped by apply and changes nothing.       *)
(***************************************************************************)
EXTENDS Naturals, FiniteSets

CONSTANTS
  PhotoCount,  \* rows of the manifest
  Keyword,     \* spellings of keywords
  Key,         \* canonical_keyword_key of each spelling
  Proposed,    \* the approved keywords of each row
  Captioned    \* the rows with an approved caption

Photo == 1..PhotoCount

Keys(K) == {Key[k] : k \in K}

ASSUME ManifestConstants ==
  /\ PhotoCount \in Nat
  /\ IsFiniteSet(Keyword)
  /\ DOMAIN Key = Keyword
  /\ Proposed \in [Photo -> SUBSET Keyword]
  /\ Captioned \subseteq Photo
  /\ \A p \in Photo : \A k, l \in Proposed[p] : Key[k] = Key[l] => k = l

ApplyStates ==
  {"not_run", "writing", "verified", "noop", "failed", "uncertain", "cancelled"}

RollbackStates ==
  {"not_run", "removing", "verified_removed", "already_absent",
   "casing_conflict", "failed", "uncertain", "cancelled"}

CaptionStates ==
  {"not_requested", "proposed", "verified", "preserved", "failed", "uncertain",
   "removed"}

MutationReceipt == [applied : SUBSET Keyword, wrote : BOOLEAN]

RollbackReceipt ==
  [state : RollbackStates, rolled : SUBSET Keyword, caption : CaptionStates,
   receipt : SUBSET MutationReceipt]

\* A row is "ready" when it has keywords; a "noop" row may have a caption.
HasPayload(p) == Proposed[p] # {} \/ p \in Captioned

\* wrote stands for applied_caption, applyError and rollbackError for the
\* errors of those two stages.
Row ==
  [apply : ApplyStates, applied : SUBSET Keyword,
   caption : CaptionStates, wrote : BOOLEAN, receipt : SUBSET MutationReceipt,
   rollback : RollbackStates, rolled : SUBSET Keyword,
   rollbackReceipt : SUBSET RollbackReceipt,
   applyError : {"none", "INTERRUPTED_WRITE", "other"}, rollbackError : BOOLEAN]

\* The row review_manifest writes.
Reviewed(p) ==
  [apply |-> "not_run", applied |-> {},
   caption |-> IF p \in Captioned THEN "proposed" ELSE "not_requested",
   wrote |-> FALSE, receipt |-> {}, rollback |-> "not_run", rolled |-> {},
   rollbackReceipt |-> {}, applyError |-> "none", rollbackError |-> FALSE]

-----------------------------------------------------------------------------
(***************************************************************************)
(* write_manifest reads back what it is about to save and raises when the  *)
(* reader would refuse it.                                                 *)
(***************************************************************************)

ErrorsLoad(row) ==
  /\ row.applyError # "none" =>
       row.apply \in {"writing", "uncertain", "failed", "cancelled"}
  /\ row.apply \in {"failed", "cancelled"} => row.applyError # "none"
  /\ row.rollbackError =>
       row.rollback \in {"removing", "uncertain", "failed", "cancelled", "casing_conflict"}

CaptionLoads(p, row) ==
  /\ p \in Captioned => row.caption # "not_requested"
  /\ row.caption \in {"proposed", "preserved"} => p \in Captioned /\ ~row.wrote
  /\ row.caption \in {"verified", "removed", "uncertain"} => row.wrote
  /\ row.wrote =>
       p \in Captioned /\ row.caption \in {"verified", "removed", "uncertain"}

StatesLoad(p, row) ==
  /\ row.applied \subseteq Proposed[p]
  /\ row.rolled \subseteq row.applied
  /\ row.apply \notin {"not_run", "noop"} => HasPayload(p)
  /\ IF row.apply = "verified"
     THEN /\ row.applied # {} \/ row.wrote
          /\ p \in Captioned =>
               \/ row.caption \in {"verified", "preserved", "removed"}
               \/ row.caption = "uncertain" /\ row.rollback # "not_run"
     ELSE /\ row.wrote =>
               /\ row.apply = "uncertain"
               /\ \/ row.caption = "uncertain"
                  \/ row.caption = "verified" /\ row.receipt # {}
          /\ row.applied # {} => row.apply = "uncertain"
          /\ row.rolled = {} /\ row.rollback = "not_run"
  /\ row.rollback = "not_run" =>
       row.rolled = {} /\ row.rollbackReceipt = {} /\ row.caption # "removed"

Loads(p, row) == ErrorsLoad(row) /\ CaptionLoads(p, row) /\ StatesLoad(p, row)

-----------------------------------------------------------------------------
(***************************************************************************)
(* Receipts.                                                               *)
(***************************************************************************)

MutationDigest(row) == {[applied |-> row.applied, wrote |-> row.wrote]}

RollbackDigest(row) ==
  {[state |-> row.rollback, rolled |-> row.rolled, caption |-> row.caption,
    receipt |-> row.receipt]}

\* An interrupted caption has no read-back, so no receipt is asked of it.
InterruptedCaption(row) ==
  /\ row.apply = "uncertain" /\ row.applied = {} /\ row.wrote
  /\ row.caption = "uncertain" /\ row.receipt = {}
  /\ row.applyError = "INTERRUPTED_WRITE"

EvidenceIsValid(row) ==
  /\ IF /\ row.apply \in {"verified", "uncertain"}
        /\ row.applied # {} \/ row.wrote
        /\ ~InterruptedCaption(row)
     THEN row.receipt = MutationDigest(row)
     ELSE row.receipt = {}
  /\ row.rollbackReceipt =
       IF row.rollback = "not_run" THEN {} ELSE RollbackDigest(row)

RollbackCauseKept(row) ==
  row.rollback \in {"failed", "uncertain", "cancelled", "casing_conflict"} => row.rollbackError

CauseKept(row) ==
  /\ row.apply \in {"failed", "uncertain", "cancelled"} => row.applyError # "none"
  /\ RollbackCauseKept(row)

-----------------------------------------------------------------------------
(***************************************************************************)
(* What a loaded manifest may still be used for.                           *)
(***************************************************************************)

Pristine(p, row) ==
  /\ row.apply = "not_run" /\ row.rollback = "not_run"
  /\ row.applied = {} /\ row.rolled = {} /\ ~row.wrote /\ row.receipt = {}
  /\ row.caption = IF p \in Captioned THEN "proposed" ELSE "not_requested"

\* What a row that stopped before any write looks like.
Retryable(p, row) ==
  \/ row.apply \in {"failed", "cancelled"}
  \/ row.apply = "not_run" /\ HasPayload(p)

CanRetry(rows) ==
  /\ \A p \in Photo :
       /\ rows[p].rollback = "not_run"
       /\ rows[p].apply \in {"not_run", "noop", "verified", "failed", "cancelled"}
       /\ rows[p].apply # "verified" => rows[p].receipt = {}
       /\ rows[p].apply \in {"failed", "cancelled"} => rows[p].applyError # "none"
  /\ \E p \in Photo : Retryable(p, rows[p])

CanRecover(rows) ==
  /\ \A p \in Photo :
       /\ rows[p].rollback = "not_run"
       /\ rows[p].apply \in {"not_run", "writing", "verified", "noop"}
  /\ \E p \in Photo : rows[p].apply = "writing"

ApplyAccepts(rows) ==
  /\ \A p \in Photo : EvidenceIsValid(rows[p]) /\ rows[p].rollback = "not_run"
  /\ \/ \A p \in Photo : Pristine(p, rows[p])
     \/ CanRetry(rows)
     \/ CanRecover(rows)

RollbackAccepts(rows) ==
  \A p \in Photo : EvidenceIsValid(rows[p]) /\ RollbackCauseKept(rows[p])

\* Faulty: also rows whose write may have happened.
ToApplyAgain(rows) ==
  {p \in Photo : rows[p].apply \in {"not_run", "failed", "cancelled", "uncertain"}}

ToApply(rows) == {p \in Photo : rows[p].apply \in {"not_run", "failed", "cancelled"}}

ToRollBack(rows) ==
  {p \in Photo : /\ rows[p].apply = "verified"
                 /\ rows[p].applied # {} \/ rows[p].wrote
                 /\ rows[p].rollback \in {"not_run", "failed", "cancelled"}}

-----------------------------------------------------------------------------
(***************************************************************************)
(* run_status: the next action it derives from the saved rows alone.       *)
(***************************************************************************)

CaptionStateInvalid(row) ==
  \/ row.caption = "preserved" /\ row.apply = "not_run"
  \/ row.caption = "proposed" /\ row.apply = "noop"
  \/ row.caption = "failed" /\ row.apply \in {"not_run", "noop"}

ApplyStatesOf(rows) ==
  {rows[p].apply : p \in {q \in Photo : HasPayload(q)
                                        \/ rows[q].apply \notin {"not_run", "noop"}}}

RollbackStatesOf(rows) ==
  {rows[p].rollback : p \in {q \in Photo : rows[q].apply = "verified"
                                           /\ (rows[q].applied # {} \/ rows[q].wrote)}}

Meets(S, T) == S \cap T # {}

\* Faulty: looks at pending rows before rollbacks that have begun.
NextActionPendingFirst(rows) ==
  IF Meets(ApplyStatesOf(rows), {"uncertain", "writing"}) THEN "manual_review"
  ELSE IF "not_run" \in ApplyStatesOf(rows) THEN "review_then_apply"
  ELSE "none"

NextAction(rows) ==
  LET applies == ApplyStatesOf(rows)
      rollbacks == RollbackStatesOf(rows)
  IN IF \E p \in Photo : ~CauseKept(rows[p]) THEN "MANIFEST_INVALID"
     ELSE IF \E p \in Photo : ~EvidenceIsValid(rows[p])
     THEN "rescan_after_mutation_evidence"
     ELSE IF \E p \in Photo : CaptionStateInvalid(rows[p])
     THEN "rescan_after_provenance"
     ELSE IF \/ Meets(applies, {"uncertain", "writing"})
             \/ Meets(rollbacks, {"uncertain", "removing", "casing_conflict"})
     THEN "manual_review"
     ELSE IF Meets(applies \cup rollbacks, {"failed", "cancelled"})
     THEN "retry_failed_operation"
     ELSE IF "not_run" \in rollbacks THEN "rollback_available"
     ELSE IF Meets(rollbacks, {"verified_removed", "already_absent"}) THEN "none"
     ELSE IF "not_run" \in applies THEN "review_then_apply"
     ELSE "none"
=============================================================================
