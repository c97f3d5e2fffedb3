---------------------------- MODULE PhotoJournal ----------------------------
(***************************************************************************)
(* What a reviewed manifest promises about the Photos library: a photo is  *)
(* changed by the program only while its row is open ("writing" or         *)
(* "removing" in the saved manifest), a row opens only from a state that   *)
(* says no write of that direction is outstanding, and once a row is       *)
(* "uncertain" the program never touches its photo again in that           *)
(* direction, whatever crashes, retries and edits happen in between.       *)
(* The owner of the library may edit it at any time.                       *)
(***************************************************************************)
EXTENDS Naturals

CONSTANTS JournalPhoto, Content

VARIABLES
  apply, rollback,  \* the two journal columns of each row
  content,          \* what Photos holds for each photo
  edits             \* how often the owner edited the library

journalVars == <<apply, rollback, content, edits>>

Untouched == {"not_run", "failed", "cancelled"}

\* The row reaches state s without a write, or is opened for one.
OpenApply(p, s) ==
  /\ apply[p] \in Untouched /\ rollback[p] = "not_run"
  /\ s \in {"noop", "failed", "cancelled", "writing"}
  /\ apply' = [apply EXCEPT ![p] = s]
  /\ UNCHANGED <<rollback, content, edits>>

CloseApply(p, s) ==
  /\ apply[p] = "writing" /\ s \in {"verified", "uncertain"}
  /\ apply' = [apply EXCEPT ![p] = s]
  /\ UNCHANGED <<rollback, content, edits>>

OpenRollback(p, s) ==
  /\ apply[p] = "verified" /\ rollback[p] \in Untouched
  /\ s \in {"already_absent", "casing_conflict", "failed", "cancelled",
            "uncertain", "removing"}
  /\ rollback' = [rollback EXCEPT ![p] = s]
  /\ UNCHANGED <<apply, content, edits>>

CloseRollback(p, s) ==
  /\ rollback[p] = "removing"
  /\ s \in {"verified_removed", "failed", "casing_conflict", "uncertain"}
  /\ rollback' = [rollback EXCEPT ![p] = s]
  /\ UNCHANGED <<apply, content, edits>>

ChangePhoto(p) ==
  /\ apply[p] = "writing" \/ rollback[p] = "removing"
  /\ \E c \in Content : content' = [content EXCEPT ![p] = c]
  /\ UNCHANGED <<apply, rollback, edits>>

EditPhoto(p) ==
  /\ \E c \in Content : content' = [content EXCEPT ![p] = c]
  /\ edits' = edits + 1
  /\ UNCHANGED <<apply, rollback>>

JournalInit ==
  /\ apply = [p \in JournalPhoto |-> "not_run"]
  /\ rollback = [p \in JournalPhoto |-> "not_run"]
  /\ content \in [JournalPhoto -> Content]
  /\ edits = 0

JournalNext ==
  \E p \in JournalPhoto :
    \/ \E s \in {"noop", "failed", "cancelled", "writing"} : OpenApply(p, s)
    \/ \E s \in {"verified", "uncertain"} : CloseApply(p, s)
    \/ \E s \in {"already_absent", "casing_conflict", "failed", "cancelled",
                 "uncertain", "removing"} : OpenRollback(p, s)
    \/ \E s \in {"verified_removed", "failed", "casing_conflict", "uncertain"} :
         CloseRollback(p, s)
    \/ ChangePhoto(p) \/ EditPhoto(p)

JournalSpec == JournalInit /\ [][JournalNext]_journalVars
=============================================================================
