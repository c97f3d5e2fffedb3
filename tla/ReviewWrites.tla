---------------------------- MODULE ReviewWrites ----------------------------
(***************************************************************************)
(* What the queue promises about Photos: a photo is written for a card     *)
(* revision only after the user approved that revision, at most once, and  *)
(* never again once the approval is settled.  An approval is settled       *)
(* "verified" only by the write worker that served it; anything else, a    *)
(* restart included, leaves it "unknown" for good (README.md: "una         *)
(* escritura interrumpida queda uncertain y nunca se repite                *)
(* automáticamente").                                                      *)
(***************************************************************************)
EXTENDS Naturals

CONSTANT CardKey  \* card revisions

VARIABLES
  approval,  \* "none", "approved", "verified" or "unknown" per card revision
  written    \* how often Photos was written for it

reviewVars == <<approval, written>>

Approve(k) ==
  /\ approval[k] = "none"
  /\ approval' = [approval EXCEPT ![k] = "approved"]
  /\ UNCHANGED written

Write(k) ==
  /\ approval[k] = "approved" /\ written[k] = 0
  /\ written' = [written EXCEPT ![k] = 1]
  /\ UNCHANGED approval

Settle(k) ==
  /\ approval[k] = "approved"
  /\ approval' = [approval EXCEPT ![k] = "verified"]
  /\ UNCHANGED written

\* A restart gives up every open approval at once.
GiveUp(K) ==
  /\ K # {} /\ \A k \in K : approval[k] = "approved"
  /\ approval' = [k \in CardKey |-> IF k \in K THEN "unknown" ELSE approval[k]]
  /\ UNCHANGED written

ReviewInit ==
  /\ approval = [k \in CardKey |-> "none"]
  /\ written = [k \in CardKey |-> 0]

ReviewNext ==
  \/ \E k \in CardKey : Approve(k) \/ Write(k) \/ Settle(k)
  \/ \E K \in SUBSET CardKey : GiveUp(K)

ReviewSpec == ReviewInit /\ [][ReviewNext]_reviewVars
=============================================================================
