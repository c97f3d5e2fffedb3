---------------------------- MODULE QueueLedger ----------------------------
(***************************************************************************)
(* The rules of the queue ledger (src/src/photos_indexer/queue_session.py) *)
(* as operators over its two collections, shared by every module that      *)
(* keeps a ledger:                                                         *)
(*                                                                         *)
(*   items[i]   the revisions of card i, oldest first; <<>> before the     *)
(*              card is enqueued.  A revision is [state, source], source   *)
(*              being the analysis run it carries, or NoRun.  The revision *)
(*              number of the code is the position in the sequence:        *)
(*              enqueue starts at 1 and rescan appends revision + 1, the   *)
(*              only two places that add a QueueItem.                      *)
(*   decisions  the set of recorded decisions [id, item, rev, action].     *)
(*                                                                         *)
(* reviewed_run_id is left out: it is written beside the state and nothing *)
(* in the queue reads it back.                                             *)
(***************************************************************************)
EXTENDS Integers, Sequences, FiniteSets

CONSTANTS
  ItemId,      \* card identifiers
  DecisionId,  \* decision identifiers a client can choose
  Run,         \* analysis runs a revision can carry
  NoRun        \* source_run_id = None

ASSUME LedgerConstants ==
  /\ IsFiniteSet(ItemId)
  /\ NoRun \notin Run

ItemStates ==
  {"discovered", "queued", "preparing", "analyzing", "validating", "ready",
   "edited", "save_queued", "saving", "verified", "discarded", "failed",
   "uncertain"}

SessionStates == {"running", "paused", "stopped", "attention"}

TerminalStates == {"verified", "discarded"}

Actions == {"persist", "discard", "rescan"}

ItemRevision == [state : ItemStates, source : Run \cup {NoRun}]

Decision == [id : DecisionId, item : ItemId, rev : Nat, action : Actions]

-----------------------------------------------------------------------------

InSession(items, i) == items[i] # <<>>

Revision(items, i) == Len(items[i])

Current(items, i) == items[i][Len(items[i])]

\* current_item(item_id).revision == revision
IsCurrent(items, i, r) == InSession(items, i) /\ r = Revision(items, i)

\* The cards whose current revision is not terminal: they fill the window.
Active(items) ==
  {i \in ItemId : InSession(items, i)
                  /\ Current(items, i).state \notin TerminalStates}

CanEnqueue(items, i, photoCount) ==
  /\ ~InSession(items, i)
  /\ Cardinality(Active(items)) < photoCount

WithNewCard(items, i, st) ==
  [items EXCEPT ![i] = << [state |-> st, source |-> NoRun] >>]

\* checkpoint_item: the current revision's state, and its run when one is given.
WithCheckpoint(items, i, st, src) ==
  LET r   == Revision(items, i)
      old == items[i][r]
      new == [state  |-> st,
              source |-> IF src = NoRun THEN old.source ELSE src]
  IN  [items EXCEPT ![i] = [items[i] EXCEPT ![r] = new]]

-----------------------------------------------------------------------------

\* record_decision: the states each action may start from.
AllowedStates(action) ==
  CASE action = "persist" -> {"ready", "edited"}
    [] action = "rescan"  -> {"ready", "failed", "uncertain"}
    [] action = "discard" -> ItemStates \ {"save_queued", "saving", "verified", "discarded"}

\* The same identifier with the same command: the stored decision answers.
IsReplay(decisions, d) == d \in decisions

\* An identifier bound to another command is a conflict, and refused.
Admissible(items, decisions, d) ==
  /\ \A e \in decisions : e.id # d.id
  /\ IsCurrent(items, d.item, d.rev)
  /\ Current(items, d.item).state \in AllowedStates(d.action)

\* What an admitted decision does to its card.
WithDecision(items, d) ==
  CASE d.action = "persist" -> WithCheckpoint(items, d.item, "save_queued", NoRun)
    [] d.action = "discard" -> WithCheckpoint(items, d.item, "discarded", NoRun)
    [] d.action = "rescan"  ->
         [items EXCEPT ![d.item] = Append(@, [state |-> "queued", source |-> NoRun])]
=============================================================================
