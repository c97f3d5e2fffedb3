---------------------------- MODULE QueueSession ----------------------------
(***************************************************************************)
(* One queue session: the ledger in memory, the ledger file, and what a    *)
(* client was last shown of it.                                            *)
(*                                                                         *)
(* Every public operation of QueueCoordinator changes the in-memory ledger *)
(* through one QueueSession method and then calls write_session and emits  *)
(* the new revision, all inside one hold of its state lock, so an action   *)
(* here is "mutate, write, emit".  write_session may fail at any point:    *)
(* before os.replace (the file keeps the old ledger) or after it, at the   *)
(* directory fsync (the file already has the new one); in both cases the   *)
(* exception escapes before the emit and memory keeps the mutation.        *)
(*                                                                         *)
(* Callers are unconstrained: any sequence of legal calls is a behaviour.  *)
(***************************************************************************)
EXTENDS QueueLedger

CONSTANTS
  Config,          \* session configurations a client can ask for
  StageState,      \* item states the scheduling code checkpoints
  MaxRevision,     \* 2^31 - 1 in the code
  MaxItemRevision  \* 2^31 - 1 in the code

ASSUME SessionConstants ==
  /\ \A c \in Config : c.photoCount \in Nat
  /\ Config # {}
  /\ StageState \subseteq ItemStates
  /\ MaxRevision \in Nat \ {0}
  /\ MaxItemRevision \in Nat \ {0}

VARIABLES
  ledger,  \* QueueSession in the helper's memory
  disk,    \* session.json
  client,  \* the announced ledger a client still goes by
  loaded   \* whether a helper has the session in memory

vars == <<ledger, disk, client, loaded>>

Ledger == [revision  : 0..MaxRevision,
           state     : SessionStates,
           config    : Config,
           items     : [ItemId -> Seq(ItemRevision)],
           decisions : SUBSET Decision]

NewLedger(c) ==
  [revision |-> 0, state |-> "running", config |-> c,
   items |-> [i \in ItemId |-> <<>>], decisions |-> {}]

\* Faulty: no limit, so the revision outgrows what a client accepts.
AdvancedUnbounded(L) == [L EXCEPT !.revision = @ + 1]

\* _advance_revision: at the limit the revision does not move.
Advanced(L) ==
  IF L.revision < MaxRevision THEN [L EXCEPT !.revision = @ + 1] ELSE L

-----------------------------------------------------------------------------

(***************************************************************************)
(* write_session, then the queue_session event.  Events reach a client in  *)
(* order but late, so it may go on using the one it has.                   *)
(***************************************************************************)
Announce(L) == client' \in {client, L}

\* Faulty: the event leaves before the ledger is safe.
EmitThenWrite(L) ==
  /\ Announce(L)
  /\ disk' \in {disk, L}

WriteThenEmit(L) ==
  \/ /\ disk' = L
     /\ Announce(L)
  \/ /\ disk' \in {disk, L}
     /\ UNCHANGED client

Commit(L) ==
  /\ loaded
  /\ ledger' = L
  /\ WriteThenEmit(L)
  /\ UNCHANGED loaded

\* A mutation advances the revision.  At the limit _advance_revision raises
\* after the ledger has changed: the change stays, nothing is written or sent.
Change(L) ==
  /\ Commit(Advanced(L))
  /\ ledger.revision >= MaxRevision => UNCHANGED <<disk, client>>

Enqueue(i) ==
  /\ CanEnqueue(ledger.items, i, ledger.config.photoCount)
  /\ Change([ledger EXCEPT !.items = WithNewCard(@, i, "discovered")])

\* A control carries the session revision its client last saw.
SetState(expected, s) ==
  /\ expected = ledger.revision
  /\ IF s = ledger.state THEN Commit(ledger)
                         ELSE Change([ledger EXCEPT !.state = s])

UpdateConfig(expected, c) ==
  /\ expected = ledger.revision
  /\ IF c = ledger.config THEN Commit(ledger)
                          ELSE Change([ledger EXCEPT !.config = c])

\* Faulty: only a state change advances the revision, not a new run.
CheckpointStateOnly(i, r, st, src) ==
  /\ IsCurrent(ledger.items, i, r)
  /\ LET items == WithCheckpoint(ledger.items, i, st, src)
         L     == [ledger EXCEPT !.items = items]
     IN  IF st = Current(ledger.items, i).state THEN Commit(L) ELSE Change(L)

\* Faulty: the checkpoint reaches the revision named by the caller.
CheckpointAnyRevision(i, r, st, src) ==
  /\ r \in DOMAIN ledger.items[i]
  /\ Change([ledger EXCEPT !.items[i][r] = [state |-> st, source |-> src]])

CheckpointItem(i, r, st, src) ==
  /\ IsCurrent(ledger.items, i, r)
  /\ LET items == WithCheckpoint(ledger.items, i, st, src)
     IN  IF items = ledger.items THEN Commit(ledger)
                                 ELSE Change([ledger EXCEPT !.items = items])

\* Faulty: a rescan is applied without keeping its idempotency record.
DecideUnrecorded(d) ==
  /\ Admissible(ledger.items, ledger.decisions, d)
  /\ d.action = "rescan" => Revision(ledger.items, d.item) < MaxItemRevision
  /\ Change([ledger EXCEPT !.items = WithDecision(@, d)])

\* A replay is emitted again and changes nothing; a conflicting, stale or
\* disallowed decision raises and changes nothing.
RecordDecision(d) ==
  \/ /\ IsReplay(ledger.decisions, d)
     /\ Commit(ledger)
  \/ /\ Admissible(ledger.items, ledger.decisions, d)
     /\ d.action = "rescan" => Revision(ledger.items, d.item) < MaxItemRevision
     /\ Change([ledger EXCEPT !.items     = WithDecision(@, d),
                              !.decisions = @ \cup {d}])

-----------------------------------------------------------------------------

\* The helper ends, or a failed resume discards what it had loaded.
Unload ==
  /\ loaded
  /\ loaded' = FALSE
  /\ ledger' = disk
  /\ UNCHANGED <<disk, client>>

\* queue_resume on an inactive session: load the file, set it running in
\* memory and announce it before anything is written (_resume_inactive,
\* _emit_persisted_recovery).
Resumed(L) ==
  IF L.state = "running" THEN L ELSE Advanced([L EXCEPT !.state = "running"])

Resume(expected) ==
  /\ ~loaded
  /\ expected = disk.revision
  /\ disk.state # "stopped"
  /\ disk.state = "running" \/ disk.revision < MaxRevision
  /\ loaded' = TRUE
  /\ ledger' = Resumed(disk)
  /\ Announce(Resumed(disk))
  /\ UNCHANGED disk

-----------------------------------------------------------------------------

Init ==
  /\ ledger \in {NewLedger(c) : c \in Config}
  /\ disk = ledger
  /\ client = ledger
  /\ loaded = TRUE

Next ==
  \/ \E i \in ItemId : Enqueue(i)
  \/ \E e \in 0..MaxRevision, s \in SessionStates \ {"attention"} : SetState(e, s)
  \/ \E e \in 0..MaxRevision, c \in Config : UpdateConfig(e, c)
  \/ \E i \in ItemId, r \in 1..MaxItemRevision, st \in StageState,
        src \in Run \cup {NoRun} : CheckpointItem(i, r, st, src)
  \/ \E d \in [id : DecisionId, item : ItemId, rev : 1..MaxItemRevision,
               action : Actions] : RecordDecision(d)
  \/ Unload
  \/ \E e \in 0..MaxRevision : Resume(e)

Spec == Init /\ [][Next]_vars

-----------------------------------------------------------------------------

TypeOK ==
  /\ ledger \in Ledger
  /\ disk \in Ledger
  /\ client \in Ledger
  /\ loaded \in BOOLEAN

(***************************************************************************)
(* A client that holds the current session revision has seen the current   *)
(* ledger: set_state and update_config accept a control on the revision    *)
(* alone, so an equal number must mean equal cards, decisions, state and   *)
(* settings - across failed writes, crashes, and resumes announced before  *)
(* they are saved.  The limit is excluded: _advance_revision raises there  *)
(* after the ledger has changed.                                           *)
(***************************************************************************)
RevisionNamesLedger ==
  loaded /\ client.revision = ledger.revision /\ ledger.revision < MaxRevision
    => client = ledger

(***************************************************************************)
(* Each revision of a card after the first was opened by exactly one       *)
(* rescan decision on the revision before it, and each recorded rescan     *)
(* opened one: replays, crashes and failed writes neither lose nor repeat  *)
(* a reanalysis.                                                           *)
(***************************************************************************)
RescanLineage(L) ==
  /\ \A d \in L.decisions : d.action = "rescan" => d.rev < Len(L.items[d.item])
  /\ \A i \in ItemId : \A r \in 2..Len(L.items[i]) :
       \E d \in L.decisions :
         /\ d.item = i /\ d.rev = r - 1 /\ d.action = "rescan"
         /\ \A e \in L.decisions :
              e.item = i /\ e.rev = r - 1 /\ e.action = "rescan" => e = d

RescansMatchRevisions == RescanLineage(ledger) /\ RescanLineage(disk)

(***************************************************************************)
(* Reanalysis keeps the previous attempt: no later step of the same helper *)
(* rewrites a superseded revision of a card.                               *)
(***************************************************************************)
SupersededRevisionsFrozen ==
  [][loaded /\ loaded' =>
       \A i \in ItemId : \A r \in 1..(Len(ledger.items[i]) - 1) :
         r \in DOMAIN ledger'.items[i] /\ ledger'.items[i][r] = ledger.items[i][r]]_vars
=============================================================================
