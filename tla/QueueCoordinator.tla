-------------------------- MODULE QueueCoordinator --------------------------
(***************************************************************************)
(* The continuous-review scheduler (queue_coordinator.py) with the runtime *)
(* around it (queue_runtime.py): the threads of one helper process over    *)
(* one session, its crashes and its recovery.                              *)
(*                                                                         *)
(* Each hold of the coordinator's state lock is one action.  A thread that *)
(* leaves the lock to wait for Photos, for an inference or for a write has *)
(* a program counter, so everything the others do meanwhile is explored:   *)
(*                                                                         *)
(*   fill      the one thread inside _fill_slots (it holds _fill_lock)     *)
(*   sched     the one active _schedule_available (_scheduling_operations) *)
(*   inflight  the analyses in the inference pool (_futures)               *)
(*   persist   one thread per queue_persist request                        *)
(*   callers   how many threads are about to enter _fill_slots (start's    *)
(*             apart), about to enter _schedule_available, and about to    *)
(*             enter it from a finished analysis (_completion_scheduling)  *)
(*                                                                         *)
(* The ledger variables are durable: write_session runs inside the same    *)
(* hold of the lock as every change (QueueSession models the failing       *)
(* writes).  An analysis run is known by the photo it analysed, so the     *)
(* set Run of QueueLedger is the set of photos discovery would offer.      *)
(***************************************************************************)
EXTENDS QueueLedger

CONSTANTS
  LastItem,         \* ItemId is 1..LastItem: cards are numbered as enqueued
  Unresolved,       \* a _RecoveredQueueCandidate without its photo
  Persister,        \* threads serving queue_persist
  Config,           \* [photoCount, concurrency, autoAnalyze]
  WriteResult,      \* what an apply can report: "verified", "unverified"
  LostRuns,         \* sets of runs that may have disappeared before a restart
  PhotosMayFail,    \* whether a discovery may raise
  Commands,         \* user commands explored
  MaxItemRevision,  \* bound on reanalyses of a card
  MaxCommands,      \* bound on user commands
  MaxCrashes        \* bound on helper crashes

Photo == Run
None == NoRun

ASSUME CoordinatorConstants ==
  /\ LastItem \in Nat /\ ItemId = 1..LastItem
  /\ IsFiniteSet(Photo) /\ Photo \subseteq Nat  \* in the order Photos offers them
  /\ Unresolved \notin Photo \cup {None}
  /\ \A c \in Config : /\ c.photoCount \in Nat \ {0}
                       /\ c.concurrency \in Nat \ {0}
                       /\ c.autoAnalyze \in BOOLEAN
  /\ WriteResult \subseteq {"verified", "unverified"}
  /\ LostRuns \subseteq SUBSET Photo
  /\ PhotosMayFail \in BOOLEAN
  /\ Commands \subseteq {"persist", "discard", "rescan", "pause", "resume",
                          "update", "stop"}
  /\ MaxItemRevision \in Nat \ {0} /\ MaxCommands \in Nat /\ MaxCrashes \in Nat

VARIABLES
  session,     \* session.state
  config,      \* session.config
  items,       \* session.items
  decisions,   \* session.decisions
  helper,      \* the session in the helper: "up"; during queue_stop "closing"
               \* (wait), "draining" (write pool shut), "closed" (inference
               \* pool shut), then "gone"; "aborting" after a failed start;
               \* "down" when no helper has it loaded
  candidate,   \* _candidates of each card's current revision
  manifest,    \* whether _manifests holds each card's current revision
  deferred,    \* _deferred_candidates
  seen,        \* seen_local_ids
  lane,        \* who is inside _PhotosLane
  fill, sched, inflight, callers, persist,
  writeQueue,  \* the write executor's queue
  writes,      \* history: write operations started per card revision
  commands, crashes

ledgerVars  == <<session, config, items, decisions>>
photoVars   == <<candidate, manifest, deferred, seen>>
threadVars  == <<fill, sched, inflight, callers>>
writeVars   == <<persist, writeQueue>>
boundVars   == <<commands, crashes>>
vars == <<ledgerVars, photoVars, threadVars, writeVars, boundVars,
          helper, lane, writes>>

CardKey == ItemId \X (1..MaxItemRevision)

Least(a, b) == IF a < b THEN a ELSE b

AtLeast0(n) == IF n < 0 THEN 0 ELSE n

\* A set of numbers as an ascending sequence.
Ascending(S) ==
  CHOOSE q \in [1..Cardinality(S) -> S] :
    \A a, b \in 1..Cardinality(S) : a < b => q[a] < q[b]

First(S, n) == {x \in S : Cardinality({y \in S : y < x}) < n}

-----------------------------------------------------------------------------
(***************************************************************************)
(* Photos lane.                                                            *)
(***************************************************************************)

WaitingWriters == {t \in Persister : persist[t].pc # "idle"}

\* _PhotosLane.read gives up at once when a writer waits ...
ReadDeferred == WaitingWriters # {}

\* ... and otherwise waits until the lane is free.
ReadAdmitted == WaitingWriters = {} /\ lane = "free"

(***************************************************************************)
(* The runtime's discover: photos of the library not offered before in     *)
(* this process, as many as asked for.  Unused card identifiers bound how  *)
(* many are taken (LastItem).                                              *)
(***************************************************************************)
Enqueued == {i \in ItemId : InSession(items, i)}

Discovered(count) ==
  {S \in SUBSET (Photo \ seen) :
     Cardinality(S) = Least(count, Cardinality(Photo \ seen))}

Running == session = "running"

\* running and auto_analyze: when _schedule_available may work.
Scheduling == Running /\ config.autoAnalyze

-----------------------------------------------------------------------------
(***************************************************************************)
(* _fill_slots.                                                            *)
(***************************************************************************)
NoFill == [pc |-> "idle", kind |-> "fill", missing |-> 0, taken |-> 0, found |-> <<>>]

FillReturns ==
  /\ fill' = NoFill
  /\ callers' = [callers EXCEPT !.schedule = @ + 1]

Missing == AtLeast0(config.photoCount - Cardinality(Active(items)))

FillEnter(kind) ==
  /\ callers[kind] > 0 /\ fill.pc = "idle"
  /\ LET missing == Missing
         taken   == Least(missing, Len(deferred))
         room    == LastItem - Cardinality(Enqueued) - Len(deferred)
     IN  IF ~Running \/ missing = 0
         THEN /\ fill' = NoFill
              /\ callers' = [callers EXCEPT ![kind] = @ - 1, !.schedule = @ + 1]
         ELSE /\ fill' = [kind    |-> kind,
                          pc      |-> IF taken < missing THEN "read" ELSE "admit",
                          missing |-> Least(missing - taken, room),
                          taken   |-> taken,
                          found   |-> <<>>]
              /\ callers' = [callers EXCEPT ![kind] = @ - 1]
  /\ UNCHANGED <<ledgerVars, photoVars, writeVars, boundVars, sched, inflight,
                 helper, lane, writes>>

FillRead ==
  /\ fill.pc = "read"
  /\ \/ ReadDeferred /\ fill' = [fill EXCEPT !.pc = "admit"] /\ UNCHANGED lane
     \/ ReadAdmitted /\ fill' = [fill EXCEPT !.pc = "discover"] /\ lane' = "fill"
  /\ UNCHANGED <<ledgerVars, photoVars, writeVars, boundVars, sched, inflight,
                 callers, helper, writes>>

FillDiscover ==
  /\ fill.pc = "discover"
  /\ \E S \in Discovered(fill.missing) :
       /\ seen' = seen \cup S
       /\ fill' = [fill EXCEPT !.pc = "admit", !.found = Ascending(S)]
  /\ lane' = "free"
  /\ UNCHANGED <<ledgerVars, writeVars, boundVars, candidate, manifest, deferred,
                 sched, inflight, callers, helper, writes>>

\* Photos access fails: the photos read so far stay in seen_local_ids and the
\* exception ends the caller, which schedules nothing.  In start it also takes
\* the session out of the runtime.
FillRaises ==
  /\ PhotosMayFail
  /\ fill.pc = "discover"
  /\ \E S \in SUBSET (Photo \ seen) : seen' = seen \cup S
  /\ fill' = NoFill
  /\ lane' = "free"
  /\ helper' = IF fill.kind = "start" /\ helper = "up" THEN "aborting" ELSE helper
  /\ UNCHANGED <<ledgerVars, writeVars, boundVars, candidate, manifest, deferred,
                 sched, inflight, callers, writes>>

FillAdmit ==
  /\ fill.pc = "admit"
  /\ LET offers == SubSeq(deferred, 1, fill.taken) \o fill.found
         n      == IF Running THEN Least(Len(offers), Missing) ELSE 0
         first  == Cardinality(Enqueued)
         new    == (first + 1)..(first + n)
         from   == IF n > fill.taken THEN n ELSE fill.taken
     IN  /\ items' = [i \in ItemId |->
                        IF i \in new
                        THEN << [state |-> "discovered", source |-> None] >>
                        ELSE items[i]]
         /\ candidate' = [i \in ItemId |->
                            IF i \in new THEN offers[i - first] ELSE candidate[i]]
         /\ deferred' = SubSeq(deferred, Least(n, fill.taken) + 1, Len(deferred))
                          \o SubSeq(offers, from + 1, Len(offers))
  /\ FillReturns
  /\ UNCHANGED <<writeVars, boundVars, session, config, decisions, manifest, seen,
                 sched, inflight, helper, lane, writes>>

-----------------------------------------------------------------------------
(***************************************************************************)
(* _schedule_available.                                                    *)
(***************************************************************************)
NoSched == [pc |-> "idle", batch |-> <<>>, again |-> FALSE]

\* A caller checks the session and the active scheduler under the lock.
ScheduleEnter(kind) ==
  /\ callers[kind] > 0
  /\ callers' = [callers EXCEPT ![kind] = @ - 1]
  /\ sched' = CASE ~Scheduling         -> sched
                [] sched.pc # "idle"   -> [sched EXCEPT !.again = TRUE]
                [] OTHER               -> [sched EXCEPT !.pc = "pick"]
  /\ UNCHANGED <<ledgerVars, photoVars, writeVars, boundVars, fill, inflight,
                 helper, lane, writes>>

Pending == {i \in Enqueued : /\ Current(items, i).state \in {"discovered", "queued"}
                             /\ candidate[i] # None}

Preparing == {i \in Enqueued : Current(items, i).state = "preparing"}

Capacity ==
  AtLeast0(config.concurrency - Cardinality(inflight) - Cardinality(Preparing))

WithStates(S, st) ==
  [i \in ItemId |-> IF i \in S THEN WithCheckpoint(items, i, st, None)[i]
                               ELSE items[i]]

SchedulePick ==
  /\ sched.pc = "pick"
  /\ IF ~Scheduling
     THEN /\ sched' = [sched EXCEPT !.pc = "leave"]
          /\ UNCHANGED items
     ELSE LET picked == First(Pending, Capacity)
              order  == Ascending(picked)
          IN  /\ items' = WithStates(picked, "preparing")
              /\ sched' = [sched EXCEPT
                   !.pc    = "each",
                   !.batch = [k \in DOMAIN order |->
                                <<order[k], Revision(items, order[k])>>]]
  /\ UNCHANGED <<photoVars, writeVars, boundVars, session, config, decisions, fill,
                 inflight, callers, helper, lane, writes>>

\* The break out of the loop: the finally block releases the scheduler
\* without reading _reschedule_requested.
ScheduleLeave ==
  /\ sched.pc = "leave"
  /\ sched' = [sched EXCEPT !.pc = "idle"]
  /\ UNCHANGED <<ledgerVars, photoVars, writeVars, boundVars, fill, inflight,
                 callers, helper, lane, writes>>

\* Faulty: the end of a pass releases the scheduler without the follow-up.
ScheduleEndForgetful ==
  /\ sched.pc = "each" /\ sched.batch = <<>>
  /\ sched' = NoSched
  /\ UNCHANGED <<ledgerVars, photoVars, writeVars, boundVars, fill, inflight,
                 callers, helper, lane, writes>>

ScheduleEnd ==
  /\ sched.pc = "each" /\ sched.batch = <<>>
  /\ sched' = IF sched.again THEN [NoSched EXCEPT !.pc = "pick"] ELSE NoSched
  /\ UNCHANGED <<ledgerVars, photoVars, writeVars, boundVars, fill, inflight,
                 callers, helper, lane, writes>>

\* Faulty: preparation enters the lane without looking for waiting writers.
PrepareReadIgnoringLane ==
  /\ sched.pc = "each" /\ sched.batch # <<>>
  /\ sched' = [sched EXCEPT !.pc = "prepare"]
  /\ lane' = "prepare"
  /\ UNCHANGED <<ledgerVars, photoVars, writeVars, boundVars, fill, inflight,
                 callers, helper, writes>>

PrepareRead ==
  /\ sched.pc = "each" /\ sched.batch # <<>>
  /\ \/ ReadDeferred /\ sched' = [sched EXCEPT !.pc = "defer"] /\ UNCHANGED lane
     \/ ReadAdmitted /\ sched' = [sched EXCEPT !.pc = "prepare"] /\ lane' = "prepare"
  /\ UNCHANGED <<ledgerVars, photoVars, writeVars, boundVars, fill, inflight,
                 callers, helper, writes>>

\* The card the scheduler is working on.
Card     == Head(sched.batch)[1]
CardRev  == Head(sched.batch)[2]
CardLive == /\ IsCurrent(items, Card, CardRev)
            /\ Current(items, Card).state \notin TerminalStates

NextCard == [sched EXCEPT !.pc = "each", !.batch = Tail(@)]

\* _restore_queued_if_current
RestoreQueued ==
  /\ sched.pc = "defer"
  /\ items' = IF CardLive /\ Current(items, Card).state = "preparing"
              THEN WithCheckpoint(items, Card, "queued", None)
              ELSE items
  /\ sched' = NextCard
  /\ UNCHANGED <<photoVars, writeVars, boundVars, session, config, decisions, fill,
                 inflight, callers, helper, lane, writes>>

\* prepare: a recovered card first takes a photo, then the photo is exported.
Prepare ==
  /\ sched.pc = "prepare"
  /\ \/ /\ candidate[Card] \in Photo
        /\ \E pc \in {"submit", "fail"} : sched' = [sched EXCEPT !.pc = pc]
        /\ UNCHANGED <<candidate, seen>>
     \/ /\ candidate[Card] = Unresolved
        /\ \E S \in Discovered(1) :
             \/ /\ S = {}
                /\ sched' = [sched EXCEPT !.pc = "fail"]
                /\ UNCHANGED <<candidate, seen>>
             \/ \E p \in S, pc \in {"submit", "fail"} :
                  /\ candidate' = [candidate EXCEPT ![Card] = p]
                  /\ seen' = seen \cup {p}
                  /\ sched' = [sched EXCEPT !.pc = pc]
        \* the discovery of a replacement fails
     \/ /\ PhotosMayFail
        /\ candidate[Card] = Unresolved
        /\ \E S \in SUBSET (Photo \ seen) : seen' = seen \cup S
        /\ sched' = [sched EXCEPT !.pc = "fail"]
        /\ UNCHANGED candidate
  /\ lane' = "free"
  /\ UNCHANGED <<ledgerVars, writeVars, boundVars, manifest, deferred, fill,
                 inflight, callers, helper, writes>>

\* The inference pool is shut down last, when a stopped session closes.
PoolOpen == helper \in {"up", "closing", "draining", "aborting"}

\* A discarded card is submitted too: analyze owns the workspace finalizer.
Submit ==
  /\ sched.pc = "submit"
  /\ items' = IF CardLive THEN WithCheckpoint(items, Card, "analyzing", None) ELSE items
  /\ IF PoolOpen
     THEN /\ inflight' = inflight \cup
                 {[item |-> Card, rev |-> CardRev, photo |-> candidate[Card]]}
          /\ sched' = NextCard
     ELSE /\ sched' = [sched EXCEPT !.pc = "leave", !.batch = <<>>]
          /\ UNCHANGED inflight
  /\ UNCHANGED <<photoVars, writeVars, boundVars, session, config, decisions, fill,
                 callers, helper, lane, writes>>

\* _fail_if_current
PrepareFailed ==
  /\ sched.pc = "fail"
  /\ items' = IF CardLive THEN WithCheckpoint(items, Card, "failed", None) ELSE items
  /\ sched' = NextCard
  /\ UNCHANGED <<photoVars, writeVars, boundVars, session, config, decisions, fill,
                 inflight, callers, helper, lane, writes>>

-----------------------------------------------------------------------------
(***************************************************************************)
(* _analysis_finished: the done callback of an analysis.                   *)
(***************************************************************************)
Finished(f) ==
  /\ inflight' = inflight \ {f}
  /\ callers' = [callers EXCEPT !.completing = @ + 1]
  /\ UNCHANGED <<writeVars, boundVars, session, config, decisions, candidate,
                 deferred, seen, fill, sched, helper, lane, writes>>

\* Faulty: a result lands on its card whatever happened to the card since.
AnalysisFinishedUnchecked(f) ==
  /\ f \in inflight
  /\ \E out \in {"ready", "failed"} :
       /\ items' = WithCheckpoint(items, f.item, out, f.photo)
       /\ manifest' = [manifest EXCEPT ![f.item] = TRUE]
  /\ Finished(f)

AnalysisFinished(f) ==
  /\ f \in inflight
  /\ IF ~IsCurrent(items, f.item, f.rev) \/ Current(items, f.item).state \in TerminalStates
     THEN UNCHANGED <<items, manifest>>
     ELSE \/ /\ items' = WithCheckpoint(items, f.item, "failed", None)
             /\ UNCHANGED manifest
          \/ \E out \in {"ready", "failed"} :
               /\ items' = WithCheckpoint(items, f.item, out, f.photo)
               /\ manifest' = [manifest EXCEPT ![f.item] = TRUE]
  /\ Finished(f)

-----------------------------------------------------------------------------
(***************************************************************************)
(* User commands.  A control carries the session revision its client saw;  *)
(* the accepted ones are modelled here (QueueSession models the check).  A *)
(* replayed discard or rescan only emits again and is a stutter.           *)
(***************************************************************************)
Accepting == helper \in {"up", "closing", "draining", "closed"}

Command(name) ==
  /\ name \in Commands
  /\ Accepting
  /\ commands < MaxCommands
  /\ commands' = commands + 1
  /\ UNCHANGED crashes

Decide(d) ==
  /\ Admissible(items, decisions, d)
  /\ items' = WithDecision(items, d)
  /\ decisions' = decisions \cup {d}

\* The decision a command asks for.
Asked(id, i, action) ==
  [id |-> id, item |-> i, rev |-> Revision(items, i), action |-> action]

Discard(id, i) ==
  /\ Command("discard")
  /\ Decide(Asked(id, i, "discard"))
  /\ callers' = [callers EXCEPT !.fill = @ + 1]
  /\ UNCHANGED <<photoVars, writeVars, session, config, fill, sched, inflight,
                 helper, lane, writes>>

\* The runtime refuses a card whose photo it does not know before the
\* coordinator records anything.
Rescan(id, i) ==
  /\ Command("rescan")
  /\ candidate[i] \in Photo
  /\ Revision(items, i) < MaxItemRevision
  /\ Decide(Asked(id, i, "rescan"))
  /\ manifest' = [manifest EXCEPT ![i] = FALSE]
  /\ callers' = [callers EXCEPT !.schedule = @ + 1]
  /\ UNCHANGED <<writeVars, session, config, candidate, deferred, seen, fill, sched,
                 inflight, helper, lane, writes>>

Pause ==
  /\ Command("pause")
  /\ session' = "paused"
  /\ UNCHANGED <<photoVars, threadVars, writeVars, config, items, decisions, helper,
                 lane, writes>>

Resume ==
  /\ Command("resume")
  /\ session' = "running"
  /\ callers' = [callers EXCEPT !.fill = @ + 1]
  /\ UNCHANGED <<photoVars, writeVars, config, items, decisions, fill, sched,
                 inflight, helper, lane, writes>>

UpdateConfig ==
  /\ Command("update")
  /\ \E c \in Config \ {config} : config' = c
  /\ callers' = [callers EXCEPT !.fill = @ + 1]
  /\ UNCHANGED <<photoVars, writeVars, session, items, decisions, fill, sched,
                 inflight, helper, lane, writes>>

-----------------------------------------------------------------------------
(***************************************************************************)
(* persist and _run_persist_operation.                                     *)
(***************************************************************************)
NoPersist(outcome) == [pc |-> "idle", d |-> None, outcome |-> outcome]

\* Entering write_priority; reads give way from here on.
PersistArrive(t, id, i, r) ==
  /\ Command("persist")
  /\ persist[t].pc = "idle"
  /\ persist' = [persist EXCEPT ![t] =
       [pc |-> "decide", outcome |-> "none",
        d  |-> [id |-> id, item |-> i, rev |-> r, action |-> "persist"]]]
  /\ UNCHANGED <<ledgerVars, photoVars, threadVars, writeQueue, helper, lane, writes>>

\* A replay, and a decision the ledger refuses, leave without a write.
PersistDecide(t) ==
  /\ persist[t].pc = "decide"
  /\ LET d == persist[t].d
     IN  IF Admissible(items, decisions, d)
         THEN /\ Decide(d)
              /\ persist' = IF manifest[d.item]
                            THEN [persist EXCEPT ![t].pc = "submit"]
                            ELSE [persist EXCEPT ![t].pc = "leave",
                                                 ![t].outcome = "refused"]
         ELSE /\ persist' = [persist EXCEPT ![t].pc = "leave",
                                            ![t].outcome = "refused"]
              /\ UNCHANGED <<items, decisions>>
  /\ UNCHANGED <<photoVars, threadVars, boundVars, session, config, writeQueue,
                 helper, lane, writes>>

\* The write pool refuses new work once a stop has begun to drain it.
PersistSubmit(t) ==
  /\ persist[t].pc = "submit"
  /\ IF helper \in {"up", "closing", "aborting"}
     THEN /\ persist' = [persist EXCEPT ![t].pc = "queued"]
          /\ writeQueue' = Append(writeQueue, t)
     ELSE /\ persist' = [persist EXCEPT ![t].pc = "settle", ![t].outcome = "unverified"]
          /\ UNCHANGED writeQueue
  /\ UNCHANGED <<ledgerVars, photoVars, threadVars, boundVars, helper, lane, writes>>

Writing == {t \in Persister : persist[t].pc \in {"saving", "wrote"}}

SavingState(t) ==
  WithCheckpoint(items, persist[t].d.item, "saving", None)

\* The one write worker takes the next operation and enters the lane.
WriteBegin(t) ==
  /\ Writing = {} /\ writeQueue # <<>> /\ t = Head(writeQueue)
  /\ lane = "free"
  /\ lane' = "write"
  /\ writeQueue' = Tail(writeQueue)
  /\ persist' = [persist EXCEPT ![t].pc = "saving"]
  /\ items' = SavingState(t)
  /\ UNCHANGED <<photoVars, threadVars, boundVars, session, config, decisions,
                 helper, writes>>

\* The apply reaches the photo.
WritePhotos(t) ==
  /\ persist[t].pc = "saving"
  /\ persist' = [persist EXCEPT ![t].pc = "wrote"]
  /\ writes' = [writes EXCEPT ![<<persist[t].d.item, persist[t].d.rev>>] = @ + 1]
  /\ UNCHANGED <<ledgerVars, photoVars, threadVars, boundVars, writeQueue, helper, lane>>

\* Faulty: an unverified operation is tried again.
WriteReturnRetrying(t) ==
  /\ t \in Writing
  /\ \/ /\ persist' = [persist EXCEPT ![t].pc = "settle", ![t].outcome = "verified"]
        /\ UNCHANGED writeQueue
     \/ /\ persist' = [persist EXCEPT ![t].pc = "queued"]
        /\ writeQueue' = <<t>> \o writeQueue
  /\ lane' = "free"
  /\ UNCHANGED <<ledgerVars, photoVars, threadVars, boundVars, helper, writes>>

\* Faulty: an operation that raises never leaves the lane.
WriteReturnHoldingLane(t) ==
  /\ t \in Writing
  /\ \E out \in WriteResult :
       persist' = [persist EXCEPT ![t].pc = "settle", ![t].outcome = out]
  /\ UNCHANGED <<ledgerVars, photoVars, threadVars, boundVars, writeQueue, helper,
                 lane, writes>>

\* The operation returns: verified after a write or a no-op, or anything else.
WriteReturn(t) ==
  /\ t \in Writing
  /\ \E out \in WriteResult :
       persist' = [persist EXCEPT ![t].pc = "settle", ![t].outcome = out]
  /\ lane' = "free"
  /\ UNCHANGED <<ledgerVars, photoVars, threadVars, boundVars, writeQueue, helper, writes>>

PersistSettle(t) ==
  /\ persist[t].pc = "settle"
  /\ items' = WithCheckpoint(items, persist[t].d.item,
                IF persist[t].outcome = "verified" THEN "verified" ELSE "uncertain", None)
  /\ persist' = [persist EXCEPT ![t].pc = "leave"]
  /\ UNCHANGED <<photoVars, threadVars, boundVars, session, config, decisions,
                 writeQueue, helper, lane, writes>>

\* Faulty: a verified save schedules what is there and refills nothing.
PersistLeaveWithoutRefill(t) ==
  /\ persist[t].pc = "leave"
  /\ persist' = [persist EXCEPT ![t] = NoPersist(persist[t].outcome)]
  /\ callers' = IF persist[t].outcome = "verified"
                THEN [callers EXCEPT !.schedule = @ + 1] ELSE callers
  /\ UNCHANGED <<ledgerVars, photoVars, boundVars, writeQueue, fill, sched, inflight,
                 helper, lane, writes>>

\* Only a verified save refills the window and schedules.
PersistLeave(t) ==
  /\ persist[t].pc = "leave"
  /\ persist' = [persist EXCEPT ![t] = NoPersist(persist[t].outcome)]
  /\ callers' = IF persist[t].outcome = "verified"
                THEN [callers EXCEPT !.fill = @ + 1] ELSE callers
  /\ UNCHANGED <<ledgerVars, photoVars, boundVars, writeQueue, fill, sched, inflight,
                 helper, lane, writes>>

-----------------------------------------------------------------------------
(***************************************************************************)
(* queue_stop: the session is stopped, then close waits for the analyses,  *)
(* shuts the write pool, then the inference pool, and the runtime forgets  *)
(* the session.                                                            *)
(***************************************************************************)
Stop ==
  /\ Command("stop")
  /\ session' = "stopped"
  /\ helper' = IF helper = "up" THEN "closing" ELSE helper
  /\ UNCHANGED <<photoVars, threadVars, writeVars, config, items, decisions, lane, writes>>

NothingScheduled == inflight = {} /\ callers.completing = 0 /\ sched.pc = "idle"

NothingWriting == writeQueue = <<>> /\ Writing = {}

CloseStep ==
  /\ \/ helper = "closing" /\ NothingScheduled /\ helper' = "draining"
     \/ helper = "draining" /\ NothingWriting /\ helper' = "closed"
     \/ helper = "closed" /\ inflight = {} /\ helper' = "gone"
  /\ UNCHANGED <<ledgerVars, photoVars, threadVars, writeVars, boundVars, lane, writes>>

-----------------------------------------------------------------------------
(***************************************************************************)
(* The end of a helper and the recovery of its session.                    *)
(***************************************************************************)
NoCallers == [start |-> 0, fill |-> 0, schedule |-> 0, completing |-> 0]

Quiet ==
  /\ fill = NoFill /\ callers = NoCallers /\ lane = "free"
  /\ NothingScheduled /\ NothingWriting
  /\ WaitingWriters = {}

Forgotten ==
  /\ helper' = "down"
  /\ candidate' = [i \in ItemId |-> None]
  /\ manifest' = [i \in ItemId |-> FALSE]
  /\ deferred' = <<>> /\ seen' = {}
  /\ lane' = "free"
  /\ fill' = NoFill /\ sched' = NoSched /\ inflight' = {} /\ callers' = NoCallers
  /\ persist' = [t \in Persister |-> NoPersist("none")]
  /\ writeQueue' = <<>>
  /\ UNCHANGED <<ledgerVars, commands, writes>>

\* The helper dies: only the ledger file is left.
Crash ==
  /\ helper # "down"
  /\ crashes < MaxCrashes
  /\ crashes' = crashes + 1
  /\ Forgotten

\* A failed start has closed its coordinator, or a stop has finished.
Unload ==
  /\ helper \in {"aborting", "gone"}
  /\ Quiet
  /\ UNCHANGED crashes
  /\ Forgotten

Readable(src, gone) == src \in Photo \ gone

\* Faulty: an interrupted save is left as it was.
RecoveredStateReadOnly(c, gone) ==
  CASE c.state \in {"discovered", "queued", "preparing", "analyzing", "validating"} ->
         "queued"
    [] c.state \in {"ready", "edited"} /\ c.source # None /\ ~Readable(c.source, gone) ->
         "failed"
    [] OTHER -> c.state

RecoveredState(c, gone) ==
  CASE c.state \in {"save_queued", "saving"} -> "uncertain"
    [] c.state \in {"discovered", "queued", "preparing", "analyzing", "validating"} ->
         "queued"
    [] c.state \in {"ready", "edited"} /\ c.source # None /\ ~Readable(c.source, gone) ->
         "failed"
    [] OTHER -> c.state

\* The latest earlier revision that carries a run.
EarlierRun(i) ==
  LET carriers == {r \in 1..(Revision(items, i) - 1) : items[i][r].source # None}
  IN  IF carriers = {} THEN None
      ELSE items[i][CHOOSE r \in carriers : \A q \in carriers : q <= r].source

\* anon: failed cards whose manifest has no identified photo.
RecoveredCandidate(i, gone, anon) ==
  LET c == Current(items, i)
  IN  CASE c.state \in {"save_queued", "saving", "verified", "discarded"} -> None
        [] c.state \in {"discovered", "queued", "preparing", "analyzing", "validating"} ->
             IF Readable(c.source, gone) THEN c.source ELSE Unresolved
        [] c.state = "failed" /\ c.source = None ->
             IF Readable(EarlierRun(i), gone) /\ i \notin anon THEN EarlierRun(i) ELSE None
        [] OTHER ->
             IF Readable(c.source, gone) /\ i \notin anon THEN c.source ELSE None

\* Faulty: only the cards that need attention get their manifest back.
RecoveredManifestAttention(i, gone) ==
  LET c == Current(items, i)
  IN  c.state \in {"failed", "uncertain", "verified"} /\ Readable(c.source, gone)

RecoveredManifest(i, gone) ==
  LET c == Current(items, i)
  IN  /\ c.state \in {"failed", "uncertain", "verified", "ready", "edited"}
      /\ Readable(c.source, gone)

SourcesOf(S) == UNION {{items[i][r].source : r \in DOMAIN items[i]} : i \in S}

\* Faulty: only the current revisions' photos are remembered.
RecoveredSeenCurrent(gone) ==
  {Current(items, i).source : i \in Enqueued} \ (gone \cup {None})

RecoveredSeen(gone) == SourcesOf(Enqueued) \ (gone \cup {None})

\* queue_resume on a session no helper has loaded, up to the start of the
\* coordinator: gone are the runs whose manifests cannot be read any more.
Recover ==
  /\ helper = "down" /\ session # "stopped"
  /\ \E gone \in LostRuns,
        anon \in SUBSET {i \in Enqueued : Current(items, i).state = "failed"} :
       /\ items' = [i \in ItemId |->
            IF i \in Enqueued
            THEN WithCheckpoint(items, i, RecoveredState(Current(items, i), gone), None)[i]
            ELSE items[i]]
       /\ candidate' = [i \in ItemId |->
            IF i \in Enqueued THEN RecoveredCandidate(i, gone, anon) ELSE None]
       /\ manifest' = [i \in ItemId |-> i \in Enqueued /\ RecoveredManifest(i, gone)]
       /\ seen' = RecoveredSeen(gone)
  /\ session' = "running"
  /\ helper' = "up"
  /\ callers' = [callers EXCEPT !.start = 1]
  /\ UNCHANGED <<writeVars, boundVars, config, decisions, deferred, fill, sched,
                 inflight, lane, writes>>

-----------------------------------------------------------------------------

Init ==
  /\ session = "running"
  /\ config \in Config
  /\ items = [i \in ItemId |-> <<>>]
  /\ decisions = {}
  /\ helper = "up"
  /\ candidate = [i \in ItemId |-> None]
  /\ manifest = [i \in ItemId |-> FALSE]
  /\ deferred = <<>> /\ seen = {}
  /\ lane = "free"
  /\ fill = NoFill /\ sched = NoSched /\ inflight = {}
  /\ callers = [NoCallers EXCEPT !.start = 1]
  /\ persist = [t \in Persister |-> NoPersist("none")]
  /\ writeQueue = <<>>
  /\ writes = [k \in CardKey |-> 0]
  /\ commands = 0 /\ crashes = 0

FillStep ==
  \/ \E kind \in {"start", "fill"} : FillEnter(kind)
  \/ FillRead \/ FillDiscover \/ FillAdmit

SchedulerStep ==
  \/ SchedulePick \/ ScheduleLeave \/ ScheduleEnd
  \/ PrepareRead \/ RestoreQueued \/ Prepare \/ Submit \/ PrepareFailed

PersistStep(t) ==
  \/ PersistDecide(t) \/ PersistSubmit(t) \/ PersistSettle(t) \/ PersistLeave(t)

WriteStep == \E t \in Persister : WriteBegin(t) \/ WriteReturn(t)

UserStep ==
  \/ \E id \in DecisionId, i \in Enqueued : Discard(id, i) \/ Rescan(id, i)
  \/ \E t \in Persister, id \in DecisionId, i \in Enqueued :
       \E r \in DOMAIN items[i] : PersistArrive(t, id, i, r)
  \/ Pause \/ Resume \/ UpdateConfig \/ Stop

Next ==
  \/ FillStep \/ FillRaises
  \/ \E kind \in {"schedule", "completing"} : ScheduleEnter(kind)
  \/ SchedulerStep
  \/ \E f \in inflight : AnalysisFinished(f)
  \/ \E t \in Persister : PersistStep(t) \/ WritePhotos(t)
  \/ WriteStep
  \/ UserStep
  \/ CloseStep \/ Unload
  \/ Crash \/ Recover

Spec == Init /\ [][Next]_vars

(***************************************************************************)
(* Every thread of the helper keeps running: no lock is held across a wait *)
(* that its holder's progress does not end, and Photos, the inference and  *)
(* the apply return or raise.  Users, crashes and restarts owe nothing.    *)
(* An apply need not reach the photo, so WritePhotos has no fairness.      *)
(***************************************************************************)
Fairness ==
  /\ WF_vars(FillStep)
  /\ \A kind \in {"schedule", "completing"} : WF_vars(ScheduleEnter(kind))
  /\ WF_vars(SchedulerStep)
  /\ WF_vars(\E f \in inflight : AnalysisFinished(f))
  /\ \A t \in Persister : WF_vars(PersistStep(t))
  /\ WF_vars(WriteStep)
  /\ WF_vars(CloseStep)

FairSpec == Spec /\ Fairness

-----------------------------------------------------------------------------

Photos == Photo \cup {None, Unresolved}

TypeOK ==
  /\ session \in SessionStates
  /\ config \in Config
  /\ items \in [ItemId -> Seq(ItemRevision)]
  /\ decisions \subseteq Decision
  /\ helper \in {"up", "closing", "draining", "closed", "gone", "aborting", "down"}
  /\ candidate \in [ItemId -> Photos]
  /\ manifest \in [ItemId -> BOOLEAN]
  /\ deferred \in Seq(Photo)
  /\ seen \subseteq Photo
  /\ lane \in {"free", "fill", "prepare", "write"}
  /\ fill \in [pc : {"idle", "read", "discover", "admit"}, kind : {"start", "fill"},
               missing : Nat, taken : Nat, found : Seq(Photo)]
  /\ sched \in [pc : {"idle", "pick", "each", "defer", "prepare", "submit", "fail",
                      "leave"},
                batch : Seq(CardKey), again : BOOLEAN]
  /\ inflight \subseteq [item : ItemId, rev : 1..MaxItemRevision, photo : Photos]
  /\ callers \in [{"start", "fill", "schedule", "completing"} -> Nat]
  /\ persist \in [Persister ->
       [pc : {"idle", "decide", "submit", "queued", "saving", "wrote", "settle", "leave"},
        d  : Decision \cup {None},
        outcome : {"none", "refused", "verified", "unverified"}]]
  /\ writeQueue \in Seq(Persister)
  /\ writes \in [CardKey -> Nat]
  /\ commands \in 0..MaxCommands /\ crashes \in 0..MaxCrashes

(***************************************************************************)
(* Photos is never read while it is written, and a reader and a writer are *)
(* never both inside: the lane's flag names the one thread that is in a    *)
(* Photos call, whatever the order of arrivals, deferrals and failures.    *)
(***************************************************************************)
PhotosExclusive ==
  /\ lane = "fill"    <=> fill.pc = "discover"
  /\ lane = "prepare" <=> sched.pc = "prepare"
  /\ lane = "write"   <=> Writing # {}

(***************************************************************************)
(* A card that can be saved has its manifest and a photo to reanalyse:     *)
(* persist and rescan record the decision before they look for them and    *)
(* raise when they are missing, which would strand the card.               *)
(***************************************************************************)
ReadyHasManifest ==
  helper # "down" => \A i \in Enqueued : Current(items, i).state \in {"ready", "edited"} =>
    manifest[i] /\ candidate[i] \in Photo

(***************************************************************************)
(* No photo is on two cards: discovery, set-aside candidates, replacements *)
(* after a restart and the photos of earlier revisions never overlap,      *)
(* photos whose run was lost apart.                                        *)
(***************************************************************************)
CardsHaveOwnPhotos ==
  \A i, j \in Enqueued : i # j =>
    SourcesOf({i}) \cap SourcesOf({j}) \subseteq {None} \cup UNION LostRuns

(***************************************************************************)
(* A card being saved has exactly one thread that will settle it, and that *)
(* thread's decision is the one recorded: a save is neither forgotten nor  *)
(* settled twice while the helper lives.                                   *)
(***************************************************************************)
SavesHaveAnOwner ==
  \A i \in Enqueued :
    LET owners == {t \in Persister :
                     /\ persist[t].pc \in {"submit", "queued", "saving", "wrote", "settle"}
                     /\ persist[t].d.item = i}
    IN  /\ \A t \in owners : persist[t].d \in decisions /\ IsCurrent(items, i, persist[t].d.rev)
        /\ helper # "down" =>
             (Current(items, i).state \in {"save_queued", "saving"}
                <=> Cardinality(owners) = 1)
        /\ Cardinality(owners) <= 1

(***************************************************************************)
(* The inference pool never holds more analyses, those of discarded cards  *)
(* included, than the largest concurrency the session was given.           *)
(***************************************************************************)
InferenceBounded ==
  \E c \in Config :
    Cardinality(inflight)
      + (IF sched.pc \in {"each", "defer", "prepare", "submit", "fail"}
         THEN Len(sched.batch) ELSE 0) <= c.concurrency

(***************************************************************************)
(* Nothing the helper shares is overused, whatever arrives meanwhile:      *)
(* Photos by one thread, the inference pool within its bound, and no       *)
(* counter of the threads below zero (TypeOK).                             *)
(***************************************************************************)
ResourcesRespected == TypeOK /\ PhotosExclusive /\ InferenceBounded

(***************************************************************************)
(* Work begun before a control never overrules it: new cards appear only   *)
(* while the session runs and up to its window, even when a pause, a stop  *)
(* or new settings arrive during discovery; and no late analysis,          *)
(* preparation or recovery revives a saved or discarded card.              *)
(***************************************************************************)
ControlsAreKept ==
  [][/\ Cardinality(Enqueued') > Cardinality(Enqueued) =>
          Running /\ Cardinality(Active(items')) <= config.photoCount
     /\ \A i \in Enqueued : Current(items, i).state \in TerminalStates =>
          items'[i] = items[i]]_vars

(***************************************************************************)
(* Refinement: the queue keeps the promise of ReviewWrites.  A card        *)
(* revision is approved by its persist decision; the approval is open      *)
(* while the card is being saved.                                          *)
(***************************************************************************)
Approval ==
  [k \in CardKey |->
     IF \A d \in decisions : d.action = "persist" => <<d.item, d.rev>> # k THEN "none"
     ELSE LET st == items[k[1]][k[2]].state
          IN  CASE st \in {"save_queued", "saving"} -> "approved"
                [] st = "verified" -> "verified"
                [] OTHER -> "unknown"]

Review == INSTANCE ReviewWrites WITH approval <- Approval, written <- writes

WritesAsApproved == Review!ReviewSpec

-----------------------------------------------------------------------------

SavesVerified == \A t \in Persister : persist[t].outcome \in {"none", "verified"}

PreparesWell == sched.pc # "fail"

Waiting(i) ==
  i \in Enqueued /\ Current(items, i).state \in {"discovered", "queued", "preparing",
                                                 "analyzing"}

EveryCardAdvances == \A i \in ItemId : [](Waiting(i) => <>~Waiting(i))

(***************************************************************************)
(* In a session that is never paused, whose saves are all verified and     *)
(* whose preparations do not raise, every card that waits is analysed or   *)
(* discarded: no order of completions, deferrals and discards loses the    *)
(* wakeup that schedules it.  All three premises are needed: the next      *)
(* property drops the first; a save that ends uncertain, or a preparation  *)
(* that raises, leaves cards that only a later event schedules.            *)
(***************************************************************************)
CardsAdvance == [](Running /\ SavesVerified /\ PreparesWell) => EveryCardAdvances

(***************************************************************************)
(* The same in a session that was paused and then resumed for good.  The   *)
(* comment of queue_coordinator.py:429-433 promises a follow-up pass to a  *)
(* request that meets an active scheduler.                                 *)
(***************************************************************************)
CardsAdvanceAfterResume ==
  <>[]Running /\ [](SavesVerified /\ PreparesWell) => EveryCardAdvances

(***************************************************************************)
(* ... and every free slot of the window is filled while photos remain     *)
(* ("Una tarjeta guardada o descartada deja sitio a otra foto").           *)
(***************************************************************************)
WindowRefills ==
  [](Running /\ SavesVerified) =>
    <>[](\/ Cardinality(Active(items)) >= config.photoCount
         \/ deferred = <<>> /\ (Photo \subseteq seen \/ Enqueued = ItemId))

(***************************************************************************)
(* Every queue_persist request ends, whatever is paused, stopped or closed *)
(* meanwhile, and queue_stop returns: close never waits for work that will *)
(* not end.                                                                *)
(***************************************************************************)
SavesAndStopsEnd ==
  /\ \A t \in Persister : persist[t].pc # "idle" ~> persist[t].pc = "idle"
  /\ helper = "closing" ~> helper = "gone"
=============================================================================
