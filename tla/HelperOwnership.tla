-------------------------- MODULE HelperOwnership --------------------------
(***************************************************************************)
(* The helper process: one reader of requests (serve), one thread for each *)
(* request it admits, and the rule that a manual operation, a queue        *)
(* session and an autonomous campaign do not work on Photos together.      *)
(*                                                                         *)
(* A request is its number; it also names the campaign a start creates and *)
(* the generation event of an activation.  Every hold of a lock is one     *)
(* action.  The queue coordinator is reduced to whether it works, and the  *)
(* campaign to whether its drive runs: QueueCoordinator and                *)
(* AutonomousCampaign have their steps.                                    *)
(***************************************************************************)
EXTENDS Naturals, FiniteSetsExt

CONSTANTS
  MaxRequests,    \* bounds for model checking: lines before the end of input
  MaxBatches,     \* and how often the queue finds something to do
  Commands,       \* the commands that arrive
  ResumesOwned    \* a client may resume a campaign that owns the helper

ASSUME HelperConstants == MaxRequests \in Nat \ {0} /\ MaxBatches \in Nat /\ ResumesOwned \in BOOLEAN

Request == 1..MaxRequests

QueueCommands == {"queue_start", "queue_resume", "queue_pause", "queue_persist", "queue_stop"}

Activations == {"start", "resume"}

Autonomy == Activations \cup {"pause"}

\* Where the thread of a request is.
Phases ==
  {"unused", "dead",
   "working", "checked", "marked", "sent",            \* manual
   "running", "persisting", "closing", "finishing",   \* queue
   "joining", "waiting", "pausing",                   \* pause
   "handing_off", "draining", "quieting", "drained", "prepared", "leaving"}

VARIABLES
  thread,     \* of each request
  manual,     \* the server's view: _active, its token, _active_completed,
  session,    \* _queue_session_id is set,
  owner,      \* _autonomy_owner and _autonomy_generation
  queue,      \* the queue runtime: is there a coordinator, its state, its work
  runtime,    \* the campaign runtime: campaign, generation, _controls, drive
  revoked,    \* the generation events that are set
  reader,     \* serve, then shutdown and join
  answered,   \* requests whose last line was sent
  asked       \* history: the last accepted autonomy control

vars == <<thread, manual, session, owner, queue, runtime, revoked, reader, answered, asked>>

NoThread ==
  [kind |-> "none", phase |-> "unused", owned |-> FALSE, accepted |-> {},
   verdict |-> "none", handoff |-> "none"]

Alive(id) == thread[id].phase \notin {"unused", "dead"}

Threads(kinds) == {id \in Request : Alive(id) /\ thread[id].kind \in kinds}

AutonomyThreads == Threads(Autonomy)

QueueThreads == Threads(QueueCommands)

Phase(id, phase) == thread' = [thread EXCEPT ![id].phase = phase]

\* The thread of a handoff may go on (PauseQueueAgain).
Exit(id) == thread' = [thread EXCEPT ![id] = [NoThread EXCEPT !.phase = "dead", !.handoff = thread[id].handoff]]

At(id, kinds, phase) == thread[id].kind \in kinds /\ thread[id].phase = phase

Answer(id) == answered' = answered \cup {id}

Spawn(id, kind, phase, owned, accepted) ==
  thread' = [thread EXCEPT ![id] = [NoThread EXCEPT !.kind = kind, !.phase = phase,
                                                    !.owned = owned, !.accepted = accepted]]

\* The next line of the input.
Arrives(id, kind) ==
  /\ reader = "reading" /\ kind \in Commands
  /\ id = Cardinality({i \in Request : thread[i].phase # "unused"}) + 1

\* A line that is answered by the reader itself.
Reply(id) == Answer(id) /\ Exit(id)

-----------------------------------------------------------------------------
(***************************************************************************)
(* Manual operations: preflight, scan, review, apply, rollback.            *)
(***************************************************************************)

NoManual == [id |-> 0, token |-> FALSE, completed |-> FALSE]

\* Faulty: admits beside the campaign.
BusyWithoutOwner == manual.id # 0 \/ session

Busy == owner.campaign # 0 \/ manual.id # 0 \/ session

StartManual(id) ==
  /\ Arrives(id, "manual")
  /\ IF Busy THEN Reply(id) /\ UNCHANGED manual
     ELSE /\ manual' = [id |-> id, token |-> FALSE, completed |-> FALSE]
          /\ Spawn(id, "manual", "working", FALSE, {}) /\ UNCHANGED answered
  /\ UNCHANGED <<session, owner, queue, runtime, revoked, reader, asked>>

Cancel(id) ==
  /\ Arrives(id, "cancel") /\ Reply(id)
  /\ manual' = [manual EXCEPT !.token = @ \/ (manual.id # 0 /\ ~manual.completed)]
  /\ UNCHANGED <<session, owner, queue, runtime, revoked, reader, asked>>

\* The last event of an operation: the token is read, the operation is marked
\* completed, the event is sent, the operation is cleared.
CheckToken(id) ==
  /\ At(id, {"manual"}, "working")
  /\ thread' = [thread EXCEPT ![id].phase = "checked",
                              ![id].verdict = IF manual.token THEN "cancelled" ELSE "result"]
  /\ UNCHANGED <<manual, session, owner, queue, runtime, revoked, reader, answered, asked>>

MarkCompleted(id) ==
  /\ At(id, {"manual"}, "checked") /\ Phase(id, "marked")
  /\ manual' = [manual EXCEPT !.completed = TRUE]
  /\ UNCHANGED <<session, owner, queue, runtime, revoked, reader, answered, asked>>

SendCompletion(id) ==
  /\ At(id, {"manual"}, "marked") /\ Phase(id, "sent") /\ Answer(id)
  /\ UNCHANGED <<manual, session, owner, queue, runtime, revoked, reader, asked>>

EndManual(id) ==
  /\ At(id, {"manual"}, "sent") /\ Exit(id) /\ manual' = NoManual
  /\ UNCHANGED <<session, owner, queue, runtime, revoked, reader, answered, asked>>

-----------------------------------------------------------------------------
(***************************************************************************)
(* Queue commands of one session.                                          *)
(***************************************************************************)

NoQueue == [active |-> FALSE, state |-> "none", busy |-> FALSE, left |-> MaxBatches]

\* queue_start and a queue_resume without a session make the queue active.
Activates(kind) == kind = "queue_start" \/ (kind = "queue_resume" /\ ~session)

QueueRefused(kind) ==
  \/ owner.campaign # 0
  \/ kind = "queue_start" /\ (manual.id # 0 \/ session)
  \/ kind = "queue_resume" /\ ~session /\ manual.id # 0
  \/ kind \notin {"queue_start", "queue_resume"} /\ ~session

\* Bound: one queue_resume at a time.  The app does not see to that.
StartQueueCommand(id, kind) ==
  /\ Arrives(id, kind)
  /\ kind = "queue_resume" => Threads({"queue_resume"}) = {}
  /\ IF QueueRefused(kind) THEN Reply(id) /\ UNCHANGED session
     ELSE /\ session' = TRUE /\ UNCHANGED answered
          /\ Spawn(id, kind, "running", Activates(kind), {})
  /\ UNCHANGED <<manual, owner, queue, runtime, revoked, reader, asked>>

\* A start makes a coordinator, and so does a resume that finds none.
Creates(id) ==
  thread[id].kind = "queue_start" \/ (thread[id].kind = "queue_resume" /\ ~queue.active)

Handled(id, verdict, state, next) ==
  /\ thread' = [thread EXCEPT ![id].verdict = verdict, ![id].phase = next]
  /\ queue' = [queue EXCEPT !.active = @ \/ (verdict = "done" /\ Creates(id)), !.state = state]

\* ContinuousQueueRuntime.handle: a stale revision or a failed preparation
\* raises and leaves the coordinator as it was.
HandleQueueCommand(id) ==
  /\ At(id, QueueCommands, "running")
  /\ \/ Handled(id, "failed", queue.state, "finishing")
     \/ Creates(id) /\ Handled(id, "done", "running", "finishing")
     \/ /\ ~Creates(id) /\ queue.active
        /\ \/ thread[id].kind = "queue_resume" /\ Handled(id, "done", "running", "finishing")
           \/ thread[id].kind = "queue_pause" /\ Handled(id, "done", "paused", "finishing")
           \/ thread[id].kind = "queue_persist" /\ Handled(id, "done", queue.state, "persisting")
           \/ thread[id].kind = "queue_stop" /\ Handled(id, "done", "stopped", "closing")
  /\ UNCHANGED <<manual, session, owner, runtime, revoked, reader, answered, asked>>

Persisted(id) ==
  /\ At(id, {"queue_persist"}, "persisting") /\ Phase(id, "finishing")
  /\ UNCHANGED <<manual, session, owner, queue, runtime, revoked, reader, answered, asked>>

\* close waits for the analyses and the writes.
Close(id) ==
  /\ At(id, {"queue_stop"}, "closing")
  /\ ~queue.busy /\ \A i \in Request : ~At(i, {"queue_persist"}, "persisting")
  /\ queue' = [NoQueue EXCEPT !.left = queue.left] /\ Phase(id, "finishing")
  /\ UNCHANGED <<manual, session, owner, runtime, revoked, reader, answered, asked>>

\* _run_queue_command ends: the session is forgotten after every queue_stop,
\* and after an activation that failed.
EndQueueCommand(id) ==
  /\ At(id, QueueCommands, "finishing") /\ Exit(id) /\ Answer(id)
  /\ session' = (session /\ thread[id].kind # "queue_stop"
                         /\ ~(thread[id].owned /\ thread[id].verdict = "failed"))
  /\ UNCHANGED <<manual, owner, queue, runtime, revoked, reader, asked>>

\* Discovery, preparation and analysis.
QueueWorks ==
  /\ queue.active /\ queue.state = "running" /\ ~queue.busy /\ queue.left > 0
  /\ queue' = [queue EXCEPT !.busy = TRUE, !.left = @ - 1]
  /\ UNCHANGED <<thread, manual, session, owner, runtime, revoked, reader, answered, asked>>

QueueRests ==
  /\ queue.busy /\ queue' = [queue EXCEPT !.busy = FALSE]
  /\ UNCHANGED <<thread, manual, session, owner, runtime, revoked, reader, answered, asked>>

-----------------------------------------------------------------------------
(***************************************************************************)
(* Autonomy: admission.                                                    *)
(***************************************************************************)

NoOwner == [campaign |-> 0, generation |-> 0]

Campaign(id, kind) == IF kind = "start" THEN id ELSE runtime.campaign

\* The first activation owns the helper.  A resume of the campaign that owns
\* it already gets a thread without a generation of its own.
Activate(id, kind) ==
  /\ Arrives(id, kind) /\ kind \in Activations
  /\ IF owner.campaign = 0 /\ Campaign(id, kind) # 0
     THEN /\ owner' = [campaign |-> Campaign(id, kind), generation |-> id]
          /\ Spawn(id, kind, "waiting", TRUE,
                   QueueThreads \cup {i \in Request : i = manual.id})
          /\ UNCHANGED answered
     ELSE IF ResumesOwned /\ kind = "resume" /\ owner.campaign = runtime.campaign /\ owner.campaign # 0
     THEN Spawn(id, kind, "waiting", FALSE, {}) /\ UNCHANGED <<owner, answered>>
     ELSE Reply(id) /\ UNCHANGED owner
  /\ UNCHANGED <<manual, session, queue, runtime, revoked, reader, asked>>

\* Faulty: closes admission, but leaves the preparation alone.
RevokedByAuthorization == revoked

\* revoke, and the generation the server holds.
Revoked == revoked \cup ({runtime.generation, owner.generation} \ {0})

\* admit_pause: nothing changes for a replay; a pause that cannot be stored
\* also revokes.
AdmitPause(id) ==
  /\ Arrives(id, "pause")
  /\ \/ Reply(id) /\ UNCHANGED <<runtime, revoked, asked>>
     \/ /\ {owner.campaign, runtime.campaign} # {0}
        /\ revoked' = Revoked
        /\ runtime' = [runtime EXCEPT !.authorized = FALSE]
        /\ \/ Reply(id) /\ UNCHANGED asked
           \/ /\ asked' = id /\ UNCHANGED answered
              /\ Spawn(id, "pause", "joining", FALSE, AutonomyThreads)
  /\ UNCHANGED <<manual, session, owner, queue, reader>>

-----------------------------------------------------------------------------
(***************************************************************************)
(* Autonomy: the thread of an activation.                                  *)
(***************************************************************************)

UnchangedServer == UNCHANGED <<manual, session, reader, asked>>

Unlocked == runtime.controls = 0

Joined(id) == \A i \in thread[id].accepted : ~Alive(i)

\* The closure over the server's generation, None for a second activation.
RevokedBeforeDrain(id) == thread[id].owned /\ id \in revoked

\* Under both locks of the runtime: refused while a drive is alive, a replay,
\* or accepted.
EnterActivation(id) ==
  /\ At(id, Activations, "waiting") /\ Unlocked
  /\ \/ Phase(id, "leaving") /\ Answer(id) /\ UNCHANGED <<runtime, asked>>
     \/ /\ runtime.drive = "none" /\ asked' = id /\ Phase(id, "handing_off")
        /\ runtime' = [runtime EXCEPT !.campaign = Campaign(id, thread[id].kind),
                                      !.generation = id, !.controls = id]
        /\ UNCHANGED answered
  /\ UNCHANGED <<manual, session, reader, owner, queue, revoked>>

PausedQueue == [queue EXCEPT !.state = IF @ = "running" THEN "paused" ELSE @]

\* drain: pause_for_handoff,
HandOff(id) ==
  /\ At(id, Activations, "handing_off") /\ Phase(id, "draining") /\ queue' = PausedQueue
  /\ UNCHANGED <<owner, runtime, revoked, answered>> /\ UnchangedServer

\* the threads admitted before the activation, of which a revoked one need not
\* wait for the last,
Drain(id) ==
  /\ At(id, Activations, "draining")
  /\ \/ RevokedBeforeDrain(id) /\ thread[id].accepted # {} /\ Phase(id, "drained")
     \/ Joined(id) /\ thread' = [thread EXCEPT ![id].phase = "quieting", ![id].handoff = "started"]
  /\ UNCHANGED <<owner, queue, runtime, revoked, answered>> /\ UnchangedServer

\* drain_for_handoff, in a thread that outlives a revoked activation.
PauseQueueAgain(id) ==
  /\ thread[id].handoff = "started"
  /\ thread' = [thread EXCEPT ![id].handoff = "paused"] /\ queue' = PausedQueue
  /\ UNCHANGED <<owner, runtime, revoked, answered>> /\ UnchangedServer

QueueIsQuiet(id) ==
  /\ thread[id].handoff = "paused" /\ ~queue.busy
  /\ thread' = [thread EXCEPT ![id].handoff = "finished"]
  /\ UNCHANGED <<owner, queue, runtime, revoked, answered>> /\ UnchangedServer

Quieted(id) ==
  /\ At(id, Activations, "quieting")
  /\ thread[id].handoff = "finished" \/ RevokedBeforeDrain(id)
  /\ Phase(id, "drained")
  /\ UNCHANGED <<owner, queue, runtime, revoked, answered>> /\ UnchangedServer

\* Before the models are checked and the library is read.
Prepare(id) ==
  /\ At(id, Activations, "drained") /\ id \notin revoked /\ Phase(id, "prepared")
  /\ UNCHANGED <<owner, queue, runtime, revoked, answered>> /\ UnchangedServer

\* Faulty: an early return that keeps the controls.
GiveUpLocked(id) ==
  /\ thread[id].kind \in Activations /\ thread[id].phase \in {"handing_off", "drained", "prepared"}
  /\ Phase(id, "leaving") /\ Answer(id)
  /\ runtime' = [runtime EXCEPT !.authorized = FALSE]
  /\ UNCHANGED <<owner, queue, revoked>> /\ UnchangedServer

\* _paused_preparation; _failed also revokes.
GiveUp(id) ==
  /\ thread[id].kind \in Activations /\ thread[id].phase \in {"handing_off", "drained", "prepared"}
  /\ Phase(id, "leaving") /\ Answer(id)
  /\ runtime' = [runtime EXCEPT !.authorized = FALSE, !.controls = 0]
  /\ revoked' \in {revoked, revoked \cup {id}}
  /\ UNCHANGED <<owner, queue>> /\ UnchangedServer

\* Under the runtime's lock: the last look at the generation, the
\* authorization, the thread.
StartDrive(id) ==
  /\ At(id, Activations, "prepared") /\ id \notin revoked
  /\ runtime' = [runtime EXCEPT !.authorized = TRUE, !.controls = 0,
                                !.drive = "driving", !.of = id]
  /\ Exit(id) /\ Answer(id)
  /\ UNCHANGED <<owner, queue, revoked>> /\ UnchangedServer

\* released: a generation the server did not give is not compared.
Released(id) == IF owner.generation = id THEN NoOwner ELSE owner

Leave(id) ==
  /\ At(id, Activations, "leaving") /\ Exit(id) /\ owner' = Released(id)
  /\ UNCHANGED <<queue, runtime, revoked, answered>> /\ UnchangedServer

-----------------------------------------------------------------------------
(***************************************************************************)
(* Autonomy: the drive, and the thread of a pause.                         *)
(***************************************************************************)

\* The inventory is used up, or the campaign may not go on.
ReleaseDrive ==
  /\ runtime.drive = "driving"
  /\ runtime' = [runtime EXCEPT !.drive = "released", !.authorized = FALSE]
  /\ owner' = Released(runtime.of)
  /\ UNCHANGED <<thread, queue, revoked, answered>> /\ UnchangedServer

MustEnd == runtime.generation \in revoked \/ ~runtime.authorized

ExitDrive ==
  /\ runtime.drive = "released" /\ runtime' = [runtime EXCEPT !.drive = "none", !.of = 0]
  /\ UNCHANGED <<thread, owner, queue, revoked, answered>> /\ UnchangedServer

\* A pause first joins the threads it found, then takes its turn.
JoinAccepted(id) ==
  /\ At(id, {"pause"}, "joining") /\ Joined(id) /\ Phase(id, "waiting")
  /\ UNCHANGED <<owner, queue, runtime, revoked, answered>> /\ UnchangedServer

RecordPause(id) ==
  /\ At(id, {"pause"}, "waiting") /\ Unlocked /\ Phase(id, "pausing")
  /\ runtime' = [runtime EXCEPT !.controls = id, !.authorized = FALSE]
  /\ UNCHANGED <<owner, queue, revoked, answered>> /\ UnchangedServer

\* Faulty: never gives the controls back.
EndPauseLocked(id) ==
  /\ At(id, {"pause"}, "pausing") /\ runtime.drive = "none" /\ Exit(id) /\ Answer(id)
  /\ UNCHANGED <<runtime, owner, queue, revoked>> /\ UnchangedServer

EndPause(id) ==
  /\ At(id, {"pause"}, "pausing") /\ runtime.drive = "none" /\ Exit(id) /\ Answer(id)
  /\ runtime' = [runtime EXCEPT !.controls = 0]
  /\ UNCHANGED <<owner, queue, revoked>> /\ UnchangedServer

-----------------------------------------------------------------------------
(***************************************************************************)
(* The end of the input.                                                   *)
(***************************************************************************)

EndOfInput ==
  /\ reader = "reading" /\ reader' = "autonomy"
  /\ revoked' = Revoked
  /\ runtime' = [runtime EXCEPT !.authorized = FALSE]
  /\ \/ UNCHANGED manual         \* a preflight goes on
     \/ manual' = [manual EXCEPT !.token = @ \/ (manual.id # 0 /\ ~manual.completed)]
  /\ UNCHANGED <<thread, session, owner, queue, answered, asked>>

\* join: the autonomy threads, the drive, the manual operation, the queue's
\* threads.
Join ==
  \/ /\ reader = "autonomy" /\ AutonomyThreads = {} /\ reader' = "drive"
     /\ revoked' = Revoked /\ runtime' = [runtime EXCEPT !.authorized = FALSE]
     /\ UNCHANGED <<thread, manual, session, owner, queue, answered, asked>>
  \/ /\ \/ reader = "drive" /\ runtime.drive = "none" /\ reader' = "manual"
        \/ reader = "manual" /\ Threads({"manual"}) = {} /\ reader' = "queue"
        \/ reader = "queue" /\ QueueThreads = {} /\ reader' = "ended"
     /\ UNCHANGED <<thread, manual, session, owner, queue, runtime, revoked, answered, asked>>

-----------------------------------------------------------------------------

Init ==
  /\ thread = [id \in Request |-> NoThread]
  /\ manual = NoManual /\ session = FALSE /\ owner = NoOwner /\ queue = NoQueue
  /\ runtime = [campaign |-> 0, generation |-> 0, controls |-> 0, authorized |-> FALSE,
                drive |-> "none", of |-> 0]
  /\ revoked = {} /\ reader = "reading" /\ answered = {} /\ asked = 0

Accept(id) ==
  \/ StartManual(id) \/ Cancel(id) \/ AdmitPause(id)
  \/ \E kind \in QueueCommands : StartQueueCommand(id, kind)
  \/ \E kind \in Activations : Activate(id, kind)

Step(id) ==
  \/ CheckToken(id) \/ MarkCompleted(id) \/ SendCompletion(id) \/ EndManual(id)
  \/ HandleQueueCommand(id) \/ Persisted(id) \/ Close(id) \/ EndQueueCommand(id)
  \/ EnterActivation(id) \/ HandOff(id) \/ Drain(id) \/ Quieted(id)
  \/ Prepare(id) \/ GiveUp(id) \/ StartDrive(id) \/ Leave(id)
  \/ JoinAccepted(id) \/ RecordPause(id) \/ EndPause(id)

QuietQueue(id) == PauseQueueAgain(id) \/ QueueIsQuiet(id)

Next ==
  \/ \E id \in Request : Accept(id) \/ Step(id) \/ QuietQueue(id)
  \/ QueueWorks \/ QueueRests
  \/ ReleaseDrive \/ ExitDrive \/ EndOfInput \/ Join

Spec == Init /\ [][Next]_vars

\* Threads go on, work that was begun ends, and a drive that may not go on
\* ends (AutonomousCampaign!DrivesEnd); one that may is owed nothing.
FairSpec ==
  /\ Spec /\ WF_vars(Join) /\ WF_vars(QueueRests)
  /\ WF_vars(MustEnd /\ ReleaseDrive) /\ WF_vars(ExitDrive)
  /\ \A id \in Request : WF_vars(Step(id)) /\ WF_vars(QuietQueue(id))

-----------------------------------------------------------------------------

TypeOK ==
  /\ \A id \in Request :
       /\ thread[id].phase \in Phases /\ thread[id].accepted \subseteq Request
       /\ thread[id].kind \in QueueCommands \cup Autonomy \cup {"none", "manual", "cancel"}
       /\ thread[id].verdict \in {"none", "done", "failed", "result", "cancelled"}
       /\ thread[id].handoff \in {"none", "started", "paused", "finished"}
  /\ manual.id \in {0} \cup Request /\ {manual.token, manual.completed} \subseteq BOOLEAN
  /\ session \in BOOLEAN
  /\ {owner.campaign, owner.generation} \subseteq {0} \cup Request
  /\ queue.state \in {"none", "running", "paused", "stopped"}
  /\ {queue.active, queue.busy} \subseteq BOOLEAN /\ queue.left \in 0..MaxBatches
  /\ {runtime.campaign, runtime.generation, runtime.controls, runtime.of} \subseteq {0} \cup Request
  /\ runtime.drive \in {"none", "driving", "released"} /\ runtime.authorized \in BOOLEAN
  /\ revoked \subseteq Request /\ answered \subseteq Request
  /\ asked \in {0} \cup Request
  /\ reader \in {"reading", "autonomy", "drive", "manual", "queue", "ended"}

Driving == runtime.drive = "driving" \/ \E id \in Request : At(id, Activations, "prepared")

\* While a campaign reads the library or drives, no manual operation, no queue
\* command and no work of the queue is under way: whatever was admitted before
\* has ended, and the next is refused (ipc.py:836-842, 878-880, 986-1014).
FamiliesExclusive ==
  /\ TypeOK
  /\ Driving => /\ Threads({"manual"}) = {} /\ QueueThreads = {}
                /\ ~queue.busy /\ queue.state # "running"

\* A drive starts only for the autonomy control accepted last and only before
\* the end of the input: no pause accepted during its preparation is lost
\* (autonomous_dispatcher.py:233-240, 388-391; ipc.py:1304-1311).
DriveNeedsActivation ==
  [][runtime.drive = "none" /\ runtime'.drive = "driving" =>
       runtime'.of = asked /\ reader = "reading"]_vars

\* Every line is answered, also those that wait for other threads, for the
\* queue or for the drive (ipc.py:929-934, 1316-1323).
RequestsAnswered ==
  \A id \in Request : thread[id].phase # "unused" ~> id \in answered

\* After the end of the input the helper ends (ipc.py:1280-1323).
ShutdownEnds == reader # "reading" ~> reader = "ended"
=============================================================================
