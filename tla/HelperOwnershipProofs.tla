------------------------ MODULE HelperOwnershipProofs ------------------------
(***************************************************************************)
(* Proofs about HelperOwnership, for every number of requests and any work *)
(* of the queue: the three families never work together, and a drive       *)
(* starts only for the autonomy control accepted last.                     *)
(*                                                                         *)
(* The argument: an activation owns the helper from its admission to the   *)
(* end of its drive, so nothing that could work beside it is admitted; and *)
(* it has listed what was admitted before, which it joins.                 *)
(***************************************************************************)
EXTENDS HelperOwnership, FiniteSetTheorems, TLAPS

Kinds == QueueCommands \cup Autonomy \cup {"none", "manual", "cancel"}

Verdicts == {"none", "done", "failed", "result", "cancelled"}

Handoffs == {"none", "started", "paused", "finished"}

MaybeRequest == {0} \cup Request

ThreadRecord ==
  [kind : Kinds, phase : Phases, owned : BOOLEAN, accepted : SUBSET Request,
   verdict : Verdicts, handoff : Handoffs]

ManualRecord == [id : MaybeRequest, token : BOOLEAN, completed : BOOLEAN]

OwnerRecord == [campaign : MaybeRequest, generation : MaybeRequest]

QueueRecord ==
  [active : BOOLEAN, state : {"none", "running", "paused", "stopped"},
   busy : BOOLEAN, left : 0..MaxBatches]

RuntimeRecord ==
  [campaign : MaybeRequest, generation : MaybeRequest, controls : MaybeRequest,
   authorized : BOOLEAN, drive : {"none", "driving", "released"}, of : MaybeRequest]

Types ==
  /\ thread \in [Request -> ThreadRecord] /\ manual \in ManualRecord
  /\ session \in BOOLEAN /\ owner \in OwnerRecord
  /\ queue \in QueueRecord /\ runtime \in RuntimeRecord
  /\ revoked \in SUBSET Request /\ answered \in SUBSET Request
  /\ asked \in MaybeRequest
  /\ reader \in {"reading", "autonomy", "drive", "manual", "queue", "ended"}

\* The requests that have come are the first ones, so the next is unused.
InTurn ==
  \E k \in 0..MaxRequests : \A i \in Request : thread[i].phase # "unused" <=> i <= k

\* The threads of the other two families, and those of activations.
Other(i) == Alive(i) /\ thread[i].kind \in QueueCommands \cup {"manual"}

Activating(i) == Alive(i) /\ thread[i].kind \in Activations

QueueIsStill == ~queue.busy /\ queue.state # "running"

OneManual == \A i \in Request : Alive(i) /\ thread[i].kind = "manual" => i = manual.id

\* Whom an activation waited for is gone.
Settled(i) ==
  \/ thread[i].phase \in {"quieting", "prepared"}
  \/ thread[i].phase = "drained" /\ i \notin revoked

\* It has entered the runtime and has not given up.
Entered(i) == thread[i].phase \in {"handing_off", "draining", "quieting", "drained", "prepared"}

Owns(i) ==
  /\ owner.generation = i /\ owner.campaign # 0 /\ thread[i].owned
  /\ \A j \in Request : Other(j) => j \in thread[i].accepted
  /\ i \notin revoked => reader = "reading" /\ (Entered(i) => asked = i)
  /\ Settled(i) => \A j \in Request : ~Other(j)
  /\ Settled(i) /\ (thread[i].phase = "quieting" => thread[i].handoff = "paused") =>
       queue.state # "running"
  /\ Settled(i) /\ (thread[i].phase = "quieting" => thread[i].handoff = "finished") =>
       QueueIsStill

ActivationOwns == \A i \in Request : Activating(i) => Owns(i)

DriveOwns ==
  runtime.drive = "driving" =>
    /\ owner.generation = runtime.of /\ owner.campaign # 0
    /\ \A j \in Request : ~Other(j) /\ ~Activating(j)
    /\ QueueIsStill

OwnInv == Types /\ InTurn /\ OneManual /\ ActivationOwns /\ DriveOwns

-----------------------------------------------------------------------------

LEMMA OwnInit == Init => OwnInv
<1> SUFFICES ASSUME Init PROVE OwnInv
  OBVIOUS
<1>1. Types
  <2>1. NoThread \in ThreadRecord
    BY DEF NoThread, ThreadRecord, Phases, Kinds, Verdicts, Handoffs
  <2>2. NoManual \in ManualRecord /\ NoOwner \in OwnerRecord
    BY DEF NoManual, NoOwner, ManualRecord, OwnerRecord, MaybeRequest
  <2>3. NoQueue \in QueueRecord
    BY HelperConstants DEF NoQueue, QueueRecord
  <2>4. runtime \in RuntimeRecord
    BY DEF Init, RuntimeRecord, MaybeRequest
  <2> QED
    BY <2>1, <2>2, <2>3, <2>4 DEF Init, Types, MaybeRequest
<1>2. \A i \in Request : thread[i].phase = "unused"
  BY DEF Init, NoThread
<1>3. InTurn
  <2>1. 0 \in 0..MaxRequests /\ \A i \in Request : ~(i <= 0)
    BY HelperConstants DEF Request
  <2> QED
    BY <1>2, <2>1 DEF InTurn
<1>4. runtime.drive # "driving"
  BY DEF Init
<1> QED
  BY <1>1, <1>2, <1>3, <1>4
  DEF OwnInv, OneManual, ActivationOwns, DriveOwns, Alive, Activating

\* The request that arrives has no thread yet, and is the next in turn.
LEMMA NextInTurn ==
  ASSUME InTurn, NEW id \in Request, NEW kind, Arrives(id, kind)
  PROVE  /\ thread[id].phase = "unused"
         /\ \A i \in Request : (thread[i].phase # "unused" \/ i = id) <=> i <= id
<1>1. PICK k \in 0..MaxRequests : \A i \in Request : thread[i].phase # "unused" <=> i <= k
  BY DEF InTurn
<1>2. {i \in Request : thread[i].phase # "unused"} = 1..k
  BY <1>1, HelperConstants DEF Request
<1>3. Cardinality(1..k) = k
  BY FS_Interval, HelperConstants
<1>4. id = k + 1
  BY <1>2, <1>3 DEF Arrives
<1> QED
  BY <1>1, <1>4, HelperConstants DEF Request

-----------------------------------------------------------------------------
(***************************************************************************)
(* Types.                                                                  *)
(***************************************************************************)

\* What steps do to the record of a thread keeps its type.
LEMMA ThreadTypes ==
  ASSUME thread \in [Request -> ThreadRecord], NEW id \in Request
  PROVE  /\ \A phase \in Phases : Phase(id, phase) => thread' \in [Request -> ThreadRecord]
         /\ \A handoff \in Handoffs :
              [thread EXCEPT ![id].handoff = handoff] \in [Request -> ThreadRecord]
         /\ \A phase \in Phases, handoff \in Handoffs :
              [thread EXCEPT ![id].phase = phase, ![id].handoff = handoff]
                \in [Request -> ThreadRecord]
         /\ \A phase \in Phases, verdict \in Verdicts :
              /\ [thread EXCEPT ![id].phase = phase, ![id].verdict = verdict]
                   \in [Request -> ThreadRecord]
              /\ [thread EXCEPT ![id].verdict = verdict, ![id].phase = phase]
                   \in [Request -> ThreadRecord]
<1> DEFINE r == thread[id]
<1>a. r \in ThreadRecord
  OBVIOUS
<1>b. ASSUME NEW s \in ThreadRecord
      PROVE  /\ \A phase \in Phases : [s EXCEPT !.phase = phase] \in ThreadRecord
             /\ \A handoff \in Handoffs : [s EXCEPT !.handoff = handoff] \in ThreadRecord
             /\ \A verdict \in Verdicts : [s EXCEPT !.verdict = verdict] \in ThreadRecord
  BY DEF ThreadRecord
<1>1. ASSUME NEW phase \in Phases
      PROVE  [thread EXCEPT ![id].phase = phase] \in [Request -> ThreadRecord]
  BY <1>a, <1>b
<1>2. ASSUME NEW handoff \in Handoffs
      PROVE  [thread EXCEPT ![id].handoff = handoff] \in [Request -> ThreadRecord]
  BY <1>a, <1>b
<1>3. ASSUME NEW phase \in Phases, NEW handoff \in Handoffs
      PROVE  [thread EXCEPT ![id].phase = phase, ![id].handoff = handoff]
               \in [Request -> ThreadRecord]
  <2>1. [[r EXCEPT !.phase = phase] EXCEPT !.handoff = handoff] \in ThreadRecord
    BY <1>a, <1>b
  <2> QED
    BY <2>1
<1>4. ASSUME NEW phase \in Phases, NEW verdict \in Verdicts
      PROVE  /\ [thread EXCEPT ![id].phase = phase, ![id].verdict = verdict]
                  \in [Request -> ThreadRecord]
             /\ [thread EXCEPT ![id].verdict = verdict, ![id].phase = phase]
                  \in [Request -> ThreadRecord]
  <2>1. [[r EXCEPT !.phase = phase] EXCEPT !.verdict = verdict] \in ThreadRecord
    BY <1>a, <1>b
  <2>2. [[r EXCEPT !.verdict = verdict] EXCEPT !.phase = phase] \in ThreadRecord
    BY <1>a, <1>b
  <2> QED
    BY <2>1, <2>2
<1> QED
  BY <1>1, <1>2, <1>3, <1>4, ZenonT(60) DEF Phase

LEMMA SpawnTypes ==
  ASSUME thread \in [Request -> ThreadRecord], NEW id \in Request
  PROVE  /\ Exit(id) => thread' \in [Request -> ThreadRecord]
         /\ \A kind \in Kinds, phase \in Phases, owned \in BOOLEAN, accepted \in SUBSET Request :
              Spawn(id, kind, phase, owned, accepted) => thread' \in [Request -> ThreadRecord]
<1>1. [NoThread EXCEPT !.phase = "dead", !.handoff = thread[id].handoff] \in ThreadRecord
  <2>1. thread[id].handoff \in Handoffs
    BY DEF ThreadRecord
  <2> QED
    BY <2>1 DEF ThreadRecord, NoThread, Phases, Kinds, Verdicts
<1>2. ASSUME NEW kind \in Kinds, NEW phase \in Phases, NEW owned \in BOOLEAN,
             NEW accepted \in SUBSET Request
      PROVE  [NoThread EXCEPT !.kind = kind, !.phase = phase, !.owned = owned,
                              !.accepted = accepted] \in ThreadRecord
  BY DEF ThreadRecord, NoThread, Verdicts, Handoffs
<1>3. Exit(id) => thread' \in [Request -> ThreadRecord]
  BY <1>1 DEF Exit
<1>4. ASSUME NEW kind \in Kinds, NEW phase \in Phases, NEW owned \in BOOLEAN,
             NEW accepted \in SUBSET Request, Spawn(id, kind, phase, owned, accepted)
      PROVE  thread' \in [Request -> ThreadRecord]
  BY <1>2, <1>4 DEF Spawn
<1> QED
  BY <1>3, <1>4

LEMMA AcceptTypes == Types /\ (\E id \in Request : Accept(id)) => Types'
<1> SUFFICES ASSUME Types, NEW id \in Request, Accept(id) PROVE Types'
  OBVIOUS
<1>a. /\ Exit(id) => thread' \in [Request -> ThreadRecord]
      /\ \A kind \in Kinds, phase \in Phases, owned \in BOOLEAN, accepted \in SUBSET Request :
           Spawn(id, kind, phase, owned, accepted) => thread' \in [Request -> ThreadRecord]
  BY SpawnTypes DEF Types
<1>b. {"manual", "pause"} \cup QueueCommands \cup Activations \subseteq Kinds
  BY DEF Kinds, Autonomy
<1>c. {"working", "running", "waiting", "joining"} \subseteq Phases
  BY DEF Phases
<1>1. ASSUME StartManual(id) PROVE Types'
  <2>1. [id |-> id, token |-> FALSE, completed |-> FALSE] \in ManualRecord
    BY DEF ManualRecord, MaybeRequest
  <2>2. Spawn(id, "manual", "working", FALSE, {}) => thread' \in [Request -> ThreadRecord]
    <3>1. "manual" \in Kinds /\ "working" \in Phases /\ FALSE \in BOOLEAN /\ {} \in SUBSET Request
      BY <1>b, <1>c
    <3> QED
      BY <1>a, <3>1
  <2> QED
    BY <1>1, <1>a, <2>1, <2>2 DEF StartManual, Reply, Answer, Types
<1>2. ASSUME Cancel(id) PROVE Types'
  <2>1. manual' \in ManualRecord
    BY <1>2 DEF Cancel, Types, ManualRecord
  <2> QED
    BY <1>2, <1>a, <2>1 DEF Cancel, Reply, Answer, Types
<1>3. ASSUME AdmitPause(id) PROVE Types'
  <2>1. runtime' \in RuntimeRecord /\ revoked' \in SUBSET Request
    BY <1>3 DEF AdmitPause, Revoked, Types, RuntimeRecord, OwnerRecord, MaybeRequest
  <2>2. AutonomyThreads \in SUBSET Request
    BY DEF AutonomyThreads, Threads
  <2>3. thread' \in [Request -> ThreadRecord] /\ answered' \in SUBSET Request
    BY <1>3, <1>a, <1>b, <1>c, <2>2 DEF AdmitPause, Reply, Answer, Types
  <2> QED
    BY <1>3, <2>1, <2>3 DEF AdmitPause, Types, MaybeRequest
<1>4. ASSUME NEW kind \in QueueCommands, StartQueueCommand(id, kind) PROVE Types'
  <2>1. Activates(kind) \in BOOLEAN /\ {} \in SUBSET Request
    BY DEF Activates
  <2> QED
    BY <1>4, <1>a, <1>b, <1>c, <2>1 DEF StartQueueCommand, Reply, Answer, Types
<1>5. ASSUME NEW kind \in Activations, Activate(id, kind) PROVE Types'
  <2>1. QueueThreads \cup {i \in Request : i = manual.id} \in SUBSET Request
    BY DEF QueueThreads, Threads
  <2>2. [campaign |-> Campaign(id, kind), generation |-> id] \in OwnerRecord
    BY DEF Types, OwnerRecord, Campaign, MaybeRequest, RuntimeRecord
  <2>a. /\ kind \in Kinds /\ "waiting" \in Phases /\ {TRUE, FALSE} \subseteq BOOLEAN
        /\ {} \in SUBSET Request
    BY <1>b, <1>c
  <2>b. /\ Spawn(id, kind, "waiting", TRUE, QueueThreads \cup {i \in Request : i = manual.id})
             => thread' \in [Request -> ThreadRecord]
        /\ Spawn(id, kind, "waiting", FALSE, {}) => thread' \in [Request -> ThreadRecord]
    BY <1>a, <2>1, <2>a
  <2>3. thread' \in [Request -> ThreadRecord]
    BY <1>5, <1>a, <2>b DEF Activate, Reply
  <2>4. owner' \in OwnerRecord /\ answered' \in SUBSET Request
    BY <1>5, <2>2 DEF Activate, Reply, Answer, Types
  <2> QED
    BY <1>5, <2>3, <2>4 DEF Activate, Types
<1> QED
  BY <1>1, <1>2, <1>3, <1>4, <1>5 DEF Accept

LEMMA WorkTypes ==
  ASSUME Types, NEW id \in Request,
         \/ CheckToken(id) \/ MarkCompleted(id) \/ SendCompletion(id) \/ EndManual(id)
         \/ HandleQueueCommand(id) \/ Persisted(id) \/ Close(id) \/ EndQueueCommand(id)
  PROVE  Types'
<1>a. Exit(id) => thread' \in [Request -> ThreadRecord]
  BY SpawnTypes, SMTT(30) DEF Types
<1>b. /\ \A phase \in Phases : Phase(id, phase) => thread' \in [Request -> ThreadRecord]
      /\ \A phase \in Phases, verdict \in Verdicts :
           /\ [thread EXCEPT ![id].phase = phase, ![id].verdict = verdict]
                \in [Request -> ThreadRecord]
           /\ [thread EXCEPT ![id].verdict = verdict, ![id].phase = phase]
                \in [Request -> ThreadRecord]
  BY ThreadTypes DEF Types
<1>c. {"checked", "marked", "sent", "finishing", "persisting", "closing"} \subseteq Phases
  BY DEF Phases
<1>d. {"cancelled", "result", "failed", "done"} \subseteq Verdicts
  BY DEF Verdicts
<1>1. ASSUME CheckToken(id) PROVE Types'
  BY <1>1, <1>b, <1>c, <1>d DEF CheckToken, Types
<1>2. ASSUME MarkCompleted(id) PROVE Types'
  <2>1. manual' \in ManualRecord
    BY <1>2 DEF MarkCompleted, Types, ManualRecord
  <2> QED
    BY <1>2, <1>b, <1>c, <1>d, <2>1 DEF MarkCompleted, Types, Verdicts
<1>3. ASSUME SendCompletion(id) PROVE Types'
  BY <1>3, <1>b, <1>c, <1>d DEF SendCompletion, Answer, Types
<1>4. ASSUME EndManual(id) PROVE Types'
  <2>1. NoManual \in ManualRecord
    BY DEF NoManual, ManualRecord, MaybeRequest
  <2> QED
    BY <1>4, <1>a, <2>1 DEF EndManual, Types
<1>5. ASSUME HandleQueueCommand(id) PROVE Types'
  <2>a. PICK verdict \in {"failed", "done"},
             state \in {queue.state, "running", "paused", "stopped"},
             next \in {"finishing", "persisting", "closing"} :
               Handled(id, verdict, state, next)
    BY <1>5 DEF HandleQueueCommand
  <2>b. verdict \in Verdicts /\ next \in Phases
    BY <1>c, <1>d
  <2>1. thread' \in [Request -> ThreadRecord]
    BY <1>b, <2>a, <2>b DEF Handled
  <2>2. queue' = [queue EXCEPT !.active = @ \/ (verdict = "done" /\ Creates(id)),
                               !.state = state]
    BY <2>a DEF Handled
  <2>3. queue' \in QueueRecord
    BY <2>a, <2>2 DEF Types, QueueRecord
  <2> QED
    BY <1>5, <2>1, <2>3 DEF HandleQueueCommand, Types
<1>6. ASSUME Persisted(id) PROVE Types'
  BY <1>6, <1>b, <1>c, <1>d DEF Persisted, Types
<1>7. ASSUME Close(id) PROVE Types'
  <2>1. [NoQueue EXCEPT !.left = queue.left] \in QueueRecord
    BY DEF NoQueue, QueueRecord, Types
  <2> QED
    BY <1>7, <1>b, <1>c, <1>d, <2>1 DEF Close, Types
<1>8. ASSUME EndQueueCommand(id) PROVE Types'
  <2>1. session' \in BOOLEAN
    BY <1>8 DEF EndQueueCommand, Types
  <2> QED
    BY <1>8, <1>a, <2>1 DEF EndQueueCommand, Answer, Types
<1> QED
  BY <1>1, <1>2, <1>3, <1>4, <1>5, <1>6, <1>7, <1>8

LEMMA AutonomyTypes ==
  ASSUME Types, NEW id \in Request,
         \/ EnterActivation(id) \/ HandOff(id) \/ Drain(id) \/ Quieted(id)
         \/ Prepare(id) \/ GiveUp(id) \/ StartDrive(id) \/ Leave(id)
         \/ JoinAccepted(id) \/ RecordPause(id) \/ EndPause(id) \/ QuietQueue(id)
  PROVE  Types'
<1>a. Exit(id) => thread' \in [Request -> ThreadRecord]
  BY SpawnTypes DEF Types
<1>b. /\ \A phase \in Phases : Phase(id, phase) => thread' \in [Request -> ThreadRecord]
      /\ \A handoff \in Handoffs :
           [thread EXCEPT ![id].handoff = handoff] \in [Request -> ThreadRecord]
      /\ \A phase \in Phases, handoff \in Handoffs :
           [thread EXCEPT ![id].phase = phase, ![id].handoff = handoff]
             \in [Request -> ThreadRecord]
  BY ThreadTypes DEF Types
<1>c. {"leaving", "handing_off", "draining", "drained", "quieting", "prepared", "waiting",
       "pausing"} \subseteq Phases
  BY DEF Phases
<1>d. {"started", "paused", "finished"} \subseteq Handoffs
  BY DEF Handoffs
<1>e. PausedQueue \in QueueRecord
  BY DEF PausedQueue, QueueRecord, Types
<1>f. Answer(id) => answered' \in SUBSET Request
  BY DEF Answer, Types
<1>1. ASSUME EnterActivation(id) PROVE Types'
  <2>1. runtime' \in RuntimeRecord /\ asked' \in MaybeRequest
    BY <1>1 DEF EnterActivation, Campaign, Types, RuntimeRecord, MaybeRequest
  <2>2. thread' \in [Request -> ThreadRecord] /\ answered' \in SUBSET Request
    BY <1>1, <1>b, <1>c, <1>d, <1>f DEF EnterActivation, Types
  <2> QED
    BY <1>1, <2>1, <2>2 DEF EnterActivation, Types
<1>2. ASSUME HandOff(id) PROVE Types'
  BY <1>2, <1>b, <1>c, <1>d, <1>e DEF HandOff, Types, UnchangedServer
<1>3. ASSUME Drain(id) \/ Quieted(id) \/ Prepare(id) PROVE Types'
  <2>1. thread' \in [Request -> ThreadRecord]
    <3>1. "drained" \in Phases /\ "prepared" \in Phases /\ "quieting" \in Phases
          /\ "started" \in Handoffs
      BY <1>c, <1>d
    <3>2. CASE Drain(id)
      <4>1. \/ Phase(id, "drained")
            \/ thread' = [thread EXCEPT ![id].phase = "quieting", ![id].handoff = "started"]
        BY <3>2 DEF Drain
      <4>2. Phase(id, "drained") => thread' \in [Request -> ThreadRecord]
        BY <1>b, <3>1
      <4>3. [thread EXCEPT ![id].phase = "quieting", ![id].handoff = "started"]
              \in [Request -> ThreadRecord]
        BY <1>b, <3>1
      <4> QED
        BY <4>1, <4>2, <4>3
    <3>3. CASE Quieted(id) \/ Prepare(id)
      BY <1>b, <3>1, <3>3 DEF Quieted, Prepare
    <3> QED
      BY <1>3, <3>2, <3>3
  <2> QED
    BY <1>3, <2>1 DEF Drain, Quieted, Prepare, Types, UnchangedServer
<1>4. ASSUME GiveUp(id) PROVE Types'
  <2>1. runtime' \in RuntimeRecord /\ revoked' \in SUBSET Request
    BY <1>4 DEF GiveUp, Types, RuntimeRecord, MaybeRequest
  <2> QED
    BY <1>4, <1>b, <1>c, <1>d, <1>f, <2>1 DEF GiveUp, Types, UnchangedServer
<1>5. ASSUME StartDrive(id) PROVE Types'
  <2>1. runtime' \in RuntimeRecord
    BY <1>5 DEF StartDrive, Types, RuntimeRecord, MaybeRequest
  <2> QED
    BY <1>5, <1>a, <1>f, <2>1 DEF StartDrive, Types, UnchangedServer
<1>6. ASSUME Leave(id) PROVE Types'
  <2>1. Released(id) \in OwnerRecord
    BY DEF Released, NoOwner, Types, OwnerRecord, MaybeRequest
  <2> QED
    BY <1>6, <1>a, <2>1 DEF Leave, Types, UnchangedServer
<1>7. ASSUME JoinAccepted(id) \/ RecordPause(id) \/ EndPause(id) PROVE Types'
  <2>1. runtime' \in RuntimeRecord
    BY <1>7 DEF JoinAccepted, RecordPause, EndPause, Types, RuntimeRecord, MaybeRequest
  <2> QED
    BY <1>7, <1>a, <1>b, <1>c, <1>d, <1>f, <2>1
    DEF JoinAccepted, RecordPause, EndPause, Types, UnchangedServer
<1>8. ASSUME QuietQueue(id) PROVE Types'
  <2>1. thread' \in [Request -> ThreadRecord]
    <3>1. "paused" \in Handoffs /\ "finished" \in Handoffs
      BY <1>d
    <3> QED
      BY <1>8, <1>b, <3>1 DEF QuietQueue, PauseQueueAgain, QueueIsQuiet
  <2> QED
    BY <1>8, <1>e, <2>1 DEF QuietQueue, PauseQueueAgain, QueueIsQuiet, Types, UnchangedServer
<1> QED
  BY <1>1, <1>2, <1>3, <1>4, <1>5, <1>6, <1>7, <1>8

LEMMA RestTypes ==
  Types /\ (QueueWorks \/ QueueRests \/ ReleaseDrive \/ ExitDrive \/ EndOfInput \/ Join)
    => Types'
<1> SUFFICES ASSUME Types PROVE (QueueWorks \/ QueueRests \/ ReleaseDrive \/ ExitDrive
                                 \/ EndOfInput \/ Join) => Types'
  OBVIOUS
<1>1. ASSUME QueueWorks \/ QueueRests PROVE Types'
  <2>1. queue.left > 0 => queue.left - 1 \in 0..MaxBatches
    BY HelperConstants DEF QueueRecord, Types
  <2>2. queue' \in QueueRecord
    BY <1>1, <2>1 DEF QueueWorks, QueueRests, QueueRecord, Types
  <2> QED
    BY <1>1, <2>2 DEF QueueWorks, QueueRests, Types
<1>2. ASSUME ReleaseDrive \/ ExitDrive PROVE Types'
  <2>1. runtime' \in RuntimeRecord
    BY <1>2 DEF ReleaseDrive, ExitDrive, RuntimeRecord, MaybeRequest, Types
  <2>2. owner' \in OwnerRecord
    BY <1>2 DEF ReleaseDrive, ExitDrive, Released, NoOwner, OwnerRecord, MaybeRequest, Types
  <2> QED
    BY <1>2, <2>1, <2>2 DEF ReleaseDrive, ExitDrive, Types, UnchangedServer
<1>3. ASSUME EndOfInput \/ Join PROVE Types'
  <2>1. Revoked \in SUBSET Request
    BY DEF Revoked, Types, RuntimeRecord, OwnerRecord, MaybeRequest
  <2>2. [runtime EXCEPT !.authorized = FALSE] \in RuntimeRecord
    BY DEF Types, RuntimeRecord
  <2>3. manual' \in ManualRecord
    BY <1>3 DEF EndOfInput, Join, Types, ManualRecord
  <2> QED
    BY <1>3, <2>1, <2>2, <2>3 DEF EndOfInput, Join, Types
<1> QED
  BY <1>1, <1>2, <1>3

LEMMA TypesNext == Types /\ [Next]_vars => Types'
<1> SUFFICES ASSUME Types, [Next]_vars PROVE Types'
  OBVIOUS
<1>1. CASE UNCHANGED vars
  BY <1>1 DEF vars, Types
<1>2. CASE Next
  BY <1>2, AcceptTypes, WorkTypes, AutonomyTypes, RestTypes DEF Next, Step
<1> QED
  BY <1>1, <1>2

-----------------------------------------------------------------------------
(***************************************************************************)
(* Ownership.  First the turn of the requests, which every step keeps that *)
(* leaves the other threads alone and the used ones used.                  *)
(***************************************************************************)

\* A step of the thread of id alone.
Only(id) ==
  thread'[id].phase # "unused" /\ \A i \in Request \ {id} : thread'[i] = thread[i]

LEMMA TurnKept ==
  ASSUME InTurn, NEW id \in Request, Only(id), thread[id].phase # "unused"
  PROVE  InTurn'
<1>1. \A i \in Request : thread'[i].phase # "unused" <=> thread[i].phase # "unused"
  BY DEF Only
<1> QED
  BY <1>1 DEF InTurn

LEMMA TurnTaken ==
  ASSUME InTurn, NEW id \in Request, NEW kind, Arrives(id, kind), Only(id)
  PROVE  InTurn'
<1>1. \A i \in Request : (thread[i].phase # "unused" \/ i = id) <=> i <= id
  BY NextInTurn
<1>2. \A i \in Request : thread'[i].phase # "unused" <=> i <= id
  BY <1>1 DEF Only
<1>3. id \in 0..MaxRequests
  BY HelperConstants DEF Request
<1> QED
  BY <1>2, <1>3 DEF InTurn

(***************************************************************************)
(* A step of a manual or queue thread: while there is one, no activation   *)
(* is past its wait and no drive runs, so the queue may do anything.       *)
(***************************************************************************)
LEMMA OtherStep ==
  ASSUME OwnInv, Types', NEW id \in Request, Other(id), Only(id),
         thread'[id].kind = thread[id].kind \/ thread'[id].phase = "dead",
         manual'.id = manual.id \/ (manual.id = id /\ thread'[id].phase = "dead"),
         UNCHANGED <<owner, runtime, revoked, reader, asked>>
  PROVE  OwnInv'
<1> USE DEF OwnInv
<1>1. InTurn'
  BY TurnKept DEF Other, Alive
<1>2. \A i \in Request \ {id} : thread'[i] = thread[i]
  BY DEF Only
<1>4. \A i \in Request : Other(i)' => Other(i)
  BY <1>2 DEF Other, Alive
<1>5. ~Activating(id)' /\ ~Activating(id)
  BY DEF Activating, Other, Alive, QueueCommands, Activations
<1>6. OneManual'
  <2>1. ASSUME NEW i \in Request, Alive(i)', thread'[i].kind = "manual" PROVE i = manual'.id
    <3>1. CASE i = id
      BY <2>1, <3>1 DEF OneManual, Alive, Other
    <3>2. CASE i # id
      BY <1>2, <2>1, <3>2 DEF OneManual, Alive, Other
    <3> QED
      BY <3>1, <3>2
  <2> QED
    BY <2>1 DEF OneManual
<1>7. ActivationOwns'
  <2>1. ASSUME NEW i \in Request, Activating(i)' PROVE Owns(i)'
    <3>1. i # id /\ thread'[i] = thread[i] /\ Activating(i) /\ Owns(i)
      BY <1>2, <1>5, <2>1 DEF Activating, Alive, ActivationOwns
    <3>2. ~Settled(i)
      BY <3>1 DEF Owns
    <3>3. ~Settled(i)' /\ (Entered(i)' <=> Entered(i))
      BY <3>1, <3>2 DEF Settled, Entered
    <3> QED
      BY <1>4, <3>1, <3>3 DEF Owns
  <2> QED
    BY <2>1 DEF ActivationOwns
<1>8. DriveOwns'
  BY DEF DriveOwns
<1> QED
  BY <1>1, <1>6, <1>7, <1>8

\* What the definitions of a step say of the other threads.
LEMMA Alone ==
  ASSUME Types, NEW id \in Request
  PROVE  /\ Exit(id) => Only(id) /\ thread'[id].phase = "dead"
         /\ \A phase : Phase(id, phase) =>
              /\ phase # "unused" => Only(id)
              /\ thread'[id] = [thread[id] EXCEPT !.phase = phase]
         /\ \A kind, phase, owned, accepted :
              Spawn(id, kind, phase, owned, accepted) =>
                /\ phase # "unused" => Only(id)
                /\ thread'[id].kind = kind /\ thread'[id].phase = phase
                /\ thread'[id].owned = owned /\ thread'[id].accepted = accepted
<1>1. Exit(id) => Only(id) /\ thread'[id].phase = "dead"
  BY DEF Exit, Only, NoThread, Types
<1>2. ASSUME NEW phase, Phase(id, phase)
      PROVE  /\ phase # "unused" => Only(id)
             /\ thread'[id] = [thread[id] EXCEPT !.phase = phase]
  BY <1>2 DEF Phase, Only, Types, ThreadRecord
<1>3. ASSUME NEW kind, NEW phase, NEW owned, NEW accepted,
             Spawn(id, kind, phase, owned, accepted)
      PROVE  /\ phase # "unused" => Only(id)
             /\ thread'[id].kind = kind /\ thread'[id].phase = phase
             /\ thread'[id].owned = owned /\ thread'[id].accepted = accepted
  BY <1>3 DEF Spawn, Only, NoThread, Types
<1> QED
  BY <1>1, <1>2, <1>3

LEMMA SpawnAlone ==
  ASSUME Types, NEW id \in Request, NEW kind, NEW phase, NEW owned, NEW accepted,
         Spawn(id, kind, phase, owned, accepted), phase # "unused"
  PROVE  /\ Only(id) /\ thread'[id].kind = kind /\ thread'[id].phase = phase
         /\ thread'[id].owned = owned /\ thread'[id].accepted = accepted
BY DEF Spawn, Only, NoThread, Types

LEMMA WorkKeeps ==
  ASSUME OwnInv, NEW id \in Request,
         \/ CheckToken(id) \/ MarkCompleted(id) \/ SendCompletion(id) \/ EndManual(id)
         \/ HandleQueueCommand(id) \/ Persisted(id) \/ Close(id) \/ EndQueueCommand(id)
  PROVE  OwnInv'
<1>1. Types'
  BY WorkTypes DEF OwnInv
<1>2. Other(id)
  <2>1. \/ At(id, {"manual"}, "working") \/ At(id, {"manual"}, "checked")
        \/ At(id, {"manual"}, "marked") \/ At(id, {"manual"}, "sent")
        \/ At(id, QueueCommands, "running") \/ At(id, QueueCommands, "finishing")
        \/ At(id, {"queue_persist"}, "persisting") \/ At(id, {"queue_stop"}, "closing")
    BY DEF CheckToken, MarkCompleted, SendCompletion, EndManual, HandleQueueCommand,
           Persisted, Close, EndQueueCommand
  <2> QED
    BY <2>1 DEF Other, Alive, At, QueueCommands
<1>3. Only(id) /\ (thread'[id].kind = thread[id].kind \/ thread'[id].phase = "dead")
  <2>a. thread[id] \in ThreadRecord
    BY DEF OwnInv, Types
  <2>1. CASE CheckToken(id)
    BY <2>1 DEF CheckToken, Only, OwnInv, Types, ThreadRecord
  <2>2. CASE MarkCompleted(id) \/ SendCompletion(id) \/ Persisted(id) \/ Close(id)
    <3>1. \E phase \in {"marked", "sent", "finishing"} : Phase(id, phase)
      BY <2>2 DEF MarkCompleted, SendCompletion, Persisted, Close
    <3>2. PICK phase \in {"marked", "sent", "finishing"} : Phase(id, phase)
      BY <3>1
    <3>3. Only(id) /\ thread'[id] = [thread[id] EXCEPT !.phase = phase]
      BY <3>2, Alone DEF OwnInv
    <3> QED
      BY <2>a, <3>3 DEF ThreadRecord
  <2>3. CASE EndManual(id) \/ EndQueueCommand(id)
    BY <2>3, Alone DEF EndManual, EndQueueCommand, OwnInv
  <2>4. CASE HandleQueueCommand(id)
    <3>1. PICK verdict \in {"failed", "done"},
               state \in {queue.state, "running", "paused", "stopped"},
               next \in {"finishing", "persisting", "closing"} :
                 Handled(id, verdict, state, next)
      BY <2>4 DEF HandleQueueCommand
    <3> QED
      BY <3>1 DEF Handled, Only, OwnInv, Types, ThreadRecord
  <2> QED
    BY <2>1, <2>2, <2>3, <2>4
<1>4. manual'.id = manual.id \/ (manual.id = id /\ thread'[id].phase = "dead")
  <2>1. CASE EndManual(id)
    BY <1>2, <2>1, Alone DEF EndManual, OwnInv, OneManual, Other, At
  <2>2. CASE MarkCompleted(id)
    BY <2>2 DEF MarkCompleted, OwnInv, Types, ManualRecord
  <2>3. CASE ~EndManual(id) /\ ~MarkCompleted(id)
    BY <2>3 DEF CheckToken, SendCompletion, HandleQueueCommand, Persisted, Close, EndQueueCommand
  <2> QED
    BY <2>1, <2>2, <2>3
<1>5. UNCHANGED <<owner, runtime, revoked, reader, asked>>
  BY DEF CheckToken, MarkCompleted, SendCompletion, EndManual,
         HandleQueueCommand, Persisted, Close, EndQueueCommand
<1> QED
  BY <1>1, <1>2, <1>3, <1>4, <1>5, OtherStep

(***************************************************************************)
(* A line that is answered at once, and a pause: no thread of any family.  *)
(***************************************************************************)
LEMMA ArrivalStep ==
  ASSUME OwnInv, Types', NEW id \in Request, NEW kind, Arrives(id, kind), Only(id),
         thread'[id].phase = "dead" \/ thread'[id].kind = "pause",
         manual'.id = manual.id, runtime'.drive = runtime.drive, runtime'.of = runtime.of,
         \/ revoked' = revoked /\ asked' = asked
         \/ revoked \subseteq revoked' /\ {owner.generation} \ {0} \subseteq revoked',
         UNCHANGED <<owner, queue, reader>>
  PROVE  OwnInv'
<1> USE DEF OwnInv
<1>1. InTurn'
  BY TurnTaken
<1>2. \A i \in Request \ {id} : thread'[i] = thread[i]
  BY DEF Only
<1>3. ~Other(id)' /\ ~Activating(id)'
  BY DEF Other, Activating, Alive, QueueCommands, Activations
<1>4. \A i \in Request : (Other(i)' => Other(i)) /\ (Activating(i)' => Activating(i))
  BY <1>2, <1>3 DEF Other, Activating, Alive
<1>6. OneManual'
  BY <1>2, <1>3 DEF OneManual, Other, Alive
<1>7. ActivationOwns'
  <2>1. ASSUME NEW i \in Request, Activating(i)' PROVE Owns(i)'
    <3>1. i # id /\ thread'[i] = thread[i] /\ Activating(i) /\ Owns(i) /\ i # 0
      BY <1>2, <1>3, <1>4, <2>1, HelperConstants DEF ActivationOwns, Request
    <3>2. (Settled(i)' => Settled(i)) /\ (Entered(i)' <=> Entered(i))
      BY <3>1 DEF Settled, Entered
    <3>3. (i \notin revoked' => i \notin revoked /\ asked' = asked)
      BY <3>1 DEF Owns
    <3>4. QueueIsStill' <=> QueueIsStill
      BY DEF QueueIsStill
    <3> QED
      BY <1>4, <3>1, <3>2, <3>3, <3>4 DEF Owns
  <2> QED
    BY <2>1 DEF ActivationOwns
<1>8. DriveOwns'
  BY <1>4 DEF DriveOwns, QueueIsStill
<1> QED
  BY <1>1, <1>6, <1>7, <1>8

\* An operation or a command is admitted while no campaign owns the helper:
\* there is no activation and no drive.
LEMMA AdmittedAlone ==
  ASSUME OwnInv, Types', NEW id \in Request, NEW kind, Arrives(id, kind), Only(id),
         owner.campaign = 0, Other(id)',
         \/ thread'[id].kind = "manual" /\ manual.id = 0 /\ manual'.id = id
         \/ thread'[id].kind # "manual" /\ UNCHANGED manual,
         UNCHANGED <<owner, queue, runtime, revoked, reader, asked>>
  PROVE  OwnInv'
<1> USE DEF OwnInv
<1>1. InTurn'
  BY TurnTaken
<1>2. \A i \in Request \ {id} : thread'[i] = thread[i]
  BY DEF Only
<1>3. \A i \in Request : ~Activating(i)'
  <2>1. \A i \in Request : ~Activating(i)
    BY DEF ActivationOwns, Owns
  <2>2. ~Activating(id)'
    BY DEF Activating, Other, QueueCommands, Activations
  <2> QED
    BY <1>2, <2>1, <2>2 DEF Activating, Alive
<1>4. runtime.drive # "driving"
  BY DEF DriveOwns
<1>5. OneManual'
  <2>1. ASSUME NEW i \in Request, Alive(i)', thread'[i].kind = "manual" PROVE i = manual'.id
    <3>1. CASE i = id
      BY <2>1, <3>1
    <3>2. CASE i # id
      <4>1. i = manual.id
        BY <1>2, <2>1, <3>2 DEF OneManual, Alive
      <4>2. i # 0
        BY DEF Request
      <4> QED
        BY <4>1, <4>2
    <3> QED
      BY <3>1, <3>2
  <2> QED
    BY <2>1 DEF OneManual
<1> QED
  BY <1>1, <1>3, <1>4, <1>5 DEF ActivationOwns, DriveOwns

\* The first activation lists whatever is still under way.
LEMMA ActivateKeeps ==
  ASSUME OwnInv, ~ResumesOwned, NEW id \in Request, NEW kind \in Activations,
         Activate(id, kind), Types'
  PROVE  OwnInv'
<1> USE DEF OwnInv
<1>1. CASE owner.campaign = 0 /\ Campaign(id, kind) # 0
  <2> DEFINE accepted == QueueThreads \cup {i \in Request : i = manual.id}
  <2>1. /\ owner' = [campaign |-> Campaign(id, kind), generation |-> id]
        /\ Spawn(id, kind, "waiting", TRUE, accepted)
        /\ Arrives(id, kind)
        /\ UNCHANGED <<manual, queue, runtime, revoked, reader, asked>>
    BY <1>1 DEF Activate
  <2>2. /\ Only(id) /\ thread'[id].kind = kind /\ thread'[id].phase = "waiting"
        /\ thread'[id].owned = TRUE /\ thread'[id].accepted = accepted
    <3> HIDE DEF accepted
    <3> QED
      BY <2>1, SpawnAlone
  <2>3. \A i \in Request \ {id} : thread'[i] = thread[i]
    BY <2>2 DEF Only
  <2>4. InTurn'
    BY <2>1, <2>2, TurnTaken
  <2>5. ~Other(id)'
    BY <2>2 DEF Other, QueueCommands, Activations
  <2>6. OneManual'
    BY <2>1, <2>2, <2>3, <2>5 DEF OneManual, Alive, Activations
  <2>7. \A i \in Request : ~Activating(i)
    BY <1>1 DEF ActivationOwns, Owns
  <2>8. ASSUME NEW j \in Request, Other(j)' PROVE j \in accepted
    <3>1. Other(j)
      BY <2>3, <2>5, <2>8 DEF Other, Alive
    <3>2. thread[j].kind = "manual" => j = manual.id
      BY <3>1 DEF OneManual, Other
    <3> QED
      BY <3>1, <3>2 DEF Other, QueueThreads, Threads
  <2>9. Owns(id)'
    <3>1. ~Settled(id)' /\ ~Entered(id)'
      BY <2>2 DEF Settled, Entered
    <3>2. owner'.generation = id /\ owner'.campaign # 0 /\ reader' = "reading"
      BY <1>1, <2>1 DEF Arrives
    <3> QED
      BY <2>2, <2>8, <3>1, <3>2 DEF Owns
  <2>10. ActivationOwns'
    BY <2>3, <2>7, <2>9 DEF ActivationOwns, Activating, Alive
  <2>11. DriveOwns'
    BY <1>1, <2>1 DEF DriveOwns
  <2> QED
    BY <2>4, <2>6, <2>10, <2>11
<1>2. CASE ~(owner.campaign = 0 /\ Campaign(id, kind) # 0)
  <2>1. Reply(id) /\ UNCHANGED <<manual, owner, queue, runtime, revoked, reader, asked>>
        /\ Arrives(id, kind)
    BY <1>2 DEF Activate
  <2>2. Only(id) /\ thread'[id].phase = "dead"
    BY <2>1, Alone DEF Reply
  <2> QED
    BY <2>1, <2>2, ArrivalStep
<1> QED
  BY <1>1, <1>2

LEMMA AcceptKeeps ==
  ASSUME OwnInv, ~ResumesOwned, NEW id \in Request, Accept(id)
  PROVE  OwnInv'
<1> USE DEF OwnInv
<1>a. Types'
  BY AcceptTypes
<1>b. Reply(id) => Only(id) /\ thread'[id].phase = "dead"
  BY Alone DEF Reply
<1>1. CASE StartManual(id)
  <2>1. CASE Busy
    BY <1>1, <1>a, <1>b, <2>1, ArrivalStep DEF StartManual
  <2>2. CASE ~Busy
    <3>1. Only(id) /\ thread'[id].kind = "manual" /\ thread'[id].phase = "working"
      BY <1>1, <2>2, Alone DEF StartManual
    <3>2. Other(id)'
      BY <3>1 DEF Other, Alive
    <3>3. manual.id = 0 /\ manual'.id = id /\ owner.campaign = 0
      BY <1>1, <2>2 DEF StartManual, Busy
    <3> QED
      BY <1>1, <1>a, <3>1, <3>2, <3>3, AdmittedAlone DEF StartManual
  <2> QED
    BY <2>1, <2>2
<1>2. CASE Cancel(id)
  <2>1. manual'.id = manual.id
    BY <1>2 DEF Cancel, Types, ManualRecord
  <2> QED
    BY <1>2, <1>a, <1>b, <2>1, ArrivalStep DEF Cancel
<1>3. CASE AdmitPause(id)
  <2>1. Only(id) /\ (thread'[id].phase = "dead" \/ thread'[id].kind = "pause")
    <3>1. Reply(id) \/ Spawn(id, "pause", "joining", FALSE, AutonomyThreads)
      BY <1>3 DEF AdmitPause
    <3>2. CASE Spawn(id, "pause", "joining", FALSE, AutonomyThreads)
      BY <3>2, SpawnAlone
    <3> QED
      BY <1>b, <3>1, <3>2
  <2>2. \/ revoked' = revoked /\ asked' = asked
        \/ revoked \subseteq revoked' /\ {owner.generation} \ {0} \subseteq revoked'
    BY <1>3 DEF AdmitPause, Revoked
  <2>3. runtime'.drive = runtime.drive /\ runtime'.of = runtime.of
    BY <1>3 DEF AdmitPause, Types, RuntimeRecord
  <2>4. Arrives(id, "pause") /\ UNCHANGED <<manual, owner, queue, reader>>
    BY <1>3 DEF AdmitPause
  <2> QED
    BY <1>a, <2>1, <2>2, <2>3, <2>4, ArrivalStep
<1>4. ASSUME NEW kind \in QueueCommands, StartQueueCommand(id, kind) PROVE OwnInv'
  <2>1. CASE QueueRefused(kind)
    BY <1>4, <1>a, <1>b, <2>1, ArrivalStep DEF StartQueueCommand
  <2>2. CASE ~QueueRefused(kind)
    <3>1. Only(id) /\ thread'[id].kind = kind /\ thread'[id].phase = "running"
      BY <1>4, <2>2, Alone DEF StartQueueCommand
    <3>2. Other(id)' /\ kind # "manual"
      BY <3>1 DEF Other, Alive, QueueCommands
    <3>3. owner.campaign = 0
      BY <2>2 DEF QueueRefused
    <3> QED
      BY <1>4, <1>a, <3>1, <3>2, <3>3, AdmittedAlone DEF StartQueueCommand
  <2> QED
    BY <2>1, <2>2
<1>5. ASSUME NEW kind \in Activations, Activate(id, kind) PROVE OwnInv'
  BY <1>5, <1>a, ActivateKeeps
<1> QED
  BY <1>1, <1>2, <1>3, <1>4, <1>5 DEF Accept

(***************************************************************************)
(* The steps of an activation.  It is the only one, for it owns the        *)
(* helper, and no drive runs beside it.                                    *)
(***************************************************************************)
LEMMA ActivationStep ==
  ASSUME OwnInv, Types', NEW id \in Request, Activating(id), Only(id),
         thread'[id].kind = thread[id].kind \/ thread'[id].phase = "dead",
         manual'.id = manual.id, Activating(id)' => Owns(id)', DriveOwns'
  PROVE  OwnInv'
<1> USE DEF OwnInv
<1>1. InTurn'
  BY TurnKept DEF Activating, Alive
<1>2. \A i \in Request \ {id} : thread'[i] = thread[i]
  BY DEF Only
<1>3. \A i \in Request \ {id} : ~Activating(i)
  BY DEF ActivationOwns, Owns
<1>4. ActivationOwns'
  BY <1>2, <1>3 DEF ActivationOwns, Activating, Alive
<1>5. OneManual'
  BY <1>2 DEF OneManual, Alive, Activating, Activations
<1> QED
  BY <1>1, <1>4, <1>5

\* It stays the owner, whatever its next phase.
LEMMA StillOwns ==
  ASSUME OwnInv, NEW id \in Request, Activating(id), Only(id),
         thread'[id].kind = thread[id].kind, Alive(id)', owner' = owner,
         thread'[id].owned = thread[id].owned, thread'[id].accepted = thread[id].accepted
  PROVE  /\ owner'.generation = id /\ owner'.campaign # 0 /\ thread'[id].owned
         /\ \A j \in Request : Other(j)' => Other(j) /\ j \in thread'[id].accepted
         /\ runtime.drive # "driving"
<1>1. Owns(id)
  BY DEF OwnInv, ActivationOwns
<1>2. \A j \in Request : Other(j)' => Other(j)
  <2>1. ~Other(id)'
    BY DEF Other, Activating, Activations, QueueCommands
  <2> QED
    BY <2>1 DEF Other, Alive, Only
<1>3. runtime.drive # "driving"
  BY DEF OwnInv, DriveOwns
<1> QED
  BY <1>1, <1>2, <1>3 DEF Owns

LEMMA ActivationKeeps ==
  ASSUME OwnInv, NEW id \in Request,
         \/ EnterActivation(id) \/ HandOff(id) \/ Drain(id) \/ Quieted(id)
         \/ Prepare(id) \/ GiveUp(id) \/ StartDrive(id) \/ Leave(id)
  PROVE  OwnInv'
<1>a. Types'
  BY AutonomyTypes DEF OwnInv
<1>b. thread[id] \in ThreadRecord /\ Types
  BY DEF OwnInv, Types
<1>c. Activating(id)
  <2>1. thread[id].kind \in Activations /\
        thread[id].phase \in {"waiting", "handing_off", "draining", "quieting", "drained",
                             "prepared", "leaving"}
    BY DEF EnterActivation, HandOff, Drain, Quieted, Prepare, GiveUp, StartDrive, Leave, At
  <2> QED
    BY <2>1 DEF Activating, Alive
<1>d. Owns(id) /\ runtime.drive # "driving"
  BY <1>c DEF OwnInv, ActivationOwns, DriveOwns
<1>e. manual' = manual /\ reader' = reader
  BY DEF EnterActivation, HandOff, Drain, Quieted, Prepare, GiveUp, StartDrive, Leave,
         UnchangedServer
<1>f. ASSUME NEW phase \in Phases \ {"unused", "dead"}, Phase(id, phase)
      PROVE  /\ Only(id) /\ Alive(id)' /\ thread'[id].phase = phase
             /\ thread'[id].kind = thread[id].kind /\ thread'[id].owned = thread[id].owned
             /\ thread'[id].accepted = thread[id].accepted
             /\ thread'[id].handoff = thread[id].handoff
  <2>1. Only(id) /\ thread'[id] = [thread[id] EXCEPT !.phase = phase]
    BY <1>b, <1>f, Alone
  <2> QED
    BY <1>b, <1>f, <2>1 DEF ThreadRecord, Alive
<1>g. {"handing_off", "draining", "quieting", "drained", "prepared", "leaving"}
        \subseteq Phases \ {"unused", "dead"}
  BY DEF Phases
\* Before the others have been joined.
<1>1. CASE EnterActivation(id)
  <2>1. \E phase \in {"leaving", "handing_off"} :
          /\ Phase(id, phase)
          /\ runtime'.drive = runtime.drive
          /\ phase = "handing_off" => asked' = id
    BY <1>1, <1>b DEF EnterActivation, Types, RuntimeRecord
  <2>2. PICK phase \in {"leaving", "handing_off"} :
          /\ Phase(id, phase)
          /\ runtime'.drive = runtime.drive
          /\ phase = "handing_off" => asked' = id
    BY <2>1
  <2>3. /\ Only(id) /\ Alive(id)' /\ thread'[id].phase = phase
        /\ thread'[id].kind = thread[id].kind /\ thread'[id].owned = thread[id].owned
        /\ thread'[id].accepted = thread[id].accepted
    BY <1>f, <1>g, <2>2
  <2>4. owner' = owner /\ revoked' = revoked
    BY <1>1 DEF EnterActivation
  <2>5. ~Settled(id)' /\ (Entered(id)' => asked' = id)
    BY <2>2, <2>3 DEF Settled, Entered
  <2>6. Owns(id)'
    BY <1>c, <1>d, <1>e, <2>3, <2>4, <2>5, StillOwns DEF Owns
  <2> QED
    BY <1>a, <1>c, <1>d, <1>e, <2>2, <2>3, <2>6, ActivationStep DEF DriveOwns
<1>2. CASE HandOff(id)
  <2>1. /\ Only(id) /\ Alive(id)' /\ thread'[id].phase = "draining"
        /\ thread'[id].kind = thread[id].kind /\ thread'[id].owned = thread[id].owned
        /\ thread'[id].accepted = thread[id].accepted
    BY <1>2, <1>f, <1>g DEF HandOff
  <2>2. owner' = owner /\ revoked' = revoked /\ runtime' = runtime /\ asked' = asked
    BY <1>2 DEF HandOff, UnchangedServer
  <2>3. ~Settled(id)' /\ Entered(id)
    BY <1>2, <2>1 DEF Settled, Entered, HandOff, At
  <2>4. Owns(id)'
    BY <1>c, <1>d, <1>e, <2>1, <2>2, <2>3, StillOwns DEF Owns
  <2> QED
    BY <1>a, <1>c, <1>d, <1>e, <2>1, <2>2, <2>4, ActivationStep DEF DriveOwns
\* They have been joined, or the activation has been revoked.
<1>3. CASE Drain(id)
  <2>2. /\ owner' = owner /\ revoked' = revoked /\ runtime' = runtime /\ asked' = asked
        /\ queue' = queue /\ Entered(id)
    BY <1>3 DEF Drain, UnchangedServer, Entered, At
  <2>3. CASE RevokedBeforeDrain(id) /\ Phase(id, "drained")
    <3>1. /\ Only(id) /\ Alive(id)' /\ thread'[id].phase = "drained"
          /\ thread'[id].kind = thread[id].kind /\ thread'[id].owned = thread[id].owned
          /\ thread'[id].accepted = thread[id].accepted
      BY <1>3, <1>f, <1>g, <2>3 DEF Drain
    <3>2. ~Settled(id)' /\ id \in revoked'
      BY <1>3, <2>3, <3>1 DEF Settled, RevokedBeforeDrain, Drain
    <3>3. Owns(id)'
      BY <1>c, <1>d, <1>e, <2>2, <3>1, <3>2, StillOwns DEF Owns, Drain
    <3> QED
      BY <1>a, <1>c, <1>d, <1>e, <1>3, <3>1, <3>3, ActivationStep DEF DriveOwns, Drain
  <2>4. CASE /\ Joined(id)
             /\ thread' = [thread EXCEPT ![id].phase = "quieting", ![id].handoff = "started"]
    <3>1. /\ Only(id) /\ Alive(id)' /\ thread'[id].phase = "quieting"
          /\ thread'[id].handoff = "started"
          /\ thread'[id].kind = thread[id].kind /\ thread'[id].owned = thread[id].owned
          /\ thread'[id].accepted = thread[id].accepted
      BY <1>b, <1>3, <2>4 DEF Drain, Only, Alive, Types, ThreadRecord
    <3>2. \A j \in Request : ~Other(j)
      BY <1>3, <1>d, <2>4 DEF Drain, Joined, Owns, Other
    <3>3. /\ \A j \in Request : ~Other(j)'
          /\ thread'[id].phase = "quieting" /\ thread'[id].handoff = "started"
          /\ owner'.generation = id /\ owner'.campaign # 0 /\ thread'[id].owned
      BY <1>c, <1>3, <3>1, <3>2, StillOwns DEF Drain
    <3>4. id \notin revoked' => reader' = "reading" /\ asked' = id
      BY <1>3, <1>d, <1>e DEF Drain, UnchangedServer, Owns, Entered, At
    <3>5. Owns(id)'
      BY <3>3, <3>4 DEF Owns
    <3> QED
      BY <1>a, <1>c, <1>d, <1>e, <1>3, <3>1, <3>5, ActivationStep DEF DriveOwns, Drain
  <2> QED
    BY <1>3, <2>3, <2>4 DEF Drain
<1>4. CASE Quieted(id) \/ Prepare(id)
  <2>1. PICK phase \in {"drained", "prepared"} : Phase(id, phase)
    BY <1>4 DEF Quieted, Prepare
  <2>2. /\ Only(id) /\ Alive(id)' /\ thread'[id].phase = phase
        /\ thread'[id].kind = thread[id].kind /\ thread'[id].owned = thread[id].owned
        /\ thread'[id].accepted = thread[id].accepted
    BY <1>f, <1>g, <2>1
  <2>3. /\ owner' = owner /\ revoked' = revoked /\ runtime' = runtime /\ asked' = asked
        /\ queue' = queue
    BY <1>4 DEF Quieted, Prepare, UnchangedServer
  <2>4. Entered(id) /\ Entered(id)'
    BY <1>4, <2>2 DEF Entered, Quieted, Prepare, At
  <2>5. Settled(id)' => (\A j \in Request : ~Other(j)) /\ QueueIsStill
    <3>1. CASE Quieted(id)
      <4>1. id \in revoked => ~Settled(id)'
        BY <1>4, <3>1, <1>f, <1>g, <2>3 DEF Quieted, Settled
      <4>2. id \notin revoked => thread[id].phase = "quieting" /\ thread[id].handoff = "finished"
        BY <3>1 DEF Quieted, RevokedBeforeDrain, At
      <4> QED
        BY <1>d, <4>1, <4>2 DEF Owns, Settled
    <3>2. CASE Prepare(id)
      BY <1>d, <3>2 DEF Owns, Settled, Prepare, At
    <3> QED
      BY <1>4, <3>1, <3>2
  <2>6. Owns(id)'
    BY <1>c, <1>d, <1>e, <2>2, <2>3, <2>4, <2>5, StillOwns DEF Owns, QueueIsStill
  <2> QED
    BY <1>a, <1>c, <1>d, <1>e, <2>2, <2>3, <2>6, ActivationStep DEF DriveOwns
\* The end of the activation.
<1>5. CASE GiveUp(id)
  <2>1. /\ Only(id) /\ Alive(id)' /\ thread'[id].phase = "leaving"
        /\ thread'[id].kind = thread[id].kind /\ thread'[id].owned = thread[id].owned
        /\ thread'[id].accepted = thread[id].accepted
    BY <1>5, <1>f, <1>g DEF GiveUp
  <2>2. owner' = owner /\ revoked \subseteq revoked' /\ runtime'.drive = runtime.drive
    BY <1>5, <1>b DEF GiveUp, Types, RuntimeRecord
  <2>3. ~Settled(id)' /\ ~Entered(id)'
    BY <2>1 DEF Settled, Entered
  <2>4. Owns(id)'
    BY <1>c, <1>d, <1>e, <2>1, <2>2, <2>3, StillOwns DEF Owns
  <2> QED
    BY <1>a, <1>c, <1>d, <1>e, <2>1, <2>2, <2>4, ActivationStep DEF DriveOwns
<1>6. CASE StartDrive(id)
  <2>1. Only(id) /\ thread'[id].phase = "dead"
    BY <1>6, <1>b, Alone DEF StartDrive
  <2>2. owner' = owner /\ queue' = queue /\ runtime'.of = id
    BY <1>6, <1>b DEF StartDrive, Types, RuntimeRecord
  <2>3. Settled(id) /\ thread[id].phase = "prepared"
    BY <1>6 DEF StartDrive, At, Settled
  <2>4. \A j \in Request : ~Other(j)' /\ ~Activating(j)'
    <3>1. \A j \in Request \ {id} : ~Other(j) /\ ~Activating(j)
      BY <1>d, <2>3 DEF OwnInv, ActivationOwns, Owns
    <3> QED
      BY <2>1, <3>1 DEF Only, Other, Activating, Alive
  <2>5. DriveOwns'
    BY <1>d, <2>2, <2>3, <2>4 DEF DriveOwns, Owns, QueueIsStill
  <2> QED
    BY <1>a, <1>c, <1>e, <2>1, <2>4, <2>5, ActivationStep
<1>7. CASE Leave(id)
  <2>1. Only(id) /\ thread'[id].phase = "dead" /\ runtime' = runtime
    BY <1>7, <1>b, Alone DEF Leave
  <2>2. ~Activating(id)'
    BY <2>1 DEF Activating, Alive
  <2> QED
    BY <1>a, <1>c, <1>d, <1>e, <2>1, <2>2, ActivationStep DEF DriveOwns
<1> QED
  BY <1>1, <1>2, <1>3, <1>4, <1>5, <1>6, <1>7

-----------------------------------------------------------------------------
(***************************************************************************)
(* The steps that leave the owner's thread alone.                          *)
(***************************************************************************)

\* No thread changes but for how far its handoff got, and the queue starts
\* nothing that an owner has seen the end of.
LEMMA QuietStep ==
  ASSUME OwnInv, Types', manual'.id = manual.id,
         \A i \in Request :
           /\ thread'[i].phase = thread[i].phase /\ thread'[i].kind = thread[i].kind
           /\ thread'[i].owned = thread[i].owned /\ thread'[i].accepted = thread[i].accepted,
         \A i \in Request : Activating(i) => Owns(i)',
         DriveOwns'
  PROVE  OwnInv'
<1> USE DEF OwnInv
<1>1. InTurn'
  BY DEF InTurn
<1>2. OneManual'
  BY DEF OneManual, Alive
<1>3. ActivationOwns'
  BY DEF ActivationOwns, Activating, Alive
<1> QED
  BY <1>1, <1>2, <1>3

LEMMA QueueKeeps == OwnInv /\ (QueueWorks \/ QueueRests) => OwnInv'
<1> SUFFICES ASSUME OwnInv, QueueWorks \/ QueueRests PROVE OwnInv'
  OBVIOUS
<1>1. Types' /\ queue \in QueueRecord
  BY RestTypes DEF OwnInv, Types
<1>2. UNCHANGED <<thread, manual, owner, runtime, revoked, reader, asked>>
  BY DEF QueueWorks, QueueRests
<1>3. queue'.state = queue.state /\ (queue.state # "running" => queue'.busy = FALSE \/ queue' = queue)
  BY <1>1 DEF QueueWorks, QueueRests, QueueRecord
<1>4. QueueIsStill => QueueIsStill'
  BY <1>3 DEF QueueIsStill
<1>5. ASSUME NEW i \in Request, Activating(i) PROVE Owns(i)'
  <2>1. Owns(i)
    BY <1>5 DEF OwnInv, ActivationOwns
  <2> QED
    BY <1>2, <1>3, <1>4, <2>1 DEF Owns, Settled, Entered, Other, Alive
<1>6. DriveOwns'
  BY <1>2, <1>4 DEF OwnInv, DriveOwns, Other, Activating, Alive
<1> QED
  BY <1>1, <1>2, <1>5, <1>6, QuietStep

LEMMA HandoffKeeps ==
  ASSUME OwnInv, NEW id \in Request, QuietQueue(id)
  PROVE  OwnInv'
<1>1. Types' /\ queue \in QueueRecord /\ thread[id] \in ThreadRecord
  BY AutonomyTypes DEF OwnInv, Types
<1>2. UNCHANGED <<manual, owner, runtime, revoked, reader, asked>>
  BY DEF QuietQueue, PauseQueueAgain, QueueIsQuiet, UnchangedServer
<1>3. \A i \in Request :
        /\ thread'[i].phase = thread[i].phase /\ thread'[i].kind = thread[i].kind
        /\ thread'[i].owned = thread[i].owned /\ thread'[i].accepted = thread[i].accepted
        /\ i # id => thread'[i].handoff = thread[i].handoff
  BY <1>1 DEF QuietQueue, PauseQueueAgain, QueueIsQuiet, OwnInv, Types, ThreadRecord
<1>4. /\ queue'.busy = queue.busy
      /\ queue'.state = "running" => queue.state = "running" /\ thread[id].handoff = "paused"
      /\ \/ thread'[id].handoff = "paused"
         \/ thread'[id].handoff = "finished" /\ thread[id].handoff = "paused" /\ ~queue.busy
  BY <1>1 DEF QuietQueue, PauseQueueAgain, QueueIsQuiet, PausedQueue, QueueRecord, OwnInv,
             Types, ThreadRecord
<1>5. QueueIsStill => QueueIsStill'
  BY <1>4 DEF QueueIsStill
<1>6. ASSUME NEW i \in Request, Activating(i) PROVE Owns(i)'
  <2>1. Owns(i)
    BY <1>6 DEF OwnInv, ActivationOwns
  <2>2. /\ Settled(i)' <=> Settled(i)
        /\ Entered(i)' <=> Entered(i)
        /\ \A j \in Request : Other(j)' <=> Other(j)
    BY <1>2, <1>3 DEF Settled, Entered, Other, Alive
  <2>3. ASSUME Settled(i), thread'[i].phase = "quieting" => thread'[i].handoff = "paused"
        PROVE  queue'.state # "running"
    BY <1>3, <1>4, <2>1, <2>3 DEF Owns
  <2>4. ASSUME Settled(i), thread'[i].phase = "quieting" => thread'[i].handoff = "finished"
        PROVE  QueueIsStill'
    BY <1>3, <1>4, <1>5, <2>1, <2>4 DEF Owns, QueueIsStill
  <2> QED
    BY <1>2, <1>3, <2>1, <2>2, <2>3, <2>4 DEF Owns
<1>7. DriveOwns'
  BY <1>2, <1>3, <1>5 DEF OwnInv, DriveOwns, Other, Activating, Alive
<1> QED
  BY <1>1, <1>2, <1>3, <1>6, <1>7, QuietStep

\* The thread of a pause.
LEMMA PauseKeeps ==
  ASSUME OwnInv, NEW id \in Request,
         JoinAccepted(id) \/ RecordPause(id) \/ EndPause(id)
  PROVE  OwnInv'
<1>1. Types' /\ Types /\ thread[id] \in ThreadRecord
  BY AutonomyTypes DEF OwnInv, Types
<1>2. UNCHANGED <<manual, owner, queue, revoked, reader, asked>>
  BY DEF JoinAccepted, RecordPause, EndPause, UnchangedServer
<1>3. runtime'.drive = runtime.drive /\ runtime'.of = runtime.of
  BY <1>1 DEF JoinAccepted, RecordPause, EndPause, Types, RuntimeRecord
<1>4. thread[id].kind = "pause" /\ Alive(id)
  BY DEF JoinAccepted, RecordPause, EndPause, At, Alive
<1>5. Only(id) /\ (thread'[id].kind = "pause" \/ thread'[id].phase = "dead")
  <2>1. CASE EndPause(id)
    BY <1>1, <2>1, Alone DEF EndPause
  <2>2. CASE ~EndPause(id)
    <3>1. PICK phase \in {"waiting", "pausing"} : Phase(id, phase)
      BY <2>2 DEF JoinAccepted, RecordPause
    <3>2. Only(id) /\ thread'[id] = [thread[id] EXCEPT !.phase = phase]
      BY <1>1, <3>1, Alone
    <3> QED
      BY <1>1, <1>4, <3>2 DEF ThreadRecord
  <2> QED
    BY <2>1, <2>2
<1>6. ~Other(id)' /\ ~Activating(id)'
  BY <1>5 DEF Other, Activating, Alive, QueueCommands, Activations
<1>7. \A i \in Request \ {id} : thread'[i] = thread[i]
  BY <1>5 DEF Only
<1>8. InTurn'
  BY <1>4, <1>5, TurnKept DEF OwnInv, Alive
<1>9. OneManual'
  BY <1>2, <1>5, <1>7 DEF OwnInv, OneManual, Alive
<1>10. \A j \in Request : (Other(j)' => Other(j)) /\ (Activating(j)' => Activating(j) /\ j # id)
  BY <1>6, <1>7 DEF Other, Activating, Alive
<1>11. ActivationOwns'
  BY <1>2, <1>7, <1>10 DEF OwnInv, ActivationOwns, Owns, Settled, Entered, QueueIsStill
<1>12. DriveOwns'
  BY <1>2, <1>3, <1>10 DEF OwnInv, DriveOwns, QueueIsStill
<1> QED
  BY <1>1, <1>8, <1>9, <1>11, <1>12 DEF OwnInv

\* The end of a drive, and the end of the input.
LEMMA EndKeeps == OwnInv /\ (ReleaseDrive \/ ExitDrive \/ EndOfInput \/ Join) => OwnInv'
<1> SUFFICES ASSUME OwnInv, ReleaseDrive \/ ExitDrive \/ EndOfInput \/ Join PROVE OwnInv'
  OBVIOUS
<1>a. Types' /\ Types
  BY RestTypes DEF OwnInv
<1>b. thread' = thread /\ queue' = queue
  BY DEF ReleaseDrive, ExitDrive, EndOfInput, Join
<1>1. CASE ReleaseDrive \/ ExitDrive
  <2>1. runtime'.drive # "driving" /\ manual' = manual
    BY <1>1, <1>a DEF ReleaseDrive, ExitDrive, UnchangedServer, Types, RuntimeRecord
  <2>2. ASSUME NEW i \in Request, Activating(i) PROVE Owns(i)'
    <3>1. Owns(i) /\ runtime.drive # "driving"
      BY <2>2 DEF OwnInv, ActivationOwns, DriveOwns
    <3>2. UNCHANGED <<owner, revoked, reader, asked>>
      BY <1>1, <3>1 DEF ReleaseDrive, ExitDrive, UnchangedServer
    <3> QED
      BY <1>b, <3>1, <3>2 DEF Owns, Settled, Entered, Other, Alive, QueueIsStill
  <2> QED
    BY <1>a, <1>b, <2>1, <2>2, QuietStep DEF DriveOwns
<1>2. CASE EndOfInput \/ Join
  <2>1. /\ manual'.id = manual.id /\ owner' = owner /\ asked' = asked
        /\ runtime'.drive = runtime.drive /\ runtime'.of = runtime.of
    BY <1>2, <1>a DEF EndOfInput, Join, Types, RuntimeRecord, ManualRecord
  <2>2. revoked' = revoked \/ revoked' = Revoked
    BY <1>2 DEF EndOfInput, Join
  <2>3. ASSUME NEW i \in Request, Activating(i) PROVE Owns(i)'
    <3>1. Owns(i)
      BY <2>3 DEF OwnInv, ActivationOwns
    <3>2. i # 0
      BY HelperConstants DEF Request
    <3>3. revoked \subseteq revoked' /\ i \in revoked'
      <4>1. CASE EndOfInput
        BY <3>1, <3>2, <4>1 DEF EndOfInput, Revoked, Owns
      <4>2. CASE Join
        BY <2>2, <3>1, <4>2 DEF Join, Revoked, Owns
      <4> QED
        BY <1>2, <4>1, <4>2
    <3>4. Settled(i)' => Settled(i)
      BY <1>b, <3>3 DEF Settled
    <3> QED
      BY <1>b, <2>1, <3>1, <3>3, <3>4 DEF Owns, Other, Alive, QueueIsStill
  <2>4. DriveOwns'
    BY <1>b, <2>1 DEF OwnInv, DriveOwns, Other, Activating, Alive, QueueIsStill
  <2> QED
    BY <1>a, <1>b, <2>1, <2>3, <2>4, QuietStep
<1> QED
  BY <1>1, <1>2

-----------------------------------------------------------------------------

LEMMA OwnNext == ASSUME ~ResumesOwned, OwnInv, [Next]_vars PROVE OwnInv'
<1>1. CASE UNCHANGED vars
  BY <1>1 DEF vars, OwnInv, Types, InTurn, OneManual, ActivationOwns, DriveOwns, Owns, Other,
              Activating, Alive, Settled, Entered, QueueIsStill
<1>2. CASE Next
  BY <1>2, AcceptKeeps, WorkKeeps, ActivationKeeps, PauseKeeps, HandoffKeeps, QueueKeeps,
     EndKeeps DEF Next, Step
<1> QED
  BY <1>1, <1>2

LEMMA OwnInvariant == ASSUME ~ResumesOwned PROVE Spec => []OwnInv
<1>1. Init => OwnInv
  BY OwnInit
<1>2. OwnInv /\ [Next]_vars => OwnInv'
  BY OwnNext
<1> QED
  BY <1>1, <1>2, PTL DEF Spec

\* While a campaign reads the library or drives, no manual operation and no
\* queue command is under way and the queue is still: the activation listed
\* and joined whatever it found, and whatever arrives later is refused
\* (ipc.py:836-842, 878-880, 986-1014).  A client that resumes the campaign
\* which already owns the helper is outside the assumption.
THEOREM FamiliesNeverMeet == ASSUME ~ResumesOwned PROVE Spec => []FamiliesExclusive
<1>1. OwnInv => FamiliesExclusive
  <2> SUFFICES ASSUME OwnInv PROVE FamiliesExclusive
    OBVIOUS
  <2>1. TypeOK
    BY DEF OwnInv, Types, TypeOK, ThreadRecord, ManualRecord, OwnerRecord, QueueRecord,
           RuntimeRecord, MaybeRequest, Kinds, Verdicts, Handoffs
  <2>2. ASSUME Driving PROVE (\A j \in Request : ~Other(j)) /\ QueueIsStill
    <3>1. CASE runtime.drive = "driving"
      BY <3>1 DEF OwnInv, DriveOwns
    <3>2. ASSUME NEW id \in Request, At(id, Activations, "prepared")
          PROVE  (\A j \in Request : ~Other(j)) /\ QueueIsStill
      <4>1. Activating(id) /\ Settled(id) /\ thread[id].phase = "prepared"
        BY <3>2 DEF Activating, Alive, Settled, At
      <4> QED
        BY <4>1 DEF OwnInv, ActivationOwns, Owns
    <3> QED
      BY <2>2, <3>1, <3>2 DEF Driving
  <2> QED
    BY <2>1, <2>2 DEF FamiliesExclusive, Threads, QueueThreads, Other, QueueIsStill
<1> QED
  BY <1>1, OwnInvariant, PTL

\* A drive starts only for the autonomy control accepted last and only before
\* the end of the input: a pause accepted during the preparation has set the
\* generation that the start looks at under the runtime's lock
\* (autonomous_dispatcher.py:233-240, 388-391; ipc.py:1304-1311).
THEOREM DriveIsTheLastAsked == ASSUME ~ResumesOwned PROVE Spec => DriveNeedsActivation
<1>1. ASSUME OwnInv, Next, runtime.drive = "none", runtime'.drive = "driving"
      PROVE  runtime'.of = asked /\ reader = "reading"
  <2>1. PICK id \in Request : StartDrive(id)
    <3>1. runtime \in RuntimeRecord
      BY <1>1 DEF OwnInv, Types
    <3>2. \/ \E id \in Request : EnterActivation(id) \/ GiveUp(id) \/ StartDrive(id)
                                \/ RecordPause(id) \/ EndPause(id) \/ AdmitPause(id)
          \/ ReleaseDrive \/ ExitDrive \/ EndOfInput \/ Join
      <4>1. runtime' # runtime
        BY <1>1
      <4> QED
        BY <1>1, <4>1
        DEF Next, Accept, Step, QuietQueue, StartManual, Cancel, StartQueueCommand, Activate,
            CheckToken, MarkCompleted, SendCompletion, EndManual, HandleQueueCommand, Persisted,
            Close, EndQueueCommand, HandOff, Drain, Quieted, Prepare, Leave, JoinAccepted,
            PauseQueueAgain, QueueIsQuiet, QueueWorks, QueueRests
    <3> QED
      BY <1>1, <3>1, <3>2
      DEF EnterActivation, GiveUp, RecordPause, EndPause, AdmitPause, ReleaseDrive, ExitDrive,
          EndOfInput, Join, RuntimeRecord
  <2>2. Owns(id) /\ Entered(id) /\ id \notin revoked
    <3>1. Activating(id) /\ Entered(id) /\ id \notin revoked
      BY <2>1 DEF StartDrive, At, Activating, Alive, Entered
    <3> QED
      BY <1>1, <3>1 DEF OwnInv, ActivationOwns
  <2>3. runtime'.of = id
    BY <1>1, <2>1 DEF StartDrive, OwnInv, Types, RuntimeRecord
  <2> QED
    BY <2>2, <2>3 DEF Owns
<1>2. OwnInv /\ [Next]_vars =>
        [runtime.drive = "none" /\ runtime'.drive = "driving" =>
           runtime'.of = asked /\ reader = "reading"]_vars
  BY <1>1
<1> QED
  BY <1>2, OwnInvariant, PTL DEF Spec, DriveNeedsActivation

=============================================================================
