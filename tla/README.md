# TLA+ verification of photos-local-keyword-indexer

The program proposes keywords and captions for the photos of an Apple Photos
library with local models, lets the user review each one, and writes the
approved values back.  A Swift app drives a Python helper over a line protocol.
This directory models the helper's stateful parts in TLA+, checks them with TLC
on small instances and proves central facts with TLAPS.

Paths below are relative to `src/`; the Python package is
`src/photos_indexer/`.

## 1. Inventory

| component | state | operations | hard behaviours |
|---|---|---|---|
| session ledger, `queue_session.py` | revision, state, settings, item revisions, decisions; `session.json` | enqueue, set_state, update_config, checkpoint_item, record_decision, write/load | failing writes, stale clients, replays, revision limit |
| coordinator, `queue_coordinator.py` | Photos lane, fill lock, scheduler flag, pools, candidates, manifests | fill, schedule, persist, discard, rescan, pause, resume, update, stop, close | all of it runs on several threads; wakeups; priority of writes |
| queue runtime, `queue_runtime.py` | active sessions, `seen_local_ids` | start, resume after restart, commands, handoff | crash recovery, lost runs, double resume |
| worker server, `ipc.py` | owner of the helper: manual, queue or autonomy; cancellation | start/cancel/pause/shutdown of each command kind | two owners at once, a pause during a preparation, joins in a cycle |
| scan, `workflows.py`, `adapters.py` | run directory, export workspace and its lock, rows | select, recover, export, analyse, clean up, write the manifest | interrupted and concurrent clean-up, errors of every photo |
| review, `service.py` | derived reviewed run | review with selections or with edited values | agreement with the scan it derives from |
| apply / rollback / status, `workflows.py` | manifest rows, receipts, Photos | one write protocol per photo, read-back, rollback | crash between write and evidence, external edits, retry |
| manifest, `manifest.py` | run manifest | validated row states | evidence digests, one test repeated in several places |
| campaign store and gate, `autonomous_runtime.py` | campaign, positions, decisions, outcomes | create, authorise, pause, settle, apply | crash between decision and outcome, counters |
| dispatcher, `autonomous_dispatcher.py` | intake, lane, active campaign | handle, admit_pause, drive, recover | pause racing an apply, a window of futures |
| inventory, `autonomous_inventory.py` | pages and snapshot on disk | create, load, walk, look up | incomplete groups at every level, damaged pages |
| places, `places.py` | a batch of Maps searches | start, handlers, wait | late, missing and re-entrant handlers, deadline |
| policy, landmarks, storage, CLI | none | - | text rules, file checks |
| Swift app | presentation state, private decision files | one reducer over worker events | late events |

How they interact.  The app sends commands; `ipc.py` starts at most one family
of work at a time (manual, queue, autonomous), hands queue commands to the queue
runtime, which owns one coordinator per session, and autonomous ones to the
campaign runtime.  The coordinator calls back into the runtime to discover,
prepare and analyse photos, and into review + apply to save one; the campaign's
drive does the same for one position of its inventory after the other, with the
gate in place of the reviewer.  Every change of a session is written to
`session.json` and announced as an event carrying the session revision; controls
carry the revision their sender saw.  Analyses, saves and decisions leave their
evidence in run directories; after a restart the runtime rebuilds coordinator or
campaign from that evidence.

What makes each correct:

* ledger: a revision number names one ledger; decisions are idempotent; earlier
  attempts are never rewritten.
* coordinator: Photos is used by one thread; inference is bounded; no work
  starts after a control; results of stale analyses are dropped; every waiting
  card advances; saves are owned and end.
* runtime: after a crash nothing is written again and no photo is on two cards.
* worker server: manual, queue and autonomous work never overlap; a pause
  reaches an activation wherever it is; every request is answered; it ends.
* scan: a working scan keeps its exports, abandoned ones are removed, every end
  comes to a readable manifest, and its advice can be followed.
* review: what it derives is what apply later accepts as that scan's review, and
  it marks what is not the model's.
* apply/rollback: only approved and never externally-changed values are
  written, verified values are exactly what rollback removes.
* campaign: at most one apply per photo, counters equal the evidence, no apply
  after a pause was admitted, the drive ends.
* inventory: the walk is the library, newest first, once.
* places: a batch does not stall and its caller always gets an answer.

The hazards found while reading, with their lines, are in `PROJECT.json`.

## 2. Modules

| module | what |
|---|---|
| `QueueLedger` | the ledger's rules as operators on (items, decisions), shared |
| `QueueSession` | one session: memory, file, the client's copy; writes that fail; crash and resume |
| `QueueSessionProofs` | proofs about `QueueSession` |
| `ReviewWrites` | abstract specification: approve, write once, settle, give up |
| `QueueCoordinator` | the threads of coordinator and runtime over one session; implements `ReviewWrites` |
| `QueueCoordinatorProofs` | proofs about saves, what is written and what controls keep; the refinement of `ReviewWrites`; that Photos and the inference pool are not overused and that cards have their own photos |
| `MutationManifest` | one row of a reviewed manifest, what the reader refuses, receipts, and the tests apply, rollback and status put to the rows |
| `PhotoJournal` | abstract specification: a photo changes only under an open row; a row opens at most once for writing and stays known |
| `ApplyRollback` | `run_apply` and `run_rollback` over a manifest and an edited library; implements `PhotoJournal` |
| `ApplyRollbackProofs` | proofs that `ApplyRollback` implements `PhotoJournal` and about what it saves, advises and removes |
| `HelperOwnership` | `ipc.py`: the reader, the thread of each request, and who owns the helper |
| `HelperOwnershipProofs` | proofs about `HelperOwnership` |
| `AutonomousCampaign` | campaign store, gate and drive over the positions of one campaign |
| `AutonomousCampaignProofs` | proofs about `AutonomousCampaign` |
| `Inventory` | the sorted, paged, hashed inventory and the walk over it |
| `InventoryProofs` | proofs that the sort sorts, that a page is accepted exactly when it is the page stored, and that the walk is the library |
| `PlacesLookup` | the batch of Maps searches and its caller |
| `PlacesProofs` | proofs about `PlacesLookup` |
| `ScanRows` | a scanned row, the rules of the manifest's reader, the advice |
| `Review` | the two reviews and the comparison with their source |
| `PhotoScan` | scans over one directory of runs, and reviews of them |
| `PhotoScanProofs` | proofs about `PhotoScan`, and about the rows and manifests it writes |
| `MCQueueSession`, `MCQueueCoordinator`, `MCApplyRollback`, `MCInventory`, `MCPhotoScan` | instances for TLC |

`QueueSession` and `QueueCoordinator` use `QueueLedger`, `ApplyRollback` uses
`MutationManifest`, `PhotoScan` uses `Review`, which uses `ScanRows`.
`HelperOwnership` composes the two big state machines at the grain the server
sees them: the coordinator is whether it works, the campaign whether it drives.

Definitions whose comment starts with *Faulty* or ends with *mutant* are not
part of any specification: each is a plausible bug, used to check that a
property notices it (`PROJECT.json`, `mutants`).

### QueueSession

`ledger` is the `QueueSession` object, `disk` the file, `client` the last ledger
announced to somebody who may still act on it, `loaded` whether a helper holds
the session.  Each public operation of the coordinator mutates the ledger, calls
`write_session` and emits, inside one hold of the state lock; so an action is
mutate + write + emit (`Change`, `Commit`, `WriteThenEmit`).  `write_session`
may raise before the rename or, at the directory sync, after it; in both cases
memory keeps the change and nothing is emitted.  At the revision limit
`_advance_revision` raises after the mutation: memory changes, nothing else.
`Resume` announces the running ledger before saving it, as `_resume_inactive`
does.  Callers are unconstrained.  A revision's number is its position;
`reviewed_run_id` is never read back by the queue and is left out.

### QueueCoordinator

Each hold of `_state_lock` is one action.  A thread that waits outside the lock
has a program counter: `fill` (the owner of `_fill_lock`), `sched` (the one
active `_schedule_available`), `inflight` (the inference pool), `persist[t]`
(one thread per `queue_persist`), `callers` (threads on their way into fill or
schedule).  `lane` is the Photos lane.  The ledger variables are durable here:
failing writes are `QueueSession`'s subject.

| code | actions |
|---|---|
| `_fill_slots` | `FillEnter`, `FillRead`, `FillDiscover`, `FillRaises`, `FillAdmit` |
| `_schedule_available` | `ScheduleEnter`, `SchedulePick`, `ScheduleLeave` (the break), `ScheduleEnd`, `PrepareRead`, `RestoreQueued`, `Prepare`, `PrepareFailed`, `Submit` |
| `_analysis_finished` | `AnalysisFinished` |
| `persist`, `_run_persist_operation` | `PersistArrive`, `PersistDecide`, `PersistSubmit`, `WriteBegin`, `WritePhotos`, `WriteReturn`, `PersistSettle`, `PersistLeave` |
| `discard`, `rescan`, `pause`, `resume`, `update_config` | `Discard`, `Rescan`, `Pause`, `Resume`, `UpdateConfig` |
| `queue_stop`, `close` | `Stop`, `CloseStep`, `Unload` |
| process death, `_resume_inactive` + `_start` | `Crash`, `Recover` |

Abstractions:

* An analysis run is identified with the photo it analysed.  `LostRuns` are the
  sets of runs that may have disappeared when a session is recovered; all runs
  of a photo are lost together.
* `Photo` is the set of photos a discovery would offer (identified, without
  keywords or caption); the filter itself is in the adapters.
* Cards are numbered in the order they are enqueued.  `LastItem` bounds them,
  in the guard of the discovery.
* A control is modelled where it is accepted; the revision test that admits it
  is in `QueueSession`.  Replayed discards and rescans only emit and are
  stutters; replayed and refused persists take their place in the lane.
* `anon` in `Recover` are failed cards whose manifest has no photo UUID.
* A session is recovered only when the previous helper's threads are gone.  Two
  overlapping `queue_resume` of an inactive session are under *Observed*.
* An Apple Event of a dead helper that still reaches Photos is not modelled.

### ApplyRollback

`disk` is the saved manifest, `library` what Photos holds, `run` the memory of
the operation in progress: the rows still to do, the row it works on with its
unsaved copy, and what it last read.  `introduced`, `captioned` and `raced` are
history: which keywords and captions our setters really put into a photo, and
which photos somebody edited while a row of theirs was open.  The code promises
less for the last ones, because Photos has no compare-and-set (`README.md:343-345`).

| code (`workflows.py`, `adapters.py`) | actions |
|---|---|
| `run_apply`, `run_rollback` up to the adapters | `StartApply`, `StartRollback`, `RecoverInterrupted`, `OpenAdapters`, `AdaptersUnavailable` |
| the loop over rows | `Cancel`, `BeginApply`, `BeginRollback`, `Return` |
| one row of apply | `ApplyRead`, `ApplyReadFails`, `ApplyRefresh`, `ApplyKeywordsVerified`, `ApplyKeywordsUnverified`, `ApplyReread`, `ApplyRereadFails`, `ApplyCaptionVerified`, `ApplyCaptionUnverified`, `SettleApply` |
| one row of rollback | `RollbackRead`, `RollbackReadFails`, `EditedCaptionKept`, `RollbackRefresh`, `RollbackKeywordsVerified`, `RollbackKeywordsUnverified`, `RollbackCaptionVerified`, `RollbackCaptionUnverified`, `SettleRollback` |
| `replace_keywords`, `replace_description` | `SetKeywords`, `SetCaption`, `SetCaptionAgain` |
| another program or the owner; process death | `Edit`, `Crash` |

Every checkpoint goes through `Save`, which keeps the old file and ends the
operation when the row would not load again, as `write_manifest` raising does.
`run_status` is the operator `NextAction` over the saved rows.

Abstractions:

* Keywords are sets of spellings, each with its canonical key; order and
  duplicates are left out.  A caption is the approved one, somebody else's or
  none: `applied_caption` must equal `proposed_caption`.
* A receipt is the record of the fields its digest covers, so it is valid
  exactly when the digest is.
* The global lock is held over a whole operation and taken without waiting, so
  one operation runs at a time and a second one changes nothing.
* A failing disk ends the operation with the last saved rows, like `Crash`.
* The refusals for provenance, permissions, schema and another library change no
  row and are left out; so are rows with a scan error, which are never taken up.
* Reads of a photo that fail or find another identity are one outcome, a setter
  may act or not whatever it reports, and a read-back may miss what is there.

### HelperOwnership

A request is the number of its line; each admitted one has a thread with a
program counter.  `manual`, `session` and `owner` are the fields the reader
decides on (`_active`, `_queue_session_id`, `_autonomy_owner` with its
generation), `queue` is the coordinator reduced to whether it is there, runs and
works, `runtime` the campaign runtime reduced to its controls and whether its
drive runs.  `asked` is history: the autonomy control accepted last.

| code (`ipc.py`, `autonomous_dispatcher.py`) | actions |
|---|---|
| `_start_operation`, `_cancel`, the end of a manual thread | `StartManual`, `Cancel`, `CheckToken`, `MarkCompleted`, `SendCompletion`, `EndManual` |
| `_start_queue_command`, `_run_queue_command` | `StartQueueCommand`, `HandleQueueCommand`, `Persisted`, `Close`, `EndQueueCommand`; the work of the queue is `QueueWorks`, `QueueRests` |
| admission of autonomy, `admit_pause` | `Activate`, `AdmitPause` |
| `handle` of an activation with its handoff | `EnterActivation`, `HandOff`, `Drain`, `PauseQueueAgain`, `QueueIsQuiet`, `Quieted`, `Prepare`, `GiveUp`, `StartDrive`, `Leave` |
| the drive and the pause | `ReleaseDrive`, `ExitDrive`, `JoinAccepted`, `RecordPause`, `EndPause` |
| end of input, `shutdown`, `join` | `EndOfInput`, `Join` |

Abstractions: a start creates a campaign of its own; what is refused for its
payload is answered and nothing else, so it is left out where it is answered by
the reader; one `queue_resume` is under way at a time, an
assumption of the model that nothing enforces: the app sends another when its
button is pressed again (`AppModel.swift:395-399`), see *Observed*.
`ResumesOwned` says whether a client resumes a campaign that owns the helper
already.  The app never does: it has the request and does not submit it
(`resumeAutonomy` in `app/PhotosLocalKeywordIndexer/AppModel.swift` shows a
message), and a start carries a new campaign.  So the run has it FALSE; see
*Observed*.

### AutonomousCampaign

`evidence` are the files of each position, `checkpoint` and `authorized` the
other files, `store` the `CampaignStore` in memory, `drive` the dispatcher's
thread, `pc` where each position stands.  Each hold of the store's lock is one
action.  A write may raise before or after it is published; what follows is
`FailClosed`, which closes admission on disk or, when that raises too, in memory.

| code | actions |
|---|---|
| `_drive` | `Examine`, `DriveEnds`, `DriveBreaks` |
| one position up to the gate, and its error handlers | `Reuse`, `Prepare`, `Prepared`, `Analyzed`, `AnalysisFails`, `StorageFails`, `TakeWrite`, `Shut`, `ReleaseFailed` |
| `AutomaticApplyGate.process` | `EnterGate`, `RejectSource`, `CheckEnabled`, `ReadCurrent`, `SettleUnread`, `Admit`, `ReleaseUnadmitted`, `Review`, `Link`, `ReviewOrApplyRaises`, `OpenRow`, `ChangePhoto`, `CloseRow`, `LoseRow`, `SettleReceipt` |
| `create`, `authorize`, `admit_pause`, `pause` | `Activate`, `AdmitPause`, `RecordPause` |
| process death, `load`, `_reconcile` | `Crash`, `Reconcile` |

Abstractions: the apply is `OpenRow`, `ChangePhoto`, `CloseRow`, whose detail is
`ApplyRollback`; review and provenance are whether their files agree on the
authorization they carry.  Files are never damaged and identifiers never
collide, so those checks are left out.  Revisions only grow and are left out.

### Inventory

A library is a sequence of assets; a hash is the term it is computed from, so it
is free of collisions.  The operators are the code's: runs of `ChunkSize`,
levels of merges of `FanIn`, pages, tree, sibling, proof, and the test a page
must pass.  The code's loops are recursive functions of the number of rounds:
`Taken` (how far each run was read after n records of a merge), `MergeLevels`,
`Levels` of the tree, `Halving` of a position, `Climb` along a proof.  A stable
sort places each record by the number of records that come before it (`Nth`); a
merge takes the smallest head, of the first run that has it (`Smallest`).

| code (`autonomous_inventory.py`) | actions |
|---|---|
| `create` | `Create` |
| a page changed on disk | `Damage` |
| `load` and the start of a walk | `Open` |
| `iter_from` under `pending` | `ReadPage`, `Yield`, `EndWalk` |
| one position looked up | `Lookup` |
| the helper stops; the next activation | `Restart` |

An inventory is created whole or not at all (the staging directory is renamed).

### PlacesLookup

`next`, `active`, `batches`, `failed`, `finished` and `stopped` are the fields of
`_MapKitBatchSearch`; `pending` are the searches MapKit has; `caller` is where
`nearby_with_status` is.

| code (`places.py`) | actions |
|---|---|
| `_launch_available`, `_finish_if_complete` | `Launch`, `LaunchAndFinish`, `EndLaunch` |
| a completion handler | `FinishQuery` |
| `nearby_with_status`, `_wait_for_mapkit` | `Refuse`, `Start`, `Deadline`, `AnswerCancelled`, `AnswerTimeout`, `AnswerComplete` |
| whoever cancels | `CancelRequested` |

A handler runs while the caller pumps the run loop, so between its steps and
never inside a launch; a search that completes inside its own start is
`LaunchAndFinish`.  A search returns a list of items, each a place or one whose
name the sanitiser refuses; what makes a name acceptable is left out, and names
that `casefold` makes equal are one place.  `Found` is `partial_items`, by
position, and `Sanitized` the names `sanitize_place_context` takes from it:
the walk in the order of the categories drops refused and repeated names and
stops at `MaxResults`.  Both the full and the partial answer go through it, so
even a full answer may have nothing of a category that succeeded.

### ScanRows, Review, PhotoScan

`ScanRows` has the row `_prepare_photo_analysis` and `_analyze_prepared_photo`
build for each outcome, the tests of `PhotoRecord` and `ScanManifest`, and the
advice after a scan.  `Review` has `review_manifest`, `review_manifest_v4` and
`reviewed_rows_match_source`, the comparison that apply and an import repeat.
They are pure operators.  `PhotoScan` is the scan as a process among others over
one directory of runs: `fs` are the run directory and workspace of each scan,
`holder` the workspace locks, `scan` the memory of each scan.

| code (`workflows.py`, `adapters.py`) | actions |
|---|---|
| `run_scan` up to its run | `Select`, `SelectFails`, `Bridge`, `BridgeFails`, `MakeRun`, `MakeRunFails` |
| `TemporaryExportWorkspace.recover` | `RecoverSkip`, `RecoverLock`, `Recheck`, `RecoverFails`, `RecoverEnds` |
| `__enter__` | `MakeRoot`, `WriteMarker`, `CreateLock`, `Flock`, `EnterFails`, `EnterInterrupted` |
| the photos | `Unread`, `Destination`, `Unexported`, `StorageFails`, `Export`, `ContextCancelled`, `Analyse`, `Cancel`, `Finish` |
| the handler of `_scoped_signal_cleanup` | `Interrupt`, anywhere at work; its `cleanup` goes on as below and leads to the manifest or back to the photo |
| `cleanup` (`rmtree`, entry by entry) | `RemoveEntry`, `RemoveRoot`, `EraseStops` |
| the manifest | `Persist`, `PersistFails` |
| process death; `service.py` | `Crash`, `ReviewScan` |

Abstractions: an error is its stage and whether its code is one the advice looks
for; a caption is plain or one whose name the scan had masked; text policy is
whether a keyword is refused.  The lines of preflight, traces and progress are
left out.

A signal at work runs its handler wherever the scan is: `from` is that place
while the handler's clean-up runs, "none" while that of `__exit__` does.  When
the clean-up has ended, what handled the signal before raises, and the scan ends
`interrupted`, or it returns (`workflows.py:143-147`): then the scan goes on where
it was, without its workspace (`created` is FALSE), the next exports are refused
by `destination_for` and an analysis may miss its file.  When the clean-up itself
raises in the handler, the error comes up where the handler interrupted: it ends
the scan as `WORKSPACE_FAILED`, or a photo's own `except` takes it and the scan
goes on with what is left (`spoilt`, history).  A second signal while the handler
cleans up nests a second clean-up; its ends are those of the first, whole or
stopped, so it is no action of its own.

## 3. Runs

| run | properties | instance |
|---|---|---|
| `queue_ledger` | TypeOK, RevisionNamesLedger, RescansMatchRevisions, SupersededRevisionsFrozen | 1 card, 2 decisions, 1 run, 2 settings, revisions to 3, card revisions to 2 |
| `queue_controls` | ResourcesRespected, ControlsAreKept | 2 cards, 2 photos, 2 savers, 3 commands, discoveries may fail |
| `queue_recovery` | ReadyHasManifest, CardsHaveOwnPhotos, SavesHaveAnOwner, WritesAsApproved | 2 cards, 1 saver, 3 persist/rescan commands, 1 crash, lost runs |
| `queue_liveness` | CardsAdvance, WindowRefills, SavesAndStopsEnd | 2 cards, 1 saver, 2 commands, fair threads |
| `queue_lost_resume` | CardsAdvanceAfterResume, violated | 1 card, pause and resume |
| `apply_rollback` | JournalStaysUsable, NoForgottenWrite, ReceiptsAreEarned, RemovalIsComplete, AdviceIsFollowable, SeenKeywordsSurvive, RollbackTakesOnlyOurs, JournalSpec | 2 rows, one with two keywords and a caption, one with a caption; 3 operations, 2 edits, 1 crash |
| `apply_rollback_text` | SeenTextSurvives, violated | the same instance |
| `campaign` | AppliesOnce, OutcomesMatchPhotos, CountersFollowEvidence, IdleIsHonest, AdmissionNeedsActivation, DrivesEnd | 2 positions, both in flight, 2 activations, 1 pause, 1 raising write, 1 crash |
| `helper_ownership` | FamiliesExclusive, DriveNeedsActivation, RequestsAnswered, ShutdownEnds | 3 requests of ten kinds, 1 batch of queue work, end of input anywhere |
| `places` | NoStall, AnswerCoversAll, LookupEnds | 3 categories, 2 at a time; 3 places, at most 2 items a search and 2 names an answer |
| `inventory` | WalkIsTheLibrary | every order of 4 and 5 assets under 2 date patterns and of their subsets, every list of up to 3 with duplicates and unusable assets; pages of 2, merges of 2, 1 restart, 1 damaged page |
| `scan` | ExportsInUse, StaleWorkspacesGo, ScanIsRecorded, AdviceMatchesReview, ReviewsAreAccepted | 2 scans side by side with a photo each, and 1 by itself with 2 photos, every outcome and every review |

Each module's type invariant is checked with the first invariant of its run (it
is a conjunct of `ResourcesRespected`, `JournalStaysUsable`, `CountersFollowEvidence`,
`FamiliesExclusive`, `NoStall`, `ExportsInUse`).

Why the bounds are enough.  A ledger rule relates at most two decisions and two
consecutive revisions of a card; one card with two revisions, two decisions and
a failing write, crash or resume between any two steps covers them, and the
theorems remove the bound.  In the coordinator the contention is for one lane,
one scheduler, one fill and one write worker: two cards with concurrency 1 make
every pair of them meet, two savers make two writers queue, and three commands
allow pause/resume/persist in every order.  A crash can only be followed by
recovery, so one crash visits every point; a second would start from a recovered
state, which has the same form.  Window sizes 1 and 2 make the window shrink and
grow while full.

In apply and rollback a row never looks at another one except through the tests
on the whole manifest, so two rows are enough, one with keywords and a caption
and one with a caption alone.  The keywords include two spellings of one key, of
which one is approved: a case conflict needs no more.  Three operations allow
apply, retry and rollback, or a rollback that is tried again; two edits allow a
value to be changed and put back, or keywords and text to change in one row.
One crash visits every step.  The library starts empty; edits make the others.

In a campaign positions meet in the lane, the write thread, the counters and the
last settlement, always in pairs.  Two activations are the first one and the one
after a pause, a failure or a crash; a third starts from the same kind of state.
One raising write meets every write, also the one that closes admission after a
failure that is not the disk's.  With `MaxFailures = 2` that one may raise after
another has: 2.3 million states, in which the run also finds no error, but which
take four minutes.  In the helper the longest chain is a
work admitted first, an activation that must wait for it and a pause that must
overtake it: three requests.  In the lookup four categories at two at a time
keep one waiting while two are in flight and one is done.  Five assets make
three sort runs and pages, the smallest number with two merge levels and an odd
tree level.  A recovery and the scan whose workspace it finds are two processes;
their outcomes do not matter to each other, so they have a photo each, and every
outcome and error code, a second photo after a signal that let the scan go on,
and the reviews, are tried by a third scan that no other runs beside.

No deadlock check anywhere: commands, operations and scans are bounded and the
system has really ended when they are used up.

Fairness.

* Coordinator: the helper's own threads (fill, scheduler, callers, analyses,
  savers, write worker, close) are weakly fair: each waits only for a lock or a
  lane whose holder is itself such a thread, and Photos, inference and the apply
  return or raise.
* Campaign: the drive, and each position's next step before and in the gate; an
  inference ends by its timeout.  `ChangePhoto` is not fair.
* Helper: each thread's next step, `Join`, the queue's rest (every analysis
  ends), and the end of a drive that may not go on, which is what `DrivesEnd`
  shows of the campaign.  A drive that may go on is owed nothing.
* Places: the caller's thread.  Nothing is assumed of MapKit.
* Nowhere fair: users, the app, crashes, recoveries, failures, cancellations,
  and the effect of an apply on Photos.

The two violated properties are disagreements between the code and what the
repository says of it.  They are described in `PROJECT.json` (`findings`):

1. `queue_coordinator.py:443`: a resume that meets a scheduler leaving because
   of a pause is dropped.
2. `adapters.py:870`: the caption setter runs a second time over a text its
   read-back has just returned.

### Observed

What the code does in the states of the models, seen while modelling or in
traces of properties since narrowed, and not the subject of a run.

Queue:

* A card set aside for a save that ends uncertain is not scheduled again until
  another event schedules (`queue_coordinator.py:338`); a preparation that raises
  takes the place of the next card in its pass (`queue_coordinator.py:468`).
  `CardsAdvance` excludes both in its premise.
* A card recovered with a queued reanalysis gets another photo
  (`queue_runtime.py:690`).
* A resume accepted while `queue_stop` is closing can leave a card in
  `analyzing` whose submit met a closed pool.
* A card recovered from an interrupted save has no candidate and cannot be
  reanalysed until a further restart (`queue_runtime.py:675-682`).
* A discovery that raises skips the scheduling that would have followed it.
* Two overlapping `queue_resume` of an inactive session both pass the `_active`
  test of `queue_runtime.py:265` before either registers at 386; the app does not
  wait for one before it sends another (`AppModel.swift:395-399`).

Apply and rollback:

* A row found to need nothing at its last read is settled as verified with
  nothing applied, which the reader refuses; the whole apply ends with the row
  `writing` (`workflows.py:2098`).
* A manifest with a failed row and a `writing` row is neither retryable nor
  recoverable, so the interrupted row never becomes `uncertain`
  (`workflows.py:1661`).
* Status advises to retry an apply that is refused because a rollback has begun
  (`workflows.py:2541`).
* A row with nothing approved that a cancellation meets first makes the apply
  end with `LOCK_OR_MANIFEST_FAILED`.
* `caption_state` stays `preserved` after an attempt that failed, and a later
  interrupted caption of that row is then not named by the recovery.

Worker server and campaign:

* A second activation of the campaign that owns the helper gets no generation
  and joins nothing (`ipc.py:947`, 979-984); the release of the first then takes
  the ownership the second drive relies on.  `ResumesOwned = TRUE` shows it.
* `queue_stop` with a stale revision fails, and the session is forgotten all the
  same (`ipc.py:1070-1075`): manual commands are admitted beside a live queue.
* A cancel may be answered and the operation still end with its result.
* The thread that drains the queue outlives a revoked activation and pauses the
  queue later (`PauseQueueAgain`).
* An activation between the release of the helper and the exit of the drive's
  thread is refused although nothing owns it.
* A pause waiting for its turn pauses a newer activation.

Scan and review:

* A removal of the workspace that is interrupted, killed or failing may have
  taken the marker or the lock before the exports; no recovery takes the rest,
  although `workflows.py:125-129` and `README.md:240` say the next scan does.
  `StaleWorkspacesGo` is stated for what is still recognisable.  It also leaves
  out a workspace that another recovery holds when a scan comes to it: the scan
  skips it, and if that recovery dies nobody looks at it before the next scan.
* A caption that passes the scan only because a confirmed name was masked is
  refused when the row is built, and the whole scan ends `WORKSPACE_FAILED`
  (`workflows.py:1116-1122`, `manifest.py:455`).
* `review_manifest_v4` refuses a caption alone, without keywords, for a photo
  whose analysis failed (its row becomes `ready`, which requires keywords), and
  any manual recovery when the deletion of the export failed too.
* `review_manifest_v4` refuses typed keywords on a row that is `noop`.
* A recovery may take the lock of a starting scan between its creation and
  `flock` and remove its workspace; the scan then fails its exports.
* A signal between the creation of the run directory and the `try` leaves a run
  without a manifest.
* A signal whose earlier disposition is to be ignored, or a handler that returns,
  still removes the workspace of a working scan (`workflows.py:142-147`); the scan
  then goes on, fails the rest of its exports and ends as complete.
* An error of the removal inside the handler is raised before the signal is
  passed on.  Where the steps of a photo catch it, the signal is lost: a scan that
  should have been interrupted goes on, with exports that its own clean-up no
  longer touches.  `ExportsInUse` and `ScanIsRecorded` leave these exports out.
* `LOW_CONFIDENCE` counts as an error, so a scan with nothing else advises
  `fix_failed_scan`.

Others: a crash during the creation of an inventory leaves its staging
directory; when the start of a batch raises, the batch is not cancelled; MapKit
handlers run only while the main run loop is pumped.

## 4. Proofs

Eight modules hold theorems; each result is for every value of the constants
that satisfies the named assumptions.

| module | theorem | property |
|---|---|---|
| `QueueSessionProofs` | `TypeCorrect` | TypeOK |
| | `RevisionIsSound` | RevisionNamesLedger |
| | `RescansAreExact` | RescansMatchRevisions |
| | `EarlierAttemptsKept` | SupersededRevisionsFrozen |
| `QueueCoordinatorProofs` | `LaneIsExclusive` | PhotosExclusive, a conjunct of ResourcesRespected |
| | `ReadyCardsCanBeSaved` | ReadyHasManifest |
| | `SavesAreOwned` | SavesHaveAnOwner |
| | `ReviewIsImplemented` | WritesAsApproved, the refinement of `ReviewWrites` |
| | `ControlsAreNeverOverruled` | ControlsAreKept |
| | `CardsAreApart` | CardsHaveOwnPhotos |
| | `ResourcesNeverOverused` | ResourcesRespected |
| `ApplyRollbackProofs` | `JournalIsImplemented` | JournalSpec, the refinement of `PhotoJournal` |
| | `JournalAlwaysUsable` | JournalStaysUsable |
| | `NoWriteForgotten` | NoForgottenWrite |
| | `ReceiptsEarned` | ReceiptsAreEarned |
| | `RemovalComplete` | RemovalIsComplete |
| | `SeenKeywordsKept` | SeenKeywordsSurvive |
| | `OnlyOursAreTaken` | RollbackTakesOnlyOurs |
| | `AdviceFollowable` | AdviceIsFollowable |
| `AutonomousCampaignProofs` | `AppliedOnce` | AppliesOnce |
| | `OutcomesAreTrue` | OutcomesMatchPhotos |
| | `DecisionsAreAuthorized` | AdmissionNeedsActivation |
| | `CountersAreTrue` | CountersFollowEvidence |
| | `IdleIsTrue` | IdleIsHonest |
| `HelperOwnershipProofs` | `FamiliesNeverMeet` | FamiliesExclusive |
| | `DriveIsTheLastAsked` | DriveNeedsActivation |
| `InventoryProofs` | `TheExternalSortSorts` | (what `SortedRecords` returns) |
| | `AcceptedIsThePage` | (a page that is accepted is the page that was stored) |
| | `ThePageIsAccepted` | (the page that was stored is accepted) |
| | `TheWalkIsTheLibrary` | WalkIsTheLibrary |
| `PlacesProofs` | `BatchNeverStalls` | NoStall |
| | `FullAnswersAreFull` | AnswerCoversAll |
| `PhotoScanProofs` | `ExportsStay` | ExportsInUse |
| | `StaleGo` | StaleWorkspacesGo |
| | `ScansAreRecorded` | ScanIsRecorded |
| | `AdviceIsTrue` | AdviceMatchesReview |
| | `ReviewsAreProven` | ReviewsAreAccepted |

`QueueSessionProofs` assumes `LedgerConstants` and `SessionConstants` (finitely
many cards, natural limits, stage states are item states).  `Successor(L)`
collects what any mutation guarantees of the new ledger: it is well typed, its
revision moved by one, stayed with the ledger unchanged, or is at the limit,
earlier revisions are kept, the rescan lineage is kept.  One lemma per action
shows that it commits a successor (`EnqueueCommits`, `SetStateCommits`,
`UpdateConfigCommits`, `CheckpointCommits`, `DecisionCommits`), on top of lemmas
about the three ways items change (`NewCardItems`, `CheckpointItems`,
`RescanItems`).  `RevisionNamesLedger` is not inductive: after a crash the client
may hold the ledger a resume announced and never saved.  `ClientKnows` adds what
is true of the client across unload and resume: it is no newer than the file, or
holds exactly what a resume of that file announces.  `RevisionInv` is the
conjunction and is inductive.

`LaneIsExclusive` needs no assumption on the constants.  `LaneInv` adds to
`PhotosExclusive` that at most one save writes (`OneWriter`): the write that
returns frees the lane, so it must be the only one that holds it; and that the
program counters exist (`Counters`).  There is one lemma for each kind of thread:
discovery, scheduler and write worker enter the lane only when it is free and
leave it themselves, the others do not touch it.

The rest of `QueueCoordinatorProofs` assumes `LedgerConstants` and
`CoordinatorConstants` (finitely many photos, numbered in the order Photos offers them; cards are `1..LastItem`).
None of its properties is inductive: each depends on what a thread that comes
back to its card still knows of it.  `SavesInv` says this thread by thread.  A
card in the scheduler's batch or in an analysis is where that thread left it, was
discarded, or has a later revision (`Batch`, `Analyses`), so a late thread never
moves a card being saved.  A persist decision, the thread that serves it and the
state of the card stand for one another (`DecidedCards`, `Savers`, `Served`), a
save is queued once, and nothing is written for a revision before its thread
writes it (`Line`, `Unwritten`).  Between helpers no thread is left (`Down`), so
the recovery alone settles what a crash interrupted.  One lemma per action shows
that it keeps `SavesInv` and is a step of `ReviewWrites` or changes nothing it
speaks of.  `ControlsAreKept` follows from `SavesInv` action by action.

`CardsAreApart` builds on `SavesInv`.  Two cards get one photo only if it was
offered twice, or by way of a card that is discarded, reanalysed or recovered;
`Own` follows the photo from the library to its card.  What a card has or had, in
any revision, was seen or is in a run that is lost with its manifest (`Known`), so
discovery passes it over.  What discovery offered and no card has taken, set aside
or still in the hands of `_fill_slots`, is on no card and is offered once
(`Waits`).  An analysis that ends puts its photo on the card, which must still be
the photo's (`Analysed`).  Photos whose run was lost before a restart are left
out: nobody can know that they were offered (*Observed*).  The two hard steps are the admission, which hands the
offered photos out over several cards (`AdmitOwn`), and the recovery, which
rebuilds what was seen from the manifests it finds (`RecoverOwn`).

`ResourcesNeverOverused` is `TypeOK`, `PhotosExclusive` and `InferenceBounded`.
The bound of the pool holds for some settings, not for the present ones: a smaller
concurrency may arrive while more analyses run.  `Traffic` says that a step either
starts a pass, moves the head of the batch into the pool or drops it, or adds
nothing; a pass takes at most what is left of the capacity (`PassTakes`, from
`FewFirst`).  The types need that candidates on their way to a card fit the
identifiers left (`Room`), which a limit computed before discovery must still
guarantee at admission, and that revisions are counted from 1 up to their bound
(`Keyed`); with `MaxItemRevision` at least 1, the first revision of a card.

`ApplyRollbackProofs` assumes `ManifestConstants` and
`RollbackConstants`.  All it shows is about saved rows, while the steps act on
the row in hand; the invariant is what ties the two.  `Phase` (`InHand`,
`ApplyWaits`, `RollbackWaits`) says that the row in hand has the states of the
saved one, unopened while it is read, "writing" or "removing" once opened, and
that the rows still to do were not opened since the operation took them.  With
`Types` it is inductive, and with it every step is a `JournalStep`: no row opens
twice for writing, and Photos changes only under an open row.  `GoodRows` is what
each saved row claims, that it loads and its receipts cover it, that no write is
forgotten, that a receipt was earned.  It is not inductive: a save publishes the
row in hand.  `Holds` says what is true of that row.  In an apply, what our setter
put in is among what it means to add, and, of a photo nobody edited, each verified
part was put in by it.  In a rollback, the row claims what its receipt claims, and
every applied keyword is taken back, missing, or what the setter is to remove.
`IInv` is the conjunction.  `AdviceIsFollowable` needs nothing but `GoodRows`:
the next action reads states alone, and of a good row the states say enough.

`AutonomousCampaignProofs` assumes `CampaignConstants`.  None of its properties is
inductive: they depend on where the positions stand.  For the first three,
`Sound(p)` ties the step of a position to its evidence and its photo: before the
decision nothing is decided, between decision and row nothing is applied, a photo
we changed has a decision and a row that does not deny it, and a position under way
has no outcome.  `NoThreadNoWork` says that a restart settles evidence only while
no position is under way, and `AuthorizationIsLast` that admission is open for
the last activation alone and closed from an accepted pause on.  A few lemmas say
what any write does, raising or not (`ClosesAdmission`, `MutateEffect`,
`WriteEffect`); with them most actions are one of three kinds: a move
(`MoveKeeps`), a settlement (`SettleKeeps`), or one file (`FileStep`).

The other two need a second invariant, `LedgerInv`.  `Behind` says that no ledger,
in memory or saved, is ahead of the evidence; it survives any raise because
evidence only grows (`StaysBehind`).  `Exact` says what holds until a write raises:
the counters equal the evidence, what is in flight is worked on
(`InFlightWorks`), and the thread leaves no position behind without an outcome
unless admission is closed (`PassedIsSettled`).  The counting lemmas carry it:
writing one position adds what it gains (`CountsMove`), and the three outcome
counts add up to the total exactly when every position has an outcome
(`AllSettled`, `SettledCounts`).  The delicate case is the end of the thread, which
says nothing when the campaign runs and its inventory is used up:
`UnsaidIsUnclean` shows that this takes a write that raised, because otherwise all
positions passed are settled and the thread says "completed".

`InventoryProofs` assumes `SizesAssumption` (a page holds at least one record, a
merge reads at least two runs) and `LibrariesAssumption` (a listing is a sequence
of assets).  The model computes by recursion what the code does in loops, so
induction is needed, and the library's theorem takes a predicate, which these
provers cannot give it.  Here it is stated of sets: a set of naturals that holds 0,
and n + 1 with n, holds them all (`Induction`); it follows from the library's fact
that < is well-founded (`Descent`, `Least`).  A recursive definition chooses a
function that satisfies its equation, which says nothing unless there is one:
`Recursion` shows that there is, and the lemmas that unfold a definition
(`TakenUnfolds` to `ClimbUnfolds`) rest on it.

*Sorting.*  `Same(f, g)` says that g holds what f holds, each as often, by a
bijection of their places.  A sorted run puts each record at the place of its rank
(`Ranks`, `Listed`, `SortRunIs`).  While a merge runs it has given the beginning of
every run and nothing left comes before what it has given (`GoodTaken`); so it
gives all of them, in order (`MergeRunsAre`).  A level of merges keeps what the
runs hold together and leaves fewer runs (`MergeLevelIs`), so one is left, whatever
the sizes: `TheExternalSortSorts`.  *The reference.*  Without duplicates there is
only one list in that order (`TheSortedList`), the reference of the property; and
equal identifiers are neighbours in the first pass (`DuplicatesAre`), so comparing
neighbours finds every duplicate.  *The tree.*  A level of n nodes is followed by
one of half as many, rounded up, so the tree over n pages has as many levels as
n - 1 has bits (`TopIs`, `Widths`), the length the code expects of a proof.  The node
over a page joins the page's with its sibling's, on the side its position says
(`ParentJoins`); so the proof of a page leads to the root (`ProofLeads`) and, read
from the root down, no other page leads there (`OnlyTheLeafLeads`, which needs
that hashes do not collide).  `PageAccepted` is therefore exact.  *The walk.*
`WalkIsTheLibrary` is not inductive: it says nothing of the pages still unread.
`IInv` adds what snapshot and pages are, but for damage (`SnapshotIsTheLibrary`),
and where the walk stands: page, buffer and position agree with what was seen
(`WalkStands`).  One lemma per action shows that it is kept.

`HelperOwnershipProofs` assumes `HelperConstants` and that `ResumesOwned` is
FALSE; without the second the theorems are false (*Observed*).  `Owns(i)` says
what an activation has from its admission until its thread ends: the generation
the server holds is its own, whatever manual or queue thread is alive is one it
listed (`accepted`) and will join, and unless it is revoked the input is still
read and it is the control accepted last.  From the join on (`Settled`) there is
no such thread, and the queue is paused, then still, as the handoff advances.
`DriveOwns` says the same of a running drive.  So there is at most one
activation, none beside a drive, and a line that arrives meanwhile is refused.
`InTurn` (requests come in order) and `OneManual` are what admission relies on.

`PlacesProofs` assumes `LimitsAssumption` and `NamesAssumption`.  The code counts its searches and
never lists them.  `Inv` says what the counters mean: while the batch listens,
`active` is the number of searches in flight (`CountInv`); a launch loop ends
only with a search in flight or with the batch finished (`LoopInv`); a query
below `next` is in flight, has succeeded or has failed, and only one of these,
and one from `next` on none (`QueryInv`); and which states the caller can be in
(`CallerInv`).  What the walk over the items takes is `SanitizedNames`, which
needs only the types: the positions at which a new name is met are numbered by
how many are `Ahead` of them, the walk takes those numbered below `MaxResults`,
so at most that many (`TakenCount`), and if it passes one over then the first
it passes over has exactly the taken ones ahead.  `NoStall` and
`AnswerCoversAll` follow from the conjunction and that lemma.

`PhotoScanProofs` assumes `ScanAssumption`: selections and outcomes are of their
kinds, no selection has a photo twice, and the model proposes no refused keyword.
A selection is one pass over one fetch, and PhotoKit has a photo in a fetch once;
the program does not look for duplicates, and a manifest with two rows of one
photo would be refused.  `ScanInv` says of each scan on its own what it relies on.  `Locked`: a
recovery holds the lock of the workspace it removes, a scan at work its own; so no
step takes from another scan what that one relies on (`Frame`, `OthersKeep`; a
scan that lost its workspace to its own handler relies on none), and
each action is shown for the scan that takes it, by `OwnKeeps` when it touches only
its own files and by `ClearFrame` when a recovery removes another's.  `Exported`:
exports are made at work only, in a workspace the clean-up will recognise, so a
scan that finds it unrecognisable has none left, and one that lost it has none
either unless a removal failed.  `Recorded`: the rows are those of the first photos
of the selection, and while the handler cleans up in the middle of a photo there is
that photo to return to.  `Recovers`: what could be recovered
is still on the list of the recovery.  `Ended`: a manifest is accepted, its advice
true, its review accepted.  This last part comes from lemmas about the operators:
every row a scan builds is well typed and a failed photo's is accepted (`FailedRows`,
`AnalysedRows`), a selection or an approval of a row gives a row that matches it
(`SelectedRows`, `ApprovedRows`), a review can take something of a manifest exactly
when a row of it is reviewable (`ReviewableIsReviewed`), and what is persisted is
accepted whatever the rows and the end were (`BuiltIsTrue`).

Only model-checked: all liveness (`CardsAdvance`, `WindowRefills`,
`SavesAndStopsEnd`, `DrivesEnd`, `RequestsAnswered`, `ShutdownEnds`, `LookupEnds`),
which is out of the prover's reach as ENABLED is.  Every other property of a
passing run is a theorem, every safety invariant and action property among them.

## 5. Not modelled

Listed in `PROJECT.json` with the reason: parsing and validation of files and
protocol lines, the text policy character by character, places and landmark
tables, preflight and model calls, the safe projections of `service.py` for the
app, file-system checks, the app's views, packaging and release scripts (the
longest of them, `packaging/verify_offline_release_contract.py`, checks texts of
the build and keeps no state).  The app's event reducer runs on one actor over
events whose order the helper's models fix; its hazards are those of a stale
client, which is the variable `client` of `QueueSession`.

## 6. Plan

Done: the queue (`QueueLedger`, `QueueSession`, `ReviewWrites`,
`QueueCoordinator`), apply and rollback (`MutationManifest`, `PhotoJournal`,
`ApplyRollback`), the worker server (`HelperOwnership`), the campaign
(`AutonomousCampaign`, `Inventory`), places (`PlacesLookup`), scan and review
(`ScanRows`, `Review`, `PhotoScan`), and the proofs of section 4.

Left, in this order:

1. The composition of `AutonomousCampaign` with `ApplyRollback` over one photo,
   in place of its three apply actions.
2. The app's event reducer, and the intake of activation payloads.
