----------------------------- MODULE PhotoScan -----------------------------
(* run_scan (workflows.py) with the workspace its exports live in              *)
(* (adapters.TemporaryExportWorkspace) and the recovery of the workspaces that *)
(* earlier scans left: several scans share one directory of runs, each in a    *)
(* process of its own that may be interrupted or killed between any two steps. *)
(*                                                                             *)
(* A scan's place is its "pc": it selects photos, recovers the workspaces it   *)
(* finds, makes its run and its workspace, reads, exports and analyses one     *)
(* photo after the other, erases the workspace and writes its manifest.  A     *)
(* signal at work erases it too, and may let the scan go on without.           *)
EXTENDS Review

CONSTANTS Scans,          \* one process each
          NoScan,         \* nobody
          SelectionsOf,   \* the photos a scan may select, newest first
          OutcomesOf,     \* what the analysis of a photo may come to in a scan
          Alone           \* bound: the scans that no other runs beside

(* A selection is one pass over one fetch of PhotoKit, which has a photo once. *)
Distinct(sel) == \A i, j \in DOMAIN sel : sel[i] = sel[j] => i = j

ASSUME ScanAssumption ==
  /\ NoScan \notin Scans
  /\ \A s \in Scans : \A sel \in SelectionsOf[s] : Distinct(sel)
  /\ \A s \in Scans : SelectionsOf[s] \subseteq Seq(Photos)
  /\ \A s \in Scans : OutcomesOf[s] \subseteq Outcomes
  /\ Alone \subseteq Scans
  /\ ModelKeywords \cap RefusedKeywords = {}

VARIABLES runsRoot,   \* the directory of runs exists
          fs,         \* the run directory and the workspace of each scan
          holder,     \* who holds the lock of each workspace
          scan,       \* where each scan is, and what it has in memory
          manifest,   \* the manifest each scan wrote
          result,     \* what each scan advised
          reviewed    \* the reviewed copy of each manifest

vars == <<runsRoot, fs, holder, scan, manifest, result, reviewed>>
files == <<runsRoot, fs, holder>>
ends == <<manifest, result, reviewed>>

NoFiles == [dir |-> FALSE, root |-> FALSE, marker |-> FALSE, lock |-> FALSE, exports |-> {}]
NoManifest == [schema |-> 0]
NoResult == "none yet"

Start == [pc |-> "start", sel |-> <<>>, rows |-> <<>>, why |-> "complete", existed |-> FALSE,
          todo |-> {}, target |-> NoScan, created |-> FALSE, stale |-> {},
          from |-> "none", spoilt |-> FALSE]

Init ==
  /\ runsRoot \in BOOLEAN
  /\ fs = [s \in Scans |-> NoFiles]
  /\ holder = [s \in Scans |-> NoScan]
  /\ scan = [s \in Scans |-> Start]
  /\ manifest = [s \in Scans |-> NoManifest]
  /\ result = [s \in Scans |-> NoResult]
  /\ reviewed = [s \in Scans |-> NoManifest]

At(s, pc) == scan[s].pc = pc
Goto(s, pc) == scan' = [scan EXCEPT ![s].pc = pc]
Released(s) == [t \in Scans |-> IF holder[t] = s THEN NoScan ELSE holder[t]]

(* Where the handler of a signal may interrupt it: between two photos' steps,  *)
(* with a destination for an export, with the export.                          *)
Working == {"loop", "export", "analyse"}

-----------------------------------------------------------------------------
(* Before the run                                                              *)

(* A workspace that recovery may take: its marker and its lock are in place.   *)
Recoverable(t) == fs[t].root /\ fs[t].marker /\ fs[t].lock

Fatal(s, advice) ==
  /\ Goto(s, "done")
  /\ result' = [result EXCEPT ![s] = advice]
  /\ UNCHANGED <<manifest, reviewed>>

(* The runs that recovery will look at, taken once; stale are those of scans   *)
(* that died, less the ones it finds held by another recovery (history).       *)
Recovering(s, existed) ==
  [scan[s] EXCEPT !.pc = "recover", !.existed = existed,
                  !.todo = {t \in Scans \ {s} : fs[t].dir},
                  !.stale = {t \in Scans : At(t, "dead") /\ Recoverable(t)}]

(* Photos are selected first; a root that is there is recovered before         *)
(* PhotoScript is opened, one that is not yet there after it is made.          *)
Select(s) ==
  /\ At(s, "start")
  /\ \A t \in Scans : reviewed[t] = NoManifest     \* bound: no scan starts after a review
  /\ \A t \in Scans \ {s} : {s, t} \cap Alone # {} => At(t, "start")
  /\ LET next == IF runsRoot THEN Recovering(s, TRUE) ELSE [scan[s] EXCEPT !.pc = "bridge"] IN
     \E sel \in SelectionsOf[s] : scan' = [scan EXCEPT ![s] = [next EXCEPT !.sel = sel]]
  /\ UNCHANGED <<files, ends>>

SelectFails(s) ==
  /\ At(s, "start")
  /\ \A t \in Scans \ {s} : {s, t} \cap Alone # {} => At(t, "start")
  /\ \E advice \in {"grant_photos_access", "fix_fatal_error"} : Fatal(s, advice)
  /\ UNCHANGED files

Bridge(s) ==
  /\ At(s, "bridge")
  /\ runsRoot' = TRUE
  /\ scan' = [scan EXCEPT ![s] = IF @.existed THEN [@ EXCEPT !.pc = "run"] ELSE Recovering(s, FALSE)]
  /\ UNCHANGED <<fs, holder, ends>>

BridgeFails(s) ==
  /\ At(s, "bridge")
  /\ \E advice \in {"grant_photos_automation", "fix_fatal_error"} : Fatal(s, advice)
  /\ UNCHANGED files

-----------------------------------------------------------------------------
(* TemporaryExportWorkspace.recover, for every run in the root                 *)

RecoverUnlocked(s, t) == FALSE    \* mutant: the lock of a workspace is not respected

RecoverBusy(s, t) == holder[t] # NoScan

RecoverSkips(s, t) == ~Recoverable(t) \/ RecoverBusy(s, t)

RecoverSkip(s) ==
  /\ At(s, "recover")
  /\ \E t \in scan[s].todo :
       /\ RecoverSkips(s, t)
       /\ scan' = [scan EXCEPT ![s].todo = @ \ {t},
                               ![s].stale = IF RecoverBusy(s, t) THEN @ \ {t} ELSE @]
  /\ UNCHANGED <<files, ends>>

RecoverLock(s) ==
  /\ At(s, "recover")
  /\ \E t \in scan[s].todo :
       /\ ~RecoverSkips(s, t)
       /\ holder' = [holder EXCEPT ![t] = s]
       /\ scan' = [scan EXCEPT ![s].pc = "recheck", ![s].target = t]
  /\ UNCHANGED <<runsRoot, fs, ends>>

Recheck(s) ==
  LET t == scan[s].target IN
  /\ At(s, "recheck")
  /\ fs[t].root
  /\ IF fs[t].marker
     THEN Goto(s, "clear") /\ UNCHANGED holder
     ELSE /\ scan' = [scan EXCEPT ![s].pc = "recover", ![s].todo = @ \ {t}]
          /\ holder' = Released(s)
  /\ UNCHANGED <<runsRoot, fs, ends>>

(* What recovery removes can vanish under it, and removing can fail.           *)
RecoverFails(s) ==
  /\ \/ At(s, "recover") /\ \E t \in scan[s].todo : ~fs[t].dir
     \/ At(s, "recheck") /\ ~fs[scan[s].target].root
     \/ At(s, "clear")
  /\ holder' = Released(s)
  /\ Fatal(s, "fix_fatal_error")
  /\ UNCHANGED <<runsRoot, fs>>

FaultyRecoverEnds(s) ==    \* mutant: the recovery may leave runs out
  /\ At(s, "recover")
  /\ Goto(s, IF scan[s].existed THEN "bridge" ELSE "run")
  /\ UNCHANGED <<files, ends>>

RecoverEnds(s) ==
  /\ At(s, "recover")
  /\ scan[s].todo = {}
  /\ Goto(s, IF scan[s].existed THEN "bridge" ELSE "run")
  /\ UNCHANGED <<files, ends>>

(* rmtree: the entries in any order, then the directory.                       *)
Erased(s) == IF At(s, "clear") THEN scan[s].target ELSE s

RemoveEntry(s) ==
  LET t == Erased(s) IN
  /\ scan[s].pc \in {"clear", "erase"}
  /\ \/ fs[t].marker /\ fs' = [fs EXCEPT ![t].marker = FALSE]
     \/ fs[t].lock /\ fs' = [fs EXCEPT ![t].lock = FALSE]
     \/ \E p \in fs[t].exports : fs' = [fs EXCEPT ![t].exports = @ \ {p}]
  /\ UNCHANGED <<runsRoot, holder, scan, ends>>

(* Where a scan is after its cleanup: that of a handler that returns lets it   *)
(* go on from where it was.                                                    *)
After(why, from) == IF from = "none" \/ why = "interrupted" THEN "persist" ELSE from

RemoveRoot(s) ==
  LET t == Erased(s) IN
  /\ scan[s].pc \in {"clear", "erase"}
  /\ fs[t] = [NoFiles EXCEPT !.dir = fs[t].dir, !.root = TRUE]
  /\ fs' = [fs EXCEPT ![t].root = FALSE]
  /\ holder' = Released(s)
  /\ \/ At(s, "clear") /\ scan' = [scan EXCEPT ![s].pc = "recover", ![s].todo = @ \ {t}]
     \/ At(s, "erase") /\ scan' = [scan EXCEPT ![s].pc = After(scan[s].why, scan[s].from),
                                              ![s].from = "none", ![s].created = FALSE]
  /\ UNCHANGED <<runsRoot, ends>>

-----------------------------------------------------------------------------
(* The run and its workspace                                                   *)

MakeRun(s) ==
  /\ At(s, "run")
  /\ fs' = [fs EXCEPT ![s].dir = TRUE]
  /\ Goto(s, "root")
  /\ UNCHANGED <<runsRoot, holder, ends>>

MakeRunFails(s) ==
  /\ At(s, "run")
  /\ Fatal(s, "fix_fatal_error")
  /\ UNCHANGED files

(* __enter__: the directory, its marker, its lock.                             *)
MakeRoot(s) ==
  /\ At(s, "root")
  /\ fs' = [fs EXCEPT ![s].root = TRUE]
  /\ Goto(s, "marker")
  /\ UNCHANGED <<runsRoot, holder, ends>>

WriteMarker(s) ==
  /\ At(s, "marker")
  /\ fs' = [fs EXCEPT ![s].marker = TRUE]
  /\ Goto(s, "lock")
  /\ UNCHANGED <<runsRoot, holder, ends>>

CreateLock(s) ==
  /\ At(s, "lock")
  /\ fs' = [fs EXCEPT ![s].lock = TRUE]
  /\ Goto(s, "flock")
  /\ UNCHANGED <<runsRoot, holder, ends>>

(* The lock may be taken by a recovery in between, and even be unlinked by it. *)
Flock(s) ==
  /\ At(s, "flock")
  /\ holder[s] = NoScan
  /\ holder' = [holder EXCEPT ![s] = s]
  /\ scan' = [scan EXCEPT ![s].pc = "loop", ![s].created = TRUE]
  /\ UNCHANGED <<runsRoot, fs, ends>>

EnterFails(s) ==
  /\ scan[s].pc \in {"root", "marker", "lock", "flock"}
  /\ scan' = [scan EXCEPT ![s].pc = IF fs[s].root THEN "erase" ELSE "persist", ![s].why = "failed"]
  /\ UNCHANGED <<files, ends>>

(* A signal is no Exception: what __enter__ made stays.                        *)
EnterInterrupted(s) ==
  /\ scan[s].pc \in {"root", "marker", "lock", "flock"}
  /\ scan' = [scan EXCEPT ![s].pc = "persist", ![s].why = "interrupted"]
  /\ UNCHANGED <<files, ends>>

-----------------------------------------------------------------------------
(* The photos                                                                  *)

Matches(s) == scan[s].created /\ fs[s].root /\ fs[s].marker
Rest(s) == Len(scan[s].sel) - Len(scan[s].rows)
Current(s) == scan[s].sel[Len(scan[s].rows) + 1]

FaultyCleanup(s, why, from) ==    \* mutant: only the lock is given back
  /\ scan' = [scan EXCEPT ![s].pc = After(why, from), ![s].why = why, ![s].created = FALSE]
  /\ holder' = Released(s)

(* cleanup removes the workspace while it is recognisably this scan's own: at  *)
(* the end of the with statement, or from where the handler interrupted.       *)
Cleanup(s, why, from) ==
  /\ scan' = [scan EXCEPT ![s].pc = IF Matches(s) THEN "erase" ELSE After(why, from),
                          ![s].why = why, ![s].from = IF Matches(s) THEN from ELSE "none",
                          ![s].created = Matches(s)]
  /\ holder' = IF Matches(s) THEN holder ELSE Released(s)

(* Bound: beside another scan every error is like the next.                    *)
CodesTried(s) == IF s \in Alone THEN Codes ELSE {"failed"}

Add(s, row) == scan' = [scan EXCEPT ![s].pc = "loop", ![s].rows = Append(@, row)]

Unread(s) ==
  /\ At(s, "loop") /\ Rest(s) > 0
  /\ \E code \in CodesTried(s) : Add(s, UnreadRow(Current(s), code))
  /\ UNCHANGED <<files, ends>>

(* destination_for refuses a workspace that is gone.                           *)
Destination(s) ==
  /\ At(s, "loop") /\ Rest(s) > 0 /\ Matches(s)
  /\ Goto(s, "export")
  /\ UNCHANGED <<files, ends>>

Unexported(s) ==
  /\ \/ At(s, "loop") /\ Rest(s) > 0 /\ ~Matches(s) /\ Add(s, UnexportedRow(Current(s), "failed"))
     \/ At(s, "export") /\ \E code \in CodesTried(s) : Add(s, UnexportedRow(Current(s), code))
  /\ UNCHANGED <<files, ends>>

StorageFails(s) ==
  /\ At(s, "export")
  /\ Cleanup(s, "failed", "none")
  /\ UNCHANGED <<runsRoot, fs, ends>>

Export(s) ==
  /\ At(s, "export") /\ Matches(s)
  /\ fs' = [fs EXCEPT ![s].exports = @ \cup {Current(s)}]
  /\ Goto(s, "analyse")
  /\ UNCHANGED <<runsRoot, holder, ends>>

Cancel(s) ==
  /\ At(s, "loop") /\ Rest(s) > 0
  /\ Cleanup(s, "cancelled", "none")
  /\ UNCHANGED <<runsRoot, fs, ends>>

(* An export is unlinked, if it is there and can be.                           *)
Unlink(s, unlinked) ==
  /\ unlinked => Current(s) \in fs[s].exports
  /\ fs' = IF unlinked THEN [fs EXCEPT ![s].exports = @ \ {Current(s)}] ELSE fs

(* Cancelled while the place is looked up: the export goes first.              *)
ContextCancelled(s) ==
  /\ At(s, "analyse")
  /\ \E unlinked \in BOOLEAN : Unlink(s, unlinked)
  /\ Cleanup(s, "cancelled", "none")
  /\ UNCHANGED <<runsRoot, ends>>

(* Without its workspace an analysis may find no export, or be what caught the *)
(* error of the removal.                                                       *)
OutcomesNow(s) == OutcomesOf[s] \cup (IF scan[s].created THEN {} ELSE {Failure("failed")})

(* A row the manifest's reader refuses is an error of the whole scan.          *)
Analyse(s) ==
  /\ At(s, "analyse")
  /\ \E outcome \in OutcomesNow(s), unlinked \in BOOLEAN :
       LET row == AnalysedRow(Current(s), outcome, unlinked) IN
       /\ Unlink(s, unlinked)
       /\ IF RowAccepted(row) THEN Add(s, row) /\ UNCHANGED holder ELSE Cleanup(s, "failed", "none")
  /\ UNCHANGED <<runsRoot, ends>>

(* The handler of a signal cleans up.  Then what handled the signal before it  *)
(* ends the scan, or returns, and the scan is complete if it comes to its end. *)
Interrupt(s) ==
  /\ scan[s].pc \in Working
  /\ \E why \in {"interrupted", "complete"} : Cleanup(s, why, scan[s].pc)
  /\ UNCHANGED <<runsRoot, fs, ends>>

Finish(s) ==
  /\ At(s, "loop") /\ Rest(s) = 0
  /\ Cleanup(s, "complete", "none")
  /\ UNCHANGED <<runsRoot, fs, ends>>

(* The removal may fail, and outside of the handler's scope a signal stops it. *)
(* What fails in the handler is raised where it interrupted: what is caught    *)
(* there, by the steps of a photo, is forgotten, and the signal with it.       *)
EraseStops(s) ==
  /\ At(s, "erase")
  /\ \/ \E why \in {"failed", "interrupted"} :
          scan' = [scan EXCEPT ![s].pc = "persist", ![s].why = why, ![s].from = "none",
                               ![s].created = FALSE]
     \/ /\ scan[s].from # "none"
        /\ scan' = [scan EXCEPT ![s].pc = scan[s].from, ![s].why = "complete", ![s].from = "none",
                                ![s].created = FALSE, ![s].spoilt = TRUE]
  /\ holder' = Released(s)
  /\ UNCHANGED <<runsRoot, fs, ends>>

-----------------------------------------------------------------------------
(* The manifest                                                                *)

RunError == [cancelled |-> "CANCELLED", interrupted |-> "CANCELLED", failed |-> "WORKSPACE_FAILED"]

Built(s) ==
  LET rows == scan[s].rows
      eligible == Len(scan[s].sel)
  IN IF scan[s].why # "complete" THEN Manifest(2, eligible, "failed", RunError[scan[s].why], rows)
     ELSE Manifest(2, eligible, IF HasErrors(rows) THEN "ready_with_errors" ELSE "ready", "none", rows)

Advised(s) ==
  CASE scan[s].why = "failed" -> "fix_fatal_error"
    [] scan[s].why \in {"cancelled", "interrupted"} -> "fix_failed_scan"
    [] OTHER -> Advice(scan[s].rows)

Persist(s) ==
  /\ At(s, "persist")
  /\ ManifestAccepted(Built(s))
  /\ manifest' = [manifest EXCEPT ![s] = Built(s)]
  /\ result' = [result EXCEPT ![s] = Advised(s)]
  /\ Goto(s, "done")
  /\ holder' = Released(s)     \* an interrupted process ends here
  /\ UNCHANGED <<runsRoot, fs, reviewed>>

(* The run is discarded, if it can be.                                         *)
PersistFails(s) ==
  /\ At(s, "persist")
  /\ fs' \in {fs, [fs EXCEPT ![s] = NoFiles]}
  /\ holder' = Released(s)
  /\ Fatal(s, "fix_fatal_error")
  /\ UNCHANGED runsRoot

(* Killed, or a signal outside of every handler.                               *)
Crash(s) ==
  /\ scan[s].pc \notin {"start", "done", "dead"}
  /\ Goto(s, "dead")
  /\ holder' = Released(s)
  /\ UNCHANGED <<runsRoot, fs, ends>>

(* Bound: one review, while no other scan has begun.                           *)
ReviewScan(s) ==
  /\ manifest[s] # NoManifest /\ reviewed[s] = NoManifest
  /\ \A t \in Scans \ {s} : At(t, "start")
  /\ \E review \in {review_manifest(manifest[s], c) : c \in Selections(manifest[s])}
                   \cup {review_manifest_v4(manifest[s], a) : a \in OnePhotoApprovals(manifest[s])} :
       review.accepted /\ reviewed' = [reviewed EXCEPT ![s] = review.manifest]
  /\ UNCHANGED <<files, scan, manifest, result>>

Setup(s) ==
  \/ Select(s) \/ SelectFails(s) \/ Bridge(s) \/ BridgeFails(s)
  \/ RecoverSkip(s) \/ RecoverLock(s) \/ Recheck(s) \/ RecoverFails(s) \/ RecoverEnds(s)
  \/ MakeRun(s) \/ MakeRunFails(s)

Workspace(s) ==
  \/ MakeRoot(s) \/ WriteMarker(s) \/ CreateLock(s) \/ Flock(s) \/ EnterFails(s) \/ EnterInterrupted(s)
  \/ RemoveEntry(s) \/ RemoveRoot(s) \/ EraseStops(s)

Work(s) ==
  \/ Unread(s) \/ Destination(s) \/ Unexported(s) \/ StorageFails(s) \/ Export(s) \/ Cancel(s)
  \/ ContextCancelled(s) \/ Analyse(s) \/ Interrupt(s) \/ Finish(s)

End(s) == Persist(s) \/ PersistFails(s) \/ Crash(s) \/ ReviewScan(s)

Next == \E s \in Scans : Setup(s) \/ Workspace(s) \/ Work(s) \/ End(s)

Spec == Init /\ [][Next]_vars

-----------------------------------------------------------------------------
(* Properties                                                                  *)

TypeOK ==
  /\ runsRoot \in BOOLEAN
  /\ fs \in [Scans -> [dir : BOOLEAN, root : BOOLEAN, marker : BOOLEAN, lock : BOOLEAN,
                       exports : SUBSET Photos]]
  /\ holder \in [Scans -> Scans \cup {NoScan}]
  /\ \A s \in Scans : scan[s].todo \subseteq Scans /\ scan[s].stale \subseteq Scans

(* A scan that works either has what it exported to analyse, for no recovery   *)
(* takes its workspace, in whatever step of its start it met it; or a signal   *)
(* handler of its own took the workspace, and then whole, unless the removal   *)
(* failed, and nothing is exported into what is left.                          *)
ExportsInUse ==
  /\ TypeOK
  /\ \A s \in Scans : scan[s].pc \in Working =>
       IF scan[s].created
       THEN At(s, "analyse") => Current(s) \in fs[s].exports
       ELSE scan[s].spoilt \/ fs[s].exports = {}

(* A scan that went on past its recovery left none of the workspaces that      *)
(* could be recovered when it listed them and that no other recovery held when *)
(* it came to them; what a killed removal has already made unrecognisable is   *)
(* not among them.                                                             *)
StaleWorkspacesGo ==
  \A s \in Scans :
    scan[s].pc \notin {"start", "recover", "recheck", "clear", "done", "dead"} =>
      \A t \in scan[s].stale : ~Recoverable(t)

(* Whatever the errors of its photos and however it ended, a scan comes to a   *)
(* manifest that its reader takes: only the disk can refuse it.  One that was  *)
(* complete has the row of every selected photo in order, also when it went on *)
(* after a signal.  Nothing exported is left of it, or of a cancelled one, even *)
(* when the deletion of a photo's export failed, unless a handler's cleanup    *)
(* failed and the scan went on.                                                *)
ScanIsRecorded ==
  \A s \in Scans : At(s, "persist") =>
    /\ ManifestAccepted(Built(s))
    /\ scan[s].why = "complete" =>
         [i \in DOMAIN scan[s].rows |-> scan[s].rows[i].photo] = scan[s].sel
    /\ scan[s].why \in {"complete", "cancelled"} /\ ~scan[s].spoilt => fs[s].exports = {}

(* A scan advises a review when, and unless a permission or PhotoScript comes  *)
(* first only when, the review would accept something of it.                   *)
AdviceMatchesReview ==
  \A s \in Scans : manifest[s] # NoManifest =>
    /\ result[s] = "review_then_apply" => CanReview(manifest[s])
    /\ result[s] \in {"none", "fix_failed_scan"} => ~CanReview(manifest[s])

(* Every reviewed copy is one that apply accepts as this scan's, and says what *)
(* in it is not the model's: everything else was proposed for that photo.  A   *)
(* photo with errors has something approved only when it was its analysis that *)
(* failed, and then all of it is a person's.                                   *)
Approved(row) == row.keywords # {} \/ row.caption # "none"

ReviewsAreAccepted ==
  \A s \in Scans : reviewed[s] # NoManifest =>
    /\ ProvenanceAccepted(manifest[s], reviewed[s])
    /\ \A i \in DOMAIN reviewed[s].rows :
         LET row == reviewed[s].rows[i]
             proposed == manifest[s].rows[i]
         IN /\ row.keywords \ row.review.manual \subseteq proposed.keywords
            /\ row.keywords \cap RefusedKeywords = {}
            /\ Approved(row) /\ row.errors # {} =>
                 /\ \A e \in row.errors : e[1] = "analysis"
                 /\ row.keywords = row.review.manual /\ row.review.captionOrigin # "model"

=============================================================================
