---------------------------- MODULE PlacesLookup ----------------------------
(* The Apple Maps lookup of one photo: the batch of category searches          *)
(* (places.py, _MapKitBatchSearch) and the caller that waits for it with a     *)
(* deadline and a cancellation check (AppleMapsPlacesClient).                  *)
(*                                                                             *)
(* MapKit delivers its completion handlers while the caller pumps the run      *)
(* loop, so a handler runs between two steps of the caller and never inside a  *)
(* launch; a search may also fail to start or complete inside its own start.   *)
(* A search returns a list of items or an error.  An item is a place, or one    *)
(* whose name the sanitiser refuses; names that differ only in case are one    *)
(* place, and coordinates are left out.                                        *)
EXTENDS Integers, FiniteSets

CONSTANTS Queries,       \* how many categories are searched (14)
          MaxParallel,   \* how many run at once (4)
          Places,        \* the names that pass the sanitiser, up to case
          Unsafe,        \* an item whose name does not
          MaxItems,      \* the longest list a search returns
          MaxResults     \* how many names an answer has at most (8)

ASSUME LimitsAssumption == Queries \in Nat \ {0} /\ MaxParallel \in Nat \ {0}

(* PlaceLookupResult takes at most eight names.                                *)
ASSUME NamesAssumption == Unsafe \notin Places /\ MaxItems \in Nat /\ MaxResults \in 1 .. 8

Query == 1 .. Queries
Batch == UNION {[1 .. n -> Places \cup {Unsafe}] : n \in 0 .. MaxItems}
Answers == {"none", "no_location", "results", "results_filtered", "no_results", "error",
            "timeout", "cancelled"}

VARIABLES
  next,        \* _next_query_index, from 1
  active,      \* _active_searches
  pending,     \* searches whose completion handler has not run
  batches,     \* _result_batches: the items of each query that succeeded
  failed,      \* queries that ended with an error (_last_error)
  launching,   \* a _launch_available loop is running
  finished,    \* _finished: the completion was called
  stopped,     \* _cancelled
  cancel,      \* what cancel_requested() answers
  caller,      \* where nearby_with_status is
  answer,      \* the state of the PlaceLookupResult it returned
  names        \* the names it returned

batch == <<next, active, pending, batches, failed, launching, finished, stopped>>
vars == <<batch, cancel, caller, answer, names>>

Init ==
  /\ next = 1 /\ active = 0 /\ pending = {} /\ failed = {}
  /\ batches = <<>>
  /\ launching = FALSE /\ finished = FALSE /\ stopped = FALSE
  /\ cancel = FALSE /\ caller = "called" /\ answer = "none" /\ names = {}

(* partial_items: the items of the categories that succeeded, in the order of  *)
(* the categories, by position.                                                *)
Found == {p \in Query \X (1 .. MaxItems) : p[1] \in DOMAIN batches /\ p[2] \in DOMAIN batches[p[1]]}
Item(p) == batches[p[1]][p[2]]
Before(p, r) == p[1] < r[1] \/ (p[1] = r[1] /\ p[2] < r[2])

(* The positions at which the walk of sanitize_place_context meets a new name, *)
(* and the names it takes until it has enough.                                 *)
NewNames == {p \in Found : /\ Item(p) # Unsafe
                           /\ \A r \in Found : Before(r, p) => Item(r) # Item(p)}
Ahead(p) == {r \in NewNames : Before(r, p)}
Taken == {p \in NewNames : Cardinality(Ahead(p)) < MaxResults}
Sanitized == {Item(p) : p \in Taken}

Return(state, found) == caller' = "returned" /\ answer' = state /\ names' = found

-----------------------------------------------------------------------------
(* The batch                                                                   *)

(* Nothing of a batch that was cancelled or has finished is touched again.     *)
Listening == ~stopped /\ ~finished

FaultyCanLaunch == Listening /\ active < MaxParallel /\ next < Queries    \* mutant: off by one

CanLaunch == Listening /\ active < MaxParallel /\ next <= Queries

(* One turn of the launch loop: the search is created and stays in flight.     *)
Launch ==
  /\ launching /\ CanLaunch
  /\ next' = next + 1 /\ active' = active + 1 /\ pending' = pending \cup {next}
  /\ UNCHANGED <<batches, failed, launching, finished, stopped, cancel, caller, answer, names>>

(* _finish_query books what the search said: an error, or its items.           *)
Book(q) ==
  \/ failed' = failed \cup {q} /\ UNCHANGED batches
  \/ /\ \E items \in Batch :
          batches' = [p \in DOMAIN batches \cup {q} |-> IF p = q THEN items ELSE batches[p]]
     /\ UNCHANGED failed

(* A search that raises from its start, or that completes inside it: the count *)
(* goes up and down again, and the launch that follows is the same loop.       *)
LaunchAndFinish ==
  /\ launching /\ CanLaunch
  /\ next' = next + 1 /\ Book(next)
  /\ UNCHANGED <<active, pending, launching, finished, stopped, cancel, caller, answer, names>>

FaultyComplete == Listening /\ next > Queries    \* mutant: searches in flight forgotten

(* _finish_if_complete, after every launch loop.                               *)
Complete == Listening /\ active = 0 /\ next > Queries

EndLaunch ==
  /\ launching /\ ~CanLaunch
  /\ launching' = FALSE
  /\ finished' = (finished \/ Complete)
  /\ UNCHANGED <<next, active, pending, batches, failed, stopped, cancel, caller, answer, names>>

(* The completion handler of a search: late ones are dropped.                  *)
FinishQuery(q) ==
  /\ q \in pending /\ ~launching
  /\ pending' = pending \ {q}
  /\ IF Listening
     THEN Book(q) /\ active' = active - 1 /\ launching' = TRUE
     ELSE UNCHANGED <<batches, failed, active, launching>>
  /\ UNCHANGED <<next, finished, stopped, cancel, caller, answer, names>>

-----------------------------------------------------------------------------
(* The caller                                                                  *)

CancelRequested ==
  /\ ~cancel /\ cancel' = TRUE
  /\ UNCHANGED <<batch, caller, answer, names>>

(* No usable location, a search that cannot be created or started, or a        *)
(* cancellation that was already there: no search is made.                     *)
Refuse ==
  /\ caller = "called"
  /\ \E state \in (IF cancel THEN {"cancelled"} ELSE {"no_location", "error"}) : Return(state, {})
  /\ stopped' = cancel
  /\ UNCHANGED <<next, active, pending, batches, failed, launching, finished, cancel>>

Start ==
  /\ caller = "called" /\ ~cancel
  /\ caller' = "waiting" /\ launching' = TRUE
  /\ UNCHANGED <<next, active, pending, batches, failed, finished, stopped, cancel, answer, names>>

FaultyDeadline ==    \* mutant: no deadline while a search is in flight
  /\ caller = "waiting" /\ ~launching /\ ~finished /\ pending = {}
  /\ caller' = "late"
  /\ UNCHANGED <<batch, cancel, answer, names>>

(* _wait_for_mapkit gives up at the deadline.                                  *)
Deadline ==
  /\ caller = "waiting" /\ ~launching /\ ~finished
  /\ caller' = "late"
  /\ UNCHANGED <<batch, cancel, answer, names>>

(* A cancellation wins over a result that is already there, and over the       *)
(* deadline.                                                                   *)
AnswerCancelled ==
  /\ caller \in {"waiting", "late"} /\ ~launching /\ cancel
  /\ stopped' = TRUE
  /\ Return("cancelled", {})
  /\ UNCHANGED <<next, active, pending, batches, failed, launching, finished, cancel>>

(* At the deadline the searches are cancelled, then the names in what they had *)
(* brought are returned.                                                       *)
AnswerTimeout ==
  /\ caller = "late" /\ ~launching /\ ~cancel
  /\ stopped' = TRUE
  /\ Return("timeout", Sanitized)
  /\ UNCHANGED <<next, active, pending, batches, failed, launching, finished, cancel>>

Outcome ==
  IF DOMAIN batches = {} THEN "error"
  ELSE IF Sanitized # {} THEN "results"
  ELSE IF Found # {} THEN "results_filtered"
  ELSE "no_results"

AnswerComplete ==
  /\ caller = "waiting" /\ finished /\ ~cancel
  /\ Return(Outcome, Sanitized)
  /\ UNCHANGED <<batch, cancel>>

Next ==
  \/ Launch \/ LaunchAndFinish \/ EndLaunch
  \/ \E q \in Query : FinishQuery(q)
  \/ CancelRequested \/ Refuse \/ Start \/ Deadline
  \/ AnswerCancelled \/ AnswerTimeout \/ AnswerComplete

(* The caller's thread runs the launches and its own steps; nothing is asked   *)
(* of MapKit or of whoever cancels.                                            *)
Own == Launch \/ LaunchAndFinish \/ EndLaunch \/ Refuse \/ Start \/ Deadline
       \/ AnswerCancelled \/ AnswerTimeout \/ AnswerComplete

Spec == Init /\ [][Next]_vars /\ WF_vars(Own)

-----------------------------------------------------------------------------
TypeOK ==
  /\ next \in 1 .. Queries + 1 /\ active \in 0 .. MaxParallel
  /\ pending \subseteq Query /\ failed \subseteq Query
  /\ DOMAIN batches \subseteq Query /\ batches \in [DOMAIN batches -> Batch]
  /\ launching \in BOOLEAN /\ finished \in BOOLEAN /\ stopped \in BOOLEAN /\ cancel \in BOOLEAN
  /\ caller \in {"called", "waiting", "late", "returned"}
  /\ answer \in Answers /\ names \subseteq Places

(* A batch never stalls: once it has begun, if no search is in flight and no   *)
(* launch is running, it has finished or was cancelled.  A stalled batch would *)
(* cost the photo the whole deadline (places.py, 348-375).                     *)
NoStall ==
  /\ TypeOK
  /\ (caller = "waiting" /\ ~launching /\ pending = {}) => finished

(* An answer that is not partial is given when every category has succeeded or *)
(* failed, and is an error only when all failed.  Its names are places that    *)
(* were found, never more than MaxResults; a place that was found is missing   *)
(* only if MaxResults others come before it in the order of the categories; and *)
(* it says "results" exactly when there is a name (places.py, 222-239,         *)
(* 298-305, 348-375, 468-483).                                                 *)
AnswerCoversAll ==
  (answer \in {"results", "results_filtered", "no_results"} \/ (answer = "error" /\ finished)) =>
    /\ \A q \in Query : q \in DOMAIN batches \/ q \in failed
    /\ (answer = "error") = (failed = Query)
    /\ names \subseteq {Item(p) : p \in Found}
    /\ Cardinality(names) <= MaxResults
    /\ \A p \in Found : Item(p) \in Places \ names =>
         /\ Cardinality(names) = MaxResults
         /\ \A y \in names : \E r \in Found : Item(r) = y /\ Before(r, p)
    /\ (answer = "results") = (names # {})

(* The caller always gets an answer, even if MapKit never calls back           *)
(* (places.py, 495-524).                                                       *)
LookupEnds == (caller = "called") ~> (caller = "returned")
=============================================================================
