---------------------------- MODULE PlacesProofs ----------------------------
(* Proofs about PlacesLookup, for every number of categories, of searches that *)
(* may run at once, of items and of names: a batch never stalls, and an answer *)
(* that is not partial covers every category up to the limit on names.         *)
(*                                                                             *)
(* The code counts its searches (active) and never lists them.  The invariant  *)
(* says that the count is right as long as the batch is listening, and that a  *)
(* launch loop ends only when a search is in flight or all have been answered. *)
(* What the walk over the items takes is in SanitizedNames, which needs no     *)
(* invariant.                                                                  *)
EXTENDS PlacesLookup, FiniteSetTheorems, FunctionTheorems, WellFoundedInduction, TLAPS

-----------------------------------------------------------------------------
(* The walk over the items                                                     *)

(* A set of naturals that is not empty has a least element.                    *)
LEMMA Least ==
  ASSUME NEW T, T \subseteq Nat, T # {}
  PROVE  \E m \in T : \A k \in T : m <= k
<1> DEFINE R == {ss \in Nat \X Nat : ss[1] < ss[2]}
<1>1. IsWellFoundedOn(R, Nat)
  BY NatLessThanWellFounded DEF OpToRel
<1>2. \A x, y \in Nat : y < x => <<y, x>> \in R
  OBVIOUS
<1> HIDE DEF R
<1>3. PICK x \in T : \A y \in T : ~ (<<y, x>> \in R)
  BY <1>1, WFMin
<1>4. \A y \in T : ~(y < x)
  BY <1>2, <1>3
<1> QED
  BY <1>4

(* Positions are pairs of numbers in a total order, and there are finitely     *)
(* many of them.                                                               *)
LEMMA Positions ==
  ASSUME TypeOK
  PROVE  /\ IsFiniteSet(Found)
         /\ \A p \in Found : /\ p[1] \in Nat /\ p[2] \in Nat /\ p = <<p[1], p[2]>>
                            /\ Item(p) \in Places \cup {Unsafe}
<1>1. IsFiniteSet(Query \X (1 .. MaxItems))
  <2>1. IsFiniteSet(Query) /\ IsFiniteSet(1 .. MaxItems)
    BY LimitsAssumption, NamesAssumption, FS_Interval DEF Query
  <2> QED
    BY <2>1, FS_Product
<1>2. IsFiniteSet(Found)
  BY <1>1, FS_Subset DEF Found
<1> SUFFICES ASSUME NEW p \in Found
             PROVE  /\ p[1] \in Nat /\ p[2] \in Nat /\ p = <<p[1], p[2]>>
                    /\ Item(p) \in Places \cup {Unsafe}
  BY <1>2
<1>3. p[1] \in Nat /\ p[2] \in Nat /\ p = <<p[1], p[2]>>
  BY LimitsAssumption, NamesAssumption DEF Found, Query
<1>4. p[1] \in DOMAIN batches /\ p[2] \in DOMAIN batches[p[1]]
  BY DEF Found
<1>5. batches[p[1]] \in Batch
  BY <1>4 DEF TypeOK
<1>6. PICK n \in 0 .. MaxItems : batches[p[1]] \in [1 .. n -> Places \cup {Unsafe}]
  BY <1>5 DEF Batch
<1> QED
  BY <1>3, <1>4, <1>6 DEF Item

(* Two positions at which a new name is met are in order and have different    *)
(* names.                                                                      *)
LEMMA NewNamesDiffer ==
  ASSUME TypeOK
  PROVE  \A p, r \in NewNames : p # r => (Before(p, r) \/ Before(r, p)) /\ Item(p) # Item(r)
<1> SUFFICES ASSUME NEW p \in NewNames, NEW r \in NewNames, p # r
             PROVE  (Before(p, r) \/ Before(r, p)) /\ Item(p) # Item(r)
  OBVIOUS
<1>1. p \in Found /\ r \in Found
  BY DEF NewNames
<1>2. /\ p[1] \in Nat /\ p[2] \in Nat /\ p = <<p[1], p[2]>>
      /\ r[1] \in Nat /\ r[2] \in Nat /\ r = <<r[1], r[2]>>
  BY <1>1, Positions
<1>3. Before(p, r) \/ Before(r, p)
  BY <1>2 DEF Before
<1> QED
  BY <1>1, <1>3 DEF NewNames

(* The later a new name is met, the more are ahead of it.                      *)
LEMMA AheadGrows ==
  ASSUME TypeOK
  PROVE  /\ IsFiniteSet(NewNames)
         /\ \A p \in NewNames : IsFiniteSet(Ahead(p)) /\ Cardinality(Ahead(p)) \in Nat
         /\ \A p, r \in NewNames : Before(r, p) => Cardinality(Ahead(r)) < Cardinality(Ahead(p))
<1>1. IsFiniteSet(NewNames)
  BY Positions, FS_Subset DEF NewNames
<1>2. \A p \in NewNames : IsFiniteSet(Ahead(p)) /\ Cardinality(Ahead(p)) \in Nat
  BY <1>1, FS_Subset, FS_CardinalityType DEF Ahead
<1>3. ASSUME NEW p \in NewNames, NEW r \in NewNames, Before(r, p)
      PROVE  Cardinality(Ahead(r)) < Cardinality(Ahead(p))
  <2>1. \A q \in NewNames : q[1] \in Nat /\ q[2] \in Nat
    BY Positions DEF NewNames
  <2>2. r \notin Ahead(r)
    BY <2>1 DEF Ahead, Before
  <2>3. Ahead(r) \cup {r} \subseteq Ahead(p)
    BY <1>3, <2>1 DEF Ahead, Before
  <2>4. Cardinality(Ahead(r) \cup {r}) = Cardinality(Ahead(r)) + 1
    BY <1>2, <2>2, FS_AddElement
  <2>5. Cardinality(Ahead(r) \cup {r}) <= Cardinality(Ahead(p))
    BY <1>2, <2>3, FS_Subset
  <2> QED
    BY <1>2, <2>4, <2>5
<1> QED
  BY <1>1, <1>2, <1>3

(* The walk takes at most MaxResults names, and passes one over only when it   *)
(* has that many.                                                              *)
LEMMA TakenCount ==
  ASSUME TypeOK
  PROVE  /\ IsFiniteSet(Taken) /\ Cardinality(Taken) \in 0 .. MaxResults
         /\ Taken # NewNames => Cardinality(Taken) = MaxResults
<1>1. IsFiniteSet(Taken) /\ Cardinality(Taken) \in Nat
  BY AheadGrows, FS_Subset, FS_CardinalityType DEF Taken
<1>2. Cardinality(Taken) <= MaxResults
  <2> DEFINE T == 0 .. MaxResults - 1
             f == [p \in Taken |-> Cardinality(Ahead(p))]
  <2>1. f \in [Taken -> T]
    BY AheadGrows, NamesAssumption DEF Taken
  <2>2. ASSUME NEW p \in Taken, NEW r \in Taken, p # r PROVE f[p] # f[r]
    <3>1. Before(p, r) \/ Before(r, p)
      BY <2>2, NewNamesDiffer DEF Taken
    <3>2. \/ Cardinality(Ahead(p)) < Cardinality(Ahead(r))
          \/ Cardinality(Ahead(r)) < Cardinality(Ahead(p))
      BY <3>1, AheadGrows DEF Taken
    <3>3. Cardinality(Ahead(p)) \in Nat /\ Cardinality(Ahead(r)) \in Nat
      BY AheadGrows DEF Taken
    <3> QED
      BY <3>2, <3>3
  <2>3. f \in Injection(Taken, T)
    BY <2>1, <2>2 DEF Injection, IsInjective
  <2>4. IsFiniteSet(T) /\ Cardinality(T) = MaxResults
    BY NamesAssumption, FS_Interval
  <2> HIDE DEF f, T
  <2> QED
    BY <2>3, <2>4, FS_Injection
<1>3. ASSUME Taken # NewNames PROVE MaxResults <= Cardinality(Taken)
  <2> DEFINE Counts == {Cardinality(Ahead(p)) : p \in NewNames \ Taken}
  <2>1. Counts \subseteq Nat /\ Counts # {}
    BY <1>3, AheadGrows DEF Taken
  <2>2. PICK m \in Counts : \A k \in Counts : m <= k
    BY <2>1, Least
  <2>3. PICK p \in NewNames \ Taken : m = Cardinality(Ahead(p))
    BY <2>2
  <2>4. Ahead(p) \subseteq Taken
    <3> SUFFICES ASSUME NEW r \in Ahead(p), r \notin Taken PROVE FALSE
      OBVIOUS
    <3>1. r \in NewNames /\ Before(r, p)
      BY DEF Ahead
    <3>2. Cardinality(Ahead(r)) < m
      BY <2>3, <3>1, AheadGrows
    <3>3. m <= Cardinality(Ahead(r))
      BY <2>2, <3>1
    <3>4. m \in Nat /\ Cardinality(Ahead(r)) \in Nat
      BY <2>3, <3>1, AheadGrows
    <3> QED
      BY <3>2, <3>3, <3>4
  <2>5. m <= Cardinality(Taken)
    BY <1>1, <2>3, <2>4, FS_Subset
  <2>6. MaxResults <= m /\ m \in Nat
    BY <2>3, AheadGrows, NamesAssumption DEF Taken
  <2> QED
    BY <1>1, <2>5, <2>6, NamesAssumption
<1> QED
  BY <1>1, <1>2, <1>3, NamesAssumption

(* The names are as many as the positions at which they were taken.            *)
LEMMA NamesCount ==
  ASSUME TypeOK
  PROVE  Cardinality(Sanitized) = Cardinality(Taken)
<1> DEFINE f == [p \in Taken |-> Item(p)]
<1>1. f \in Surjection(Taken, Sanitized)
  BY DEF Sanitized, Surjection
<1>2. \A p, r \in Taken : p # r => f[p] # f[r]
  BY NewNamesDiffer DEF Taken
<1>3. f \in Injection(Taken, Sanitized)
  BY <1>1, <1>2 DEF Injection, IsInjective, Surjection
<1> HIDE DEF f
<1> QED
  BY <1>1, <1>3, TakenCount, FS_Surjection

(* A name that was found is met first at its position or before it.            *)
LEMMA FirstMeeting ==
  ASSUME TypeOK, NEW p \in Found, Item(p) # Unsafe
  PROVE  \E r \in NewNames : Item(r) = Item(p) /\ (r = p \/ Before(r, p))
<1> DEFINE Same == {r \in Found : Item(r) = Item(p)}
           Categories == {r[1] : r \in Same}
<1>1. \A r \in Same : r[1] \in Nat /\ r[2] \in Nat /\ r = <<r[1], r[2]>>
  BY Positions
<1>2. Categories \subseteq Nat /\ Categories # {}
  BY <1>1
<1>3. PICK c \in Categories : \A d \in Categories : c <= d
  BY <1>2, Least
<1> DEFINE Ranks == {r[2] : r \in {r \in Same : r[1] = c}}
<1>4. Ranks \subseteq Nat /\ Ranks # {}
  BY <1>1, <1>3
<1>5. PICK k \in Ranks : \A l \in Ranks : k <= l
  BY <1>4, Least
<1>6. PICK r \in Same : r[1] = c /\ r[2] = k
  BY <1>5
<1>7. \A q \in Same : ~Before(q, r)
  <2> SUFFICES ASSUME NEW q \in Same, Before(q, r) PROVE FALSE
    OBVIOUS
  <2>1. c <= q[1] /\ (q[1] = c => k <= q[2])
    BY <1>3, <1>5
  <2> QED
    BY <1>1, <1>6, <2>1 DEF Before
<1>8. r \in NewNames
  BY <1>6, <1>7 DEF NewNames
<1>9. r = p \/ Before(r, p)
  <2>1. p \in Same
    OBVIOUS
  <2>2. ~Before(p, r)
    BY <1>7, <2>1
  <2> QED
    BY <1>1, <1>6, <2>1, <2>2 DEF Before
<1> QED
  BY <1>6, <1>8, <1>9

(* What sanitize_place_context returns: places that were found, at most        *)
(* MaxResults, and a place that was found is left out only for MaxResults      *)
(* others that come before it.                                                 *)
LEMMA SanitizedNames ==
  ASSUME TypeOK
  PROVE  /\ Sanitized \subseteq Places
         /\ Sanitized \subseteq {Item(p) : p \in Found}
         /\ Cardinality(Sanitized) <= MaxResults
         /\ \A p \in Found : Item(p) \in Places \ Sanitized =>
              /\ Cardinality(Sanitized) = MaxResults
              /\ \A y \in Sanitized : \E r \in Found : Item(r) = y /\ Before(r, p)
<1>1. Sanitized \subseteq Places /\ Sanitized \subseteq {Item(p) : p \in Found}
  <2>1. \A p \in NewNames : p \in Found /\ Item(p) \in Places
    BY Positions DEF NewNames
  <2> QED
    BY <2>1 DEF Sanitized, Taken
<1>2. Cardinality(Sanitized) <= MaxResults
  BY NamesCount, TakenCount, NamesAssumption
<1>3. ASSUME NEW p \in Found, Item(p) \in Places \ Sanitized
      PROVE  /\ Cardinality(Sanitized) = MaxResults
             /\ \A y \in Sanitized : \E r \in Found : Item(r) = y /\ Before(r, p)
  <2>1. PICK f \in NewNames : Item(f) = Item(p) /\ (f = p \/ Before(f, p))
    BY <1>3, FirstMeeting, NamesAssumption
  <2>2. f \notin Taken
    BY <1>3, <2>1 DEF Sanitized
  <2>3. Cardinality(Sanitized) = MaxResults
    BY <2>1, <2>2, NamesCount, TakenCount
  <2>4. ASSUME NEW y \in Sanitized PROVE \E r \in Found : Item(r) = y /\ Before(r, p)
    <3>1. PICK r \in Taken : Item(r) = y
      BY DEF Sanitized
    <3>2. r \in NewNames /\ r \in Found /\ f \in Found
      BY DEF Taken, NewNames
    <3>3. Cardinality(Ahead(r)) < MaxResults /\ ~(Cardinality(Ahead(f)) < MaxResults)
      BY <2>1, <2>2 DEF Taken
    <3>4. Cardinality(Ahead(r)) \in Nat /\ Cardinality(Ahead(f)) \in Nat
      BY <3>2, AheadGrows
    <3>5. ~Before(f, r)
      BY <3>2, <3>3, <3>4, AheadGrows, NamesAssumption
    <3>6. Before(r, f)
      BY <2>1, <2>2, <3>1, <3>2, <3>5, NewNamesDiffer
    <3>7. Before(r, p)
      <4>1. \A q \in Found : q[1] \in Nat /\ q[2] \in Nat
        BY Positions
      <4> QED
        BY <2>1, <3>2, <3>6, <4>1 DEF Before
    <3> QED
      BY <3>1, <3>2, <3>7
  <2> QED
    BY <2>3, <2>4
<1> QED
  BY <1>1, <1>2, <1>3

-----------------------------------------------------------------------------
(* The invariant                                                               *)

(* What a query can be: not yet searched, in flight, answered or failed.       *)
Untouched(q) == q \notin DOMAIN batches /\ q \notin failed

Begun == caller \in {"waiting", "late"}

CountInv == ~stopped => active = Cardinality(pending)

LoopInv ==
  /\ launching => Begun /\ ~stopped /\ ~finished
  /\ Begun /\ ~launching /\ ~finished => active > 0
  /\ finished => active = 0 /\ pending = {} /\ next > Queries /\ ~launching

QueryInv ==
  /\ \A q \in Query : (q >= next \/ q \in pending) => Untouched(q)
  /\ \A q \in Query : (q >= next) => q \notin pending
  /\ \A q \in failed : q \notin DOMAIN batches
  /\ ~stopped => \A q \in Query : q >= next \/ q \in pending \/ ~Untouched(q)

CallerInv ==
  /\ stopped => caller = "returned"
  /\ caller = "returned" <=> answer # "none"
  /\ caller = "called" => pending = {} /\ ~finished
  /\ caller = "returned" => stopped \/ pending = {}
  /\ answer \in {"results", "results_filtered", "no_results"} => finished /\ ~stopped

Inv == TypeOK /\ CountInv /\ LoopInv /\ QueryInv /\ CallerInv /\ AnswerCoversAll

LEMMA PendingCounts ==
  ASSUME TypeOK
  PROVE  /\ IsFiniteSet(pending) /\ Cardinality(pending) \in Nat
         /\ pending = {} <=> Cardinality(pending) = 0
         /\ \A q \in Query : q \notin pending =>
              Cardinality(pending \cup {q}) = Cardinality(pending) + 1
         /\ \A q \in pending :
              Cardinality(pending \ {q}) = Cardinality(pending) - 1
<1>1. IsFiniteSet(Query)
  BY LimitsAssumption, FS_Interval DEF Query
<1>2. IsFiniteSet(pending)
  BY <1>1, FS_Subset DEF TypeOK
<1> QED
  BY <1>2, FS_CardinalityType, FS_EmptySet, FS_AddElement, FS_RemoveElement

(* A query that is booked is no longer untouched; the others are as they were. *)
LEMMA BookMarks ==
  ASSUME TypeOK, QueryInv, NEW q \in Query, Book(q), Untouched(q)
  PROVE  /\ ~Untouched(q)'
         /\ \A p \in Query \ {q} : Untouched(p)' <=> Untouched(p)
         /\ \A p \in failed' : p \notin DOMAIN batches'
         /\ failed' \subseteq Query /\ DOMAIN batches' \subseteq Query
         /\ batches' \in [DOMAIN batches' -> Batch]
<1>1. CASE failed' = failed \cup {q} /\ UNCHANGED batches
  BY <1>1 DEF Untouched, QueryInv, TypeOK
<1>2. CASE (\E items \in Batch :
              batches' = [p \in DOMAIN batches \cup {q} |-> IF p = q THEN items ELSE batches[p]])
           /\ UNCHANGED failed
  <2>1. PICK items \in Batch :
          batches' = [p \in DOMAIN batches \cup {q} |-> IF p = q THEN items ELSE batches[p]]
    BY <1>2
  <2>3. DOMAIN batches' = DOMAIN batches \cup {q}
    BY <2>1
  <2>4. batches' \in [DOMAIN batches' -> Batch]
    BY <2>1, <2>3 DEF TypeOK
  <2> QED
    BY <1>2, <2>3, <2>4 DEF Untouched, QueryInv, TypeOK
<1> QED
  BY <1>1, <1>2 DEF Book

(* What the property reads is left alone by most steps.                        *)
LEMMA AnswerStays ==
  ASSUME AnswerCoversAll, UNCHANGED <<batches, failed, finished, answer, names>>
  PROVE  AnswerCoversAll'
BY DEF AnswerCoversAll, Found, Item

LEMMA InvInit == Init => Inv
<1> SUFFICES ASSUME Init PROVE Inv
  OBVIOUS
<1>1. TypeOK
  <2>1. 1 \in 1..Queries + 1 /\ 0 \in 0..MaxParallel
    BY LimitsAssumption
  <2>2. DOMAIN batches = {} /\ batches \in [DOMAIN batches -> Batch]
    BY DEF Init
  <2> QED
    BY <2>1, <2>2 DEF Init, TypeOK, Answers
<1>2. CountInv
  BY FS_EmptySet DEF Init, CountInv
<1> QED
  BY <1>1, <1>2
  DEF Init, Inv, LoopInv, QueryInv, CallerInv, AnswerCoversAll, Begun, Untouched, Query, TypeOK

LEMMA LaunchKeeps == Inv /\ Launch => Inv'
<1> SUFFICES ASSUME Inv, Launch PROVE Inv'
  OBVIOUS
<1>1. next \in Query /\ next \notin pending /\ ~stopped /\ ~finished /\ Begun
  BY LimitsAssumption DEF Inv, Launch, CanLaunch, Listening, TypeOK, Query, QueryInv, LoopInv
<1>2. TypeOK'
  BY <1>1, LimitsAssumption DEF Inv, Launch, CanLaunch, TypeOK, Query
<1>3. CountInv'
  BY <1>1, PendingCounts DEF Inv, Launch, CountInv
<1>4. QueryInv'
  BY <1>1 DEF Inv, Launch, QueryInv, Untouched, TypeOK, Query
<1>5. LoopInv' /\ CallerInv'
  BY <1>1 DEF Inv, Launch, LoopInv, CallerInv, Begun
<1>6. AnswerCoversAll'
  BY <1>1, AnswerStays DEF Inv, Launch
<1> QED
  BY <1>2, <1>3, <1>4, <1>5, <1>6 DEF Inv

LEMMA LaunchAndFinishKeeps == Inv /\ LaunchAndFinish => Inv'
<1> SUFFICES ASSUME Inv, LaunchAndFinish PROVE Inv'
  OBVIOUS
<1>1. next \in Query /\ next \notin pending /\ ~stopped /\ ~finished /\ Begun
  BY LimitsAssumption
  DEF Inv, LaunchAndFinish, CanLaunch, Listening, TypeOK, Query, QueryInv, LoopInv
<1>2. Book(next) /\ Untouched(next)
  BY <1>1 DEF Inv, QueryInv, LaunchAndFinish, TypeOK, Query
<1>3. TypeOK'
  <2>1. next' \in 1..Queries + 1
    BY <1>1, LimitsAssumption DEF LaunchAndFinish, Query
  <2> QED
    BY <1>1, <1>2, <2>1, BookMarks DEF Inv, LaunchAndFinish, TypeOK
<1>4. CountInv'
  BY DEF Inv, LaunchAndFinish, CountInv
<1>5. QueryInv'
  BY <1>1, <1>2, BookMarks DEF Inv, LaunchAndFinish, QueryInv, TypeOK, Query
<1>6. LoopInv' /\ CallerInv'
  BY <1>1 DEF Inv, LaunchAndFinish, LoopInv, CallerInv, Begun
<1>7. AnswerCoversAll'
  BY <1>1 DEF Inv, LaunchAndFinish, CallerInv, AnswerCoversAll, Begun
<1> QED
  BY <1>3, <1>4, <1>5, <1>6, <1>7 DEF Inv

LEMMA EndLaunchKeeps == Inv /\ EndLaunch => Inv'
<1> SUFFICES ASSUME Inv, EndLaunch PROVE Inv'
  OBVIOUS
<1>1. ~stopped /\ ~finished /\ Begun
  BY DEF Inv, EndLaunch, LoopInv
<1>2. TypeOK' /\ CountInv' /\ QueryInv'
  BY DEF Inv, EndLaunch, TypeOK, CountInv, QueryInv, Untouched, Complete, Listening
<1>3. LoopInv'
  <2>1. active > 0 \/ (active = 0 /\ next > Queries /\ Complete /\ pending = {})
    BY <1>1, PendingCounts, LimitsAssumption
    DEF Inv, CountInv, EndLaunch, CanLaunch, Complete, Listening, TypeOK
  <2>2. CASE active > 0
    <3>1. active # 0
      BY <2>2
    <3>2. ~Complete
      BY <3>1 DEF Complete
    <3>3. ~finished'
      BY <1>1, <3>2, Zenon DEF EndLaunch
    <3> QED
      BY <2>2, <3>3 DEF EndLaunch, LoopInv, Begun
  <2>3. CASE active = 0 /\ next > Queries /\ Complete /\ pending = {}
    <3>1. finished'
      BY <2>3 DEF EndLaunch
    <3> QED
      BY <2>3, <3>1 DEF EndLaunch, LoopInv, Begun
  <2> QED
    BY <2>1, <2>2, <2>3
<1>4. CallerInv' /\ AnswerCoversAll'
  BY <1>1 DEF Inv, EndLaunch, CallerInv, AnswerCoversAll, Begun
<1> QED
  BY <1>2, <1>3, <1>4 DEF Inv

LEMMA FinishQueryKeeps ==
  ASSUME Inv, NEW q \in Query, FinishQuery(q)
  PROVE  Inv'
<1>1. q \in pending /\ ~launching /\ ~finished /\ pending' = pending \ {q}
  BY DEF Inv, FinishQuery, LoopInv
<1>2. CASE stopped
  <2>1. TypeOK' /\ CountInv' /\ QueryInv'
    BY <1>1, <1>2
    DEF Inv, FinishQuery, Listening, TypeOK, CountInv, QueryInv, Untouched
  <2>2. LoopInv' /\ CallerInv'
    BY <1>1, <1>2 DEF Inv, FinishQuery, Listening, LoopInv, CallerInv, Begun
  <2>3. AnswerCoversAll'
    BY <1>2, AnswerStays DEF Inv, FinishQuery, Listening
  <2> QED
    BY <2>1, <2>2, <2>3 DEF Inv
<1>3. CASE ~stopped
  <2>1. Book(q) /\ active' = active - 1 /\ launching' = TRUE /\ Untouched(q)
    BY <1>1, <1>3 DEF FinishQuery, Listening, Inv, QueryInv
  <2>2. CountInv' /\ active' \in 0..MaxParallel
    BY <1>1, <1>3, <2>1, PendingCounts, LimitsAssumption
    DEF Inv, FinishQuery, CountInv, TypeOK
  <2>3. TypeOK'
    BY <2>1, <2>2, BookMarks DEF Inv, FinishQuery, TypeOK
  <2>4. QueryInv'
    BY <1>1, <1>3, <2>1, BookMarks DEF Inv, FinishQuery, QueryInv, TypeOK
  <2>5. caller \in {"waiting", "late"}
    BY <1>1, <1>3 DEF Inv, TypeOK, CallerInv, AnswerCoversAll, FinishQuery
  <2>6. LoopInv' /\ CallerInv' /\ AnswerCoversAll'
    BY <1>1, <1>3, <2>1, <2>5
    DEF Inv, FinishQuery, LoopInv, CallerInv, AnswerCoversAll, Begun
  <2> QED
    BY <2>2, <2>3, <2>4, <2>6 DEF Inv
<1> QED
  BY <1>2, <1>3

LEMMA CallerStepsKeep ==
  ASSUME Inv, \/ CancelRequested \/ Refuse \/ Start \/ Deadline
              \/ AnswerCancelled \/ AnswerTimeout
  PROVE  Inv'
<1>1. TypeOK'
  BY SanitizedNames DEF Inv, TypeOK, CancelRequested, Refuse, Start, Deadline, AnswerCancelled,
         AnswerTimeout, Return, Answers, batch
<1>2. CountInv' /\ QueryInv'
  BY DEF Inv, CallerInv, CountInv, QueryInv, Untouched, CancelRequested, Refuse, Start, Deadline,
         AnswerCancelled, AnswerTimeout, Return, batch
<1>3. LoopInv' /\ CallerInv'
  BY DEF Inv, LoopInv, CallerInv, AnswerCoversAll, Begun, CancelRequested, Refuse,
         Start, Deadline, AnswerCancelled, AnswerTimeout, Return, batch
<1>4. AnswerCoversAll'
  <2>1. CASE CancelRequested \/ Start \/ Deadline
    BY <2>1, AnswerStays DEF Inv, CancelRequested, Start, Deadline, batch
  <2>2. CASE Refuse \/ AnswerCancelled \/ AnswerTimeout
    BY <2>2 DEF Inv, CallerInv, Refuse, AnswerCancelled, AnswerTimeout, Return, AnswerCoversAll
  <2> QED
    BY <2>1, <2>2
<1> QED
  BY <1>1, <1>2, <1>3, <1>4 DEF Inv

LEMMA AnswerCompleteKeeps == Inv /\ AnswerComplete => Inv'
<1> SUFFICES ASSUME Inv, AnswerComplete PROVE Inv'
  OBVIOUS
<1>1. UNCHANGED <<batch, cancel>> /\ finished /\ ~stopped /\ caller = "waiting"
  BY DEF Inv, AnswerComplete, CallerInv
<1>2. caller' = "returned" /\ answer' = Outcome /\ names' = Sanitized
  BY DEF AnswerComplete, Return
<1>3. Outcome \in {"error", "results", "results_filtered", "no_results"}
  BY DEF Outcome
<1>4. TypeOK' /\ CountInv' /\ QueryInv'
  BY <1>1, <1>2, <1>3, SanitizedNames
  DEF Inv, TypeOK, CountInv, QueryInv, Untouched, batch, Answers
<1>5. LoopInv' /\ CallerInv'
  BY <1>1, <1>2, <1>3 DEF Inv, LoopInv, CallerInv, Begun, batch
<1>6. AnswerCoversAll'
  <2>1. pending = {} /\ next > Queries
    BY <1>1 DEF Inv, LoopInv
  <2>2. \A q \in Query : q \in DOMAIN batches \/ q \in failed
    <3> SUFFICES ASSUME NEW q \in Query PROVE q \in DOMAIN batches \/ q \in failed
      OBVIOUS
    <3>1. ~(q >= next) /\ q \notin pending
      BY <2>1, LimitsAssumption DEF Inv, TypeOK, Query
    <3> QED
      BY <1>1, <3>1 DEF Inv, QueryInv, Untouched
  <2>3. Outcome = "error" <=> failed = Query
    <3>1. Outcome = "error" <=> DOMAIN batches = {}
      BY DEF Outcome
    <3> QED
      BY <2>2, <3>1 DEF Inv, QueryInv, TypeOK
  <2>4. Outcome = "results" <=> Sanitized # {}
    <3>1. DOMAIN batches = {} => Sanitized = {}
      BY DEF Sanitized, Taken, NewNames, Found
    <3> QED
      BY <3>1 DEF Outcome
  <2>5. Found' = Found /\ (\A p : Item(p)' = Item(p)) /\ failed' = failed
    BY <1>1 DEF batch, Found, Item
  <2>6. batches' = batches
    BY <1>1 DEF batch
  <2> DEFINE Full(state, found) ==
        /\ \A q \in Query : q \in DOMAIN batches \/ q \in failed
        /\ (state = "error") = (failed = Query)
        /\ found \subseteq {Item(p) : p \in Found}
        /\ Cardinality(found) <= MaxResults
        /\ \A p \in Found : Item(p) \in Places \ found =>
             /\ Cardinality(found) = MaxResults
             /\ \A y \in found : \E r \in Found : Item(r) = y /\ Before(r, p)
        /\ (state = "results") = (found # {})
  <2>7. Full(Outcome, Sanitized)
    BY <2>2, <2>3, <2>4, SanitizedNames DEF Inv
  <2>8. Full(answer', names')
    BY <1>2, <2>7
  <2> HIDE DEF Full
  <2>9. Full(answer', names') => AnswerCoversAll'
    BY <1>1, <2>5, <2>6 DEF Full, AnswerCoversAll, Found, Item, batch
  <2> QED
    BY <2>8, <2>9
<1> QED
  BY <1>4, <1>5, <1>6 DEF Inv

LEMMA InvNext == Inv /\ [Next]_vars => Inv'
<1> SUFFICES ASSUME Inv, [Next]_vars PROVE Inv'
  OBVIOUS
<1>1. CASE UNCHANGED vars
  <2>1. AnswerCoversAll'
    BY <1>1, AnswerStays DEF vars, batch, Inv
  <2> QED
    BY <1>1, <2>1 DEF vars, batch, Inv, TypeOK, CountInv, LoopInv, QueryInv, CallerInv,
                      Begun, Untouched
<1>2. CASE \E q \in Query : FinishQuery(q)
  BY <1>2, FinishQueryKeeps
<1> QED
  BY <1>1, <1>2, LaunchKeeps, LaunchAndFinishKeeps, EndLaunchKeeps, CallerStepsKeep,
     AnswerCompleteKeeps DEF Next

LEMMA Invariance == Spec => []Inv
  BY InvInit, InvNext, PTL DEF Spec

(* A batch that has begun, with no search in flight and no launch running, has *)
(* finished (places.py, 317-375), and the batch keeps its types.               *)
THEOREM BatchNeverStalls == Spec => []NoStall
<1>1. Inv => NoStall
  BY PendingCounts DEF Inv, NoStall, LoopInv, CountInv, CallerInv, Begun
<1> QED
  BY <1>1, Invariance, PTL

(* An answer that is not partial is given when every category has succeeded or *)
(* failed; a place that was found is missing from it only if MaxResults others *)
(* come before it in the order of the categories (places.py, 222-239, 298-305, *)
(* 348-375, 468-483).                                                          *)
THEOREM FullAnswersAreFull == Spec => []AnswerCoversAll
  BY Invariance, PTL DEF Inv
=============================================================================
