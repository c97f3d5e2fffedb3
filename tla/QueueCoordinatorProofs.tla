----------------------- MODULE QueueCoordinatorProofs -----------------------
(***************************************************************************)
(* Proofs about QueueCoordinator.  They hold for every number of cards,    *)
(* photos, savers and settings and without any bound on commands and       *)
(* crashes.                                                                *)
(*                                                                         *)
(* First, what happens to a card that is being saved, what is written for  *)
(* it, and what controls keep.  The invariant is SavesInv.  A save begins  *)
(* at a card that is ready or edited, and what the theorems say of it      *)
(* follows from what each thread still knows of its card when it comes     *)
(* back to it.                                                             *)
(*   Shapes, Offers, Numbered: the types, and that cards are 1..n.         *)
(*   Batch, Analyses: a card in the scheduler's batch or in an analysis    *)
(*     is either at the state that thread left it in, discarded, or at a   *)
(*     later revision; so a late thread never moves a card being saved.    *)
(*   Cards: what is ready was analysed in this helper or recovered with    *)
(*     its manifest and its photo.                                         *)
(*   DecidedCards, Savers, Served: a persist decision, the thread that     *)
(*     serves it and the card's state stand for one another.               *)
(*   Line, Unwritten: a save waits in the write queue once, and nothing is *)
(*     written for a revision before its thread does it.                   *)
(*   Down: between helpers no thread is left, so that recovery alone       *)
(*     settles what a crash interrupted.                                   *)
(*                                                                         *)
(* Each action has a lemma that it keeps SavesInv and is, for ReviewWrites,*)
(* one of its steps or silent; OneChanges and ControlsNext then need no    *)
(* more than SavesInv.                                                     *)
(*                                                                         *)
(* Then what the threads share: Photos, and the photos of its library.     *)
(* PhotosExclusive is not inductive: when a write returns it frees the     *)
(* lane, so it must have been the only one (OneWriter), and the program    *)
(* counters it speaks of must be there to be changed (Counters).           *)
(*                                                                         *)
(* CardsHaveOwnPhotos needs Own beside SavesInv: what a card has or had    *)
(* was seen (Known), so that discovery does not offer it again; and what   *)
(* discovery has offered and no card has taken, whether set aside or still *)
(* in the hands of _fill_slots, is on no card (Waits). An analysis puts    *)
(* its photo on its card when it ends, so the card must still be the       *)
(* photo's (Analysed).                                                     *)
(*                                                                         *)
(* ResourcesRespected adds the pool and the types.  A pass may find more   *)
(* analyses than the settings now allow, so the pool is bounded by some    *)
(* settings (Pool), and the candidates on their way to a card fit the      *)
(* identifiers that are left (Room).                                       *)
(***************************************************************************)
EXTENDS QueueCoordinator, FiniteSetTheorems, SequenceTheorems, TLAPS

Editable == {"ready", "edited"}

Saving == {"save_queued", "saving"}

\* What a card revision may become once a persist decision names it.
Approved == Saving \cup {"verified", "uncertain", "discarded"}

Serving == {"submit", "queued", "saving", "wrote", "settle"}

Shapes ==
  /\ config \in Config
  /\ items \in [ItemId -> Seq(ItemRevision)]
  /\ DOMAIN candidate = ItemId /\ manifest \in [ItemId -> BOOLEAN]
  /\ sched \in [pc : {"idle", "pick", "each", "defer", "prepare", "submit", "fail",
                      "leave"},
                batch : Seq(ItemId \X Nat), again : BOOLEAN]
  /\ inflight \subseteq [item : ItemId, rev : Nat, photo : Photo]
  /\ persist \in [Persister ->
       [pc : {"idle", "decide", "leave"} \cup Serving, d : Decision \cup {None},
        outcome : {"none", "refused", "verified", "unverified"}]]
  /\ writeQueue \in Seq(Persister)
  /\ writes \in [CardKey -> Nat]

\* What fill took from the candidates set aside is still among them.
Offers ==
  /\ deferred \in Seq(Photo) /\ seen \subseteq Photo
  /\ fill \in [pc : {"idle", "read", "discover", "admit"}, kind : {"start", "fill"},
               missing : Int, taken : Nat, found : Seq(Photo)]
  /\ fill.taken <= Len(deferred)

\* Cards are numbered as they come.
Numbered == \E n \in Nat : Enqueued = 1..n

\* An analysed card has the run it came from and, in a helper, its photo.
Cards ==
  \A i \in Enqueued : Current(items, i).state \in Editable =>
    /\ Current(items, i).source \in Photo
    /\ helper # "down" => manifest[i] /\ candidate[i] \in Photo

\* A card of the batch is being prepared or was discarded meanwhile, or the
\* batch holds an earlier revision of it.
BatchCard(i, r) ==
  /\ i \in Enqueued /\ r <= Revision(items, i)
  /\ r = Revision(items, i) => Current(items, i).state \in {"preparing", "discarded"}

Batch ==
  /\ \A k \in DOMAIN sched.batch :
       /\ BatchCard(sched.batch[k][1], sched.batch[k][2])
       /\ \A l \in DOMAIN sched.batch : l # k => sched.batch[l][1] # sched.batch[k][1]
  /\ sched.pc \in {"defer", "prepare", "submit", "fail"} => sched.batch # <<>>
  /\ sched.pc = "submit" => candidate[Card] \in Photo

\* The same of an analysis; a card that waits for one waits for only one.
Analyses ==
  \A f \in inflight :
    /\ f.item \in Enqueued /\ f.rev <= Revision(items, f.item)
    /\ candidate[f.item] \in Photo
    /\ f.rev = Revision(items, f.item) =>
         /\ Current(items, f.item).state \in {"analyzing", "discarded"}
         /\ \A g \in inflight :
              g.item = f.item /\ g.rev = f.rev /\ Current(items, f.item).state = "analyzing"
                => g = f

\* A decision to save names a revision that was never open to another one.
Decided(i, r) == \E d \in decisions : d.action = "persist" /\ d.item = i /\ d.rev = r

DecidedCards ==
  \A d \in decisions : d.action = "persist" =>
    /\ d.item \in Enqueued /\ d.rev \in 1..Revision(items, d.item)
    /\ items[d.item][d.rev].state \in Approved
    /\ items[d.item][d.rev].state \in Saving => d.rev = Revision(items, d.item)

Savers ==
  \A t \in Persister :
    /\ persist[t].pc # "idle" => persist[t].d \in Decision /\ persist[t].d.action = "persist"
    /\ persist[t].pc \in Serving =>
         /\ persist[t].d \in decisions /\ persist[t].d.item \in Enqueued
         /\ persist[t].d.rev = Revision(items, persist[t].d.item)
         /\ Current(items, persist[t].d.item).state \in Saving
         /\ \A u \in Persister :
              persist[u].pc \in Serving /\ persist[u].d.item = persist[t].d.item => u = t

\* While the helper lives every card being saved is served.
Served ==
  helper # "down" =>
    \A i \in Enqueued : Current(items, i).state \in Saving =>
      \E t \in Persister : persist[t].pc \in Serving /\ persist[t].d.item = i

Line ==
  \A k \in DOMAIN writeQueue :
    /\ persist[writeQueue[k]].pc = "queued"
    /\ \A l \in DOMAIN writeQueue : l # k => writeQueue[l] # writeQueue[k]

Unwritten ==
  /\ \A k \in CardKey : ~Decided(k[1], k[2]) => writes[k] = 0
  /\ \A t \in Persister, k \in CardKey :
       /\ persist[t].pc \in {"submit", "queued", "saving"}
       /\ k[1] = persist[t].d.item /\ k[2] = persist[t].d.rev
       => writes[k] = 0

\* Nothing runs where no helper has the session.
Down ==
  helper = "down" =>
    /\ fill = NoFill /\ sched = NoSched /\ callers = NoCallers /\ inflight = {}
    /\ deferred = <<>>
    /\ \A t \in Persister : persist[t].pc = "idle"
    /\ writeQueue = <<>>

SavesInv ==
  /\ Shapes /\ Offers /\ Numbered /\ Cards /\ Batch /\ Analyses /\ DecidedCards
  /\ Savers /\ Served /\ Line /\ Unwritten /\ Down

-----------------------------------------------------------------------------
(***************************************************************************)
(* Revisions.                                                              *)
(***************************************************************************)

Ledgers == [ItemId -> Seq(ItemRevision)]

LEMMA Rows ==
  ASSUME NEW L \in Ledgers, NEW i \in ItemId
  PROVE  /\ L[i] \in Seq(ItemRevision) /\ Revision(L, i) \in Nat
         /\ InSession(L, i) => /\ Revision(L, i) \in 1..Revision(L, i)
                               /\ Current(L, i) = L[i][Revision(L, i)]
                               /\ Current(L, i) \in ItemRevision
<1>1. L[i] \in Seq(ItemRevision) /\ Revision(L, i) \in Nat
  BY LenProperties DEF Ledgers, Revision
<1>2. ASSUME InSession(L, i)
      PROVE  Revision(L, i) \in 1..Revision(L, i)
  BY <1>1, <1>2, EmptySeq DEF InSession, Revision
<1>3. ASSUME InSession(L, i)
      PROVE  Current(L, i) \in ItemRevision
  BY <1>1, <1>2, <1>3, ElementOfSeq DEF Current, Revision
<1> QED
  BY <1>1, <1>2, <1>3 DEF Current, Revision

\* checkpoint_item changes the current revision of one card.
LEMMA Checkpointed ==
  ASSUME NEW L \in Ledgers, NEW i \in ItemId, InSession(L, i),
         NEW st \in ItemStates, NEW src \in Run \cup {NoRun}
  PROVE  LET M == WithCheckpoint(L, i, st, src)
         IN  /\ M \in Ledgers /\ \A j \in ItemId \ {i} : M[j] = L[j]
             /\ InSession(M, i) /\ Revision(M, i) = Revision(L, i)
             /\ \A r \in 1..(Revision(L, i) - 1) : M[i][r] = L[i][r]
             /\ Current(M, i).state = st
             /\ Current(M, i).source = IF src = NoRun THEN Current(L, i).source ELSE src
<1> DEFINE q   == L[i]
           rev == [state  |-> st,
                   source |-> IF src = NoRun THEN q[Len(q)].source ELSE src]
           up  == [q EXCEPT ![Len(q)] = rev]
           M   == WithCheckpoint(L, i, st, src)
<1>1. q \in Seq(ItemRevision) /\ Len(q) \in 1..Len(q) /\ q[Len(q)] \in ItemRevision
  BY Rows DEF Revision, Current
<1>2. rev \in ItemRevision
  BY <1>1 DEF ItemRevision
<1>3. /\ up \in Seq(ItemRevision) /\ Len(up) = Len(q)
      /\ \A r \in 1..Len(q) : up[r] = IF r = Len(q) THEN rev ELSE q[r]
  BY <1>1, <1>2, ExceptSeq
<1>4. M = [L EXCEPT ![i] = up]
  BY DEF WithCheckpoint, Revision
<1>5. rev.state = st /\ rev.source = IF src = NoRun THEN Current(L, i).source ELSE src
  BY DEF Current
<1>6. Len(q) \in Nat /\ up # <<>>
  BY <1>1, <1>3, LenProperties, EmptySeq
<1> HIDE DEF up, rev, M
<1>7. M \in Ledgers /\ M[i] = up /\ \A j \in ItemId \ {i} : M[j] = L[j]
  BY <1>3, <1>4 DEF Ledgers
<1>8. Current(M, i) = rev
  BY <1>1, <1>3, <1>7 DEF Current
<1> QED
  BY <1>1, <1>3, <1>5, <1>6, <1>7, <1>8 DEF InSession, Revision, M

\* rescan appends a revision.
LEMMA Appended ==
  ASSUME items \in Ledgers, NEW i \in ItemId, NEW x \in ItemRevision,
         items' = [items EXCEPT ![i] = Append(@, x)]
  PROVE  /\ items' \in Ledgers /\ \A j \in ItemId \ {i} : items'[j] = items[j]
         /\ InSession(items', i) /\ Revision(items', i) = Revision(items, i) + 1
         /\ \A r \in 1..Revision(items, i) : items'[i][r] = items[i][r]
         /\ Current(items', i) = x
<1> DEFINE q == items[i]
           up == Append(q, x)
<1>1. q \in Seq(ItemRevision) /\ Len(q) \in Nat
  BY Rows DEF Revision
<1>2. /\ up \in Seq(ItemRevision) /\ Len(up) = Len(q) + 1 /\ up[Len(q) + 1] = x
      /\ \A r \in 1..Len(q) : up[r] = q[r]
  BY <1>1, AppendProperties
<1>3. items' = [items EXCEPT ![i] = up]
  OBVIOUS
<1> HIDE DEF up
<1>4. up # <<>>
  <2>1. Len(up) # 0
    BY <1>1, <1>2
  <2> QED
    BY <2>1, EmptySeq
<1>5. items' \in Ledgers /\ items'[i] = up /\ \A j \in ItemId \ {i} : items'[j] = items[j]
  BY <1>2, <1>3 DEF Ledgers
<1>6. Current(items', i) = x
  BY <1>1, <1>2, <1>5 DEF Current
<1> QED
  BY <1>1, <1>2, <1>4, <1>5, <1>6 DEF InSession, Revision, up

\* The cards in S have another state; the others may have a new revision.
Moved(S) ==
  /\ items' \in Ledgers
  /\ Enqueued \subseteq Enqueued'
  /\ \A i \in Enqueued : Revision(items, i) <= Revision(items', i)
  /\ \A i \in Enqueued : \A r \in 1..Revision(items, i) :
       (i \in S /\ r = Revision(items, i)) \/ items'[i][r] = items[i][r]
  /\ \A i \in S : Revision(items', i) = Revision(items, i)

\* No card is new and none has a new revision.
Marked(S) == Moved(S) /\ Enqueued' = Enqueued
             /\ \A i \in Enqueued : Revision(items', i) = Revision(items, i)

LEMMA OneMarked ==
  ASSUME items \in Ledgers, NEW i \in Enqueued, NEW st \in ItemStates,
         NEW src \in Run \cup {NoRun}, items' = WithCheckpoint(items, i, st, src)
  PROVE  /\ Marked({i}) /\ Current(items', i).state = st
         /\ Current(items', i).source = IF src = NoRun THEN Current(items, i).source ELSE src
<1>1. i \in ItemId /\ InSession(items, i)
  BY DEF Enqueued
<1>2. /\ items' \in Ledgers /\ \A j \in ItemId \ {i} : items'[j] = items[j]
      /\ InSession(items', i) /\ Revision(items', i) = Revision(items, i)
      /\ \A r \in 1..(Revision(items, i) - 1) : items'[i][r] = items[i][r]
      /\ Current(items', i).state = st
      /\ Current(items', i).source = IF src = NoRun THEN Current(items, i).source ELSE src
  BY <1>1, Checkpointed
<1>3. \A j \in ItemId : InSession(items', j) <=> InSession(items, j)
  BY <1>1, <1>2 DEF InSession
<1>4. \A j \in ItemId : Revision(items', j) = Revision(items, j) /\ Revision(items, j) \in Nat
  BY <1>2, Rows DEF Revision
<1>5. Enqueued' = Enqueued
  BY <1>3 DEF Enqueued
<1>6. \A j \in Enqueued : \A r \in 1..Revision(items, j) :
        (j \in {i} /\ r = Revision(items, j)) \/ items'[j][r] = items[j][r]
  BY <1>2, <1>4 DEF Enqueued
<1>7. Enqueued \subseteq ItemId
  BY DEF Enqueued
<1> QED
  BY <1>1, <1>2, <1>4, <1>5, <1>6, <1>7 DEF Moved, Marked

LEMMA ManyMarked ==
  ASSUME items \in Ledgers, NEW S \in SUBSET Enqueued, NEW st \in [S -> ItemStates],
         items' = [i \in ItemId |-> IF i \in S THEN WithCheckpoint(items, i, st[i], None)[i]
                                    ELSE items[i]]
  PROVE  /\ Marked(S)
         /\ \A i \in S : /\ Current(items', i).state = st[i]
                         /\ Current(items', i).source = Current(items, i).source
<1>1. ASSUME NEW i \in S
      PROVE  /\ items'[i] \in Seq(ItemRevision) /\ InSession(items', i)
             /\ Revision(items', i) = Revision(items, i)
             /\ \A r \in 1..(Revision(items, i) - 1) : items'[i][r] = items[i][r]
             /\ Current(items', i).state = st[i]
             /\ Current(items', i).source = Current(items, i).source
  <2> DEFINE M == WithCheckpoint(items, i, st[i], None)
  <2>1. i \in ItemId /\ InSession(items, i)
    BY DEF Enqueued
  <2>2. items'[i] = M[i]
    BY <2>1
  <2>3. /\ M \in Ledgers
        /\ InSession(M, i) /\ Revision(M, i) = Revision(items, i)
        /\ \A r \in 1..(Revision(items, i) - 1) : M[i][r] = items[i][r]
        /\ Current(M, i).state = st[i]
        /\ Current(M, i).source = Current(items, i).source
    BY <2>1, Checkpointed DEF None
  <2> HIDE DEF M
  <2> QED
    BY <2>1, <2>2, <2>3 DEF InSession, Revision, Current, Ledgers
<1>2. Enqueued \subseteq ItemId /\ \A i \in ItemId \ S : items'[i] = items[i]
  BY DEF Enqueued
<1>3. items' \in Ledgers
  BY <1>1, <1>2 DEF Ledgers
<1>4. \A j \in ItemId : Revision(items', j) = Revision(items, j) /\ Revision(items, j) \in Nat
  BY <1>1, <1>2, Rows DEF Revision
<1>5. Enqueued' = Enqueued
  BY <1>1, <1>2 DEF Enqueued, InSession
<1>6. ASSUME NEW j \in Enqueued, NEW r \in 1..Revision(items, j)
      PROVE  (j \in S /\ r = Revision(items, j)) \/ items'[j][r] = items[j][r]
  <2>1. CASE j \notin S
    BY <1>2, <2>1
  <2>2. CASE j \in S /\ r # Revision(items, j)
    <3>1. Revision(items, j) \in Nat
      BY <1>2, <1>4
    <3>2. r \in 1..(Revision(items, j) - 1)
      BY <2>2, <3>1
    <3> QED
      BY <1>1, <2>2, <3>2
  <2> QED
    BY <2>1, <2>2
<1>7. \A j \in Enqueued : /\ Revision(items', j) = Revision(items, j)
                          /\ Revision(items, j) <= Revision(items', j)
  BY <1>2, <1>4
<1>8. Marked(S)
  BY <1>3, <1>5, <1>6, <1>7 DEF Moved, Marked
<1> QED
  BY <1>1, <1>8

-----------------------------------------------------------------------------
(***************************************************************************)
(* Orders and counts.                                                      *)
(***************************************************************************)

\* A finite set of numbers has an ascending enumeration: each number at the
\* place that its rank names.
LEMMA AscendingOrder ==
  ASSUME NEW S \in SUBSET Int, IsFiniteSet(S)
  PROVE  /\ Ascending(S) \in [1..Cardinality(S) -> S]
         /\ \A a, b \in 1..Cardinality(S) : a < b => Ascending(S)[a] < Ascending(S)[b]
<1> DEFINE n    == Cardinality(S)
           Below(x) == {y \in S : y <= x}
           rank == [x \in S |-> Cardinality(Below(x))]
           q    == [k \in 1..n |-> CHOOSE x \in S : rank[x] = k]
<1>1. n \in Nat /\ IsFiniteSet(1..n) /\ Cardinality(1..n) = n
  BY FS_CardinalityType, FS_Interval
<1>2. ASSUME NEW x \in S
      PROVE  IsFiniteSet(Below(x)) /\ Cardinality(Below(x)) \in 1..n
  <2>1. /\ IsFiniteSet(Below(x)) /\ Cardinality(Below(x)) <= n
        /\ Cardinality(Below(x)) \in Nat
    <3>1. Below(x) \in SUBSET S
      OBVIOUS
    <3> QED
      BY <3>1, FS_Subset, FS_CardinalityType
  <2>2. Below(x) # {}
    OBVIOUS
  <2>3. Cardinality(Below(x)) # 0
    BY <2>1, <2>2, FS_EmptySet
  <2> QED
    BY <2>1, <2>3, <1>1
<1>3. ASSUME NEW x \in S, NEW y \in S, x < y
      PROVE  Cardinality(Below(x)) < Cardinality(Below(y))
  <2>0. x \in Int /\ y \in Int /\ \A z \in S : z \in Int
    OBVIOUS
  <2>1. Below(x) \in SUBSET Below(y) /\ y \in Below(y) /\ y \notin Below(x)
    <3>1. \A z \in S : z <= x => z <= y
      BY <1>3, <2>0
    <3>2. y <= y /\ ~(y <= x)
      BY <1>3, <2>0
    <3> QED
      BY <3>1, <3>2
  <2>2. IsFiniteSet(Below(y)) /\ Cardinality(Below(x)) \in Nat /\ Cardinality(Below(y)) \in Nat
    <3> HIDE DEF Below, n
    <3> QED
      BY <1>2, <1>1
  <2>3. /\ Cardinality(Below(x)) <= Cardinality(Below(y))
        /\ Cardinality(Below(x)) # Cardinality(Below(y))
    BY <2>1, <2>2, FS_Subset
  <2> QED
    BY <2>2, <2>3
<1> HIDE DEF Below
<1>4. rank \in [S -> 1..n]
  BY <1>2
<1>5. \A x, y \in S : x < y => rank[x] < rank[y]
  BY <1>3
<1> HIDE DEF rank
<1>6. rank \in Injection(S, 1..n)
  <2>1. \A x, y \in S : rank[x] = rank[y] => x = y
    <3> SUFFICES ASSUME NEW x \in S, NEW y \in S, rank[x] = rank[y], x # y
                 PROVE  FALSE
      OBVIOUS
    <3>1. x < y \/ y < x
      OBVIOUS
    <3>2. rank[x] \in Int /\ rank[y] \in Int
      BY <1>4, <1>1
    <3> QED
      BY <1>5, <3>1, <3>2
  <2> QED
    BY <1>4, <2>1 DEF Injection, IsInjective
<1>7. rank \in Surjection(S, 1..n)
  BY <1>1, <1>6, FS_Injection
<1>8. \A k \in 1..n : q[k] \in S /\ rank[q[k]] = k
  BY <1>7 DEF Surjection
<1>9. \A a, b \in 1..n : a < b => q[a] < q[b]
  <2> SUFFICES ASSUME NEW a \in 1..n, NEW b \in 1..n, a < b
               PROVE  q[a] < q[b]
    OBVIOUS
  <2>1. q[a] \in S /\ q[b] \in S /\ rank[q[a]] = a /\ rank[q[b]] = b
    BY <1>8
  <2> HIDE DEF q, n
  <2>2. q[a] \in Int /\ q[b] \in Int /\ a \in Int /\ b \in Int
    <3>1. \A z \in S : z \in Int
      OBVIOUS
    <3>2. a \in Int /\ b \in Int
      BY <1>1
    <3> QED
      BY <2>1, <3>1, <3>2
  <2>3. ~(b < a) /\ a # b
    BY <2>2
  <2>4. ~(q[b] < q[a]) /\ q[a] # q[b]
    BY <2>1, <2>3, <1>5
  <2> QED
    BY <2>2, <2>4
<1>10. q \in [1..n -> S]
  BY <1>8
<1> HIDE DEF q, n
<1>11. \E r \in [1..n -> S] : \A a, b \in 1..n : a < b => r[a] < r[b]
  BY <1>9, <1>10
<1> QED
  BY <1>11 DEF Ascending, n

-----------------------------------------------------------------------------
(***************************************************************************)
(* What a change of some cards leaves true of the rest.                    *)
(***************************************************************************)

LEMMA Unmoved ==
  ASSUME items \in Ledgers, NEW S, Moved(S), NEW i \in Enqueued \ S,
         Revision(items', i) = Revision(items, i)
  PROVE  Current(items', i) = Current(items, i)
<1>1. i \in ItemId /\ InSession(items, i)
  BY DEF Enqueued
<1>2. i \in Enqueued' /\ InSession(items', i) /\ items' \in Ledgers
  BY DEF Moved, Enqueued
<1>3. /\ Revision(items, i) \in 1..Revision(items, i)
      /\ Current(items, i) = items[i][Revision(items, i)]
      /\ Current(items', i) = items'[i][Revision(items', i)]
  BY <1>1, <1>2, Rows
<1> QED
  BY <1>3 DEF Moved

\* Every card in session has a current revision.
LEMMA Numbers ==
  ASSUME Shapes
  PROVE  /\ items \in Ledgers /\ Enqueued \subseteq ItemId
         /\ \A i \in Enqueued :
              /\ Revision(items, i) \in Nat /\ InSession(items, i)
              /\ Revision(items, i) \in 1..Revision(items, i)
              /\ Current(items, i) = items[i][Revision(items, i)]
              /\ Current(items, i) \in ItemRevision
<1>1. items \in Ledgers /\ Enqueued \subseteq ItemId
  BY DEF Shapes, Ledgers, Enqueued
<1>2. \A i \in Enqueued : InSession(items, i)
  BY DEF Enqueued
<1> QED
  BY <1>1, <1>2, Rows

\* Nothing that ReviewWrites speaks of changes.
Silent == Approval' = Approval /\ writes' = writes

Reviewed == Silent \/ Review!ReviewNext

LEMMA ApprovalKept ==
  ASSUME \A d \in decisions \cup decisions' :
           d.action = "persist" => (d \in decisions' <=> d \in decisions),
         \A d \in decisions : d.action = "persist" =>
           /\ items'[d.item][d.rev].state \in Saving <=> items[d.item][d.rev].state \in Saving
           /\ items'[d.item][d.rev].state = "verified"
                <=> items[d.item][d.rev].state = "verified"
  PROVE  Approval' = Approval
<1> DEFINE Free(k)    == \A d \in decisions : d.action = "persist" => <<d.item, d.rev>> # k
           After(st)  == CASE st \in {"save_queued", "saving"} -> "approved"
                           [] st = "verified" -> "verified"
                           [] OTHER -> "unknown"
           State(k)   == items[k[1]][k[2]].state
<1>1. ASSUME NEW k \in CardKey
      PROVE  /\ Free(k)' <=> Free(k)
             /\ ~Free(k) => After(State(k)') = After(State(k))
  <2>1. Free(k)' <=> Free(k)
    OBVIOUS
  <2>2. ASSUME ~Free(k)
        PROVE  After(State(k)') = After(State(k))
    <3>1. PICK d \in decisions : d.action = "persist" /\ <<d.item, d.rev>> = k
      BY <2>2
    <3>2. k[1] = d.item /\ k[2] = d.rev
      BY <3>1
    <3>3. /\ State(k)' \in {"save_queued", "saving"} <=> State(k) \in {"save_queued", "saving"}
          /\ State(k)' = "verified" <=> State(k) = "verified"
      BY <3>1, <3>2 DEF Saving
    <3> HIDE DEF State
    <3> QED
      BY <3>3
  <2> QED
    BY <2>1, <2>2
<1>2. /\ Approval = [k \in CardKey |-> IF Free(k) THEN "none" ELSE After(State(k))]
      /\ Approval' = [k \in CardKey |-> IF Free(k)' THEN "none" ELSE After(State(k)')]
  BY DEF Approval
<1> HIDE DEF Free, After, State
<1> QED
  BY <1>1, <1>2

\* A card of the window changes, and nothing is saved.
LEMMA CalmKeeps ==
  ASSUME SavesInv, NEW S \in SUBSET Enqueued, Moved(S),
         decisions \subseteq decisions',
         \A d \in decisions' \ decisions : d.action # "persist",
         UNCHANGED <<persist, writes, writeQueue>>,
         helper # "down", helper' # "down",
         \A i \in S :
           /\ Current(items, i).state \notin Saving /\ Current(items', i).state \notin Saving
           /\ Current(items, i).state \in Approved => Current(items', i).state \in Approved
           /\ Current(items, i).state # "verified" /\ Current(items', i).state # "verified"
           /\ Current(items', i).state \in Editable =>
                Current(items', i).source \in Photo /\ manifest'[i] /\ candidate'[i] \in Photo,
         \A i \in Enqueued \ S : Revision(items', i) = Revision(items, i) =>
           /\ manifest'[i] = manifest[i]
           /\ candidate[i] \in Photo => candidate'[i] \in Photo,
         \A i \in Enqueued : Current(items, i).state \in Saving =>
           Revision(items', i) = Revision(items, i),
         \A i \in Enqueued' :
           i \notin Enqueued \/ Revision(items', i) # Revision(items, i) =>
             Current(items', i).state \notin Editable \cup Saving
  PROVE  /\ Cards' /\ DecidedCards' /\ Savers' /\ Served' /\ Line' /\ Unwritten' /\ Down' /\ Silent
<1> USE Numbers DEF SavesInv
<1>1. \A i \in Enqueued \ S : Revision(items', i) = Revision(items, i) =>
        Current(items', i) = Current(items, i)
  BY Unmoved
<1>2. Enqueued \subseteq Enqueued'
  BY DEF Moved
<1>3. Cards'
  <2>1. ASSUME NEW i \in Enqueued', Current(items', i).state \in Editable
        PROVE  Current(items', i).source \in Photo /\ manifest'[i] /\ candidate'[i] \in Photo
    <3>1. i \in Enqueued /\ Revision(items', i) = Revision(items, i)
      BY <2>1
    <3>2. CASE i \in S
      BY <2>1, <3>2
    <3>3. CASE i \notin S
      BY <1>1, <2>1, <3>1, <3>3 DEF Cards
    <3> QED
      BY <3>2, <3>3
  <2> QED
    BY <2>1 DEF Cards
<1>4. DecidedCards'
  <2>1. ASSUME NEW d \in decisions', d.action = "persist"
        PROVE  /\ d.item \in Enqueued' /\ d.rev \in 1..Revision(items', d.item)
               /\ items'[d.item][d.rev].state \in Approved
               /\ items'[d.item][d.rev].state \in Saving => d.rev = Revision(items', d.item)
    <3>1. /\ d \in decisions /\ d.item \in Enqueued /\ d.rev \in 1..Revision(items, d.item)
          /\ items[d.item][d.rev].state \in Approved
          /\ items[d.item][d.rev].state \in Saving => d.rev = Revision(items, d.item)
      BY <2>1 DEF DecidedCards
    <3>2. /\ Revision(items, d.item) \in Nat /\ Revision(items', d.item) \in Nat
          /\ Revision(items, d.item) <= Revision(items', d.item)
      BY <3>1, Rows DEF Moved, Enqueued
    <3>3. d.item \in Enqueued' /\ d.rev \in 1..Revision(items', d.item)
      BY <1>2, <3>1, <3>2
    <3>4. CASE d.item \in S /\ d.rev = Revision(items, d.item)
      <4>1. /\ Current(items, d.item) = items[d.item][d.rev]
            /\ Current(items', d.item) = items'[d.item][d.rev]
        BY <3>1, <3>3, <3>4, Rows DEF Moved, Enqueued
      <4> QED
        BY <3>1, <3>3, <3>4, <4>1
    <3>5. CASE ~(d.item \in S /\ d.rev = Revision(items, d.item))
      <4>1. items'[d.item][d.rev] = items[d.item][d.rev]
        BY <3>1, <3>5 DEF Moved
      <4>2. ASSUME items[d.item][d.rev].state \in Saving
            PROVE  Revision(items', d.item) = Revision(items, d.item)
        BY <3>1, <4>2
      <4> QED
        BY <3>1, <3>3, <4>1, <4>2
    <3> QED
      BY <3>4, <3>5
  <2> QED
    BY <2>1 DEF DecidedCards
<1>5. \A i \in Enqueued : Current(items, i).state \in Saving =>
        Current(items', i) = Current(items, i) /\ Revision(items', i) = Revision(items, i)
  BY <1>1
<1>6. Savers'
  BY <1>2, <1>5 DEF Savers
<1>7. \A i \in Enqueued' : Current(items', i).state \in Saving =>
        i \in Enqueued /\ Current(items, i).state \in Saving
  BY <1>1
<1>8. Served' /\ Line' /\ Down'
  BY <1>7 DEF Served, Line, Down
<1>9. Unwritten'
  BY DEF Unwritten, Decided
<1>10. Approval' = Approval
  <2>1. ASSUME NEW d \in decisions, d.action = "persist"
        PROVE  LET old == items[d.item][d.rev].state
                   new == items'[d.item][d.rev].state
               IN  (new \in Saving <=> old \in Saving) /\ (new = "verified" <=> old = "verified")
    <3>1. d.item \in Enqueued /\ d.rev \in 1..Revision(items, d.item)
      BY <2>1 DEF DecidedCards
    <3>2. CASE d.item \in S /\ d.rev = Revision(items, d.item)
      <4>1. Revision(items', d.item) = Revision(items, d.item)
        BY <3>2 DEF Moved
      <4>2. /\ Current(items, d.item) = items[d.item][d.rev]
            /\ Current(items', d.item) = items'[d.item][d.rev]
        BY <3>2, <4>1 DEF Current, Revision
      <4> QED
        BY <3>2, <4>2
    <3>3. CASE ~(d.item \in S /\ d.rev = Revision(items, d.item))
      <4>1. items'[d.item][d.rev] = items[d.item][d.rev]
        BY <3>1, <3>3 DEF Moved
      <4> QED
        BY <4>1
    <3> QED
      BY <3>2, <3>3
  <2> QED
    BY <2>1, ApprovalKept
<1> QED
  BY <1>3, <1>4, <1>6, <1>8, <1>9, <1>10 DEF Silent

LEMMA BatchStays ==
  ASSUME SavesInv, NEW S, Moved(S), sched'.batch = sched.batch,
         sched'.pc = sched.pc \/ sched'.pc \in {"idle", "pick", "each", "leave"},
         \A i \in Enqueued : candidate[i] \in Photo => candidate'[i] \in Photo,
         \A i \in S : Current(items, i).state \in {"preparing", "discarded"} =>
           Current(items', i).state \in {"preparing", "discarded"}
  PROVE  Batch'
<1> USE Numbers DEF SavesInv
<1>1. ASSUME NEW i, NEW r \in Nat, BatchCard(i, r)
      PROVE  BatchCard(i, r)'
  <2>1. i \in Enqueued /\ i \in Enqueued' /\ r <= Revision(items, i)
    BY <1>1 DEF BatchCard, Moved
  <2>2. /\ Revision(items, i) \in Nat /\ Revision(items', i) \in Nat
        /\ Revision(items, i) <= Revision(items', i)
    BY <2>1, Rows DEF Moved, Enqueued
  <2>3. r = Revision(items', i) => r = Revision(items, i)
    BY <2>1, <2>2
  <2>4. ASSUME r = Revision(items', i)
        PROVE  Current(items', i).state \in {"preparing", "discarded"}
    BY <1>1, <2>1, <2>3, <2>4, Unmoved DEF BatchCard
  <2> QED
    BY <2>1, <2>2, <2>4 DEF BatchCard
<1>2. \A k \in DOMAIN sched.batch : sched.batch[k][2] \in Nat
  BY DEF Shapes
<1>3. sched.pc = "submit" => Card \in Enqueued
  BY DEF Batch, BatchCard, Card, Shapes
<1>4. sched'.pc = "submit" => candidate'[Card'] \in Photo
  BY <1>3 DEF Batch, Card
<1> QED
  BY <1>1, <1>2, <1>4 DEF Batch

\* The scheduler goes on to the next card of its batch.
LEMMA BatchAdvances ==
  ASSUME SavesInv, NEW S \in SUBSET {Card}, Moved(S), sched.batch # <<>>,
         sched'.batch = Tail(sched.batch) \/ sched'.batch = <<>>,
         sched'.pc \in {"each", "leave"}
  PROVE  Batch'
<1> USE Numbers DEF SavesInv
<1> DEFINE b == sched.batch
<1>1. b \in Seq(ItemId \X Nat)
  BY DEF Shapes
<1>2. CASE sched'.batch = <<>>
  BY <1>2 DEF Batch
<1>3. CASE sched'.batch = Tail(b)
  <2>1. /\ Len(b) \in Nat /\ Len(Tail(b)) = Len(b) - 1 /\ DOMAIN b = 1..Len(b)
        /\ DOMAIN Tail(b) = 1..(Len(b) - 1)
        /\ \A k \in 1..(Len(b) - 1) : Tail(b)[k] = b[k + 1]
        /\ 1 \in DOMAIN b
    BY <1>1, HeadTailProperties, LenProperties
  <2>2. ASSUME NEW i, NEW r \in Nat, BatchCard(i, r), i \notin S
        PROVE  BatchCard(i, r)'
    <3>1. i \in Enqueued /\ i \in Enqueued' /\ r <= Revision(items, i)
      BY <2>2 DEF BatchCard, Moved
    <3>2. /\ Revision(items, i) \in Nat /\ Revision(items', i) \in Nat
          /\ Revision(items, i) <= Revision(items', i)
      BY <3>1, Rows DEF Moved, Enqueued
    <3>3. r = Revision(items', i) =>
            r = Revision(items, i) /\ Current(items', i) = Current(items, i)
      BY <2>2, <3>1, <3>2, Unmoved
    <3> QED
      BY <2>2, <3>1, <3>2, <3>3 DEF BatchCard
  <2>3. \A k \in DOMAIN sched'.batch :
          k + 1 \in DOMAIN b /\ k + 1 # 1 /\ sched'.batch[k] = b[k + 1]
    BY <1>3, <2>1
  <2>4. \A k \in DOMAIN b : k # 1 => /\ b[k][1] \notin S /\ b[k][2] \in Nat
                                     /\ BatchCard(b[k][1], b[k][2])
    BY <1>1, <2>1 DEF Batch, Card
  <2>5. \A k, l \in DOMAIN b : k # l => b[l][1] # b[k][1]
    BY DEF Batch
  <2>6. \A k, l \in DOMAIN sched'.batch : k + 1 = l + 1 => k = l
    BY <1>3, <2>1
  <2>7. \A k, l \in DOMAIN sched'.batch : k # l =>
          sched'.batch[l][1] # sched'.batch[k][1]
    BY <2>3, <2>5, <2>6
  <2>8. \A k \in DOMAIN sched'.batch :
          BatchCard(sched.batch[k][1], sched.batch[k][2])'
    BY <2>2, <2>3, <2>4
  <2> HIDE DEF b
  <2> QED
    BY <2>7, <2>8 DEF Batch
<1> QED
  BY <1>2, <1>3

LEMMA AnalysesStay ==
  ASSUME SavesInv, NEW S, Moved(S), inflight' \subseteq inflight,
         \A i \in Enqueued : candidate[i] \in Photo => candidate'[i] \in Photo,
         \A f \in inflight' : f.item \in S /\ f.rev = Revision(items, f.item) =>
           /\ Current(items', f.item).state \in {"analyzing", "discarded"}
           /\ Current(items', f.item).state = "analyzing" =>
                Current(items, f.item).state = "analyzing"
  PROVE  Analyses'
<1> USE Numbers DEF SavesInv
<1> SUFFICES ASSUME NEW f \in inflight'
             PROVE  /\ f.item \in Enqueued' /\ f.rev <= Revision(items', f.item)
                    /\ candidate'[f.item] \in Photo
                    /\ f.rev = Revision(items', f.item) =>
                         /\ Current(items', f.item).state \in {"analyzing", "discarded"}
                         /\ \A g \in inflight' :
                              /\ g.item = f.item /\ g.rev = f.rev
                              /\ Current(items', f.item).state = "analyzing"
                              => g = f
  BY DEF Analyses
<1>1. f \in inflight /\ f.item \in Enqueued /\ f.item \in Enqueued' /\ f.rev \in Nat
  BY DEF Analyses, Moved, Shapes
<1>2. /\ Revision(items, f.item) \in Nat /\ Revision(items', f.item) \in Nat
      /\ Revision(items, f.item) <= Revision(items', f.item)
      /\ f.rev <= Revision(items, f.item)
  BY <1>1, Rows DEF Moved, Enqueued, Analyses
<1>3. f.rev = Revision(items', f.item) => f.rev = Revision(items, f.item)
  BY <1>1, <1>2
<1>4. ASSUME f.rev = Revision(items', f.item)
      PROVE  /\ Current(items', f.item).state \in {"analyzing", "discarded"}
             /\ Current(items', f.item).state = "analyzing" =>
                  Current(items, f.item).state = "analyzing"
  BY <1>1, <1>3, <1>4, Unmoved DEF Analyses
<1> QED
  BY <1>1, <1>2, <1>3, <1>4 DEF Analyses

LEMMA NumberedStays ==
  ASSUME SavesInv, Enqueued' = Enqueued
  PROVE  Numbered'
  BY DEF SavesInv, Numbered

LEMMA Alive ==
  ASSUME SavesInv,
         \/ fill.pc # "idle" \/ sched.pc # "idle" \/ callers # NoCallers \/ inflight # {}
         \/ \E t \in Persister : persist[t].pc # "idle"
  PROVE  helper # "down"
  BY DEF SavesInv, Down, NoFill, NoSched

LEMMA NothingMarked ==
  ASSUME Shapes, items' = items
  PROVE  Marked({})
  BY Numbers DEF Marked, Moved, Enqueued, Shapes, Ledgers

-----------------------------------------------------------------------------
(***************************************************************************)
(* New cards.                                                              *)
(***************************************************************************)

LEMMA WindowCounts ==
  ASSUME SavesInv
  PROVE  /\ Missing \in Nat /\ IsFiniteSet(Enqueued) /\ Cardinality(Enqueued) \in Nat
         /\ Enqueued = 1..Cardinality(Enqueued) /\ Cardinality(Enqueued) <= LastItem
<1>1. IsFiniteSet(ItemId) /\ LastItem \in Nat /\ ItemId = 1..LastItem
  BY LedgerConstants, CoordinatorConstants
<1>2. IsFiniteSet(Active(items)) /\ Cardinality(Active(items)) \in Nat
  <2>1. Active(items) \in SUBSET ItemId
    BY DEF Active
  <2> QED
    BY <1>1, <2>1, FS_Subset, FS_CardinalityType
<1>3. config.photoCount \in Nat
  BY CoordinatorConstants DEF SavesInv, Shapes
<1>4. Missing \in Nat
  BY <1>2, <1>3 DEF Missing, AtLeast0
<1>5. IsFiniteSet(Enqueued) /\ Cardinality(Enqueued) <= LastItem
  <2>1. Enqueued \in SUBSET ItemId
    BY DEF Enqueued
  <2>2. Cardinality(ItemId) = LastItem
    BY <1>1, FS_Interval
  <2> QED
    BY <1>1, <2>1, <2>2, FS_Subset
<1>6. Enqueued = 1..Cardinality(Enqueued)
  BY FS_Interval DEF SavesInv, Numbered
<1> QED
  BY <1>4, <1>5, <1>6, FS_CardinalityType

LEMMA AdmitSaves ==
  ASSUME SavesInv, FillAdmit
  PROVE  SavesInv' /\ Silent
<1> USE Numbers DEF SavesInv
<1> DEFINE offers == SubSeq(deferred, 1, fill.taken) \o fill.found
           n      == IF Running THEN Least(Len(offers), Missing) ELSE 0
           first  == Cardinality(Enqueued)
           new    == (first + 1)..(first + n)
           from   == IF n > fill.taken THEN n ELSE fill.taken
           row    == << [state |-> "discovered", source |-> None] >>
<1>1. /\ items' = [i \in ItemId |-> IF i \in new THEN row ELSE items[i]]
      /\ candidate' = [i \in ItemId |->
                         IF i \in new THEN offers[i - first] ELSE candidate[i]]
      /\ deferred' = SubSeq(deferred, Least(n, fill.taken) + 1, Len(deferred))
                       \o SubSeq(offers, from + 1, Len(offers))
      /\ fill' = NoFill
      /\ UNCHANGED <<writeVars, boundVars, session, config, decisions, manifest, seen,
                     sched, inflight, helper, lane, writes>>
  <2>1. fill' = NoFill
    BY ONLY FillAdmit, Zenon DEF FillAdmit, FillReturns
  <2>2. UNCHANGED <<writeVars, boundVars, session, config, decisions, manifest, seen,
                    sched, inflight, helper, lane, writes>>
    BY ONLY FillAdmit, Zenon DEF FillAdmit
  <2>3. items' = [i \in ItemId |-> IF i \in new THEN row ELSE items[i]]
    BY ONLY FillAdmit, Zenon DEF FillAdmit
  <2>4. candidate' = [i \in ItemId |->
                        IF i \in new THEN offers[i - first] ELSE candidate[i]]
    BY ONLY FillAdmit, Zenon DEF FillAdmit
  <2>5. deferred' = SubSeq(deferred, Least(n, fill.taken) + 1, Len(deferred))
                      \o SubSeq(offers, from + 1, Len(offers))
    BY ONLY FillAdmit, Zenon DEF FillAdmit
  <2> HIDE DEF offers, n, first, new, from, row
  <2> QED
    BY <2>1, <2>2, <2>3, <2>4, <2>5, Zenon
<1>2. helper # "down"
  BY Alive DEF FillAdmit
<1>3. /\ fill.taken \in Nat /\ Len(deferred) \in Nat /\ fill.taken <= Len(deferred)
      /\ fill.found \in Seq(Photo) /\ deferred \in Seq(Photo)
  BY LenProperties DEF Offers
<1>4. offers \in Seq(Photo) /\ Len(offers) \in Nat
  <2>1. \A k \in 1..fill.taken : deferred[k] \in Photo
    BY <1>3, ElementOfSeq
  <2>2. SubSeq(deferred, 1, fill.taken) \in Seq(Photo)
    BY <1>3, <2>1, SubSeqProperties
  <2> QED
    BY <1>3, <2>2, ConcatProperties, LenProperties
<1>5. n \in Nat /\ from \in Nat
  <2> HIDE DEF offers
  <2> QED
    BY <1>3, <1>4, WindowCounts DEF Least
<1> HIDE DEF offers, n
<1>6. deferred' \in Seq(Photo)
  <2>1. Least(n, fill.taken) \in Nat
    BY <1>3, <1>5 DEF Least
  <2>2. \A k \in (Least(n, fill.taken) + 1)..Len(deferred) : deferred[k] \in Photo
    BY <1>3, <2>1, ElementOfSeq
  <2>3. \A k \in (from + 1)..Len(offers) : offers[k] \in Photo
    BY <1>4, <1>5, ElementOfSeq
  <2>4. /\ SubSeq(deferred, Least(n, fill.taken) + 1, Len(deferred)) \in Seq(Photo)
        /\ SubSeq(offers, from + 1, Len(offers)) \in Seq(Photo)
    BY <1>3, <1>4, <1>5, <2>1, <2>2, <2>3, SubSeqProperties
  <2> QED
    BY <1>1, <2>4, ConcatProperties
<1> HIDE DEF from
<1>7. Offers'
  <2>1. fill' \in [pc : {"idle", "read", "discover", "admit"}, kind : {"start", "fill"},
                   missing : Int, taken : Nat, found : Seq(Photo)]
    BY <1>1 DEF NoFill
  <2>2. fill'.taken = 0 /\ Len(deferred') \in Nat
    BY <1>1, <1>6, LenProperties DEF NoFill
  <2> QED
    BY <1>1, <1>6, <2>1, <2>2 DEF Offers
<1>8. row \in Seq(ItemRevision) /\ row # <<>> /\ row[Len(row)].state = "discovered"
  <2>1. [state |-> "discovered", source |-> None] \in ItemRevision
    BY DEF ItemRevision, ItemStates, None
  <2> QED
    BY <2>1
<1> HIDE DEF row
<1>9. items' \in Ledgers
  BY <1>1, <1>8 DEF Ledgers
<1>10. new \cap Enqueued = {}
  BY <1>5, WindowCounts
<1>11. \A i \in Enqueued : items'[i] = items[i]
  BY <1>1, <1>10
<1>12. Enqueued' = Enqueued \cup (new \cap ItemId)
  BY <1>1, <1>8 DEF Enqueued, InSession
<1>13. Numbered'
  <2> DEFINE last == IF first + n <= LastItem THEN first + n ELSE LastItem
  <2>1. last \in Nat /\ Enqueued' = 1..last
    BY <1>5, <1>12, WindowCounts, CoordinatorConstants
  <2> QED
    BY <2>1 DEF Numbered
<1>14. \A i \in Enqueued : Revision(items', i) = Revision(items, i)
  BY <1>11 DEF Revision
<1>15. Moved({})
  BY <1>9, <1>11, <1>12, <1>14 DEF Moved
<1>16. Shapes'
  BY <1>1, <1>9 DEF Shapes, Ledgers, writeVars
<1>17. \A i \in Enqueued : candidate'[i] = candidate[i] /\ manifest'[i] = manifest[i]
  BY <1>1, <1>10
<1>18. \A i \in Enqueued' : i \notin Enqueued => Current(items', i).state = "discovered"
  BY <1>1, <1>8, <1>12 DEF Current
<1>19. Batch'
  BY <1>1, <1>15, <1>17, BatchStays
<1>20. Analyses'
  BY <1>1, <1>15, <1>17, AnalysesStay
<1>21. Cards' /\ DecidedCards' /\ Savers' /\ Served' /\ Line' /\ Unwritten' /\ Down' /\ Silent
  <2>1. \A i \in Enqueued' :
          i \notin Enqueued \/ Revision(items', i) # Revision(items, i) =>
            Current(items', i).state \notin Editable \cup Saving
    BY <1>14, <1>18 DEF Editable, Saving
  <2> QED
    BY <1>1, <1>2, <1>14, <1>15, <1>17, <2>1, CalmKeeps DEF writeVars
<1> QED
  BY <1>7, <1>13, <1>16, <1>19, <1>20, <1>21

-----------------------------------------------------------------------------
(***************************************************************************)
(* Scheduler and analyses.                                                 *)
(***************************************************************************)

\* What a pass takes is pending, and each card is taken once.
LEMMA PickSaves ==
  ASSUME SavesInv, SchedulePick
  PROVE  SavesInv' /\ Silent
<1> USE Numbers DEF SavesInv
<1> DEFINE picked == First(Pending, Capacity)
           order  == Ascending(picked)
           count  == Cardinality(picked)
<1>1. /\ helper # "down"
      /\ UNCHANGED <<photoVars, writeVars, boundVars, session, config, decisions, fill,
                     inflight, callers, helper, lane, writes>>
  BY Alive DEF SchedulePick
<1>2. CASE ~Scheduling
  <2>1. items' = items /\ sched' = [sched EXCEPT !.pc = "leave"]
    BY <1>2 DEF SchedulePick
  <2>2. Marked({}) /\ Moved({})
    BY <2>1, NothingMarked DEF Marked
  <2>3. Shapes' /\ sched'.batch = sched.batch /\ sched'.pc = "leave"
    BY <1>1, <2>1 DEF Shapes, photoVars, writeVars
  <2>4. Batch' /\ Analyses' /\ Numbered'
    BY <1>1, <2>2, <2>3, BatchStays, AnalysesStay, NumberedStays DEF Marked, photoVars
  <2>5. Cards' /\ DecidedCards' /\ Savers' /\ Served' /\ Line' /\ Unwritten' /\ Down' /\ Silent
    BY <1>1, <2>2, CalmKeeps DEF Marked, photoVars, writeVars
  <2>6. Offers'
    BY <1>1 DEF Offers, photoVars
  <2> QED
    BY <2>3, <2>4, <2>5, <2>6
<1>3. CASE Scheduling
  <2>1. /\ items' = WithStates(picked, "preparing")
        /\ sched' = [sched EXCEPT
             !.pc    = "each",
             !.batch = [k \in DOMAIN order |-> <<order[k], Revision(items, order[k])>>]]
    BY <1>3 DEF SchedulePick
  <2>2. /\ picked \in SUBSET Enqueued
        /\ \A i \in picked : Current(items, i).state \in {"discovered", "queued"}
    BY DEF First, Pending
  <2>3. picked \in SUBSET Int /\ IsFiniteSet(picked)
    <3>1. picked \in SUBSET ItemId /\ IsFiniteSet(ItemId)
      BY <2>2, LedgerConstants
    <3> QED
      BY <3>1, FS_Subset, CoordinatorConstants
  <2>4. /\ count \in Nat /\ order \in [1..count -> picked]
        /\ \A k, l \in 1..count : k # l => order[k] # order[l]
    <3>1. /\ count \in Nat /\ order \in [1..count -> picked]
          /\ \A a, b \in 1..count : a < b => order[a] < order[b]
      BY <2>3, AscendingOrder, FS_CardinalityType
    <3> HIDE DEF picked, order, count
    <3>2. ASSUME NEW k \in 1..count, NEW l \in 1..count, k # l
          PROVE  order[k] # order[l]
      <4>1. k < l \/ l < k
        BY <3>1, <3>2
      <4>2. order[k] \in Int /\ order[l] \in Int
        BY <3>1, <2>3
      <4> QED
        BY <3>1, <4>1, <4>2
    <3> QED
      BY <3>1, <3>2
  <2> HIDE DEF picked, order, count
  <2> DEFINE st == [i \in picked |-> "preparing"]
  <2>5. /\ Marked(picked) /\ Moved(picked)
        /\ \A i \in picked : Current(items', i).state = "preparing"
    <3>1. st \in [picked -> ItemStates]
      BY DEF ItemStates
    <3>2. items' = [i \in ItemId |-> IF i \in picked
                                     THEN WithCheckpoint(items, i, st[i], None)[i]
                                     ELSE items[i]]
      BY <2>1 DEF WithStates
    <3>3. Marked(picked) /\ \A i \in picked : Current(items', i).state = st[i]
      BY <2>2, <3>1, <3>2, ManyMarked
    <3> QED
      BY <3>3 DEF Marked
  <2>6. /\ DOMAIN sched'.batch = 1..count /\ sched'.pc = "each"
        /\ \A k \in 1..count : sched'.batch[k] = <<order[k], Revision(items, order[k])>>
    BY <2>1, <2>4 DEF Shapes
  <2>7. Shapes'
    <3> DEFINE taken == [k \in DOMAIN order |-> <<order[k], Revision(items, order[k])>>]
    <3>1. taken \in [1..count -> ItemId \X Nat]
      BY <2>2, <2>4
    <3>2. taken \in Seq(ItemId \X Nat)
      BY <2>4, <3>1
    <3> HIDE DEF taken
    <3>3. sched' \in [pc : {"idle", "pick", "each", "defer", "prepare", "submit", "fail",
                            "leave"},
                      batch : Seq(ItemId \X Nat), again : BOOLEAN]
      BY <2>1, <3>2 DEF Shapes, taken
    <3>4. items' \in [ItemId -> Seq(ItemRevision)]
      BY <2>5 DEF Moved, Ledgers
    <3> QED
      BY <1>1, <3>3, <3>4 DEF Shapes, photoVars, writeVars
  <2>8. Batch'
    <3>1. \A k \in 1..count :
            /\ order[k] \in Enqueued' /\ Revision(items, order[k]) \in Nat
            /\ Revision(items', order[k]) = Revision(items, order[k])
            /\ Current(items', order[k]).state = "preparing"
      BY <2>2, <2>4, <2>5 DEF Marked
    <3>2. \A k \in 1..count : BatchCard(sched.batch[k][1], sched.batch[k][2])'
      BY <2>6, <3>1 DEF BatchCard
    <3>3. \A k, l \in 1..count : l # k => sched'.batch[l][1] # sched'.batch[k][1]
      BY <2>4, <2>6
    <3> QED
      BY <2>6, <3>2, <3>3 DEF Batch
  <2>9. Analyses'
    <3>1. \A f \in inflight : f.item \in picked => f.rev # Revision(items, f.item)
      BY <2>2 DEF Analyses
    <3> QED
      BY <1>1, <2>5, <3>1, AnalysesStay DEF photoVars
  <2>10. Cards' /\ DecidedCards' /\ Savers' /\ Served' /\ Line' /\ Unwritten' /\ Down' /\ Silent
    <3>1. \A i \in picked :
            /\ Current(items, i).state \notin Saving \cup Approved
            /\ Current(items', i).state \notin Saving \cup Editable
      BY <2>2, <2>5 DEF Saving, Approved, Editable
    <3> QED
      BY <1>1, <2>2, <2>5, <3>1, CalmKeeps DEF Marked, photoVars, writeVars
  <2>11. Offers' /\ Numbered'
    BY <1>1, <2>5, NumberedStays DEF Offers, photoVars, Marked
  <2> QED
    BY <2>7, <2>8, <2>9, <2>10, <2>11
<1> QED
  BY <1>2, <1>3

\* What the scheduler does to the card it works on.
LEMMA CardMoves ==
  ASSUME SavesInv, sched.pc \in {"defer", "submit", "fail"},
         NEW st \in {"queued", "analyzing", "failed"},
         items' = items \/ (CardLive /\ items' = WithCheckpoint(items, Card, st, None)),
         UNCHANGED <<photoVars, writeVars, decisions, helper, writes>>
  PROVE  \E S \in SUBSET {Card} :
           /\ Marked(S) /\ Moved(S)
           /\ Cards' /\ DecidedCards' /\ Savers' /\ Served' /\ Line' /\ Unwritten' /\ Down' /\ Silent
           /\ \A i \in S : /\ CardLive /\ Current(items, i).state = "preparing"
                           /\ Current(items', i).state = st
<1> USE Numbers DEF SavesInv
<1>1. /\ helper # "down" /\ sched.batch # <<>>
      /\ UNCHANGED <<manifest, candidate, persist, writeQueue>>
  BY Alive DEF Batch, photoVars, writeVars
<1>2. CASE items' = items
  <2>1. Marked({}) /\ Moved({})
    BY <1>2, NothingMarked DEF Marked
  <2>2. Cards' /\ DecidedCards' /\ Savers' /\ Served' /\ Line' /\ Unwritten' /\ Down' /\ Silent
    BY <1>1, <2>1, CalmKeeps DEF Marked
  <2> QED
    BY <2>1, <2>2
<1>3. CASE CardLive /\ items' = WithCheckpoint(items, Card, st, None)
  <2>1. Card \in Enqueued /\ Current(items, Card).state = "preparing"
    <3>1. 1 \in DOMAIN sched.batch /\ Head(sched.batch) = sched.batch[1]
      BY <1>1 DEF Shapes
    <3>2. BatchCard(Card, CardRev)
      BY <3>1 DEF Batch, Card, CardRev
    <3> QED
      BY <1>3, <3>2 DEF BatchCard, CardLive, IsCurrent, TerminalStates
  <2>2. /\ Marked({Card}) /\ Moved({Card}) /\ Current(items', Card).state = st
    BY <1>3, <2>1, OneMarked DEF Marked, ItemStates, None
  <2>3. /\ "preparing" \notin Saving \cup Approved
        /\ st \notin Saving \cup Editable
    BY DEF Saving, Approved, Editable
  <2>4. Cards' /\ DecidedCards' /\ Savers' /\ Served' /\ Line' /\ Unwritten' /\ Down' /\ Silent
    BY <1>1, <2>1, <2>2, <2>3, CalmKeeps DEF Marked
  <2> QED
    BY <1>3, <2>1, <2>2, <2>4
<1> QED
  BY <1>2, <1>3

LEMMA CardSaves ==
  ASSUME SavesInv, RestoreQueued \/ Submit \/ PrepareFailed
  PROVE  SavesInv' /\ Silent
<1> USE Numbers DEF SavesInv
<1>1. /\ UNCHANGED <<photoVars, writeVars, config, decisions, helper, writes, fill>>
      /\ sched.pc \in {"defer", "submit", "fail"} /\ sched.batch # <<>>
  BY DEF RestoreQueued, Submit, PrepareFailed, Batch
<1>2. PICK st \in {"queued", "analyzing", "failed"} :
        /\ items' = items \/ (CardLive /\ items' = WithCheckpoint(items, Card, st, None))
        /\ Submit => st = "analyzing"
  BY DEF RestoreQueued, Submit, PrepareFailed
<1>3. PICK S \in SUBSET {Card} :
        /\ Marked(S) /\ Moved(S)
        /\ Cards' /\ DecidedCards' /\ Savers' /\ Served' /\ Line' /\ Unwritten' /\ Down' /\ Silent
        /\ \A i \in S : /\ CardLive /\ Current(items, i).state = "preparing"
                        /\ Current(items', i).state = st
  BY <1>1, <1>2, CardMoves
<1>4. sched' = NextCard \/ sched' = [sched EXCEPT !.pc = "leave", !.batch = <<>>]
  BY DEF RestoreQueued, Submit, PrepareFailed
<1>5. /\ sched'.batch = Tail(sched.batch) \/ sched'.batch = <<>>
      /\ sched'.pc \in {"each", "leave"}
      /\ sched' \in [pc : {"idle", "pick", "each", "defer", "prepare", "submit", "fail",
                           "leave"},
                     batch : Seq(ItemId \X Nat), again : BOOLEAN]
  <2>1. Tail(sched.batch) \in Seq(ItemId \X Nat) /\ <<>> \in Seq(ItemId \X Nat)
    BY <1>1, HeadTailProperties DEF Shapes
  <2> QED
    BY <1>4, <2>1 DEF NextCard, Shapes
<1>6. Batch'
  BY <1>1, <1>3, <1>5, BatchAdvances
<1>7. \A i \in Enqueued : candidate'[i] = candidate[i]
  BY <1>1 DEF photoVars
<1>8. \A f \in inflight : f.item \in S => f.rev # Revision(items, f.item)
  BY <1>3 DEF Analyses
<1>9. Numbered' /\ Offers'
  BY <1>1, <1>3, NumberedStays DEF Marked, Offers, photoVars
<1>10. items' \in [ItemId -> Seq(ItemRevision)]
  BY <1>3 DEF Moved, Ledgers
<1>11. CASE inflight' = inflight
  <2>1. Analyses'
    BY <1>3, <1>7, <1>8, <1>11, AnalysesStay
  <2>2. Shapes'
    BY <1>1, <1>5, <1>10, <1>11 DEF Shapes, photoVars, writeVars
  <2> QED
    BY <1>3, <1>6, <1>9, <2>1, <2>2
<1>12. CASE /\ Submit
            /\ inflight' = inflight \cup
                 {[item |-> Card, rev |-> CardRev, photo |-> candidate[Card]]}
  <2> DEFINE new == [item |-> Card, rev |-> CardRev, photo |-> candidate[Card]]
  <2>1. /\ Card \in Enqueued /\ CardRev \in Nat /\ CardRev <= Revision(items, Card)
        /\ BatchCard(Card, CardRev) /\ candidate[Card] \in Photo
    <3>1. /\ 1 \in DOMAIN sched.batch /\ Head(sched.batch) = sched.batch[1]
          /\ sched.batch[1] \in ItemId \X Nat
      BY <1>1 DEF Shapes
    <3>2. BatchCard(Card, CardRev) /\ CardRev \in Nat
      BY <3>1 DEF Batch, Card, CardRev
    <3> QED
      BY <1>12, <3>2 DEF BatchCard, Batch, Submit
  <2>2. Shapes'
    <3>1. new \in [item : ItemId, rev : Nat, photo : Photo]
      BY <2>1
    <3> QED
      BY <1>1, <1>5, <1>10, <1>12, <3>1 DEF Shapes, photoVars, writeVars
  <2>3. /\ Enqueued' = Enqueued
        /\ \A i \in Enqueued : /\ Revision(items', i) = Revision(items, i)
                               /\ i \notin S => Current(items', i) = Current(items, i)
    BY <1>3, Unmoved DEF Marked
  <2>4. items' # items => CardLive
    BY <1>2
  <2>5. CASE items' = items /\ ~CardLive
    <3>1. CardRev = Revision(items, Card) => Current(items, Card).state = "discarded"
      BY <2>1, <2>5 DEF BatchCard, CardLive, IsCurrent, TerminalStates
    <3>2. \A f \in inflight' :
            /\ f.item \in Enqueued /\ f.rev <= Revision(items, f.item)
            /\ candidate[f.item] \in Photo
            /\ f.rev = Revision(items, f.item) =>
                 /\ Current(items, f.item).state \in {"analyzing", "discarded"}
                 /\ \A g \in inflight' :
                      /\ g.item = f.item /\ g.rev = f.rev
                      /\ Current(items, f.item).state = "analyzing"
                      => g = f
      BY <1>12, <2>1, <3>1 DEF Analyses
    <3>3. Analyses'
      BY <1>7, <2>3, <2>5, <3>2 DEF Analyses
    <3> QED
      BY <1>3, <1>6, <1>9, <2>2, <3>3
  <2>6. CASE CardLive
    <3>1. Current(items, Card).state = "preparing" /\ CardRev = Revision(items, Card)
      BY <2>1, <2>6 DEF BatchCard, CardLive, IsCurrent, TerminalStates
    <3>2. \A f \in inflight : f.item = Card => f.rev # Revision(items, Card)
      BY <3>1 DEF Analyses
    <3>3. Current(items', Card).state = "analyzing"
      BY <1>12, <2>1, <2>6, OneMarked DEF Submit, ItemStates, None
    <3>4. \A f \in inflight' :
            /\ f.item \in Enqueued' /\ f.rev <= Revision(items', f.item)
            /\ candidate'[f.item] \in Photo
            /\ f.rev = Revision(items', f.item) =>
                 /\ Current(items', f.item).state \in {"analyzing", "discarded"}
                 /\ \A g \in inflight' :
                      /\ g.item = f.item /\ g.rev = f.rev
                      /\ Current(items', f.item).state = "analyzing"
                      => g = f
      <4>1. ASSUME NEW f \in inflight
            PROVE  /\ f.item \in Enqueued /\ f.rev <= Revision(items, f.item)
                   /\ candidate[f.item] \in Photo
                   /\ f.item = Card => f.rev # Revision(items', Card)
                   /\ f.item # Card => Current(items', f.item) = Current(items, f.item)
                   /\ f.rev = Revision(items, f.item) =>
                        /\ Current(items, f.item).state \in {"analyzing", "discarded"}
                        /\ \A g \in inflight :
                             /\ g.item = f.item /\ g.rev = f.rev
                             /\ Current(items, f.item).state = "analyzing"
                             => g = f
        BY <2>1, <2>3, <3>2 DEF Analyses
      <4>2. new.item = Card /\ new.rev = CardRev
        OBVIOUS
      <4> HIDE DEF new
      <4>3. inflight' = inflight \cup {new}
        BY <1>12 DEF new
      <4> QED
        BY <1>7, <2>1, <2>3, <3>1, <3>3, <4>1, <4>2, <4>3
    <3>5. Analyses'
      BY <3>4 DEF Analyses
    <3> QED
      BY <1>3, <1>6, <1>9, <2>2, <3>5
  <2> QED
    BY <2>4, <2>5, <2>6
<1> QED
  BY <1>11, <1>12 DEF RestoreQueued, Submit, PrepareFailed

LEMMA AnalysisSaves ==
  ASSUME SavesInv, NEW f \in inflight, AnalysisFinished(f)
  PROVE  SavesInv' /\ Silent
<1> USE Numbers DEF SavesInv
<1>1. /\ inflight' = inflight \ {f} /\ helper # "down"
      /\ UNCHANGED <<writeVars, boundVars, session, config, decisions, candidate,
                     deferred, seen, fill, sched, helper, lane, writes>>
  BY Alive DEF AnalysisFinished, Finished
<1>2. f.item \in Enqueued /\ f.photo \in Photo /\ candidate[f.item] \in Photo
  BY DEF Analyses, Shapes
<1>3. Offers'
  BY <1>1 DEF Offers
<1>4. CASE UNCHANGED <<items, manifest>>
  <2>1. Marked({}) /\ Moved({})
    BY <1>4, NothingMarked DEF Marked
  <2>2. Shapes'
    BY <1>1, <1>4 DEF Shapes, writeVars
  <2>3. Batch' /\ Analyses' /\ Numbered'
    BY <1>1, <2>1, BatchStays, AnalysesStay, NumberedStays DEF Marked
  <2>4. Cards' /\ DecidedCards' /\ Savers' /\ Served' /\ Line' /\ Unwritten' /\ Down' /\ Silent
    BY <1>1, <1>4, <2>1, CalmKeeps DEF Marked, writeVars
  <2> QED
    BY <1>3, <2>2, <2>3, <2>4
<1>5. CASE /\ IsCurrent(items, f.item, f.rev)
           /\ Current(items, f.item).state \notin TerminalStates
           /\ \E st \in {"ready", "failed"}, src \in {None, f.photo} :
                /\ items' = WithCheckpoint(items, f.item, st, src)
                /\ \/ st = "failed" /\ src = None /\ manifest' = manifest
                   \/ src = f.photo /\ manifest' = [manifest EXCEPT ![f.item] = TRUE]
  <2>1. PICK st \in {"ready", "failed"}, src \in {None, f.photo} :
          /\ items' = WithCheckpoint(items, f.item, st, src)
          /\ \/ st = "failed" /\ src = None /\ manifest' = manifest
             \/ src = f.photo /\ manifest' = [manifest EXCEPT ![f.item] = TRUE]
    BY <1>5
  <2>2. /\ Current(items, f.item).state = "analyzing" /\ f.rev = Revision(items, f.item)
        /\ \A g \in inflight : g.item = f.item /\ g.rev = f.rev => g = f
    BY <1>5 DEF Analyses, IsCurrent, TerminalStates
  <2>3. src \in Run \cup {NoRun} /\ (src = f.photo => src # NoRun)
    BY <1>2, LedgerConstants DEF None, Photo
  <2>4. /\ Marked({f.item}) /\ Moved({f.item}) /\ Current(items', f.item).state = st
        /\ Current(items', f.item).source =
             IF src = NoRun THEN Current(items, f.item).source ELSE src
    BY <1>2, <2>1, <2>3, OneMarked, ZenonT(60) DEF Marked, ItemStates
  <2>5. /\ manifest' \in [ItemId -> BOOLEAN]
        /\ \A i \in ItemId \ {f.item} : manifest'[i] = manifest[i]
        /\ st = "ready" => manifest'[f.item] /\ src = f.photo
    BY <1>2, <2>1 DEF Shapes
  <2>6. Shapes'
    BY <1>1, <2>4, <2>5 DEF Shapes, writeVars, Moved, Ledgers
  <2>7. Batch' /\ Analyses' /\ Numbered'
    BY <1>1, <2>2, <2>4, BatchStays, AnalysesStay, NumberedStays DEF Marked
  <2>8. Cards' /\ DecidedCards' /\ Savers' /\ Served' /\ Line' /\ Unwritten' /\ Down' /\ Silent
    <3>1. /\ "analyzing" \notin Saving \cup Approved /\ st \notin Saving
          /\ st \in Editable => st = "ready"
      BY DEF Saving, Approved, Editable
    <3>2. Current(items', f.item).state \in Editable =>
            /\ Current(items', f.item).source \in Photo /\ manifest'[f.item]
            /\ candidate'[f.item] \in Photo
      BY <1>1, <1>2, <2>3, <2>4, <2>5, <3>1
    <3> QED
      BY <1>1, <1>2, <2>2, <2>4, <2>5, <3>1, <3>2, CalmKeeps DEF Marked, writeVars
  <2> QED
    BY <1>3, <2>6, <2>7, <2>8
<1> QED
  BY <1>4, <1>5 DEF AnalysisFinished

-----------------------------------------------------------------------------
(***************************************************************************)
(* Steps that leave the ledger alone.                                      *)
(***************************************************************************)

LEMMA LedgerKept ==
  ASSUME SavesInv, UNCHANGED <<items, decisions, writeVars, manifest, inflight, writes>>,
         helper # "down", helper' # "down",
         \A i \in Enqueued : candidate[i] \in Photo => candidate'[i] \in Photo
  PROVE  /\ Marked({}) /\ Moved({}) /\ Numbered' /\ Cards' /\ Analyses' /\ DecidedCards'
         /\ Savers' /\ Served' /\ Line' /\ Unwritten' /\ Down' /\ Silent
<1> USE Numbers DEF SavesInv
<1>1. Marked({}) /\ Moved({}) /\ Enqueued' = Enqueued
  BY NothingMarked DEF Marked
<1>2. UNCHANGED <<persist, writes, writeQueue>>
  BY DEF writeVars
<1>3. Cards' /\ DecidedCards' /\ Savers' /\ Served' /\ Line' /\ Unwritten' /\ Down' /\ Silent
  BY <1>1, <1>2, CalmKeeps
<1> QED
  BY <1>1, <1>3, AnalysesStay, NumberedStays

LEMMA FillSaves ==
  ASSUME SavesInv,
         (\E kind \in {"start", "fill"} : FillEnter(kind)) \/ FillRead \/ FillDiscover \/ FillRaises
  PROVE  SavesInv' /\ Silent
<1> USE DEF SavesInv
<1>1. /\ UNCHANGED <<ledgerVars, writeVars, candidate, manifest, deferred, sched, inflight,
                     writes>>
      /\ helper # "down" /\ helper' # "down"
  <2>1. ASSUME NEW kind \in {"start", "fill"}, FillEnter(kind)
        PROVE  callers # NoCallers
    <3>1. NoCallers["start"] = 0 /\ NoCallers["fill"] = 0
      BY DEF NoCallers
    <3>2. callers[kind] > 0
      BY <2>1 DEF FillEnter
    <3>3. NoCallers[kind] = 0
      BY <3>1
    <3> QED
      BY <3>2, <3>3
  <2>2. fill.pc # "idle" \/ callers # NoCallers
    BY <2>1 DEF FillRead, FillDiscover, FillRaises
  <2> QED
    BY <2>2, Alive DEF FillEnter, FillRead, FillDiscover, FillRaises, photoVars
<1>2. /\ Marked({}) /\ Moved({}) /\ Numbered' /\ Cards' /\ Analyses' /\ DecidedCards'
      /\ Savers' /\ Served' /\ Line' /\ Unwritten' /\ Down' /\ Silent
  BY <1>1, LedgerKept DEF ledgerVars
<1>3. Shapes' /\ Batch'
  BY <1>1, <1>2, BatchStays DEF Shapes, ledgerVars, writeVars
<1>4. Offers'
  <2>0. /\ fill.taken \in Nat /\ Len(deferred) \in Nat /\ Len(deferred') \in Nat
        /\ deferred' = deferred
    BY <1>1, LenProperties DEF Offers
  <2>1. CASE \E kind \in {"start", "fill"} : FillEnter(kind)
    <3>1. PICK kind \in {"start", "fill"} : FillEnter(kind)
      BY <2>1
    <3> DEFINE taken == Least(Missing, Len(deferred))
    <3>2. taken \in Nat /\ taken <= Len(deferred)
      BY <2>0, WindowCounts DEF Least
    <3>3. Least(Missing - taken,
                LastItem - Cardinality(Enqueued) - Len(deferred)) \in Int
      BY <2>0, <3>2, WindowCounts, CoordinatorConstants DEF Least
    <3> HIDE DEF taken
    <3>4. /\ fill' \in [pc : {"idle", "read", "discover", "admit"}, kind : {"start", "fill"},
                        missing : Int, taken : Nat, found : Seq(Photo)]
          /\ fill'.taken \in {0, taken}
      <4>1. NoFill \in [pc : {"idle", "read", "discover", "admit"}, kind : {"start", "fill"},
                        missing : Int, taken : Nat, found : Seq(Photo)]
            /\ NoFill.taken = 0
        BY DEF NoFill
      <4>2. \/ fill' = NoFill
            \/ fill' = [kind    |-> kind,
                        pc      |-> IF taken < Missing THEN "read" ELSE "admit",
                        missing |-> Least(Missing - taken,
                                          LastItem - Cardinality(Enqueued) - Len(deferred)),
                        taken   |-> taken,
                        found   |-> <<>>]
        BY <3>1 DEF FillEnter, taken
      <4>3. (IF taken < Missing THEN "read" ELSE "admit") \in {"read", "admit"}
        OBVIOUS
      <4>4. <<>> \in Seq(Photo)
        OBVIOUS
      <4> DEFINE pc   == IF taken < Missing THEN "read" ELSE "admit"
                 miss == Least(Missing - taken,
                               LastItem - Cardinality(Enqueued) - Len(deferred))
                 row  == [kind |-> kind, pc |-> pc, missing |-> miss, taken |-> taken,
                          found |-> <<>>]
      <4>5. pc \in {"read", "admit"} /\ miss \in Int
        BY <3>3, <4>3
      <4> HIDE DEF pc, miss
      <4>6. /\ row \in [pc : {"idle", "read", "discover", "admit"}, kind : {"start", "fill"},
                         missing : Int, taken : Nat, found : Seq(Photo)]
            /\ row.taken = taken
        BY <3>2, <4>4, <4>5
      <4>7. fill' = NoFill \/ fill' = row
        BY <4>2 DEF pc, miss
      <4> HIDE DEF row
      <4> QED
        BY <4>1, <4>6, <4>7
    <3>5. deferred' = deferred /\ seen' = seen
      BY <3>1 DEF FillEnter, photoVars
    <3> QED
      BY <2>0, <3>2, <3>4, <3>5 DEF Offers
  <2>2. CASE FillRead
    BY <2>0, <2>2 DEF Offers, FillRead, photoVars
  <2>3. CASE FillDiscover
    <3>1. PICK S \in Discovered(fill.missing) :
            seen' = seen \cup S /\ fill' = [fill EXCEPT !.pc = "admit", !.found = Ascending(S)]
      BY <2>3 DEF FillDiscover
    <3>2. S \in SUBSET Photo /\ S \in SUBSET Int /\ IsFiniteSet(S)
      BY <3>1, CoordinatorConstants, FS_Subset DEF Discovered
    <3>3. Ascending(S) \in Seq(Photo)
      <4>1. Ascending(S) \in [1..Cardinality(S) -> S] /\ Cardinality(S) \in Nat
        BY <3>2, AscendingOrder, FS_CardinalityType
      <4> DEFINE q == Ascending(S)
                 n == Cardinality(S)
      <4>2. n \in Nat /\ q \in [1..n -> Photo]
        BY <3>2, <4>1
      <4> HIDE DEF q, n
      <4>3. q \in Seq(Photo)
        BY <4>2
      <4> QED
        BY <4>3 DEF q
    <3> QED
      BY <2>0, <3>1, <3>2, <3>3 DEF Offers
  <2>4. CASE FillRaises
    BY <2>0, <2>4 DEF Offers, FillRaises, NoFill
  <2> QED
    BY <2>1, <2>2, <2>3, <2>4
<1> QED
  BY <1>2, <1>3, <1>4

LEMMA ScheduleSaves ==
  ASSUME SavesInv,
         \/ \E kind \in {"schedule", "completing"} : ScheduleEnter(kind)
         \/ ScheduleLeave \/ ScheduleEnd \/ PrepareRead \/ Prepare
  PROVE  SavesInv' /\ Silent
<1> USE DEF SavesInv
<1>1. /\ UNCHANGED <<ledgerVars, writeVars, manifest, deferred, inflight, fill, helper, writes>>
      /\ helper # "down"
  <2>1. ASSUME NEW kind \in {"schedule", "completing"}, ScheduleEnter(kind)
        PROVE  callers # NoCallers
    <3>1. NoCallers["schedule"] = 0 /\ NoCallers["completing"] = 0
      BY DEF NoCallers
    <3>2. callers[kind] > 0
      BY <2>1 DEF ScheduleEnter
    <3>3. NoCallers[kind] = 0
      BY <3>1
    <3> QED
      BY <3>2, <3>3
  <2>2. sched.pc # "idle" \/ callers # NoCallers
    BY <2>1 DEF ScheduleLeave, ScheduleEnd, PrepareRead, Prepare
  <2>3. helper # "down"
    BY <2>2, Alive
  <2>4. ASSUME NEW kind \in {"schedule", "completing"}, ScheduleEnter(kind)
        PROVE  UNCHANGED <<ledgerVars, writeVars, manifest, deferred, inflight, fill, helper,
                           writes>>
    BY <2>4 DEF ScheduleEnter, photoVars
  <2>5. UNCHANGED <<ledgerVars, writeVars, manifest, deferred, inflight, fill, helper, writes>>
    BY <2>4 DEF ScheduleLeave, ScheduleEnd, PrepareRead, Prepare, photoVars
  <2> QED
    BY <2>3, <2>5
<1>2. sched.pc = "prepare" => sched.batch # <<>> /\ Card \in Enqueued
  BY DEF Batch, BatchCard, Card, Shapes
<1>3. /\ seen' \subseteq Photo /\ DOMAIN candidate' = ItemId
      /\ \A i \in Enqueued : candidate[i] \in Photo => candidate'[i] \in Photo
  <2>1. CASE Prepare
    BY <2>1 DEF Prepare, Shapes, Offers, Discovered, Enqueued
  <2>2. CASE ~Prepare
    BY <2>2 DEF ScheduleEnter, ScheduleLeave, ScheduleEnd, PrepareRead, photoVars, Shapes, Offers
  <2> QED
    BY <2>1, <2>2
<1>4. /\ Marked({}) /\ Moved({}) /\ Numbered' /\ Cards' /\ Analyses' /\ DecidedCards'
      /\ Savers' /\ Served' /\ Line' /\ Unwritten' /\ Down' /\ Silent
  BY <1>1, <1>3, LedgerKept DEF ledgerVars
<1>5. Offers'
  BY <1>1, <1>3 DEF Offers
<1>6. /\ sched' \in [pc : {"idle", "pick", "each", "defer", "prepare", "submit", "fail",
                           "leave"},
                     batch : Seq(ItemId \X Nat), again : BOOLEAN]
      /\ \/ sched'.batch = sched.batch
         \/ sched'.batch = <<>> /\ sched'.pc \in {"idle", "pick"}
      /\ \/ sched'.pc = sched.pc \/ sched'.pc \in {"idle", "pick", "each", "leave"}
         \/ sched.pc \in {"each", "prepare"} /\ sched.batch # <<>> /\ sched'.batch = sched.batch
            /\ sched'.pc \in {"defer", "prepare", "fail"}
         \/ sched.pc = "prepare" /\ sched'.batch = sched.batch /\ sched'.pc = "submit"
            /\ candidate'[Card] \in Photo
  <2>1. <<>> \in Seq(ItemId \X Nat)
    OBVIOUS
  <2>2. CASE \E kind \in {"schedule", "completing"} : ScheduleEnter(kind)
    <3>1. sched' \in {sched, [sched EXCEPT !.again = TRUE], [sched EXCEPT !.pc = "pick"]}
      BY <2>2 DEF ScheduleEnter
    <3> QED
      BY <3>1 DEF Shapes
  <2>3. CASE ScheduleLeave
    BY <2>3 DEF ScheduleLeave, Shapes
  <2>6. CASE ScheduleEnd
    <3>1. sched' = [NoSched EXCEPT !.pc = "pick"] \/ sched' = NoSched
      BY <2>6 DEF ScheduleEnd
    <3>2. CASE sched' = [NoSched EXCEPT !.pc = "pick"]
      BY <2>1, <3>2 DEF NoSched
    <3>3. CASE sched' = NoSched
      BY <2>1, <3>3 DEF NoSched
    <3> QED
      BY <3>1, <3>2, <3>3
  <2>4. CASE PrepareRead
    BY <2>4 DEF PrepareRead, Shapes
  <2>5. CASE Prepare
    BY <1>2, <2>5 DEF Prepare, Shapes, Discovered, Enqueued
  <2> QED
    BY <2>2, <2>3, <2>4, <2>5, <2>6
<1>7. Shapes'
  BY <1>1, <1>3, <1>6 DEF Shapes, ledgerVars, writeVars
<1>8. Batch'
  <2>1. CASE /\ sched'.batch = sched.batch
             /\ sched'.pc = sched.pc \/ sched'.pc \in {"idle", "pick", "each", "leave"}
    BY <1>3, <1>4, <2>1, BatchStays
  <2>2. CASE sched'.batch = <<>> /\ sched'.pc \in {"idle", "pick"}
    BY <2>2 DEF Batch
  <2>3. CASE /\ sched'.batch = sched.batch /\ sched.batch # <<>>
             /\ sched'.pc \in {"defer", "prepare", "fail", "submit"}
             /\ sched'.pc = "submit" => candidate'[Card] \in Photo
    <3>1. \A i, r : BatchCard(i, r) => BatchCard(i, r)'
      BY <1>1 DEF BatchCard, Enqueued, ledgerVars
    <3>2. Card' = Card
      BY <2>3 DEF Card
    <3> QED
      BY <2>3, <3>1, <3>2 DEF Batch
  <2> QED
    BY <1>2, <1>6, <2>1, <2>2, <2>3
<1> QED
  BY <1>4, <1>5, <1>7, <1>8

-----------------------------------------------------------------------------
(***************************************************************************)
(* What the user does.                                                     *)
(***************************************************************************)

LEMMA ControlSaves ==
  ASSUME SavesInv, Pause \/ Resume \/ UpdateConfig \/ Stop \/ CloseStep
  PROVE  SavesInv' /\ Silent
<1> USE DEF SavesInv
<1>1. /\ UNCHANGED <<items, decisions, photoVars, writeVars, fill, sched, inflight, writes>>
      /\ helper # "down" /\ helper' # "down" /\ config' \in Config
  <2>1. helper # "down" /\ helper' # "down"
    BY DEF Pause, Resume, UpdateConfig, Stop, CloseStep, Command, Accepting
  <2>2. UNCHANGED <<items, decisions, photoVars, writeVars, fill, sched, inflight, writes>>
    BY DEF Pause, Resume, UpdateConfig, Stop, CloseStep, threadVars, ledgerVars
  <2>3. config' \in Config
    BY DEF Pause, Resume, UpdateConfig, Stop, CloseStep, ledgerVars, Shapes
  <2> QED
    BY <2>1, <2>2, <2>3
<1>2. UNCHANGED <<candidate, manifest, deferred, seen, persist, writeQueue>>
  BY <1>1 DEF photoVars, writeVars
<1>3. /\ Marked({}) /\ Moved({}) /\ Numbered' /\ Cards' /\ Analyses' /\ DecidedCards'
      /\ Savers' /\ Served' /\ Line' /\ Unwritten' /\ Down' /\ Silent
  BY <1>1, <1>2, LedgerKept
<1>4. Shapes' /\ Offers'
  BY <1>1, <1>2 DEF Shapes, Offers
<1>5. Batch'
  BY <1>1, <1>2, <1>3, BatchStays
<1> QED
  BY <1>3, <1>4, <1>5

LEMMA DiscardSaves ==
  ASSUME SavesInv, NEW id \in DecisionId, NEW i \in Enqueued, Discard(id, i)
  PROVE  SavesInv' /\ Silent
<1> USE Numbers DEF SavesInv
<1>1. /\ UNCHANGED <<candidate, manifest, deferred, seen, persist, writeQueue, config, fill,
                     sched, inflight, helper, writes>>
      /\ helper # "down"
  BY DEF Discard, Command, Accepting, photoVars, writeVars
<1>2. /\ decisions' = decisions \cup {Asked(id, i, "discard")}
      /\ items' = WithCheckpoint(items, i, "discarded", NoRun)
      /\ Current(items, i).state \notin Saving \cup {"verified"}
  <2>1. /\ Decide(Asked(id, i, "discard")) /\ Asked(id, i, "discard").action = "discard"
        /\ Asked(id, i, "discard").item = i
    BY DEF Discard, Asked
  <2> QED
    BY <2>1 DEF Decide, WithDecision, Admissible, AllowedStates, Saving
<1>3. /\ Marked({i}) /\ Moved({i}) /\ Current(items', i).state = "discarded"
  BY <1>2, OneMarked DEF Marked, ItemStates
<1>4. \A d \in decisions' \ decisions : d.action # "persist"
  BY <1>2 DEF Asked
<1>5. "discarded" \notin Saving \cup Editable /\ "discarded" \in Approved
  BY DEF Saving, Editable, Approved
<1>6. Cards' /\ DecidedCards' /\ Savers' /\ Served' /\ Line' /\ Unwritten' /\ Down' /\ Silent
  BY <1>1, <1>2, <1>3, <1>4, <1>5, CalmKeeps DEF Marked
<1>7. Batch' /\ Analyses' /\ Numbered'
  BY <1>1, <1>3, BatchStays, AnalysesStay, NumberedStays DEF Marked
<1>8. Shapes' /\ Offers'
  BY <1>1, <1>3 DEF Shapes, Offers, Moved, Ledgers
<1> QED
  BY <1>6, <1>7, <1>8

LEMMA RescanSaves ==
  ASSUME SavesInv, NEW id \in DecisionId, NEW i \in Enqueued, Rescan(id, i)
  PROVE  SavesInv' /\ Silent
<1> USE Numbers DEF SavesInv
<1> DEFINE row == [state |-> "queued", source |-> NoRun]
<1>1. /\ UNCHANGED <<candidate, deferred, seen, persist, writeQueue, config, fill, sched,
                     inflight, helper, writes>>
      /\ helper # "down" /\ manifest' = [manifest EXCEPT ![i] = FALSE]
  BY DEF Rescan, Command, Accepting, writeVars
<1>2. /\ decisions' = decisions \cup {Asked(id, i, "rescan")}
      /\ items' = [items EXCEPT ![i] = Append(@, row)]
      /\ Current(items, i).state \notin Saving
  <2>1. /\ Decide(Asked(id, i, "rescan")) /\ Asked(id, i, "rescan").action = "rescan"
        /\ Asked(id, i, "rescan").item = i
    BY DEF Rescan, Asked
  <2> QED
    BY <2>1 DEF Decide, WithDecision, Admissible, AllowedStates, Saving
<1>3. row \in ItemRevision
  BY DEF ItemRevision, ItemStates
<1> HIDE DEF row
<1>4. /\ items' \in Ledgers /\ \A j \in ItemId \ {i} : items'[j] = items[j]
      /\ InSession(items', i) /\ Revision(items', i) = Revision(items, i) + 1
      /\ \A r \in 1..Revision(items, i) : items'[i][r] = items[i][r]
      /\ Current(items', i) = row
  <2>1. items \in Ledgers /\ i \in ItemId
    OBVIOUS
  <2> QED
    BY ONLY <1>2, <1>3, <2>1, Appended
<1>5. /\ Enqueued' = Enqueued
      /\ \A j \in Enqueued \ {i} : Revision(items', j) = Revision(items, j)
  BY <1>4 DEF Enqueued, InSession, Revision
<1>6. Moved({})
  <2>1. \A j \in Enqueued : \A r \in 1..Revision(items, j) : items'[j][r] = items[j][r]
    BY <1>4
  <2>2. \A j \in Enqueued : Revision(items, j) <= Revision(items', j)
    <3>1. \A j \in Enqueued : Revision(items, j) \in Nat
      OBVIOUS
    <3> QED
      BY <1>4, <1>5, <3>1
  <2> QED
    BY <1>4, <1>5, <2>1, <2>2 DEF Moved
<1>7. \A d \in decisions' \ decisions : d.action # "persist"
  BY <1>2 DEF Asked
<1>8. Revision(items', i) # Revision(items, i)
  <2>1. Revision(items, i) \in Nat
    OBVIOUS
  <2> QED
    BY <1>4, <2>1
<1>9. /\ manifest' \in [ItemId -> BOOLEAN]
      /\ \A j \in Enqueued \ {i} : manifest'[j] = manifest[j]
  BY <1>1 DEF Shapes
<1>10. Current(items', i).state \notin Editable \cup Saving
  BY <1>4 DEF Editable, Saving, row
<1>11. Cards' /\ DecidedCards' /\ Savers' /\ Served' /\ Line' /\ Unwritten' /\ Down' /\ Silent
  BY <1>1, <1>2, <1>5, <1>6, <1>7, <1>8, <1>9, <1>10, CalmKeeps
<1>12. Batch' /\ Analyses' /\ Numbered'
  BY <1>1, <1>5, <1>6, BatchStays, AnalysesStay, NumberedStays
<1>13. Shapes' /\ Offers'
  BY <1>1, <1>4, <1>9 DEF Shapes, Offers, Ledgers
<1> QED
  BY <1>11, <1>12, <1>13

-----------------------------------------------------------------------------
(***************************************************************************)
(* The threads that save.                                                  *)
(***************************************************************************)

\* Only the card being saved changes, and it stays out of the window's work.
LEMMA SaverKeeps ==
  ASSUME SavesInv, NEW i \in Enqueued, Marked({i}),
         Current(items, i).state \in Editable \cup Saving,
         Current(items', i).state \notin Editable,
         UNCHANGED <<photoVars, fill, sched, inflight, helper>>
  PROVE  Offers' /\ Numbered' /\ Cards' /\ Batch' /\ Analyses'
<1> USE Numbers DEF SavesInv
<1>1. Moved({i}) /\ UNCHANGED <<candidate, manifest, deferred, seen>>
  BY DEF Marked, photoVars
<1>2. Current(items, i).state \notin {"preparing", "discarded", "analyzing"}
  BY DEF Editable, Saving
<1>3. \A j \in Enqueued \ {i} : Current(items', j) = Current(items, j)
  BY <1>1, Unmoved DEF Marked
<1>4. Cards'
  BY <1>1, <1>3 DEF Cards, Marked
<1>5. \A f \in inflight : f.item = i => f.rev # Revision(items, i)
  BY <1>2 DEF Analyses
<1>6. Batch' /\ Analyses' /\ Numbered'
  BY <1>1, <1>2, <1>5, BatchStays, AnalysesStay, NumberedStays DEF Marked
<1> QED
  BY <1>1, <1>4, <1>6 DEF Offers

\* Decisions keep naming what they name when the card being saved goes on.
LEMMA DecidedStay ==
  ASSUME SavesInv, NEW i \in Enqueued, Marked({i}), decisions' = decisions,
         Current(items', i).state \in Approved
  PROVE  DecidedCards'
<1> USE Numbers DEF SavesInv
<1>1. ASSUME NEW d \in decisions, d.action = "persist"
      PROVE  /\ d.item \in Enqueued' /\ d.rev \in 1..Revision(items', d.item)
             /\ items'[d.item][d.rev].state \in Approved
             /\ items'[d.item][d.rev].state \in Saving => d.rev = Revision(items', d.item)
  <2>1. /\ d.item \in Enqueued /\ d.rev \in 1..Revision(items, d.item)
        /\ items[d.item][d.rev].state \in Approved
        /\ items[d.item][d.rev].state \in Saving => d.rev = Revision(items, d.item)
    BY <1>1 DEF DecidedCards
  <2>2. d.item \in Enqueued' /\ Revision(items', d.item) = Revision(items, d.item)
    BY <2>1 DEF Marked
  <2>3. CASE d.item = i /\ d.rev = Revision(items, i)
    <3>1. Current(items', i) = items'[i][d.rev]
      BY <2>2, <2>3 DEF Current, Revision
    <3> QED
      BY <2>1, <2>2, <2>3, <3>1
  <2>4. CASE ~(d.item = i /\ d.rev = Revision(items, i))
    <3>1. items'[d.item][d.rev] = items[d.item][d.rev]
      BY <2>1, <2>4 DEF Marked, Moved
    <3> QED
      BY <2>1, <2>2, <3>1
  <2> QED
    BY <2>3, <2>4
<1> QED
  BY <1>1 DEF DecidedCards

Thread == [pc : {"idle", "decide", "leave"} \cup Serving, d : Decision \cup {None},
           outcome : {"none", "refused", "verified", "unverified"}]

\* A thread takes a step that changes no card and writes nothing.
LEMMA ThreadMoves ==
  ASSUME SavesInv, NEW t \in Persister, NEW row \in Thread,
         persist' = [persist EXCEPT ![t] = row],
         UNCHANGED <<items, decisions, photoVars, fill, sched, inflight, helper, writes,
                     config>>,
         helper # "down", writeQueue' \in Seq(Persister), Line',
         row.pc \in Serving <=> persist[t].pc \in Serving,
         row.pc \in Serving => row.d = persist[t].d,
         row.pc # "idle" => row.d \in Decision /\ row.d.action = "persist",
         row.pc \in {"submit", "queued", "saving"} =>
           persist[t].pc \in {"submit", "queued", "saving"}
  PROVE  SavesInv' /\ Silent
<1> USE Numbers DEF SavesInv
<1>1. UNCHANGED <<candidate, manifest, deferred, seen>>
  BY DEF photoVars
<1>2. /\ persist' \in [Persister -> Thread] /\ persist'[t] = row
      /\ \A u \in Persister \ {t} : persist'[u] = persist[u]
  BY DEF Shapes, Thread
<1>3. Enqueued' = Enqueued /\ Marked({}) /\ Moved({})
  BY NothingMarked DEF Marked
<1>4. Shapes'
  BY <1>1, <1>2 DEF Shapes, Thread
<1>5. Offers' /\ Cards' /\ DecidedCards' /\ Down' /\ Numbered'
  BY <1>1, <1>3, NumberedStays DEF Offers, Cards, DecidedCards, Down
<1>6. Batch' /\ Analyses'
  BY <1>1, <1>3, BatchStays, AnalysesStay
<1>7. /\ \A u \in Persister : persist'[u].pc \in Serving <=> persist[u].pc \in Serving
      /\ \A u \in Persister : persist'[u].pc \in Serving => persist'[u].d = persist[u].d
      /\ \A u \in Persister : persist'[u].pc # "idle" =>
           persist'[u].d \in Decision /\ persist'[u].d.action = "persist"
      /\ \A u \in Persister : persist'[u].pc \in {"submit", "queued", "saving"} =>
           persist[u].pc \in {"submit", "queued", "saving"} /\ persist'[u].d = persist[u].d
  <2>1. \A u \in Persister : persist[u].pc # "idle" =>
          persist[u].d \in Decision /\ persist[u].d.action = "persist"
    BY DEF Savers
  <2>2. {"submit", "queued", "saving"} \subseteq Serving
    BY DEF Serving
  <2> QED
    BY <1>2, <2>1, <2>2
<1>8. Savers'
  <2>1. ASSUME NEW u \in Persister, persist'[u].pc \in Serving
        PROVE  /\ persist'[u].d \in decisions' /\ persist'[u].d.item \in Enqueued'
               /\ persist'[u].d.rev = Revision(items', persist'[u].d.item)
               /\ Current(items', persist'[u].d.item).state \in Saving
               /\ \A v \in Persister :
                    persist'[v].pc \in Serving /\ persist'[v].d.item = persist'[u].d.item
                      => v = u
    <3>1. persist[u].pc \in Serving /\ persist'[u].d = persist[u].d
      BY <1>7, <2>1
    <3> QED
      BY <1>3, <1>7, <3>1 DEF Savers
  <2> QED
    BY <1>7, <2>1 DEF Savers
<1>9. Served'
  BY <1>3, <1>7 DEF Served
<1>10. Unwritten'
  <2>1. \A k \in CardKey : ~Decided(k[1], k[2])' => writes'[k] = 0
    BY DEF Unwritten, Decided
  <2>2. ASSUME NEW u \in Persister, NEW k \in CardKey,
               persist'[u].pc \in {"submit", "queued", "saving"},
               k[1] = persist'[u].d.item, k[2] = persist'[u].d.rev
        PROVE  writes'[k] = 0
    BY <1>7, <2>2 DEF Unwritten
  <2> QED
    BY <2>1, <2>2 DEF Unwritten
<1>11. Silent
  BY ApprovalKept DEF Silent
<1> QED
  BY <1>4, <1>5, <1>6, <1>8, <1>9, <1>10, <1>11

\* What the approval of a card revision depends on.
Standing(st) ==
  CASE st \in {"save_queued", "saving"} -> "approved"
    [] st = "verified" -> "verified"
    [] OTHER -> "unknown"

LEMMA ApprovalOf ==
  /\ Approval = [k \in CardKey |-> Approval[k]] /\ Approval' = [k \in CardKey |-> Approval'[k]]
  /\ \A k \in CardKey :
       /\ ~Decided(k[1], k[2]) => Approval[k] = "none"
       /\ Decided(k[1], k[2]) => Approval[k] = Standing(items[k[1]][k[2]].state)
       /\ ~Decided(k[1], k[2])' => Approval'[k] = "none"
       /\ Decided(k[1], k[2])' => Approval'[k] = Standing(items'[k[1]][k[2]].state)
<1> DEFINE Free(k) == \A d \in decisions : d.action = "persist" => <<d.item, d.rev>> # k
<1>1. ASSUME NEW k \in CardKey
      PROVE  /\ Free(k) <=> ~Decided(k[1], k[2])
             /\ Free(k)' <=> ~Decided(k[1], k[2])'
  <2>1. k = <<k[1], k[2]>>
    BY DEF CardKey
  <2> QED
    BY <2>1 DEF Decided
<1>2. /\ Approval = [k \in CardKey |->
           IF Free(k) THEN "none" ELSE Standing(items[k[1]][k[2]].state)]
      /\ Approval' = [k \in CardKey |->
           IF Free(k)' THEN "none" ELSE Standing(items'[k[1]][k[2]].state)]
  BY DEF Approval, Standing
<1> HIDE DEF Free
<1> QED
  BY <1>1, <1>2

\* Only the approval of the card that moves can change.
LEMMA OthersStand ==
  ASSUME SavesInv, NEW i \in Enqueued, Marked({i}), decisions \subseteq decisions',
         \A d \in decisions' \ decisions : d.item = i /\ d.rev = Revision(items, i)
  PROVE  \A k \in CardKey :
           ~(k[1] = i /\ k[2] = Revision(items, i)) => Approval'[k] = Approval[k]
<1> SUFFICES ASSUME NEW k \in CardKey, ~(k[1] = i /\ k[2] = Revision(items, i))
             PROVE  Approval'[k] = Approval[k]
  OBVIOUS
<1>1. Decided(k[1], k[2])' <=> Decided(k[1], k[2])
  BY DEF Decided
<1>2. ASSUME Decided(k[1], k[2])
      PROVE  items'[k[1]][k[2]] = items[k[1]][k[2]]
  <2>1. k[1] \in Enqueued /\ k[2] \in 1..Revision(items, k[1])
    BY <1>2 DEF SavesInv, DecidedCards, Decided
  <2> QED
    BY <2>1 DEF Marked, Moved
<1> QED
  BY <1>1, <1>2, ApprovalOf

\* The card being saved goes from one standing to another.
LEMMA OneStanding ==
  ASSUME SavesInv, NEW i \in Enqueued, NEW r, r = Revision(items, i), NEW st, Marked({i}),
         Current(items', i).state = st, decisions \subseteq decisions',
         \A d \in decisions' \ decisions : d.item = i /\ d.rev = r,
         \E d \in decisions' : d.action = "persist" /\ d.item = i /\ d.rev = r
  PROVE  /\ <<i, r>> \in CardKey => Approval' = [Approval EXCEPT ![<<i, r>>] = Standing(st)]
         /\ <<i, r>> \notin CardKey => Approval' = Approval
<1> DEFINE k == <<i, r>>
<1>1. ASSUME k \in CardKey
      PROVE  Approval'[k] = Standing(st)
  <2>1. Revision(items', i) = r /\ k[1] = i /\ k[2] = r
    BY DEF Marked
  <2>2. Current(items', i) = items'[k[1]][k[2]]
    BY <2>1 DEF Current, Revision
  <2>3. Decided(k[1], k[2])'
    BY <2>1 DEF Decided
  <2> HIDE DEF k
  <2>4. Approval'[k] = Standing(items'[k[1]][k[2]].state)
    BY <1>1, <2>3, ApprovalOf
  <2> QED
    BY <2>2, <2>4
<1>2. \A m \in CardKey : m # k => Approval'[m] = Approval[m]
  <2>1. \A m \in CardKey : m = <<m[1], m[2]>>
    BY DEF CardKey
  <2> QED
    BY <2>1, OthersStand
<1> HIDE DEF k
<1>3. Approval = [m \in CardKey |-> Approval[m]] /\ Approval' = [m \in CardKey |-> Approval'[m]]
  BY ApprovalOf
<1>4. ASSUME k \in CardKey
      PROVE  Approval' = [Approval EXCEPT ![k] = Standing(st)]
  <2> DEFINE a == Standing(st)
  <2>1. Approval'[k] = a
    BY <1>1, <1>4
  <2> HIDE DEF a
  <2>2. Approval' = [Approval EXCEPT ![k] = a]
    BY ONLY <1>2, <1>3, <1>4, <2>1
  <2> QED
    BY <2>2 DEF a
<1>5. ASSUME k \notin CardKey
      PROVE  Approval' = Approval
  BY <1>2, <1>3, <1>5
<1> QED
  BY <1>4, <1>5 DEF k

LEMMA ArriveSaves ==
  ASSUME SavesInv, NEW t \in Persister, NEW id \in DecisionId, NEW i \in Enqueued,
         NEW r \in DOMAIN items[i], PersistArrive(t, id, i, r)
  PROVE  SavesInv' /\ Silent
<1> USE Numbers DEF SavesInv
<1> DEFINE d   == [id |-> id, item |-> i, rev |-> r, action |-> "persist"]
           row == [pc |-> "decide", outcome |-> "none", d |-> d]
<1>1. d \in Decision /\ d.action = "persist"
  <2>1. i \in ItemId /\ r \in Nat
    <3>1. items[i] \in Seq(ItemRevision) /\ i \in ItemId
      BY Rows
    <3> QED
      BY <3>1, LenProperties
  <2> QED
    BY <2>1 DEF Decision, Actions
<1> HIDE DEF d
<1>2. row \in Thread /\ row.pc = "decide" /\ row.d = d
  BY <1>1 DEF Thread
<1>3. persist' = [persist EXCEPT ![t] = row] /\ persist[t].pc = "idle"
  BY DEF PersistArrive, d
<1>4. /\ UNCHANGED <<items, decisions, photoVars, fill, sched, inflight, helper, writes, config,
                     writeQueue>>
      /\ helper # "down"
  BY DEF PersistArrive, ledgerVars, threadVars, Command, Accepting
<1> HIDE DEF row
<1>5. writeQueue' \in Seq(Persister)
  BY <1>4 DEF Shapes
<1>6. Line'
  <2>1. \A k \in DOMAIN writeQueue : writeQueue[k] \in Persister \ {t}
    BY <1>3, ElementOfSeq DEF Line, Shapes
  <2> QED
    BY <1>3, <1>4, <2>1 DEF Line, Shapes
<1>7. "idle" \notin Serving /\ "decide" \notin Serving
  BY DEF Serving
<1> QED
  BY <1>1, <1>2, <1>3, <1>4, <1>5, <1>6, <1>7, ThreadMoves

LEMMA LeaveSaves ==
  ASSUME SavesInv, NEW t \in Persister, PersistLeave(t)
  PROVE  SavesInv' /\ Silent
<1> USE Numbers DEF SavesInv
<1> DEFINE row == NoPersist(persist[t].outcome)
<1>1. row \in Thread /\ row.pc = "idle"
  BY DEF NoPersist, Thread, Shapes
<1>2. persist' = [persist EXCEPT ![t] = row] /\ persist[t].pc = "leave"
  BY DEF PersistLeave
<1>3. /\ UNCHANGED <<items, decisions, photoVars, fill, sched, inflight, helper, writes, config,
                     writeQueue>>
      /\ helper # "down"
  BY <1>2, Alive DEF PersistLeave, ledgerVars
<1> HIDE DEF row
<1>4. writeQueue' \in Seq(Persister)
  BY <1>3 DEF Shapes
<1>5. Line'
  <2>1. \A k \in DOMAIN writeQueue : writeQueue[k] \in Persister \ {t}
    BY <1>2, ElementOfSeq DEF Line, Shapes
  <2> QED
    BY <1>2, <1>3, <2>1 DEF Line, Shapes
<1>6. "idle" \notin Serving /\ "leave" \notin Serving
  BY DEF Serving
<1> QED
  BY <1>1, <1>2, <1>3, <1>4, <1>5, <1>6, ThreadMoves

LEMMA SubmitSaves ==
  ASSUME SavesInv, NEW t \in Persister, PersistSubmit(t)
  PROVE  SavesInv' /\ Silent
<1> USE Numbers DEF SavesInv
<1>1. /\ UNCHANGED <<items, decisions, photoVars, fill, sched, inflight, helper, writes, config>>
      /\ persist[t].pc = "submit" /\ helper # "down"
  BY Alive DEF PersistSubmit, ledgerVars, threadVars
<1>2. persist[t] \in Thread /\ persist[t].d \in Decision /\ persist[t].d.action = "persist"
  BY <1>1 DEF Shapes, Thread, Savers
<1>3. \A k \in DOMAIN writeQueue : writeQueue[k] \in Persister \ {t}
  BY <1>1, ElementOfSeq DEF Line, Shapes
<1>4. /\ {"submit", "queued", "settle"} \subseteq Serving
      /\ writeQueue \in Seq(Persister) /\ persist \in [Persister -> Thread]
  BY DEF Serving, Shapes, Thread
<1>5. CASE /\ persist' = [persist EXCEPT ![t].pc = "queued"]
           /\ writeQueue' = Append(writeQueue, t)
  <2> DEFINE row == [persist[t] EXCEPT !.pc = "queued"]
  <2>1. row \in Thread /\ row.pc = "queued" /\ row.d = persist[t].d
    BY <1>2, <1>4 DEF Thread
  <2>2. persist' = [persist EXCEPT ![t] = row]
    BY <1>5
  <2> HIDE DEF row
  <2>3. /\ writeQueue' \in Seq(Persister) /\ Len(writeQueue) \in Nat
        /\ DOMAIN writeQueue = 1..Len(writeQueue)
        /\ DOMAIN writeQueue' = 1..(Len(writeQueue) + 1)
        /\ writeQueue'[Len(writeQueue) + 1] = t
        /\ \A k \in 1..Len(writeQueue) : writeQueue'[k] = writeQueue[k]
    BY <1>4, <1>5, AppendProperties, LenProperties
  <2>4. Line'
    <3>1. \A k \in DOMAIN writeQueue' :
            k = Len(writeQueue) + 1 \/ k \in DOMAIN writeQueue
      BY <2>3
    <3>2. Len(writeQueue) + 1 \notin DOMAIN writeQueue
      BY <2>3
    <3>3. /\ persist'[t].pc = "queued"
          /\ \A u \in Persister \ {t} : persist'[u] = persist[u]
      BY <1>4, <2>1, <2>2
    <3>4. \A k \in DOMAIN writeQueue' : persist'[writeQueue'[k]].pc = "queued"
      BY <1>3, <2>3, <3>1, <3>3 DEF Line
    <3>5. \A k, l \in DOMAIN writeQueue' : l # k => writeQueue'[l] # writeQueue'[k]
      BY <1>3, <2>3, <3>1, <3>2 DEF Line
    <3> QED
      BY <3>4, <3>5 DEF Line
  <2> QED
    BY <1>1, <1>2, <1>4, <2>1, <2>2, <2>3, <2>4, ThreadMoves
<1>6. CASE /\ persist' = [persist EXCEPT ![t].pc = "settle", ![t].outcome = "unverified"]
           /\ writeQueue' = writeQueue
  <2> DEFINE row == [persist[t] EXCEPT !.pc = "settle", !.outcome = "unverified"]
  <2>1. row \in Thread /\ row.pc = "settle" /\ row.d = persist[t].d
    BY <1>2, <1>4 DEF Thread
  <2>2. persist' = [persist EXCEPT ![t] = row]
    BY <1>4, <1>6
  <2> HIDE DEF row
  <2>3. Line'
    BY <1>3, <1>4, <1>6, <2>2 DEF Line
  <2>4. writeQueue' \in Seq(Persister)
    BY <1>4, <1>6
  <2> QED
    BY <1>1, <1>2, <1>4, <2>1, <2>2, <2>3, <2>4, ThreadMoves
<1> QED
  BY <1>5, <1>6 DEF PersistSubmit

LEMMA ReturnSaves ==
  ASSUME SavesInv, NEW t \in Persister, WriteReturn(t)
  PROVE  SavesInv' /\ Silent
<1> USE Numbers DEF SavesInv
<1>1. /\ UNCHANGED <<items, decisions, photoVars, fill, sched, inflight, helper, writes, config,
                     writeQueue>>
      /\ persist[t].pc \in {"saving", "wrote"} /\ helper # "down"
  BY Alive DEF WriteReturn, Writing, ledgerVars, threadVars
<1>2. persist[t] \in Thread /\ persist[t].d \in Decision /\ persist[t].d.action = "persist"
  BY <1>1 DEF Shapes, Thread, Savers
<1>3. \A k \in DOMAIN writeQueue : writeQueue[k] \in Persister \ {t}
  BY <1>1, ElementOfSeq DEF Line, Shapes
<1>4. /\ {"saving", "wrote", "settle"} \subseteq Serving
      /\ writeQueue \in Seq(Persister) /\ persist \in [Persister -> Thread]
  BY DEF Serving, Shapes, Thread
<1>5. PICK out \in WriteResult :
        persist' = [persist EXCEPT ![t].pc = "settle", ![t].outcome = out]
  BY DEF WriteReturn
<1> DEFINE row == [persist[t] EXCEPT !.pc = "settle", !.outcome = out]
<1>6. row \in Thread /\ row.pc = "settle" /\ row.d = persist[t].d
  BY <1>2, <1>4, CoordinatorConstants DEF Thread
<1>7. persist' = [persist EXCEPT ![t] = row]
  BY <1>4, <1>5
<1> HIDE DEF row
<1>8. Line'
  BY <1>1, <1>3, <1>4, <1>7 DEF Line
<1> QED
  BY <1>1, <1>2, <1>4, <1>6, <1>7, <1>8, ThreadMoves

LEMMA WriteSaves ==
  ASSUME SavesInv, NEW t \in Persister, WritePhotos(t)
  PROVE  SavesInv' /\ Reviewed
<1> USE Numbers DEF SavesInv
<1> DEFINE key == <<persist[t].d.item, persist[t].d.rev>>
           row == [persist[t] EXCEPT !.pc = "wrote"]
<1>1. /\ UNCHANGED <<items, decisions, photoVars, fill, sched, inflight, helper, config,
                     writeQueue>>
      /\ persist[t].pc = "saving" /\ helper # "down"
      /\ writes' = [writes EXCEPT ![key] = @ + 1]
  BY Alive DEF WritePhotos, ledgerVars, threadVars
<1>2. {"submit", "queued", "saving", "wrote"} \subseteq Serving
  BY DEF Serving
<1>3. /\ persist[t] \in Thread /\ persist[t].d \in Decision /\ persist[t].d.action = "persist"
      /\ persist[t].d \in decisions
  BY <1>1, <1>2 DEF Shapes, Thread, Savers
<1>4. \A k \in DOMAIN writeQueue : writeQueue[k] \in Persister \ {t}
  BY <1>1, ElementOfSeq DEF Line, Shapes
<1>5. persist \in [Persister -> Thread]
  BY DEF Shapes, Thread
<1>6. row \in Thread /\ row.pc = "wrote" /\ row.d = persist[t].d
  BY <1>2, <1>3 DEF Thread
<1>7. persist' = [persist EXCEPT ![t] = row]
  BY <1>5 DEF WritePhotos
<1> HIDE DEF row
<1>8. /\ persist'[t] = row /\ persist' \in [Persister -> Thread]
      /\ \A u \in Persister \ {t} : persist'[u] = persist[u]
  BY <1>5, <1>6, <1>7
<1>9. writes' \in [CardKey -> Nat] /\ \A k \in CardKey \ {key} : writes'[k] = writes[k]
  <2> HIDE DEF key
  <2>1. writes \in [CardKey -> Nat] /\ writes' = [writes EXCEPT ![key] = @ + 1]
    BY <1>1 DEF Shapes
  <2>2. writes' = [k \in CardKey |-> IF k = key THEN writes[key] + 1 ELSE writes[k]]
    BY ONLY <2>1
  <2>3. \A k \in CardKey : writes[k] \in Nat
    BY <2>1
  <2> QED
    BY ONLY <2>2, <2>3
<1>10. Marked({}) /\ Moved({}) /\ Enqueued' = Enqueued
  BY <1>1, NothingMarked DEF Marked
<1>11. UNCHANGED <<candidate, manifest, deferred, seen>>
  BY <1>1 DEF photoVars
<1>12. Shapes'
  BY <1>1, <1>8, <1>9, <1>11 DEF Shapes, Thread
<1>13. /\ Offers' /\ Cards' /\ DecidedCards' /\ Down' /\ Numbered' /\ Batch' /\ Analyses'
  BY <1>1, <1>10, <1>11, NumberedStays, BatchStays, AnalysesStay
  DEF Offers, Cards, DecidedCards, Down
<1>14. /\ \A u \in Persister : persist'[u].pc \in Serving <=> persist[u].pc \in Serving
       /\ \A u \in Persister : persist'[u].d = persist[u].d
       /\ \A u \in Persister : persist'[u].pc # "idle" => persist[u].pc # "idle"
  BY <1>1, <1>2, <1>6, <1>8
<1>15. Savers' /\ Served'
  BY <1>1, <1>10, <1>14 DEF Savers, Served
<1>16. Line'
  BY <1>1, <1>4, <1>8 DEF Line
<1>17. Unwritten'
  <2>1. ASSUME NEW k \in CardKey, ~Decided(k[1], k[2])'
        PROVE  writes'[k] = 0
    <3>1. ~Decided(k[1], k[2])
      BY <1>1, <2>1 DEF Decided
    <3>2. k # key
      BY <1>3, <3>1 DEF Decided
    <3> QED
      BY <1>9, <3>1, <3>2 DEF Unwritten
  <2>2. ASSUME NEW u \in Persister, NEW k \in CardKey,
               persist'[u].pc \in {"submit", "queued", "saving"},
               k[1] = persist'[u].d.item, k[2] = persist'[u].d.rev
        PROVE  writes'[k] = 0
    <3>1. u # t /\ persist'[u] = persist[u]
      BY <1>6, <1>8, <2>2
    <3>2. persist[u].d.item # persist[t].d.item
      BY <1>1, <1>2, <2>2, <3>1 DEF Savers
    <3>3. k # key
      BY <2>2, <3>1, <3>2
    <3> HIDE DEF key
    <3> QED
      BY <1>9, <2>2, <3>1, <3>3 DEF Unwritten
  <2> QED
    BY <2>1, <2>2 DEF Unwritten
<1>18. Approval' = Approval
  BY <1>1, ApprovalKept
<1>19. ASSUME key \notin CardKey
       PROVE  Reviewed
  <2>1. writes' = writes
    <3> HIDE DEF key
    <3>1. writes \in [CardKey -> Nat] /\ writes' = [writes EXCEPT ![key] = @ + 1]
      BY <1>1 DEF Shapes
    <3> QED
      BY ONLY <1>19, <3>1
  <2> QED
    BY <1>18, <2>1 DEF Reviewed, Silent
<1>20. ASSUME key \in CardKey
       PROVE  Reviewed
  <2>1. Decided(key[1], key[2])
    BY <1>3 DEF Decided
  <2>2. items[key[1]][key[2]].state \in Saving
    BY <1>1, <1>2 DEF Savers, Current, Revision
  <2>3. Approval[key] = "approved" /\ writes[key] = 0
    BY <1>1, <1>20, <2>1, <2>2, ApprovalOf DEF Standing, Saving, Unwritten
  <2>4. writes' = [writes EXCEPT ![key] = 1]
    BY <1>1, <2>3
  <2> HIDE DEF key
  <2> QED
    BY <1>18, <1>20, <2>3, <2>4 DEF Reviewed, Review!ReviewNext, Review!Write
<1> QED
  BY <1>12, <1>13, <1>15, <1>16, <1>17, <1>19, <1>20

LEMMA SettleSaves ==
  ASSUME SavesInv, NEW t \in Persister, PersistSettle(t)
  PROVE  SavesInv' /\ Reviewed
<1> USE Numbers DEF SavesInv
<1> DEFINE i   == persist[t].d.item
           st  == IF persist[t].outcome = "verified" THEN "verified" ELSE "uncertain"
           row == [persist[t] EXCEPT !.pc = "leave"]
<1>1. /\ UNCHANGED <<decisions, photoVars, fill, sched, inflight, helper, config,
                     writeQueue, writes>>
      /\ persist[t].pc = "settle" /\ helper # "down"
      /\ items' = WithCheckpoint(items, i, st, None)
  BY Alive DEF PersistSettle, threadVars
<1>2. /\ persist \in [Persister -> Thread] /\ "settle" \in Serving /\ "leave" \notin Serving
      /\ "settle" \notin {"submit", "queued", "saving"}
  BY DEF Shapes, Thread, Serving
<1>3. i \in Enqueued /\ Current(items, i).state \in Saving
  BY <1>1, <1>2 DEF Savers
<1>4. row \in Thread /\ row.pc = "leave" /\ row.d = persist[t].d
  BY <1>2 DEF Thread
<1>5. persist' = [persist EXCEPT ![t] = row]
  BY <1>2 DEF PersistSettle
<1> HIDE DEF row
<1>6. /\ persist'[t] = row /\ persist' \in [Persister -> Thread]
      /\ \A u \in Persister \ {t} : persist'[u] = persist[u]
  BY <1>2, <1>4, <1>5
<1>7. st \in {"verified", "uncertain"}
  OBVIOUS
<1> HIDE DEF st
<1>8. /\ Marked({i}) /\ Moved({i}) /\ Current(items', i).state = st
  BY <1>1, <1>3, <1>7, OneMarked DEF Marked, ItemStates, None
<1>9. st \notin Saving \cup Editable /\ st \in Approved
  BY <1>7 DEF Saving, Editable, Approved
<1> HIDE DEF i
<1>10. Offers' /\ Numbered' /\ Cards' /\ Batch' /\ Analyses' /\ DecidedCards'
  BY <1>1, <1>3, <1>8, <1>9, SaverKeeps, DecidedStay
<1>11. Shapes' /\ Down'
  <2>1. UNCHANGED <<candidate, manifest>> /\ items' \in [ItemId -> Seq(ItemRevision)]
    BY <1>1, <1>8 DEF photoVars, Moved, Ledgers
  <2> QED
    BY <1>1, <1>6, <2>1 DEF Shapes, Thread, Down
<1>12. \A j \in Enqueued \ {i} :
         Current(items', j) = Current(items, j) /\ Revision(items', j) = Revision(items, j)
  BY <1>8, Unmoved DEF Marked
<1>13. \A u \in Persister : persist'[u].pc \in Serving =>
         u # t /\ persist'[u] = persist[u] /\ persist[u].d.item # i
  BY <1>1, <1>2, <1>4, <1>6 DEF Savers, i
<1>14. Savers'
  <2>1. \A u \in Persister : persist'[u].pc # "idle" =>
          persist'[u].d \in Decision /\ persist'[u].d.action = "persist"
    BY <1>1, <1>4, <1>6 DEF Savers
  <2>2. ASSUME NEW u \in Persister, persist'[u].pc \in Serving
        PROVE  /\ persist'[u].d \in decisions' /\ persist'[u].d.item \in Enqueued'
               /\ persist'[u].d.rev = Revision(items', persist'[u].d.item)
               /\ Current(items', persist'[u].d.item).state \in Saving
               /\ \A v \in Persister :
                    persist'[v].pc \in Serving /\ persist'[v].d.item = persist'[u].d.item
                      => v = u
    <3>1. u # t /\ persist'[u] = persist[u] /\ persist[u].d.item # i
      BY <1>13, <2>2
    <3> QED
      BY <1>1, <1>8, <1>12, <1>13, <2>2, <3>1 DEF Savers, Marked
  <2> QED
    BY <2>1, <2>2 DEF Savers
<1>15. Served'
  <2>1. ASSUME NEW j \in Enqueued', Current(items', j).state \in Saving
        PROVE  \E u \in Persister : persist'[u].pc \in Serving /\ persist'[u].d.item = j
    <3>1. j # i /\ j \in Enqueued /\ Current(items, j).state \in Saving
      BY <1>8, <1>9, <1>12, <2>1 DEF Marked
    <3>2. PICK u \in Persister : persist[u].pc \in Serving /\ persist[u].d.item = j
      BY <1>1, <3>1 DEF Served
    <3> QED
      BY <1>6, <3>1, <3>2 DEF i
  <2> QED
    BY <2>1 DEF Served
<1>16. Line'
  <2>1. \A k \in DOMAIN writeQueue : writeQueue[k] \in Persister \ {t}
    BY <1>1, ElementOfSeq DEF Line, Shapes
  <2> QED
    BY <1>1, <1>6, <2>1 DEF Line
<1>17. Unwritten'
  <2>1. \A u \in Persister : persist'[u].pc \in {"submit", "queued", "saving"} =>
          persist'[u] = persist[u]
    BY <1>4, <1>6
  <2> QED
    BY <1>1, <2>1 DEF Unwritten, Decided
<1>18. Reviewed
  <2> DEFINE k == <<i, Revision(items, i)>>
  <2>1. /\ persist[t].d \in decisions /\ persist[t].d.action = "persist"
        /\ persist[t].d.item = i /\ persist[t].d.rev = Revision(items, i)
    BY <1>1, <1>2 DEF Savers, i
  <2>2. Decided(i, Revision(items, i))
    BY <2>1 DEF Decided
  <2>3. /\ k \in CardKey => Approval' = [Approval EXCEPT ![k] = Standing(st)]
        /\ k \notin CardKey => Approval' = Approval
    BY <1>1, <1>3, <1>8, <2>1, OneStanding
  <2>4. k \in CardKey => Approval[k] = "approved"
    <3>1. items[k[1]][k[2]].state \in Saving
      BY <1>3 DEF Current, Revision
    <3> QED
      BY <2>2, <3>1, ApprovalOf DEF Standing, Saving
  <2>5. Approval = [m \in CardKey |-> Approval[m]] /\ writes' = writes
    BY <1>1, ApprovalOf
  <2> HIDE DEF k
  <2>6. CASE k \notin CardKey
    BY <2>3, <2>5, <2>6 DEF Reviewed, Silent
  <2>7. CASE k \in CardKey /\ st = "verified"
    <3>1. Approval' = [Approval EXCEPT ![k] = "verified"]
      BY <2>3, <2>7 DEF Standing
    <3> QED
      BY <2>4, <2>5, <2>7, <3>1 DEF Reviewed, Review!ReviewNext, Review!Settle
  <2>8. CASE k \in CardKey /\ st = "uncertain"
    <3>1. Approval' = [Approval EXCEPT ![k] = "unknown"]
      BY <2>3, <2>8 DEF Standing
    <3>2. Approval' = [m \in CardKey |-> IF m \in {k} THEN "unknown" ELSE Approval[m]]
      BY <2>5, <3>1
    <3>3. Review!GiveUp({k})
      BY <2>4, <2>5, <2>8, <3>2 DEF Review!GiveUp
    <3>4. {k} \in SUBSET CardKey
      BY <2>8
    <3> QED
      BY <3>3, <3>4 DEF Reviewed, Review!ReviewNext
  <2> QED
    BY <1>7, <2>6, <2>7, <2>8
<1> QED
  BY <1>10, <1>11, <1>14, <1>15, <1>16, <1>17, <1>18

LEMMA BeginSaves ==
  ASSUME SavesInv, NEW t \in Persister, WriteBegin(t)
  PROVE  SavesInv' /\ Reviewed
<1> USE Numbers DEF SavesInv
<1> DEFINE i   == persist[t].d.item
           row == [persist[t] EXCEPT !.pc = "saving"]
<1>1. /\ UNCHANGED <<decisions, photoVars, fill, sched, inflight, helper, config, writes>>
      /\ items' = WithCheckpoint(items, i, "saving", None)
      /\ writeQueue # <<>> /\ t = Head(writeQueue) /\ writeQueue' = Tail(writeQueue)
  BY DEF WriteBegin, SavingState, threadVars
<1>2. /\ persist \in [Persister -> Thread] /\ {"queued", "saving"} \subseteq Serving
      /\ writeQueue \in Seq(Persister)
  BY DEF Shapes, Thread, Serving
<1>3. /\ Len(writeQueue) \in Nat /\ DOMAIN writeQueue = 1..Len(writeQueue)
      /\ 1 \in DOMAIN writeQueue /\ t = writeQueue[1]
      /\ writeQueue' \in Seq(Persister) /\ DOMAIN writeQueue' = 1..(Len(writeQueue) - 1)
      /\ \A k \in 1..(Len(writeQueue) - 1) : writeQueue'[k] = writeQueue[k + 1]
  BY <1>1, <1>2, HeadTailProperties, LenProperties
<1>4. persist[t].pc = "queued" /\ helper # "down"
  BY <1>3, Alive DEF Line
<1>5. i \in Enqueued /\ Current(items, i).state \in Saving
  BY <1>2, <1>4 DEF Savers
<1>6. row \in Thread /\ row.pc = "saving" /\ row.d = persist[t].d
  BY <1>2, SMTT(60) DEF Thread
<1>7. persist' = [persist EXCEPT ![t] = row]
  BY <1>2 DEF WriteBegin
<1> HIDE DEF row
<1>8. /\ persist'[t] = row /\ persist' \in [Persister -> Thread]
      /\ \A u \in Persister \ {t} : persist'[u] = persist[u]
  BY <1>2, <1>6, <1>7
<1>9. /\ Marked({i}) /\ Moved({i}) /\ Current(items', i).state = "saving"
  BY <1>1, <1>5, OneMarked, ZenonT(60) DEF Marked, ItemStates, None
<1>10. "saving" \notin Editable /\ "saving" \in Approved /\ "saving" \in Saving
  BY DEF Saving, Editable, Approved
<1> HIDE DEF i
<1>11. Offers' /\ Numbered' /\ Cards' /\ Batch' /\ Analyses' /\ DecidedCards'
  BY <1>1, <1>5, <1>9, <1>10, SaverKeeps, DecidedStay
<1>12. Shapes' /\ Down'
  <2>1. UNCHANGED <<candidate, manifest>> /\ items' \in [ItemId -> Seq(ItemRevision)]
    BY <1>1, <1>9 DEF photoVars, Moved, Ledgers
  <2> QED
    BY <1>1, <1>3, <1>4, <1>8, <2>1 DEF Shapes, Thread, Down
<1>13. \A j \in Enqueued : /\ Revision(items', j) = Revision(items, j)
                           /\ Current(items', j).state \in Saving
                                <=> Current(items, j).state \in Saving
  BY <1>5, <1>9, <1>10, Unmoved DEF Marked
<1>14. \A u \in Persister :
         /\ persist'[u].pc \in Serving <=> persist[u].pc \in Serving
         /\ persist'[u].d = persist[u].d
         /\ persist'[u].pc # "idle" => persist[u].pc # "idle"
         /\ persist'[u].pc \in {"submit", "queued", "saving"} =>
              persist[u].pc \in {"submit", "queued", "saving"}
  BY <1>2, <1>4, <1>6, <1>8
<1>15. Savers' /\ Served'
  BY <1>1, <1>9, <1>13, <1>14 DEF Savers, Served, Marked
<1>16. Line'
  <2>1. \A k \in DOMAIN writeQueue' :
          /\ k + 1 \in DOMAIN writeQueue /\ k + 1 # 1 /\ writeQueue'[k] = writeQueue[k + 1]
    BY <1>3
  <2>2. \A k, l \in DOMAIN writeQueue' : k + 1 = l + 1 => k = l
    BY <1>3
  <2>3. \A k \in DOMAIN writeQueue : k # 1 => writeQueue[k] \in Persister \ {t}
    BY <1>2, <1>3, ElementOfSeq DEF Line
  <2>4. \A k, l \in DOMAIN writeQueue' : l # k => writeQueue'[l] # writeQueue'[k]
    BY <2>1, <2>2 DEF Line
  <2>5. \A k \in DOMAIN writeQueue' : persist'[writeQueue'[k]].pc = "queued"
    BY <1>8, <2>1, <2>3 DEF Line
  <2> QED
    BY <2>4, <2>5 DEF Line
<1>17. Unwritten'
  BY <1>1, <1>14 DEF Unwritten, Decided
<1>18. Approval' = Approval
  <2>1. ASSUME NEW d \in decisions, d.action = "persist"
        PROVE  /\ items'[d.item][d.rev].state \in Saving
                    <=> items[d.item][d.rev].state \in Saving
               /\ items'[d.item][d.rev].state = "verified"
                    <=> items[d.item][d.rev].state = "verified"
    <3>1. d.item \in Enqueued /\ d.rev \in 1..Revision(items, d.item)
      BY <2>1 DEF DecidedCards
    <3>2. CASE d.item = i /\ d.rev = Revision(items, i)
      <4>1. /\ items[d.item][d.rev] = Current(items, i)
            /\ items'[d.item][d.rev] = Current(items', i)
        BY <1>13, <3>1, <3>2 DEF Current, Revision
      <4> QED
        BY <1>5, <1>9, <1>10, <4>1 DEF Saving
    <3>3. CASE ~(d.item = i /\ d.rev = Revision(items, i))
      BY <1>9, <3>1, <3>3 DEF Moved
    <3> QED
      BY <3>2, <3>3
  <2> QED
    BY <1>1, <2>1, ApprovalKept
<1> QED
  BY <1>1, <1>11, <1>12, <1>15, <1>16, <1>17, <1>18 DEF Reviewed, Silent

LEMMA DecideSaves ==
  ASSUME SavesInv, NEW t \in Persister, PersistDecide(t)
  PROVE  SavesInv' /\ Reviewed
<1> USE Numbers DEF SavesInv
<1> DEFINE d == persist[t].d
           i == d.item
<1>1. /\ UNCHANGED <<photoVars, fill, sched, inflight, helper, config, writes, writeQueue>>
      /\ persist[t].pc = "decide" /\ helper # "down"
  BY Alive DEF PersistDecide, threadVars
<1>2. /\ persist \in [Persister -> Thread] /\ d \in Decision /\ d.action = "persist"
      /\ "submit" \in Serving /\ "decide" \notin Serving /\ "leave" \notin Serving
  BY <1>1 DEF Shapes, Thread, Serving, Savers
<1>3. \A k \in DOMAIN writeQueue : writeQueue[k] \in Persister \ {t}
  BY <1>1, ElementOfSeq DEF Line, Shapes
<1>4. writeQueue' \in Seq(Persister)
  BY <1>1 DEF Shapes
<1>5. CASE /\ persist' = [persist EXCEPT ![t].pc = "leave", ![t].outcome = "refused"]
           /\ UNCHANGED <<items, decisions>>
  <2> DEFINE row == [persist[t] EXCEPT !.pc = "leave", !.outcome = "refused"]
  <2>1. row \in Thread /\ row.pc = "leave" /\ row.d = d
    BY <1>2 DEF Thread
  <2>2. persist' = [persist EXCEPT ![t] = row]
    BY <1>2, <1>5
  <2> HIDE DEF row
  <2>3. Line'
    BY <1>1, <1>2, <1>3, <2>2 DEF Line
  <2>4. /\ row.pc \notin Serving \cup {"submit", "queued", "saving"}
        /\ persist[t].pc \notin Serving
        /\ row.d \in Decision /\ row.d.action = "persist"
    BY <1>1, <1>2, <2>1
  <2> HIDE DEF d
  <2> QED
    BY <1>1, <1>4, <1>5, <2>1, <2>2, <2>3, <2>4, ThreadMoves DEF Reviewed
<1>6. CASE /\ Admissible(items, decisions, d) /\ Decide(d)
           /\ persist' = IF manifest[i]
                         THEN [persist EXCEPT ![t].pc = "submit"]
                         ELSE [persist EXCEPT ![t].pc = "leave", ![t].outcome = "refused"]
  <2> DEFINE row == [persist[t] EXCEPT !.pc = "submit"]
  <2>1. /\ i \in Enqueued /\ d.rev = Revision(items, i)
        /\ Current(items, i).state \in Editable
    BY <1>2, <1>6 DEF Admissible, IsCurrent, AllowedStates, Editable, Enqueued, Decision
  <2>2. manifest[i]
    BY <1>1, <2>1 DEF Cards
  <2>3. row \in Thread /\ row.pc = "submit" /\ row.d = d
    BY <1>2 DEF Thread
  <2>4. persist' = [persist EXCEPT ![t] = row]
    BY <1>2, <1>6, <2>2
  <2> HIDE DEF row
  <2>5. /\ persist'[t] = row /\ persist' \in [Persister -> Thread]
        /\ \A u \in Persister \ {t} : persist'[u] = persist[u]
    BY <1>2, <2>3, <2>4
  <2>6. items' = WithCheckpoint(items, i, "save_queued", NoRun) /\ decisions' = decisions \cup {d}
    BY <1>2, <1>6 DEF Decide, WithDecision
  <2>7. /\ Marked({i}) /\ Moved({i}) /\ Current(items', i).state = "save_queued"
    BY <2>1, <2>6, OneMarked DEF Marked, ItemStates
  <2>8. /\ "save_queued" \notin Editable /\ "save_queued" \in Approved
        /\ "save_queued" \in Saving /\ Editable \cap Approved = {}
        /\ Editable \cap Saving = {}
    BY DEF Saving, Editable, Approved
  <2>9. \A e \in decisions : e.action = "persist" => ~(e.item = i /\ e.rev = Revision(items, i))
    BY <2>1, <2>8 DEF DecidedCards
  <2>10. \A u \in Persister : persist[u].pc \in Serving => persist[u].d.item # i
    BY <2>1, <2>8 DEF Savers
  <2> HIDE DEF d, i
  <2>11. Offers' /\ Numbered' /\ Cards' /\ Batch' /\ Analyses'
    BY <1>1, <2>1, <2>7, <2>8, SaverKeeps
  <2>12. Shapes' /\ Down'
    <3>1. UNCHANGED <<candidate, manifest>> /\ items' \in [ItemId -> Seq(ItemRevision)]
      BY <1>1, <2>7 DEF photoVars, Moved, Ledgers
    <3> QED
      BY <1>1, <2>5, <3>1 DEF Shapes, Thread, Down
  <2>13. \A j \in Enqueued : /\ Revision(items', j) = Revision(items, j)
                             /\ j # i => Current(items', j) = Current(items, j)
    BY <2>7, Unmoved DEF Marked
  <2>14. DecidedCards'
    <3>1. ASSUME NEW e \in decisions', e.action = "persist"
          PROVE  /\ e.item \in Enqueued' /\ e.rev \in 1..Revision(items', e.item)
                 /\ items'[e.item][e.rev].state \in Approved
                 /\ items'[e.item][e.rev].state \in Saving => e.rev = Revision(items', e.item)
      <4>1. CASE e = d
        <5>1. e.item = i /\ e.rev = Revision(items', i) /\ e.rev \in 1..Revision(items', i)
          BY <2>1, <2>13, <4>1 DEF i
        <5>2. items'[e.item][e.rev] = Current(items', i)
          BY <5>1 DEF Current, Revision
        <5> QED
          BY <2>1, <2>7, <2>8, <5>1, <5>2 DEF Marked
      <4>2. CASE e \in decisions
        <5>1. /\ e.item \in Enqueued /\ e.rev \in 1..Revision(items, e.item)
              /\ items[e.item][e.rev].state \in Approved
              /\ items[e.item][e.rev].state \in Saving => e.rev = Revision(items, e.item)
          BY <3>1, <4>2 DEF DecidedCards
        <5>2. items'[e.item][e.rev] = items[e.item][e.rev]
          BY <2>7, <2>9, <3>1, <4>2, <5>1 DEF Moved
        <5> QED
          BY <2>7, <2>13, <5>1, <5>2 DEF Marked
      <4> QED
        BY <2>6, <4>1, <4>2
    <3> QED
      BY <3>1 DEF DecidedCards
  <2>15. Savers'
    <3>1. \A u \in Persister : persist'[u].pc # "idle" =>
            persist'[u].d \in Decision /\ persist'[u].d.action = "persist"
      BY <1>2, <2>3, <2>5 DEF Savers
    <3>2. ASSUME NEW u \in Persister, persist'[u].pc \in Serving
          PROVE  /\ persist'[u].d \in decisions' /\ persist'[u].d.item \in Enqueued'
                 /\ persist'[u].d.rev = Revision(items', persist'[u].d.item)
                 /\ Current(items', persist'[u].d.item).state \in Saving
                 /\ \A v \in Persister :
                      persist'[v].pc \in Serving /\ persist'[v].d.item = persist'[u].d.item
                        => v = u
      <4>1. CASE u = t
        BY <2>1, <2>3, <2>5, <2>6, <2>7, <2>8, <2>10, <2>13, <4>1 DEF Marked, i
      <4>2. CASE u # t
        <5>1. persist'[u] = persist[u] /\ persist[u].d.item # i
          BY <2>5, <2>10, <3>2, <4>2
        <5> QED
          BY <2>3, <2>5, <2>6, <2>7, <2>13, <3>2, <5>1 DEF Savers, Marked, i
      <4> QED
        BY <4>1, <4>2
    <3> QED
      BY <3>1, <3>2 DEF Savers
  <2>16. Served'
    <3>1. ASSUME NEW j \in Enqueued', Current(items', j).state \in Saving
          PROVE  \E u \in Persister : persist'[u].pc \in Serving /\ persist'[u].d.item = j
      <4>1. CASE j = i
        BY <1>2, <2>3, <2>5, <4>1 DEF i
      <4>2. CASE j # i
        <5>1. j \in Enqueued /\ Current(items, j).state \in Saving
          BY <2>7, <2>13, <3>1, <4>2 DEF Marked
        <5>2. PICK u \in Persister : persist[u].pc \in Serving /\ persist[u].d.item = j
          BY <1>1, <5>1 DEF Served
        <5>3. u # t
          BY <1>1, <1>2, <5>2
        <5> QED
          BY <2>5, <5>2, <5>3
      <4> QED
        BY <4>1, <4>2
    <3> QED
      BY <3>1 DEF Served
  <2>17. Line'
    BY <1>1, <1>3, <2>5 DEF Line
  <2>18. Unwritten'
    <3>1. ~Decided(i, d.rev)
      BY <2>1, <2>9 DEF Decided
    <3>2. \A k \in CardKey : ~Decided(k[1], k[2])' => writes'[k] = 0
      BY <1>1, <2>6 DEF Unwritten, Decided
    <3>3. ASSUME NEW u \in Persister, NEW k \in CardKey,
                 persist'[u].pc \in {"submit", "queued", "saving"},
                 k[1] = persist'[u].d.item, k[2] = persist'[u].d.rev
          PROVE  writes'[k] = 0
      <4>1. CASE u = t
        BY <1>1, <2>3, <2>5, <3>1, <3>3, <4>1 DEF Unwritten, i
      <4>2. CASE u # t
        BY <1>1, <2>5, <3>3, <4>2 DEF Unwritten
      <4> QED
        BY <4>1, <4>2
    <3> QED
      BY <3>2, <3>3 DEF Unwritten
  <2>19. Reviewed
    <3> DEFINE k == <<i, Revision(items, i)>>
    <3>1. /\ ~Decided(i, Revision(items, i))
          /\ \E e \in decisions' : /\ e.action = "persist"
                                   /\ e.item = i /\ e.rev = Revision(items, i)
      <4>1. ~Decided(i, Revision(items, i))
        BY <2>9 DEF Decided
      <4>2. d \in decisions' /\ d.action = "persist" /\ d.item = i /\ d.rev = Revision(items, i)
        BY <1>2, <2>1, <2>6 DEF i
      <4> QED
        BY <4>1, <4>2
    <3>2. \A e \in decisions' \ decisions : e.item = i /\ e.rev = Revision(items, i)
      BY <2>1, <2>6 DEF i
    <3>3. /\ k \in CardKey => Approval' = [Approval EXCEPT ![k] = Standing("save_queued")]
          /\ k \notin CardKey => Approval' = Approval
      BY <2>1, <2>6, <2>7, <3>1, <3>2, OneStanding
    <3>4. k \in CardKey => Approval[k] = "none"
      BY <3>1, ApprovalOf
    <3> HIDE DEF k
    <3>5. Standing("save_queued") = "approved"
      BY DEF Standing
    <3> QED
      BY <1>1, <3>3, <3>4, <3>5
      DEF Reviewed, Silent, Review!ReviewNext, Review!Approve
  <2> QED
    BY <2>11, <2>12, <2>14, <2>15, <2>16, <2>17, <2>18, <2>19
<1> QED
  BY <1>5, <1>6 DEF PersistDecide

-----------------------------------------------------------------------------
(***************************************************************************)
(* The end of a helper and the next one.                                   *)
(***************************************************************************)

LEMMA ForgottenSaves ==
  ASSUME SavesInv, Forgotten
  PROVE  SavesInv' /\ Silent
<1> USE Numbers DEF SavesInv
<1>1. /\ UNCHANGED <<session, config, items, decisions, writes>> /\ helper' = "down"
      /\ candidate' = [i \in ItemId |-> None] /\ manifest' = [i \in ItemId |-> FALSE]
      /\ deferred' = <<>> /\ seen' = {} /\ fill' = NoFill /\ sched' = NoSched
      /\ inflight' = {} /\ callers' = NoCallers /\ writeQueue' = <<>>
      /\ persist' = [t \in Persister |-> NoPersist("none")]
  BY DEF Forgotten, ledgerVars
<1>2. /\ NoPersist("none") \in Thread /\ NoPersist("none").pc = "idle"
      /\ "idle" \notin Serving \cup {"submit", "queued", "saving"}
  BY DEF NoPersist, Thread, Serving
<1>3. Marked({}) /\ Enqueued' = Enqueued
  BY <1>1, NothingMarked DEF Marked
<1>4. \A t \in Persister : persist'[t] = NoPersist("none")
  BY <1>1
<1>5. /\ sched' \in [pc : {"idle", "pick", "each", "defer", "prepare", "submit", "fail",
                           "leave"},
                     batch : Seq(ItemId \X Nat), again : BOOLEAN]
      /\ sched'.batch = <<>> /\ sched'.pc = "idle"
  <2>1. <<>> \in Seq(ItemId \X Nat)
    OBVIOUS
  <2> QED
    BY <1>1, <2>1 DEF NoSched
<1>6. Offers'
  <2>1. <<>> \in Seq(Photo) /\ Len(deferred') = 0
    BY <1>1
  <2>2. /\ fill' \in [pc : {"idle", "read", "discover", "admit"}, kind : {"start", "fill"},
                      missing : Int, taken : Nat, found : Seq(Photo)]
        /\ fill'.taken = 0
    BY <1>1, <2>1 DEF NoFill
  <2> QED
    BY <1>1, <2>1, <2>2 DEF Offers
<1>7. Shapes'
  <2>1. persist' \in [Persister -> Thread] /\ <<>> \in Seq(Persister)
    BY <1>1, <1>2
  <2> QED
    BY <1>1, <1>5, <2>1 DEF Shapes, Thread
<1>8. Cards' /\ DecidedCards' /\ Served'
  BY <1>1, <1>3 DEF Cards, DecidedCards, Served
<1>9. Batch' /\ Analyses' /\ Numbered'
  BY <1>1, <1>3, <1>5, NumberedStays DEF Batch, Analyses
<1>10. Savers' /\ Unwritten'
  BY <1>1, <1>2, <1>4 DEF Savers, Unwritten, Decided
<1>11. Line' /\ Down'
  BY <1>1, <1>2, <1>4 DEF Line, Down
<1>12. Silent
  BY <1>1, ApprovalKept DEF Silent
<1> QED
  BY <1>6, <1>7, <1>8, <1>9, <1>10, <1>11, <1>12

LEMMA RecoverSaves ==
  ASSUME SavesInv, Recover
  PROVE  SavesInv' /\ Reviewed
<1> USE Numbers DEF SavesInv
<1>1. /\ helper = "down" /\ helper' = "up"
      /\ UNCHANGED <<writeVars, config, decisions, deferred, fill, sched, inflight, writes>>
      /\ fill = NoFill /\ sched = NoSched /\ inflight = {} /\ writeQueue = <<>>
      /\ \A t \in Persister : persist[t].pc = "idle"
  BY DEF Recover, Down
<1>2. PICK gone \in LostRuns,
           anon \in SUBSET {i \in Enqueued : Current(items, i).state = "failed"} :
        /\ items' = [i \in ItemId |->
             IF i \in Enqueued
             THEN WithCheckpoint(items, i, RecoveredState(Current(items, i), gone), None)[i]
             ELSE items[i]]
        /\ candidate' = [i \in ItemId |->
             IF i \in Enqueued THEN RecoveredCandidate(i, gone, anon) ELSE None]
        /\ manifest' = [i \in ItemId |-> i \in Enqueued /\ RecoveredManifest(i, gone)]
        /\ seen' = RecoveredSeen(gone)
  BY DEF Recover
<1> DEFINE st == [i \in Enqueued |-> RecoveredState(Current(items, i), gone)]
<1>3. ASSUME NEW i \in Enqueued
      PROVE  /\ st[i] \in ItemStates \ Saving
             /\ Current(items, i).state \in Saving => st[i] = "uncertain"
             /\ Current(items, i).state \in Approved \ Saving => st[i] = Current(items, i).state
             /\ st[i] \in Editable =>
                  /\ st[i] = Current(items, i).state
                  /\ Current(items, i).source = None \/ Readable(Current(items, i).source, gone)
  <2>1. Current(items, i).state \in ItemStates
    BY DEF ItemRevision
  <2> QED
    BY <2>1 DEF RecoveredState, ItemStates, Saving, Approved, Editable
<1>4. /\ Marked(Enqueued) /\ Moved(Enqueued)
      /\ \A i \in Enqueued : /\ Current(items', i).state = st[i]
                             /\ Current(items', i).source = Current(items, i).source
  <2>1. st \in [Enqueued -> ItemStates]
    BY <1>3
  <2>2. items' = [i \in ItemId |-> IF i \in Enqueued THEN WithCheckpoint(items, i, st[i], None)[i]
                                   ELSE items[i]]
    BY <1>2
  <2> HIDE DEF st
  <2> QED
    BY <2>1, <2>2, ManyMarked DEF Marked
<1>5. Cards'
  <2>1. ASSUME NEW i \in Enqueued', Current(items', i).state \in Editable
        PROVE  /\ Current(items', i).source \in Photo
               /\ manifest'[i] /\ candidate'[i] \in Photo
    <3>1. i \in Enqueued /\ i \in ItemId /\ st[i] \in Editable
      BY <1>4, <2>1 DEF Marked
    <3>2. Current(items, i).state \in Editable /\ Current(items, i).source \in Photo
      BY <1>3, <3>1 DEF Cards
    <3>3. Current(items, i).source # None
      BY <3>2, LedgerConstants DEF None, Photo
    <3>4. Readable(Current(items, i).source, gone)
      BY <1>3, <3>1, <3>3
    <3>5. i \notin anon /\ Current(items, i).state \notin
             {"save_queued", "saving", "verified", "discarded", "discovered", "queued",
              "preparing", "analyzing", "validating", "failed"}
      BY <3>2 DEF Editable
    <3>6. RecoveredManifest(i, gone)
      BY <3>2, <3>4 DEF RecoveredManifest, Editable
    <3>7. RecoveredCandidate(i, gone, anon) = Current(items, i).source
      BY <3>4, <3>5 DEF RecoveredCandidate
    <3> QED
      BY <1>2, <1>4, <3>1, <3>2, <3>6, <3>7
  <2> QED
    BY <2>1 DEF Cards
<1> HIDE DEF st
<1>6. DecidedCards'
  <2>1. ASSUME NEW d \in decisions, d.action = "persist"
        PROVE  /\ d.item \in Enqueued' /\ d.rev \in 1..Revision(items', d.item)
               /\ items'[d.item][d.rev].state \in Approved
               /\ items'[d.item][d.rev].state \in Saving => d.rev = Revision(items', d.item)
    <3>1. /\ d.item \in Enqueued /\ d.rev \in 1..Revision(items, d.item)
          /\ items[d.item][d.rev].state \in Approved
          /\ items[d.item][d.rev].state \in Saving => d.rev = Revision(items, d.item)
      BY <2>1 DEF DecidedCards
    <3>2. d.item \in Enqueued' /\ Revision(items', d.item) = Revision(items, d.item)
      BY <1>4, <3>1 DEF Marked
    <3>3. CASE d.rev = Revision(items, d.item)
      <4>1. /\ items'[d.item][d.rev] = Current(items', d.item)
            /\ items[d.item][d.rev] = Current(items, d.item)
        BY <3>2, <3>3 DEF Current, Revision
      <4>2. st[d.item] \in Approved
        BY <1>3, <3>1, <4>1 DEF Approved
      <4> QED
        BY <1>4, <3>1, <3>2, <3>3, <4>1, <4>2
    <3>4. CASE d.rev # Revision(items, d.item)
      <4>1. items'[d.item][d.rev] = items[d.item][d.rev]
        BY <1>4, <3>1, <3>4 DEF Moved
      <4> QED
        BY <3>1, <3>2, <4>1
    <3> QED
      BY <3>3, <3>4
  <2> QED
    BY <1>1, <2>1 DEF DecidedCards
<1>7. "idle" \notin Serving /\ \A t \in Persister : persist'[t] = persist[t]
  BY <1>1 DEF Serving, writeVars
<1>8. Savers' /\ Served' /\ Line' /\ Unwritten' /\ Down'
  BY <1>1, <1>3, <1>4, <1>7 DEF Savers, Served, Line, Unwritten, Decided, Down, writeVars, Marked
<1>9. Batch' /\ Analyses' /\ Numbered'
  BY <1>1, <1>4, NumberedStays DEF Batch, Analyses, NoSched, Marked
<1>10. Offers'
  <2>1. seen' \subseteq Photo
    <3>1. ASSUME NEW i \in Enqueued, NEW r \in DOMAIN items[i]
          PROVE  items[i][r].source \in Photo \cup {None}
      <4>1. items[i] \in Seq(ItemRevision)
        BY Rows
      <4>2. items[i][r] \in ItemRevision
        BY <4>1, ElementOfSeq, LenProperties
      <4> QED
        BY <4>2 DEF ItemRevision, Photo, None
    <3>2. RecoveredSeen(gone) \subseteq Photo
      BY <3>1 DEF RecoveredSeen, SourcesOf
    <3> QED
      BY <1>2, <3>2
  <2> QED
    BY <1>1, <2>1 DEF Offers
<1>11. Shapes'
  BY <1>1, <1>2, <1>4 DEF Shapes, writeVars, Moved, Ledgers
<1>12. Reviewed
  <2> DEFINE K == {k \in CardKey : Approval[k] = "approved"}
  <2>1. ASSUME NEW k \in CardKey
        PROVE  Approval'[k] = IF k \in K THEN "unknown" ELSE Approval[k]
    <3>1. Decided(k[1], k[2])' <=> Decided(k[1], k[2])
      BY <1>1 DEF Decided
    <3>2. CASE ~Decided(k[1], k[2])
      BY <3>1, <3>2, ApprovalOf
    <3>3. CASE Decided(k[1], k[2])
      <4> DEFINE old == items[k[1]][k[2]].state
                 new == items'[k[1]][k[2]].state
      <4>1. /\ k[1] \in Enqueued /\ k[2] \in 1..Revision(items, k[1])
            /\ old \in Approved /\ (old \in Saving => k[2] = Revision(items, k[1]))
        BY <3>3 DEF DecidedCards, Decided
      <4>2. IF old \in Saving THEN new = "uncertain" ELSE new = old
        <5>1. CASE k[2] = Revision(items, k[1])
          <6>1. /\ items[k[1]][k[2]] = Current(items, k[1])
                /\ items'[k[1]][k[2]] = Current(items', k[1])
            BY <1>4, <4>1, <5>1 DEF Current, Revision, Marked
          <6> QED
            BY <1>3, <1>4, <4>1, <6>1
        <5>2. CASE k[2] # Revision(items, k[1])
          <6>1. items'[k[1]][k[2]] = items[k[1]][k[2]]
            BY <1>4, <4>1, <5>2 DEF Moved
          <6> QED
            BY <4>1, <5>2, <6>1
        <5> QED
          BY <5>1, <5>2
      <4>3. Approval[k] = Standing(old) /\ Approval'[k] = Standing(new)
        BY <3>1, <3>3, ApprovalOf
      <4> HIDE DEF old, new
      <4>4. k \in K <=> Approval[k] = "approved"
        OBVIOUS
      <4> HIDE DEF K
      <4> QED
        BY <4>2, <4>3, <4>4 DEF Standing, Saving
    <3> QED
      BY <3>2, <3>3
  <2>2. /\ Approval = [k \in CardKey |-> Approval[k]]
        /\ Approval' = [k \in CardKey |-> Approval'[k]]
    BY ApprovalOf
  <2>3. K \in SUBSET CardKey /\ \A k \in K : Approval[k] = "approved"
    OBVIOUS
  <2> HIDE DEF K
  <2>4. Approval' = [k \in CardKey |-> IF k \in K THEN "unknown" ELSE Approval[k]]
    BY <2>1, <2>2
  <2>5. CASE K = {}
    <3>1. Approval' = Approval
      BY <2>1, <2>2, <2>5
    <3> QED
      BY <1>1, <3>1 DEF Reviewed, Silent
  <2>6. CASE K # {}
    <3>1. Review!GiveUp(K)
      BY <1>1, <2>3, <2>4, <2>6 DEF Review!GiveUp
    <3> QED
      BY <2>3, <3>1 DEF Reviewed, Review!ReviewNext
  <2> QED
    BY <2>5, <2>6
<1> QED
  BY <1>5, <1>6, <1>8, <1>9, <1>10, <1>11, <1>12

-----------------------------------------------------------------------------
(***************************************************************************)
(* The invariant and what follows from it.                                 *)
(***************************************************************************)

LEMMA SavesInit == Init => SavesInv /\ Review!ReviewInit
<1> SUFFICES ASSUME Init
             PROVE  SavesInv /\ Review!ReviewInit
  OBVIOUS
<1>1. Enqueued = {}
  BY DEF Init, Enqueued, InSession
<1>2. /\ NoPersist("none") \in Thread /\ NoPersist("none").pc = "idle"
      /\ "idle" \notin Serving \cup {"submit", "queued", "saving"}
      /\ \A t \in Persister : persist[t] = NoPersist("none")
  BY DEF NoPersist, Thread, Serving, Init
<1>3. /\ sched \in [pc : {"idle", "pick", "each", "defer", "prepare", "submit", "fail",
                          "leave"},
                    batch : Seq(ItemId \X Nat), again : BOOLEAN]
      /\ sched.batch = <<>> /\ sched.pc = "idle"
  <2>1. <<>> \in Seq(ItemId \X Nat)
    OBVIOUS
  <2> QED
    BY <2>1 DEF NoSched, Init
<1>4. Shapes
  <2>1. persist \in [Persister -> Thread] /\ <<>> \in Seq(Persister)
    BY <1>2 DEF Init
  <2>2. items \in [ItemId -> Seq(ItemRevision)]
    <3>1. <<>> \in Seq(ItemRevision)
      OBVIOUS
    <3> QED
      BY <3>1 DEF Init
  <2> QED
    BY <1>3, <2>1, <2>2 DEF Shapes, Thread, Init
<1>5. Offers
  <2>1. <<>> \in Seq(Photo) /\ Len(deferred) = 0
    BY DEF Init
  <2>2. /\ fill \in [pc : {"idle", "read", "discover", "admit"}, kind : {"start", "fill"},
                     missing : Int, taken : Nat, found : Seq(Photo)]
        /\ fill.taken = 0
    BY <2>1 DEF NoFill, Init
  <2> QED
    BY <2>1, <2>2 DEF Offers, Init
<1>6. Numbered
  <2>1. Enqueued = 1..0
    BY <1>1
  <2> QED
    BY <2>1 DEF Numbered
<1>7. Cards /\ DecidedCards /\ Served /\ Batch /\ Analyses
  BY <1>1, <1>3 DEF Cards, DecidedCards, Served, Batch, Analyses, Init
<1>8. Savers /\ Unwritten /\ Line /\ Down
  BY <1>2 DEF Savers, Unwritten, Line, Down, Init
<1>9. Review!ReviewInit
  BY DEF Review!ReviewInit, Approval, Init
<1> QED
  BY <1>4, <1>5, <1>6, <1>7, <1>8, <1>9 DEF SavesInv

LEMMA SavesStutter ==
  ASSUME SavesInv, UNCHANGED vars
  PROVE  SavesInv' /\ Silent
<1> USE Numbers DEF SavesInv
<1>1. /\ UNCHANGED <<items, decisions, writeVars, manifest, inflight, writes, candidate, sched>>
      /\ UNCHANGED <<config, deferred, seen, fill, helper, callers>>
  BY DEF vars, ledgerVars, photoVars, threadVars
<1>2. Shapes' /\ Offers'
  BY <1>1 DEF Shapes, Offers, writeVars
<1>3. Marked({}) /\ Moved({}) /\ Enqueued' = Enqueued
  BY <1>1, NothingMarked DEF Marked
<1>4. Numbered' /\ Batch' /\ Analyses'
  BY <1>1, <1>3, NumberedStays, BatchStays, AnalysesStay
<1>5. Cards' /\ DecidedCards' /\ Savers' /\ Served'
  BY <1>1, <1>3 DEF Cards, DecidedCards, Savers, Served, writeVars
<1>6. Line' /\ Unwritten' /\ Down'
  BY <1>1 DEF Line, Unwritten, Decided, Down, writeVars
<1>7. Silent
  BY <1>1, ApprovalKept DEF Silent
<1> QED
  BY <1>2, <1>4, <1>5, <1>6, <1>7

LEMMA SavesNext ==
  ASSUME SavesInv, [Next]_vars
  PROVE  SavesInv' /\ Reviewed
<1>1. CASE FillStep \/ FillRaises
  BY <1>1, FillSaves, AdmitSaves DEF FillStep, Reviewed
<1>2. CASE SchedulerStep \/ \E kind \in {"schedule", "completing"} : ScheduleEnter(kind)
  BY <1>2, PickSaves, ScheduleSaves, CardSaves DEF SchedulerStep, Reviewed
<1>3. CASE \E f \in inflight : AnalysisFinished(f)
  BY <1>3, AnalysisSaves DEF Reviewed
<1>4. CASE \E t \in Persister : PersistStep(t) \/ WritePhotos(t)
  BY <1>4, DecideSaves, SubmitSaves, SettleSaves, LeaveSaves, WriteSaves
     DEF PersistStep, Reviewed
<1>5. CASE WriteStep
  BY <1>5, BeginSaves, ReturnSaves DEF WriteStep, Reviewed
<1>6. CASE UserStep \/ CloseStep
  BY <1>6, DiscardSaves, RescanSaves, ArriveSaves, ControlSaves DEF UserStep, Reviewed
<1>7. CASE Unload \/ Crash
  BY <1>7, ForgottenSaves DEF Unload, Crash, Reviewed
<1>8. CASE Recover
  BY <1>8, RecoverSaves
<1>9. CASE UNCHANGED vars
  BY <1>9, SavesStutter DEF Reviewed
<1> QED
  BY <1>1, <1>2, <1>3, <1>4, <1>5, <1>6, <1>7, <1>8, <1>9 DEF Next

LEMMA SavesAlways == Spec => []SavesInv
  BY SavesInit, SavesNext, PTL DEF Spec

\* In a living helper a card that can be saved has its manifest and a photo to
\* reanalyse, after a restart that lost manifests too: queue_persist and
\* queue_rescan record the decision before they look for either, and raise when
\* it is missing (queue_coordinator.py: persist, rescan; queue_runtime.py:
\* _start).
THEOREM ReadyCardsCanBeSaved == Spec => []ReadyHasManifest
<1>1. SavesInv => ReadyHasManifest
  BY DEF SavesInv, Cards, ReadyHasManifest, Editable
<1> QED
  BY <1>1, SavesAlways, PTL

\* A card being saved has exactly one thread that will settle it, and that
\* thread's decision is the one recorded for the card's current revision,
\* whatever is discarded, reanalysed, stopped or restarted meanwhile
\* (queue_coordinator.py: persist, _run_persist_operation).
THEOREM SavesAreOwned == Spec => []SavesHaveAnOwner
<1>1. ASSUME SavesInv
      PROVE  SavesHaveAnOwner
  <2> USE <1>1 DEF SavesInv
  <2> SUFFICES ASSUME NEW i \in Enqueued
               PROVE  LET owners == {t \in Persister :
                                /\ persist[t].pc \in {"submit", "queued", "saving", "wrote",
                                                      "settle"}
                                /\ persist[t].d.item = i}
                      IN  /\ \A t \in owners : persist[t].d \in decisions
                                               /\ IsCurrent(items, i, persist[t].d.rev)
                          /\ helper # "down" =>
                               (Current(items, i).state \in {"save_queued", "saving"}
                                  <=> Cardinality(owners) = 1)
                          /\ Cardinality(owners) <= 1
    BY DEF SavesHaveAnOwner
  <2> DEFINE owners == {t \in Persister :
                          /\ persist[t].pc \in {"submit", "queued", "saving", "wrote", "settle"}
                          /\ persist[t].d.item = i}
  <2>1. \A t \in owners : /\ persist[t].d \in decisions /\ IsCurrent(items, i, persist[t].d.rev)
                          /\ Current(items, i).state \in Saving
                          /\ \A u \in owners : u = t
    BY DEF Savers, Serving, IsCurrent, Enqueued
  <2>2. helper # "down" /\ Current(items, i).state \in Saving => owners # {}
    BY DEF Served, Serving
  <2> HIDE DEF owners
  <2>3. /\ helper # "down" =>
             (Current(items, i).state \in Saving <=> Cardinality(owners) = 1)
        /\ Cardinality(owners) <= 1
    <3>1. CASE owners = {}
      BY <2>2, <3>1, FS_EmptySet
    <3>2. CASE owners # {}
      <4>1. PICK t \in owners : owners = {t}
        BY <2>1, <3>2
      <4>2. Cardinality(owners) = 1
        BY <4>1, FS_Singleton
      <4> QED
        BY <2>1, <4>1, <4>2
    <3> QED
      BY <3>1, <3>2
  <2> QED
    BY <2>1, <2>3 DEF owners, Saving
<1> QED
  BY <1>1, SavesAlways, PTL

\* The whole queue, with its crashes and restarts, keeps the promise of
\* ReviewWrites: a photo is written for a card revision only after that revision
\* was approved, at most once, and never again once the approval is settled or
\* given up (queue_coordinator.py: persist, _run_persist_operation;
\* queue_runtime.py: _start).
THEOREM ReviewIsImplemented == Spec => WritesAsApproved
<1>1. Init => Review!ReviewInit
  BY SavesInit
<1>2. SavesInv /\ [Next]_vars => [Review!ReviewNext]_(Review!reviewVars)
  BY SavesNext DEF Reviewed, Silent, Review!reviewVars
<1> QED
  BY <1>1, <1>2, SavesAlways, PTL DEF Spec, WritesAsApproved, Review!ReviewSpec

-----------------------------------------------------------------------------
(***************************************************************************)
(* New cards come from the admission alone, within the window, and no step *)
(* changes a saved or discarded card.                                      *)
(***************************************************************************)

Finals == {i \in Enqueued : Current(items, i).state \in TerminalStates}

\* A card gets no revision past the bound.
LengthKept(i) ==
  Revision(items', i) = Revision(items, i) \/ Revision(items', i) <= MaxItemRevision

CardsKept ==
  /\ Enqueued' \subseteq Enqueued /\ \A i \in Finals : items'[i] = items[i]
  /\ \A i \in ItemId : LengthKept(i)

WindowKept ==
  Cardinality(Enqueued') > Cardinality(Enqueued) =>
    Running /\ Cardinality(Active(items')) <= config.photoCount

\* One card that is neither saved nor discarded changes.
LEMMA OneChanges ==
  ASSUME SavesInv, NEW i \in Enqueued \ Finals, LengthKept(i),
         \A j \in ItemId \ {i} : items'[j] = items[j]
  PROVE  CardsKept
  BY DEF CardsKept, Finals, Enqueued, InSession, LengthKept, Revision

LEMMA SameLength ==
  ASSUME items \in Ledgers, NEW i \in ItemId, NEW st, NEW src
  PROVE  Len(WithCheckpoint(items, i, st, src)[i]) = Len(items[i])
<1> DEFINE q   == items[i]
           n   == Len(q)
           rev == [state |-> st, source |-> IF src = NoRun THEN q[n].source ELSE src]
           up  == [q EXCEPT ![n] = rev]
<1>1. q \in Seq(ItemRevision) /\ n \in Nat /\ q \in [1..n -> ItemRevision]
  BY LenProperties DEF Ledgers
<1>2. WithCheckpoint(items, i, st, src)[i] = up
  BY DEF WithCheckpoint, Revision, Ledgers
<1> HIDE DEF rev, n
<1>3. up \in [1..n -> ItemRevision \cup {rev}]
  BY <1>1
<1> HIDE DEF up, q
<1>4. up \in Seq(ItemRevision \cup {rev}) /\ Len(up) = n
  BY <1>1, <1>3, LenProperties, SeqDef
<1> QED
  BY <1>2, <1>4 DEF n, q

LEMMA OneCheckpointed ==
  ASSUME SavesInv, NEW i \in Enqueued \ Finals, NEW st, NEW src,
         items' = WithCheckpoint(items, i, st, src)
  PROVE  CardsKept
<1>1. \A j \in ItemId \ {i} : items'[j] = items[j]
  BY DEF WithCheckpoint, SavesInv, Shapes
<1>2. i \in ItemId /\ items \in Ledgers
  BY DEF Enqueued, SavesInv, Shapes, Ledgers
<1>3. LengthKept(i)
  BY <1>2, SameLength DEF LengthKept, Revision
<1> QED
  BY <1>1, <1>3, OneChanges

LEMMA NoneChanges ==
  ASSUME items' = items
  PROVE  CardsKept
  BY DEF CardsKept, Enqueued, LengthKept

LEMMA SchedulerKeepsCards ==
  ASSUME SavesInv, SchedulerStep
  PROVE  CardsKept
<1> USE DEF SavesInv
<1>1. CASE UNCHANGED items
  BY <1>1, NoneChanges
<1>2. ASSUME NEW st, CardLive, items' = WithCheckpoint(items, Card, st, None), sched.batch # <<>>
      PROVE  CardsKept
  <2>1. Card \in Enqueued
    <3>1. 1 \in DOMAIN sched.batch /\ Head(sched.batch) = sched.batch[1]
      BY <1>2 DEF Shapes
    <3> QED
      BY <3>1 DEF Batch, BatchCard, Card
  <2>2. Card \in Enqueued \ Finals
    BY <1>2, <2>1 DEF CardLive, Finals
  <2> QED
    BY <1>2, <2>2, OneCheckpointed
<1>3. CASE SchedulePick
  <2>1. CASE ~Scheduling
    BY <1>3, <2>1, NoneChanges DEF SchedulePick
  <2>2. CASE Scheduling
    <3>1. PICK picked \in SUBSET Pending : items' = WithStates(picked, "preparing")
      BY <1>3, <2>2 DEF SchedulePick, First
    <3>2. \A i \in ItemId : items'[i] = IF i \in picked
                                       THEN WithCheckpoint(items, i, "preparing", None)[i]
                                       ELSE items[i]
      BY <3>1 DEF WithStates
    <3>3. picked \subseteq Enqueued \ Finals
      BY DEF Pending, Finals, TerminalStates
    <3>4. \A i \in ItemId : LengthKept(i)
      BY <3>2, Numbers, SameLength DEF LengthKept, Revision
    <3> QED
      BY <3>2, <3>3, <3>4 DEF CardsKept, Finals, Enqueued, InSession
  <2> QED
    BY <2>1, <2>2
<1>4. CASE RestoreQueued \/ Submit \/ PrepareFailed
  <2>1. sched.batch # <<>>
    BY <1>4 DEF RestoreQueued, Submit, PrepareFailed, Batch
  <2>2. \/ items' = items
        \/ \E st \in {"queued", "analyzing", "failed"} :
             CardLive /\ items' = WithCheckpoint(items, Card, st, None)
    BY <1>4 DEF RestoreQueued, Submit, PrepareFailed
  <2> QED
    BY <1>1, <1>2, <2>1, <2>2
<1>5. CASE ScheduleLeave \/ ScheduleEnd \/ PrepareRead \/ Prepare
  BY <1>1, <1>5 DEF ScheduleLeave, ScheduleEnd, PrepareRead, Prepare, ledgerVars
<1> QED
  BY <1>3, <1>4, <1>5 DEF SchedulerStep

LEMMA SaverKeepsCards ==
  ASSUME SavesInv, NEW t \in Persister,
         PersistStep(t) \/ WritePhotos(t) \/ WriteBegin(t) \/ WriteReturn(t)
  PROVE  CardsKept
<1> USE DEF SavesInv
<1>1. CASE UNCHANGED items
  BY <1>1, NoneChanges
<1>2. ASSUME NEW i \in Enqueued, Current(items, i).state \in Editable \cup Saving
      PROVE  i \in Enqueued \ Finals
  BY <1>2 DEF Finals, Editable, Saving, TerminalStates
<1>3. CASE PersistDecide(t)
  <2>1. CASE Decide(persist[t].d)
    <3> DEFINE d == persist[t].d
    <3>1. d \in Decision /\ d.action = "persist"
      BY <1>3 DEF PersistDecide, Savers
    <3>2. d.item \in Enqueued /\ Current(items, d.item).state \in Editable
      BY <2>1, <3>1
         DEF Decide, Admissible, IsCurrent, AllowedStates, Editable, Enqueued, Decision
    <3>3. items' = WithCheckpoint(items, d.item, "save_queued", NoRun)
      BY <2>1, <3>1 DEF Decide, WithDecision
    <3> HIDE DEF d
    <3> QED
      BY <1>2, <3>2, <3>3, OneCheckpointed
  <2>2. CASE ~Decide(persist[t].d)
    BY <1>1, <1>3, <2>2 DEF PersistDecide
  <2> QED
    BY <2>1, <2>2
<1>4. ASSUME NEW st, persist[t].pc \in Serving,
             items' = WithCheckpoint(items, persist[t].d.item, st, None)
      PROVE  CardsKept
  <2>1. persist[t].d.item \in Enqueued \ Finals
    BY <1>2, <1>4 DEF Savers
  <2> QED
    BY <1>4, <2>1, OneCheckpointed
<1>5. CASE WriteBegin(t)
  <2>1. t = writeQueue[1] /\ 1 \in DOMAIN writeQueue
    BY <1>5, HeadTailProperties, LenProperties DEF WriteBegin, Shapes
  <2>2. persist[t].pc \in Serving
    BY <2>1 DEF Line, Serving
  <2> QED
    BY <1>4, <1>5, <2>2 DEF WriteBegin, SavingState
<1>6. CASE PersistSettle(t)
  BY <1>4, <1>6 DEF PersistSettle, Serving
<1>7. CASE PersistSubmit(t) \/ PersistLeave(t) \/ WritePhotos(t) \/ WriteReturn(t)
  BY <1>1, <1>7 DEF PersistSubmit, PersistLeave, WritePhotos, WriteReturn, ledgerVars
<1> QED
  BY <1>3, <1>5, <1>6, <1>7 DEF PersistStep

LEMMA UserKeepsCards ==
  ASSUME SavesInv, UserStep
  PROVE  CardsKept
<1> USE DEF SavesInv
<1>1. CASE UNCHANGED items
  BY <1>1, NoneChanges
<1>2. ASSUME NEW id \in DecisionId, NEW i \in Enqueued, Discard(id, i) \/ Rescan(id, i)
      PROVE  CardsKept
  <2>1. i \in ItemId /\ items \in [ItemId -> Seq(ItemRevision)]
    BY DEF Enqueued, Shapes
  <2>2. CASE Discard(id, i)
    <3> DEFINE d == Asked(id, i, "discard")
    <3>1. Decide(d) /\ d.action = "discard" /\ d.item = i
      BY <2>2 DEF Discard, Asked
    <3> HIDE DEF d
    <3>2. /\ Current(items, i).state \notin TerminalStates
          /\ items' = WithCheckpoint(items, i, "discarded", NoRun)
      BY <3>1 DEF Decide, Admissible, AllowedStates, WithDecision, TerminalStates
    <3>3. i \in Enqueued \ Finals
      BY <3>2 DEF Finals
    <3> QED
      BY <3>2, <3>3, OneCheckpointed
  <2>3. CASE Rescan(id, i)
    <3> DEFINE d == Asked(id, i, "rescan")
               up == Append(items[i], [state |-> "queued", source |-> NoRun])
    <3>1. Decide(d) /\ d.action = "rescan" /\ d.item = i
      BY <2>3 DEF Rescan, Asked
    <3> HIDE DEF d
    <3>2. /\ Current(items, i).state \notin TerminalStates
          /\ items' = [items EXCEPT ![i] = up]
      BY <3>1 DEF Decide, Admissible, AllowedStates, WithDecision, TerminalStates
    <3> HIDE DEF up
    <3>3. \A j \in ItemId \ {i} : items'[j] = items[j]
      BY <2>1, <3>2
    <3>4. i \in Enqueued \ Finals
      BY <3>2 DEF Finals
    <3>5. LengthKept(i)
      <4>1. Len(up) = Len(items[i]) + 1 /\ Len(items[i]) \in Nat
        BY <2>1, AppendProperties, LenProperties DEF up, ItemRevision, ItemStates
      <4>2. Len(items[i]) < MaxItemRevision
        BY <2>3 DEF Rescan, Revision
      <4> QED
        BY <2>1, <3>2, <4>1, <4>2, CoordinatorConstants DEF LengthKept, Revision
    <3> QED
      BY <3>3, <3>4, <3>5, OneChanges
  <2> QED
    BY <1>2, <2>2, <2>3
<1>3. ASSUME NEW t \in Persister, NEW id \in DecisionId, NEW i \in Enqueued,
             NEW r \in DOMAIN items[i], PersistArrive(t, id, i, r)
      PROVE  CardsKept
  BY <1>1, <1>3 DEF PersistArrive, ledgerVars
<1>4. CASE Pause \/ Resume \/ UpdateConfig \/ Stop
  BY <1>1, <1>4 DEF Pause, Resume, UpdateConfig, Stop
<1> QED
  BY <1>2, <1>3, <1>4 DEF UserStep

LEMMA RecoverKeepsCards ==
  ASSUME SavesInv, Recover
  PROVE  CardsKept
<1> USE Numbers DEF SavesInv
<1>1. PICK gone \in LostRuns :
        items' = [i \in ItemId |->
            IF i \in Enqueued
            THEN WithCheckpoint(items, i, RecoveredState(Current(items, i), gone), None)[i]
            ELSE items[i]]
  BY DEF Recover
<1>2. \A i \in ItemId \ Enqueued : items'[i] = items[i]
  BY <1>1
<1>3. ASSUME NEW i \in Finals
      PROVE  items'[i] = items[i]
  <2> DEFINE q == items[i]
             c == Current(items, i)
  <2>1. i \in Enqueued /\ i \in ItemId /\ c.state \in {"verified", "discarded"}
    BY DEF Finals, TerminalStates
  <2>2. RecoveredState(c, gone) = c.state
    BY <2>1 DEF RecoveredState
  <2>3. items'[i] = WithCheckpoint(items, i, c.state, None)[i]
    BY <1>1, <2>1, <2>2
  <2>4. items \in [ItemId -> Seq(ItemRevision)] /\ q \in Seq(ItemRevision)
    BY <2>1 DEF Shapes
  <2>5. c = q[Len(q)] /\ c \in ItemRevision /\ Len(q) \in DOMAIN q
    BY <2>1, <2>4, LenProperties DEF Current, Revision
  <2>6. [state |-> c.state, source |-> c.source] = c
    BY <2>5 DEF ItemRevision
  <2>7. WithCheckpoint(items, i, c.state, None)
          = [items EXCEPT ![i] = [q EXCEPT ![Len(q)] = [state |-> c.state, source |-> c.source]]]
    BY <2>5 DEF WithCheckpoint, Revision, None
  <2> HIDE DEF c, q
  <2>8. items'[i] = [q EXCEPT ![Len(q)] = c]
    BY <2>1, <2>3, <2>4, <2>6, <2>7
  <2>9. [q EXCEPT ![Len(q)] = c] = q
    BY <2>4, <2>5
  <2> QED
    BY <2>8, <2>9 DEF q
<1>4. \A i \in ItemId : LengthKept(i)
  BY <1>1, SameLength DEF LengthKept, Revision
<1> QED
  BY <1>2, <1>3, <1>4 DEF CardsKept, Enqueued, InSession

LEMMA AdmitKeepsWindow ==
  ASSUME SavesInv, FillAdmit
  PROVE  WindowKept /\ \A i \in Finals : items'[i] = items[i]
<1> USE Numbers DEF SavesInv
<1> DEFINE offers == SubSeq(deferred, 1, fill.taken) \o fill.found
           n      == IF Running THEN Least(Len(offers), Missing) ELSE 0
           first  == Cardinality(Enqueued)
           new    == (first + 1)..(first + n)
           row    == << [state |-> "discovered", source |-> None] >>
<1>1. items' = [i \in ItemId |-> IF i \in new THEN row ELSE items[i]]
  BY DEF FillAdmit
<1>2. /\ fill.taken \in Nat /\ Len(deferred) \in Nat /\ fill.taken <= Len(deferred)
      /\ fill.found \in Seq(Photo) /\ deferred \in Seq(Photo)
  BY LenProperties DEF Offers
<1>3. Len(offers) \in Nat
  <2>1. \A k \in 1..fill.taken : deferred[k] \in Photo
    BY <1>2, ElementOfSeq
  <2>2. SubSeq(deferred, 1, fill.taken) \in Seq(Photo)
    BY <1>2, <2>1, SubSeqProperties
  <2> QED
    BY <1>2, <2>2, ConcatProperties, LenProperties
<1> HIDE DEF offers
<1>4. /\ n \in Nat /\ first \in Nat /\ Missing \in Nat /\ Enqueued = 1..first
      /\ n # 0 => Running /\ n <= Missing
  BY <1>3, WindowCounts DEF Least
<1> HIDE DEF n, first, row
<1>5. \A i \in Enqueued : i \in ItemId /\ items'[i] = items[i]
  BY <1>1, <1>4
<1>6. Enqueued' \subseteq Enqueued \cup new
  BY <1>1 DEF Enqueued, InSession
<1>7. WindowKept
  <2> SUFFICES ASSUME Cardinality(Enqueued') > Cardinality(Enqueued)
               PROVE  Running /\ Cardinality(Active(items')) <= config.photoCount
    BY DEF WindowKept
  <2>1. n # 0
    <3> SUFFICES ASSUME n = 0
                 PROVE  FALSE
      OBVIOUS
    <3>1. Enqueued' \subseteq Enqueued
      BY <1>4, <1>6
    <3>2. Cardinality(Enqueued') <= Cardinality(Enqueued) /\ Cardinality(Enqueued') \in Nat
      BY <3>1, WindowCounts, FS_Subset, FS_CardinalityType
    <3> QED
      BY <3>2, WindowCounts
  <2>2. IsFiniteSet(Active(items)) /\ Cardinality(Active(items)) \in Nat
    <3>1. Active(items) \subseteq ItemId /\ IsFiniteSet(ItemId)
      BY LedgerConstants DEF Active
    <3> QED
      BY <3>1, FS_Subset, FS_CardinalityType
  <2>3. n <= config.photoCount - Cardinality(Active(items)) /\ config.photoCount \in Nat
    <3>1. config.photoCount \in Nat
      BY CoordinatorConstants DEF Shapes
    <3> QED
      BY <1>4, <2>1, <2>2, <3>1 DEF Missing, AtLeast0
  <2>4. IsFiniteSet(new) /\ Cardinality(new) = n
    BY <1>4, FS_Interval
  <2>5. Active(items') \subseteq Active(items) \cup new
    BY <1>1 DEF Active, InSession, Current
  <2> HIDE DEF new
  <2>6. /\ IsFiniteSet(Active(items) \cup new)
        /\ Cardinality(Active(items) \cup new) <= Cardinality(Active(items)) + n
        /\ Cardinality(Active(items) \cup new) \in Nat
    <3>1. /\ IsFiniteSet(Active(items) \cup new) /\ IsFiniteSet(Active(items) \cap new)
          /\ Cardinality(Active(items) \cup new) =
               Cardinality(Active(items)) + Cardinality(new)
                 - Cardinality(Active(items) \cap new)
      BY <2>2, <2>4, FS_Union, FS_Intersection
    <3>2. /\ Cardinality(Active(items) \cap new) \in Nat
          /\ Cardinality(Active(items) \cup new) \in Nat
      BY <3>1, FS_CardinalityType
    <3> DEFINE a == Cardinality(Active(items))
               b == Cardinality(Active(items) \cap new)
               c == Cardinality(Active(items) \cup new)
    <3>3. a \in Nat /\ b \in Nat /\ c \in Nat /\ n \in Nat /\ c = a + n - b
      BY <1>4, <2>2, <2>4, <3>1, <3>2
    <3> HIDE DEF a, b, c
    <3>4. c <= a + n
      BY ONLY <3>3
    <3> QED
      BY <3>1, <3>2, <3>4 DEF a, b, c
  <2>7. /\ Cardinality(Active(items')) <= Cardinality(Active(items) \cup new)
        /\ Cardinality(Active(items')) \in Nat
    BY <2>5, <2>6, FS_Subset, FS_CardinalityType
  <2> QED
    BY <1>4, <2>1, <2>2, <2>3, <2>6, <2>7
<1> QED
  BY <1>5, <1>7 DEF Finals

LEMMA CardsNext ==
  ASSUME SavesInv, [Next]_vars
  PROVE  CardsKept \/ FillAdmit
<1>1. CASE (\E kind \in {"start", "fill"} : FillEnter(kind)) \/ FillRead \/ FillDiscover
           \/ FillRaises \/ (\E kind \in {"schedule", "completing"} : ScheduleEnter(kind))
           \/ CloseStep \/ Unload \/ Crash \/ UNCHANGED vars
  <2>1. items' = items
    BY <1>1 DEF FillEnter, FillRead, FillDiscover, FillRaises, ScheduleEnter, CloseStep,
                Unload, Crash, Forgotten, vars, ledgerVars
  <2> QED
    BY <2>1, NoneChanges
<1>2. CASE \E f \in inflight : AnalysisFinished(f)
  <2>1. PICK f \in inflight : AnalysisFinished(f)
    BY <1>2
  <2>2. CASE UNCHANGED items
    BY <2>2, NoneChanges
  <2>3. CASE ~UNCHANGED items
    <3>1. /\ Current(items, f.item).state \notin TerminalStates
          /\ \E st \in {"ready", "failed"}, src \in {None, f.photo} :
               items' = WithCheckpoint(items, f.item, st, src)
      BY <2>1, <2>3 DEF AnalysisFinished
    <3>2. f.item \in Enqueued \ Finals
      BY <2>1, <3>1 DEF Finals, SavesInv, Analyses
    <3> QED
      BY <3>1, <3>2, OneCheckpointed
  <2> QED
    BY <2>2, <2>3
<1>3. CASE SchedulerStep \/ UserStep \/ Recover
  BY <1>3, SchedulerKeepsCards, UserKeepsCards, RecoverKeepsCards
<1>4. CASE WriteStep \/ \E t \in Persister : PersistStep(t) \/ WritePhotos(t)
  BY <1>4, SaverKeepsCards DEF WriteStep
<1> QED
  BY <1>1, <1>2, <1>3, <1>4 DEF Next, FillStep

LEMMA ControlsNext ==
  ASSUME SavesInv, [Next]_vars
  PROVE  WindowKept /\ \A i \in Finals : items'[i] = items[i]
<1>1. CASE FillAdmit
  BY <1>1, AdmitKeepsWindow
<1>2. CASE CardsKept
  <2>1. Cardinality(Enqueued') <= Cardinality(Enqueued) /\ Cardinality(Enqueued') \in Nat
    BY <1>2, WindowCounts, FS_Subset, FS_CardinalityType DEF CardsKept
  <2> QED
    BY <1>2, <2>1, WindowCounts DEF CardsKept, WindowKept
<1> QED
  BY <1>1, <1>2, CardsNext

\* Work begun before a control never overrules it: new cards appear only while
\* the session runs and up to its window, and no late analysis, preparation or
\* recovery changes a saved or discarded card (queue_coordinator.py:
\* _fill_slots, _analysis_finished; queue_runtime.py: _start).
THEOREM ControlsAreNeverOverruled == Spec => ControlsAreKept
<1>1. SavesInv /\ [Next]_vars =>
        [/\ Cardinality(Enqueued') > Cardinality(Enqueued) =>
              Running /\ Cardinality(Active(items')) <= config.photoCount
         /\ \A i \in Enqueued : Current(items, i).state \in TerminalStates =>
              items'[i] = items[i]]_vars
  BY ControlsNext DEF WindowKept, Finals
<1> QED
  BY <1>1, SavesAlways, PTL DEF Spec, ControlsAreKept

-----------------------------------------------------------------------------
(* What the threads share                                                      *)

Counters ==
  /\ "pc" \in DOMAIN fill /\ "pc" \in DOMAIN sched
  /\ DOMAIN persist = Persister
  /\ \A t \in Persister : "pc" \in DOMAIN persist[t]

OneWriter == \A t, u \in Writing : t = u

LaneInv == Counters /\ OneWriter /\ PhotosExclusive

\* What a step leaves alone when it concerns only one kind of thread.
FillAlone  == UNCHANGED <<sched, persist>>
SchedAlone == UNCHANGED <<fill, persist>>
SaverAlone == UNCHANGED <<fill, sched>>

-----------------------------------------------------------------------------

\* Entering the fill leaves the thread outside of discovery.
LEMMA FillEnters ==
  ASSUME NEW kind \in {"start", "fill"}, FillEnter(kind)
  PROVE  /\ "pc" \in DOMAIN fill' /\ fill'.pc # "discover"
         /\ fill.pc # "discover" /\ lane' = lane
<1> DEFINE missing == Missing
           taken   == Least(missing, Len(deferred))
           room    == LastItem - Cardinality(Enqueued) - Len(deferred)
           begun   == [kind    |-> kind,
                       pc      |-> IF taken < missing THEN "read" ELSE "admit",
                       missing |-> Least(missing - taken, room),
                       taken   |-> taken,
                       found   |-> <<>>]
<1>1. fill' = NoFill \/ fill' = begun
  BY Zenon DEF FillEnter
<1>2. "pc" \in DOMAIN begun /\ begun.pc \in {"read", "admit"}
  <2> HIDE DEF missing, taken, room
  <2> QED
    OBVIOUS
<1>3. "pc" \in DOMAIN NoFill /\ NoFill.pc = "idle"
  BY DEF NoFill
<1>4. fill.pc = "idle" /\ lane' = lane
  BY DEF FillEnter
<1> HIDE DEF begun
<1> QED
  BY <1>1, <1>2, <1>3, <1>4

LEMMA LaneInit == Init => LaneInv
  BY DEF Init, LaneInv, Counters, OneWriter, PhotosExclusive, Writing, NoFill, NoSched,
         NoPersist

\* Discovery enters the lane only when it is free and leaves it.
LEMMA FillKeepsLane == LaneInv /\ (FillStep \/ FillRaises) => LaneInv'
<1> SUFFICES ASSUME LaneInv, FillStep \/ FillRaises PROVE LaneInv'
  OBVIOUS
<1>0. "pc" \in DOMAIN fill /\ (lane = "fill" <=> fill.pc = "discover")
  BY DEF LaneInv, Counters, PhotosExclusive
<1>1. FillAlone
  BY DEF FillAlone, FillStep, FillRaises, FillEnter, FillRead, FillDiscover, FillAdmit,
         writeVars
<1>2. Writing' = Writing /\ OneWriter'
  BY <1>1 DEF LaneInv, FillAlone, Writing, OneWriter
<1>3. \/ lane' = lane /\ fill.pc # "discover" /\ fill'.pc # "discover"
      \/ lane = "free" /\ lane' = "fill" /\ fill'.pc = "discover"
      \/ fill.pc = "discover" /\ lane' = "free" /\ fill'.pc # "discover"
  <2>1. ASSUME NEW kind \in {"start", "fill"}, FillEnter(kind)
        PROVE  lane' = lane /\ fill.pc # "discover" /\ fill'.pc # "discover"
    BY <2>1, FillEnters
  <2>2. CASE FillRead
    BY <1>0, <2>2 DEF FillRead, ReadAdmitted
  <2>3. CASE FillDiscover
    BY <1>0, <2>3 DEF FillDiscover
  <2>4. CASE FillRaises
    BY <2>4, SMTT(30) DEF FillRaises, NoFill
  <2>5. CASE FillAdmit
    BY <2>5 DEF FillAdmit, FillReturns, NoFill
  <2> QED
    BY <2>1, <2>2, <2>3, <2>4, <2>5, Zenon DEF FillStep
<1>4. Counters'
  BY <1>1, FillEnters, Zenon DEF LaneInv, Counters, FillAlone, FillStep, FillRaises, FillRead,
                          FillDiscover, FillAdmit, FillReturns, NoFill
<1>5. PhotosExclusive'
  BY <1>1, <1>2, <1>3 DEF LaneInv, PhotosExclusive, FillAlone
<1> QED
  BY <1>2, <1>4, <1>5 DEF LaneInv

\* So does the preparation of a card.
LEMMA SchedulerKeepsLane ==
  ASSUME LaneInv,
         SchedulerStep \/ \E kind \in {"schedule", "completing"} : ScheduleEnter(kind)
  PROVE  LaneInv'
<1>1. SchedAlone
  BY DEF SchedAlone, SchedulerStep, ScheduleEnter, SchedulePick, ScheduleLeave, ScheduleEnd,
         PrepareRead, RestoreQueued, Prepare, Submit, PrepareFailed, writeVars
<1>2. Writing' = Writing /\ OneWriter'
  BY <1>1 DEF LaneInv, SchedAlone, Writing, OneWriter
<1>3. /\ "pc" \in DOMAIN sched'
      /\ \/ lane' = lane /\ sched.pc # "prepare" /\ sched'.pc # "prepare"
         \/ lane' = lane /\ sched'.pc = sched.pc
         \/ lane = "free" /\ lane' = "prepare" /\ sched'.pc = "prepare"
         \/ sched.pc = "prepare" /\ lane' = "free" /\ sched'.pc # "prepare"
  <2>1. ASSUME NEW kind \in {"schedule", "completing"}, ScheduleEnter(kind)
        PROVE  /\ "pc" \in DOMAIN sched' /\ lane' = lane
               /\ \/ sched'.pc = sched.pc
                  \/ sched.pc # "prepare" /\ sched'.pc # "prepare"
    BY <2>1 DEF LaneInv, Counters, ScheduleEnter
  <2>2. CASE SchedulePick
    BY <2>2 DEF LaneInv, Counters, SchedulePick
  <2>3. CASE ScheduleLeave \/ ScheduleEnd
    BY <2>3 DEF LaneInv, Counters, ScheduleLeave, ScheduleEnd, NoSched
  <2>4. CASE PrepareRead
    BY <2>4 DEF LaneInv, Counters, PrepareRead, ReadAdmitted
  <2>5. CASE RestoreQueued \/ PrepareFailed
    BY <2>5 DEF LaneInv, Counters, RestoreQueued, PrepareFailed, NextCard
  <2>6. CASE Prepare
    BY <2>6 DEF LaneInv, Counters, Prepare
  <2>7. CASE Submit
    BY <2>7 DEF LaneInv, Counters, Submit, NextCard
  <2> QED
    BY <2>1, <2>2, <2>3, <2>4, <2>5, <2>6, <2>7 DEF SchedulerStep
<1>4. Counters'
  BY <1>1, <1>3 DEF LaneInv, Counters, SchedAlone
<1>5. PhotosExclusive'
  BY <1>1, <1>2, <1>3 DEF LaneInv, PhotosExclusive, SchedAlone
<1> QED
  BY <1>2, <1>4, <1>5 DEF LaneInv

\* A saver that neither begins nor ends its write does not change who writes.
LEMMA SaverKeepsLane ==
  ASSUME LaneInv, NEW t \in Persister,
         \/ PersistStep(t) \/ WritePhotos(t)
         \/ \E id \in DecisionId, i \in Enqueued : \E r \in DOMAIN items[i] :
              PersistArrive(t, id, i, r)
  PROVE  LaneInv'
<1>1. SaverAlone /\ lane' = lane
  BY DEF SaverAlone, PersistStep, PersistDecide, PersistSubmit, PersistSettle, PersistLeave,
         WritePhotos, PersistArrive, threadVars
<1>2. /\ DOMAIN persist' = Persister
      /\ "pc" \in DOMAIN persist'[t]
      /\ (persist'[t].pc \in {"saving", "wrote"}) <=> (persist[t].pc \in {"saving", "wrote"})
      /\ \A u \in Persister \ {t} : persist'[u] = persist[u]
  <2>1. CASE PersistDecide(t)
    BY <2>1 DEF LaneInv, Counters, PersistDecide
  <2>2. CASE PersistSubmit(t)
    BY <2>2 DEF LaneInv, Counters, PersistSubmit
  <2>3. CASE PersistSettle(t)
    BY <2>3 DEF LaneInv, Counters, PersistSettle
  <2>4. CASE PersistLeave(t)
    BY <2>4 DEF LaneInv, Counters, PersistLeave, NoPersist
  <2>5. CASE WritePhotos(t)
    BY <2>5 DEF LaneInv, Counters, WritePhotos
  <2>6. CASE \E id \in DecisionId, i \in Enqueued : \E r \in DOMAIN items[i] :
               PersistArrive(t, id, i, r)
    BY <2>6 DEF LaneInv, Counters, PersistArrive
  <2> QED
    BY <2>1, <2>2, <2>3, <2>4, <2>5, <2>6 DEF PersistStep
<1>3. Writing' = Writing
  BY <1>2 DEF Writing
<1>4. Counters'
  BY <1>1, <1>2 DEF LaneInv, Counters, SaverAlone
<1> QED
  BY <1>1, <1>3, <1>4 DEF LaneInv, OneWriter, PhotosExclusive, SaverAlone

\* A write begins in a free lane, and the one that returns was alone.
LEMMA WriteKeepsLane == LaneInv /\ WriteStep => LaneInv'
<1> SUFFICES ASSUME LaneInv, NEW t \in Persister, WriteBegin(t) \/ WriteReturn(t)
             PROVE  LaneInv'
  BY DEF WriteStep
<1>1. SaverAlone
  BY DEF SaverAlone, WriteBegin, WriteReturn, threadVars
<1>2. CASE WriteBegin(t)
  <2>1. lane = "free" /\ lane' = "write" /\ Writing = {}
    BY <1>2 DEF WriteBegin
  <2>2. Counters' /\ persist' = [persist EXCEPT ![t].pc = "saving"]
    BY <1>1, <1>2 DEF WriteBegin, LaneInv, Counters, SaverAlone
  <2>3. Writing' = {t}
    BY <2>1, <2>2 DEF Writing, LaneInv, Counters
  <2> QED
    BY <1>1, <2>1, <2>2, <2>3 DEF LaneInv, OneWriter, PhotosExclusive, SaverAlone
<1>3. CASE WriteReturn(t)
  <2>1. t \in Writing /\ lane = "write" /\ lane' = "free"
    BY <1>3 DEF WriteReturn, LaneInv, PhotosExclusive
  <2>2. PICK out \in WriteResult :
          persist' = [persist EXCEPT ![t].pc = "settle", ![t].outcome = out]
    BY <1>3 DEF WriteReturn
  <2>3. Counters' /\ persist'[t].pc = "settle"
          /\ \A u \in Persister \ {t} : persist'[u] = persist[u]
    BY <1>1, <2>2 DEF LaneInv, Counters, SaverAlone
  <2>4. Writing' = {}
    BY <2>1, <2>3 DEF Writing, LaneInv, OneWriter
  <2> QED
    BY <1>1, <2>1, <2>3, <2>4 DEF LaneInv, OneWriter, PhotosExclusive, SaverAlone
<1> QED
  BY <1>2, <1>3

\* Everything else leaves the lane and its threads as they are, or forgets all.
LEMMA RestKeepsLane ==
  ASSUME LaneInv,
         \/ \E f \in inflight : AnalysisFinished(f)
         \/ \E id \in DecisionId, i \in Enqueued : Discard(id, i) \/ Rescan(id, i)
         \/ Pause \/ Resume \/ UpdateConfig \/ Stop \/ CloseStep \/ Recover
         \/ UNCHANGED vars
         \/ Crash \/ Unload
  PROVE  LaneInv'
<1>1. CASE Crash \/ Unload
  <2>1. Forgotten
    BY <1>1 DEF Crash, Unload
  <2> QED
    BY <2>1 DEF Forgotten, LaneInv, Counters, OneWriter, PhotosExclusive, Writing, NoFill,
                NoSched, NoPersist
<1>2. CASE ~(Crash \/ Unload)
  <2>1. UNCHANGED <<fill, sched, persist, lane>>
    BY <1>2 DEF AnalysisFinished, Finished, Discard, Rescan, Pause, Resume, UpdateConfig,
                Stop, CloseStep, Recover, vars, threadVars, writeVars
  <2> QED
    BY <2>1 DEF LaneInv, Counters, OneWriter, PhotosExclusive, Writing
<1> QED
  BY <1>1, <1>2

LEMMA LaneNext == LaneInv /\ [Next]_vars => LaneInv'
  BY FillKeepsLane, SchedulerKeepsLane, SaverKeepsLane, WriteKeepsLane, RestKeepsLane
  DEF Next, UserStep

(***************************************************************************)
(* Photos is never read while it is written, and never used by two threads *)
(* at once (_PhotosLane, queue_coordinator.py:37-89).                      *)
(***************************************************************************)
THEOREM LaneIsExclusive == Spec => []PhotosExclusive
<1>1. Spec => []LaneInv
  BY LaneInit, LaneNext, PTL DEF Spec
<1> QED
  BY <1>1, PTL DEF LaneInv

-----------------------------------------------------------------------------
(***************************************************************************)
(* Whose photos the cards hold.                                            *)
(***************************************************************************)

\* Photos whose runs may have disappeared before a restart.
Losable == UNION LostRuns

Sourced(p, i) == \E r \in DOMAIN items[i] : items[i][r].source = p

\* The photo is or was card i's.
On(p, i) == p = candidate[i] \/ Sourced(p, i)

\* What discovery has offered and no card has taken yet.
Offered == deferred \o fill.found

\* No photo is on two cards, lost ones apart.
Apart ==
  \A p \in Photo \ Losable : \A i, j \in Enqueued : On(p, i) /\ On(p, j) => i = j

\* What a card has or had, discovery does not offer again.
Known ==
  helper # "down" => \A p \in Photo \ Losable : \A i \in Enqueued : On(p, i) => p \in seen

\* An offer was seen, is made once, and is on no card.
Waits ==
  \A p \in Photo : \A k \in DOMAIN Offered : Offered[k] = p =>
    /\ p \in seen
    /\ p \notin Losable => \A i \in Enqueued : ~On(p, i)
    /\ \A l \in DOMAIN Offered : Offered[l] = p => l = k

Analysed == \A f \in inflight : f.photo = candidate[f.item]

Own == Apart /\ Known /\ Waits /\ Analysed

\* No card has a photo it did not have.
NoneAdded == \A p \in Photo : \A i \in Enqueued : On(p, i)' => On(p, i)

LEMMA Joined ==
  ASSUME NEW X, NEW d \in Seq(X), NEW f \in Seq(X)
  PROVE  /\ d \o f \in Seq(X) /\ Len(d) \in Nat /\ Len(f) \in Nat
         /\ DOMAIN (d \o f) = 1..(Len(d) + Len(f))
         /\ \A k \in 1..Len(d) : (d \o f)[k] = d[k]
         /\ \A k \in 1..Len(f) : (d \o f)[Len(d) + k] = f[k]
         /\ \A k \in DOMAIN (d \o f) : (d \o f)[k] \in X
<1>1. Len(d) \in Nat /\ Len(f) \in Nat
  BY LenProperties
<1>2. /\ d \o f \in Seq(X) /\ Len(d \o f) = Len(d) + Len(f)
      /\ \A k \in 1..Len(d) : (d \o f)[k] = d[k]
      /\ \A k \in 1..Len(f) : (d \o f)[Len(d) + k] = f[k]
  BY <1>1, ConcatProperties
<1>3. DOMAIN (d \o f) = 1..(Len(d) + Len(f))
  BY <1>2, LenProperties
<1> QED
  BY <1>1, <1>2, <1>3, ElementOfSeq, LenProperties

\* The offers that stay are still made once and not taken.
LEMMA OffersKept ==
  ASSUME SavesInv, SavesInv', Waits, NoneAdded, Enqueued' = Enqueued,
         seen \subseteq seen', deferred' = deferred,
         fill'.found = fill.found \/ fill'.found = <<>>
  PROVE  Waits'
<1>0. Offers /\ Offers'
  BY DEF SavesInv
<1>1. \A k \in DOMAIN Offered' : k \in DOMAIN Offered /\ Offered'[k] = Offered[k]
  <2>2. CASE fill'.found = fill.found
    BY <2>2 DEF Offered
  <2>3. CASE fill'.found = <<>>
    <3>1. /\ DOMAIN Offered = 1..(Len(deferred) + Len(fill.found))
          /\ \A k \in 1..Len(deferred) : Offered[k] = deferred[k]
          /\ Len(deferred) \in Nat /\ Len(fill.found) \in Nat /\ deferred \in Seq(Photo)
      BY <1>0, Joined DEF Offers, Offered
    <3>2. Offered' = deferred
      BY <2>3, <3>1 DEF Offered
    <3> QED
      BY <3>1, <3>2
  <2> QED
    BY <2>2, <2>3
<1>2. ASSUME NEW p \in Photo, NEW k \in DOMAIN Offered', Offered'[k] = p
      PROVE  /\ p \in seen'
             /\ p \notin Losable => \A i \in Enqueued' : ~On(p, i)'
             /\ \A l \in DOMAIN Offered' : Offered'[l] = p => l = k
  <2>1. k \in DOMAIN Offered /\ Offered[k] = p
    BY <1>1, <1>2
  <2>2. /\ p \in seen
        /\ p \notin Losable => \A i \in Enqueued : ~On(p, i)
        /\ \A l \in DOMAIN Offered : Offered[l] = p => l = k
    BY <2>1 DEF Waits
  <2>3. \A i \in Enqueued : On(p, i)' => On(p, i)
    BY DEF NoneAdded
  <2> QED
    BY <1>1, <2>2, <2>3
<1> QED
  BY <1>2 DEF Waits, Losable

\* Nothing is offered anew and no card gains a photo.
LEMMA OwnKept ==
  ASSUME SavesInv, SavesInv', Own, NoneAdded, Enqueued' = Enqueued, helper # "down",
         seen \subseteq seen', deferred' = deferred,
         fill'.found = fill.found \/ fill'.found = <<>>, Analysed'
  PROVE  Own'
<1>1. \A p \in Photo : \A i \in Enqueued : On(p, i)' => On(p, i)
  BY DEF NoneAdded
<1>2. ASSUME NEW p \in Photo \ Losable, NEW i \in Enqueued, NEW j \in Enqueued,
             On(p, i)', On(p, j)'
      PROVE  i = j
  BY <1>1, <1>2 DEF Own, Apart
<1>3. ASSUME NEW p \in Photo \ Losable, NEW i \in Enqueued, On(p, i)'
      PROVE  p \in seen'
  BY <1>1, <1>3 DEF Own, Known
<1>4. Apart'
  BY <1>2 DEF Apart, Losable
<1>5. Known'
  BY <1>3 DEF Known, Losable
<1>6. Waits'
  BY OffersKept DEF Own
<1> QED
  BY <1>4, <1>5, <1>6 DEF Own

\* The revisions that change carry their run or one more.
LEMMA SourcesMarked ==
  ASSUME SavesInv, NEW S \in SUBSET Enqueued, Marked(S), NEW extra,
         \A i \in S : Current(items', i).source \in {Current(items, i).source, extra}
  PROVE  \A j \in Enqueued : \A p : Sourced(p, j)' => Sourced(p, j) \/ (j \in S /\ p = extra)
<1> USE Numbers DEF SavesInv
<1> SUFFICES ASSUME NEW j \in Enqueued, NEW p, Sourced(p, j)'
             PROVE  Sourced(p, j) \/ (j \in S /\ p = extra)
  OBVIOUS
<1>1. PICK r \in DOMAIN items'[j] : items'[j][r].source = p
  BY DEF Sourced
<1>2. /\ items'[j] \in Seq(ItemRevision) /\ items[j] \in Seq(ItemRevision) /\ j \in ItemId
      /\ Revision(items', j) = Revision(items, j)
  BY Rows DEF Marked, Moved
<1>3. r \in 1..Revision(items, j) /\ r \in DOMAIN items[j]
  BY <1>1, <1>2, LenProperties DEF Revision
<1>4. CASE j \in S /\ r = Revision(items, j)
  <2>1. items'[j][r] = Current(items', j) /\ items[j][r] = Current(items, j)
    BY <1>2, <1>4 DEF Current, Revision
  <2> QED
    BY <1>1, <1>3, <1>4, <2>1 DEF Sourced
<1>5. CASE ~(j \in S /\ r = Revision(items, j))
  <2>1. items'[j][r] = items[j][r]
    BY <1>3, <1>5 DEF Marked, Moved
  <2> QED
    BY <1>1, <1>3, <2>1 DEF Sourced
<1> QED
  BY <1>4, <1>5

LEMMA CheckpointAdds ==
  ASSUME SavesInv, NEW i \in Enqueued, NEW st \in ItemStates, NEW src \in Run \cup {NoRun},
         items' = WithCheckpoint(items, i, st, src), candidate' = candidate,
         src = NoRun \/ src = candidate[i]
  PROVE  NoneAdded /\ Enqueued' = Enqueued
<1> USE Numbers DEF SavesInv
<1>1. /\ Marked({i}) /\ Current(items', i).source = IF src = NoRun THEN Current(items, i).source
                                                    ELSE src
  BY OneMarked
<1>2. \A j \in {i} : Current(items', j).source \in {Current(items, j).source, candidate[i]}
  BY <1>1
<1>3. {i} \in SUBSET Enqueued
  OBVIOUS
<1>4. \A j \in Enqueued : \A p : Sourced(p, j)' => Sourced(p, j) \/ (j \in {i} /\ p = candidate[i])
  BY <1>1, <1>2, <1>3, SourcesMarked
<1>5. \A j \in Enqueued : \A p : Sourced(p, j)' => Sourced(p, j) \/ p = candidate[j]
  BY <1>4
<1> QED
  BY <1>1, <1>5 DEF NoneAdded, On, Marked

LEMMA SameAdds ==
  ASSUME UNCHANGED <<items, candidate>>
  PROVE  NoneAdded /\ Enqueued' = Enqueued
  BY DEF NoneAdded, On, Sourced, Enqueued

LEMMA SchedulerOwn ==
  ASSUME SavesInv, SavesInv', Own, helper # "down",
         SchedulePick \/ RestoreQueued \/ PrepareFailed \/ Submit
  PROVE  Own'
<1> USE Numbers DEF SavesInv
<1>1. /\ UNCHANGED <<candidate, deferred, seen, fill>>
      /\ \A f \in inflight' : f \in inflight \/ f.photo = candidate[f.item]
  BY DEF SchedulePick, RestoreQueued, PrepareFailed, Submit, photoVars
<1>2. Analysed'
  BY <1>1 DEF Own, Analysed
<1>3. NoneAdded /\ Enqueued' = Enqueued
  <2>1. CASE items' = items
    BY <1>1, <2>1, SameAdds
  <2>2. CASE SchedulePick /\ Scheduling
    <3> DEFINE picked == First(Pending, Capacity)
               st == [i \in picked |-> "preparing"]
    <3>1. items' = WithStates(picked, "preparing")
      BY <2>2 DEF SchedulePick
    <3>2. picked \in SUBSET Enqueued /\ st \in [picked -> ItemStates]
      BY DEF First, Pending, ItemStates
    <3>3. items' = [i \in ItemId |-> IF i \in picked THEN WithCheckpoint(items, i, st[i], None)[i]
                                     ELSE items[i]]
      BY <3>1 DEF WithStates
    <3> HIDE DEF picked, st
    <3>4. Marked(picked) /\ \A i \in picked : Current(items', i).source = Current(items, i).source
      BY <3>2, <3>3, ManyMarked
    <3>5. \A j \in Enqueued : \A p : Sourced(p, j)' => Sourced(p, j) \/ (j \in picked /\ p = NoRun)
      BY <3>2, <3>4, SourcesMarked
    <3>6. NoRun \notin Photo
      BY LedgerConstants DEF Photo
    <3> QED
      BY <1>1, <3>4, <3>5, <3>6 DEF NoneAdded, On, Marked
  <2>3. CASE items' # items /\ ~SchedulePick
    <3>1. /\ sched.batch # <<>>
          /\ \E s \in {"queued", "failed", "analyzing"} : items' = WithCheckpoint(items, Card, s, None)
      BY <2>3 DEF RestoreQueued, PrepareFailed, Submit, Batch
    <3>2. Card \in Enqueued
      <4>1. 1 \in DOMAIN sched.batch /\ Head(sched.batch) = sched.batch[1]
        BY <3>1 DEF Shapes
      <4> QED
        BY <4>1 DEF Batch, BatchCard, Card
    <3>3. {"queued", "failed", "analyzing"} \subseteq ItemStates
      BY DEF ItemStates
    <3> QED
      BY <1>1, <3>1, <3>2, <3>3, CheckpointAdds DEF None
  <2> QED
    BY <2>1, <2>2, <2>3 DEF SchedulePick
<1> QED
  BY <1>1, <1>2, <1>3, OwnKept

LEMMA AnalysisOwn ==
  ASSUME SavesInv, SavesInv', Own, NEW f \in inflight, AnalysisFinished(f)
  PROVE  Own'
<1> USE Numbers DEF SavesInv
<1>1. /\ UNCHANGED <<candidate, deferred, seen, fill>> /\ inflight' \subseteq inflight
      /\ helper # "down"
  BY DEF AnalysisFinished, Finished, Down
<1>2. Analysed'
  BY <1>1 DEF Own, Analysed
<1>3. f.item \in Enqueued /\ f.photo = candidate[f.item] /\ f.photo \in Photo
  BY DEF Own, Analysed, Analyses
<1>4. NoneAdded /\ Enqueued' = Enqueued
  <2>1. CASE items' = items
    BY <1>1, <2>1, SameAdds
  <2>2. CASE items' # items
    <3>1. \E s \in {"ready", "failed"}, src \in {None, f.photo} :
            items' = WithCheckpoint(items, f.item, s, src)
      BY <2>2 DEF AnalysisFinished
    <3>2. {"ready", "failed"} \subseteq ItemStates
      BY DEF ItemStates
    <3> QED
      BY <1>1, <1>3, <3>1, <3>2, CheckpointAdds DEF None, Photo
  <2> QED
    BY <2>1, <2>2
<1> QED
  BY <1>1, <1>2, <1>4, OwnKept

LEMMA RescanAdds ==
  ASSUME SavesInv, NEW i \in Enqueued, NEW st \in ItemStates,
         items' = [items EXCEPT ![i] = Append(@, [state |-> st, source |-> NoRun])],
         candidate' = candidate
  PROVE  NoneAdded /\ Enqueued' = Enqueued
<1> USE Numbers DEF SavesInv
<1> DEFINE row == [state |-> st, source |-> NoRun]
<1>1. row \in ItemRevision /\ row.source = NoRun
  BY DEF ItemRevision
<1> HIDE DEF row
<1>2. /\ items' \in Ledgers /\ \A j \in ItemId \ {i} : items'[j] = items[j]
      /\ InSession(items', i) /\ Revision(items', i) = Revision(items, i) + 1
      /\ \A r \in 1..Revision(items, i) : items'[i][r] = items[i][r]
      /\ Current(items', i) = row
  <2>1. items \in Ledgers /\ i \in ItemId
    OBVIOUS
  <2>2. items' = [items EXCEPT ![i] = Append(@, row)]
    BY DEF row
  <2> QED
    BY ONLY <1>1, <2>1, <2>2, Appended
<1>3. Enqueued' = Enqueued
  BY <1>2 DEF Enqueued, InSession
<1>4. ASSUME NEW p \in Photo, Sourced(p, i)'
      PROVE  Sourced(p, i)
  <2>1. PICK r \in DOMAIN items'[i] : items'[i][r].source = p
    BY <1>4 DEF Sourced
  <2>2. /\ items'[i] \in Seq(ItemRevision) /\ items[i] \in Seq(ItemRevision)
        /\ Revision(items, i) \in Nat
    BY <1>2, Rows
  <2>3. r \in 1..(Revision(items, i) + 1) /\ DOMAIN items[i] = 1..Revision(items, i)
    BY <1>2, <2>1, <2>2, LenProperties DEF Revision
  <2>4. r # Revision(items, i) + 1
    BY <1>1, <1>2, <2>1, LedgerConstants DEF Current, Revision, Photo
  <2>5. r \in 1..Revision(items, i)
    BY <2>2, <2>3, <2>4
  <2> QED
    BY <1>2, <2>1, <2>3, <2>5 DEF Sourced
<1>5. \A j \in Enqueued \ {i} : \A p \in Photo : Sourced(p, j)' => Sourced(p, j)
  BY <1>2 DEF Sourced
<1> QED
  BY <1>3, <1>4, <1>5 DEF NoneAdded, On

LEMMA UserOwn ==
  ASSUME SavesInv, SavesInv', Own, UserStep
  PROVE  Own'
<1> USE Numbers DEF SavesInv
<1>1. UNCHANGED <<candidate, deferred, seen, fill, inflight>> /\ helper # "down"
  BY DEF UserStep, Discard, Rescan, PersistArrive, Pause, Resume, UpdateConfig, Stop, Command,
         Accepting, photoVars, threadVars
<1>2. Analysed'
  BY <1>1 DEF Own, Analysed
<1>3. NoneAdded /\ Enqueued' = Enqueued
  <2>1. CASE items' = items
    BY <1>1, <2>1, SameAdds
  <2>2. ASSUME NEW id \in DecisionId, NEW i \in Enqueued, Discard(id, i)
        PROVE  NoneAdded /\ Enqueued' = Enqueued
    <3>1. Decide(Asked(id, i, "discard"))
      BY <2>2 DEF Discard
    <3>2. items' = WithCheckpoint(items, i, "discarded", NoRun)
      BY <3>1 DEF Decide, WithDecision, Asked
    <3> QED
      BY <1>1, <3>2, CheckpointAdds DEF ItemStates
  <2>3. ASSUME NEW id \in DecisionId, NEW i \in Enqueued, Rescan(id, i)
        PROVE  NoneAdded /\ Enqueued' = Enqueued
    <3>1. Decide(Asked(id, i, "rescan"))
      BY <2>3 DEF Rescan
    <3>2. items' = [items EXCEPT ![i] = Append(@, [state |-> "queued", source |-> NoRun])]
      BY <3>1 DEF Decide, WithDecision, Asked
    <3> QED
      BY <1>1, <3>2, RescanAdds DEF ItemStates
  <2> QED
    BY <2>1, <2>2, <2>3 DEF UserStep, PersistArrive, Pause, Resume, UpdateConfig, Stop, ledgerVars
<1> QED
  BY <1>1, <1>2, <1>3, OwnKept

LEMMA SaverOwn ==
  ASSUME SavesInv, SavesInv', Own, NEW t \in Persister,
         PersistStep(t) \/ WritePhotos(t) \/ WriteBegin(t) \/ WriteReturn(t)
  PROVE  Own'
<1> USE Numbers DEF SavesInv
<1>1. UNCHANGED <<candidate, deferred, seen, fill, inflight, helper>>
  BY DEF PersistStep, PersistDecide, PersistSubmit, PersistSettle, PersistLeave, WritePhotos,
         WriteBegin, WriteReturn, photoVars, threadVars
<1>2. Analysed'
  BY <1>1 DEF Own, Analysed
<1>3. helper # "down"
  <2>1. persist[t].pc # "idle" \/ writeQueue # <<>>
    BY DEF PersistStep, PersistDecide, PersistSubmit, PersistSettle, PersistLeave, WritePhotos,
           WriteBegin, WriteReturn, Writing
  <2> QED
    BY <2>1 DEF Down
<1>4. NoneAdded /\ Enqueued' = Enqueued
  <2>1. CASE items' = items
    BY <1>1, <2>1, SameAdds
  <2>2. ASSUME NEW i \in Enqueued, NEW st \in ItemStates, items' = WithCheckpoint(items, i, st, None)
        PROVE  NoneAdded /\ Enqueued' = Enqueued
    BY <1>1, <2>2, CheckpointAdds DEF None
  <2>3. CASE PersistDecide(t) /\ items' # items
    <3>1. Decide(persist[t].d) /\ persist[t].d.action = "persist" /\ persist[t].d \in Decision
      BY <2>3 DEF PersistDecide, Savers
    <3>2. /\ persist[t].d.item \in Enqueued
          /\ items' = WithCheckpoint(items, persist[t].d.item, "save_queued", None)
      BY <3>1 DEF Decide, WithDecision, Admissible, IsCurrent, Enqueued, Decision, None
    <3> QED
      BY <2>2, <3>2 DEF ItemStates
  <2>4. CASE PersistSettle(t)
    <3>1. persist[t].d.item \in Enqueued
      BY <2>4 DEF PersistSettle, Savers, Serving
    <3>2. \E st \in {"verified", "uncertain"} :
            items' = WithCheckpoint(items, persist[t].d.item, st, None)
      BY <2>4 DEF PersistSettle
    <3> QED
      BY <2>2, <3>1, <3>2 DEF ItemStates
  <2>5. CASE WriteBegin(t)
    <3>1. persist[t].pc = "queued"
      <4>1. 1 \in DOMAIN writeQueue /\ t = writeQueue[1]
        BY <2>5 DEF WriteBegin, Shapes
      <4> QED
        BY <4>1 DEF Line
    <3>2. persist[t].d.item \in Enqueued
      BY <3>1 DEF Savers, Serving
    <3>3. items' = WithCheckpoint(items, persist[t].d.item, "saving", None)
      BY <2>5 DEF WriteBegin, SavingState
    <3> QED
      BY <2>2, <3>2, <3>3 DEF ItemStates
  <2> QED
    BY <2>1, <2>3, <2>4, <2>5 DEF PersistStep, PersistDecide, PersistSubmit, PersistLeave, WritePhotos,
                            WriteReturn, ledgerVars
<1> QED
  BY <1>1, <1>2, <1>3, <1>4, OwnKept

\* What keeps the cards, and discovery's work before it returns.
LEMMA CalmOwn ==
  ASSUME SavesInv, SavesInv', Own,
         \/ \E kind \in {"start", "fill"} : FillEnter(kind)
         \/ FillRead \/ FillRaises
         \/ \E kind \in {"schedule", "completing"} : ScheduleEnter(kind)
         \/ ScheduleLeave \/ ScheduleEnd \/ PrepareRead
         \/ CloseStep \/ UNCHANGED vars
  PROVE  Own'
<1>1. /\ UNCHANGED <<items, candidate, deferred, inflight>> /\ seen \subseteq seen'
  BY DEF FillEnter, FillRead, FillRaises, ScheduleEnter, ScheduleLeave, ScheduleEnd, PrepareRead,
         CloseStep, vars, ledgerVars, photoVars, threadVars
<1>2. fill'.found = fill.found \/ fill'.found = <<>>
  <2>1. ASSUME NEW kind \in {"start", "fill"}, FillEnter(kind)
        PROVE  fill'.found = <<>>
    <3>1. PICK pc, missing, taken : \/ fill' = NoFill
                                    \/ fill' = [kind |-> kind, pc |-> pc, missing |-> missing,
                                                taken |-> taken, found |-> <<>>]
      BY <2>1, Zenon DEF FillEnter
    <3> QED
      BY <3>1 DEF NoFill
  <2>2. CASE FillRead \/ FillRaises
    BY <2>2 DEF FillRead, FillRaises, NoFill, SavesInv, Offers
  <2>3. CASE fill' = fill
    BY <2>3
  <2> QED
    BY <2>1, <2>2, <2>3 DEF ScheduleEnter, ScheduleLeave, ScheduleEnd, PrepareRead,
         CloseStep, vars, threadVars
<1>3. NoneAdded /\ Enqueued' = Enqueued /\ Analysed'
  BY <1>1, SameAdds DEF Own, Analysed
<1>4. CASE helper # "down"
  BY <1>1, <1>2, <1>3, <1>4, OwnKept
<1>5. CASE helper = "down"
  <2>1. helper' = "down" /\ Known' /\ Apart'
    BY <1>1, <1>5 DEF Own, Known, Apart, On, Sourced, Enqueued, SavesInv, Down, FillEnter, FillRead,
         FillRaises, ScheduleEnter, ScheduleLeave, ScheduleEnd, PrepareRead, CloseStep, vars, NoCallers
  <2> QED
    BY <1>1, <1>2, <1>3, <2>1, OffersKept DEF Own
<1> QED
  BY <1>4, <1>5

\* What discovery returns was never seen.
LEMMA DiscoverOwn ==
  ASSUME SavesInv, SavesInv', Own, FillDiscover
  PROVE  Own'
<1> USE Numbers DEF SavesInv
<1>1. PICK S \in SUBSET (Photo \ seen) :
        /\ seen' = seen \cup S
        /\ fill' = [fill EXCEPT !.pc = "admit", !.found = Ascending(S)]
  BY DEF FillDiscover, Discovered
<1>2. UNCHANGED <<items, candidate, deferred, inflight, helper>> /\ helper # "down"
  BY DEF FillDiscover, ledgerVars, Down, NoFill
<1>3. NoneAdded /\ Enqueued' = Enqueued /\ Analysed'
  BY <1>2, SameAdds DEF Own, Analysed
<1>4. /\ Ascending(S) \in [1..Cardinality(S) -> S] /\ Cardinality(S) \in Nat
      /\ \A a, b \in 1..Cardinality(S) : a # b => Ascending(S)[a] # Ascending(S)[b]
  <2>1. S \in SUBSET Int /\ IsFiniteSet(S)
    <3>1. S \in SUBSET Photo /\ IsFiniteSet(Photo) /\ Photo \subseteq Nat
      BY CoordinatorConstants
    <3>2. IsFiniteSet(S)
      BY ONLY <3>1, FS_Subset
    <3>3. S \in SUBSET Int
      BY ONLY <3>1
    <3> QED
      BY <3>2, <3>3
  <2>2. Cardinality(S) \in Nat
    BY <2>1, FS_CardinalityType
  <2>3. ASSUME NEW a \in 1..Cardinality(S), NEW b \in 1..Cardinality(S), a < b
        PROVE  Ascending(S)[a] # Ascending(S)[b]
    <3>1. Ascending(S)[a] < Ascending(S)[b] /\ Ascending(S)[a] \in Int /\ Ascending(S)[b] \in Int
      BY <2>1, <2>3, AscendingOrder
    <3> QED
      BY <3>1
  <2>4. \A a, b \in 1..Cardinality(S) : a # b => a < b \/ b < a
    BY <2>2
  <2> QED
    BY <2>1, <2>2, <2>3, <2>4, AscendingOrder
<1>5. fill'.found = Ascending(S)
  BY <1>1 DEF Offers
<1>6. /\ DOMAIN Offered = 1..(Len(deferred) + Len(fill.found))
      /\ DOMAIN Offered' = 1..(Len(deferred) + Cardinality(S))
      /\ Len(deferred) \in Nat /\ Len(fill.found) \in Nat
      /\ \A k \in 1..Len(deferred) : Offered[k] = deferred[k] /\ Offered'[k] = deferred[k]
      /\ \A k \in 1..Cardinality(S) : Offered'[Len(deferred) + k] = Ascending(S)[k]
  <2>1. Offers /\ Offers'
    OBVIOUS
  <2>2. Len(fill'.found) = Cardinality(S) /\ deferred' = deferred
    BY <1>2, <1>4, <1>5, <2>1, LenProperties DEF Offers
  <2>3. /\ DOMAIN Offered' = 1..(Len(deferred') + Len(fill'.found))
        /\ \A k \in 1..Len(deferred') : Offered'[k] = deferred'[k]
        /\ \A k \in 1..Len(fill'.found) : Offered'[Len(deferred') + k] = fill'.found[k]
    <3>1. deferred' \in Seq(Photo) /\ fill'.found \in Seq(Photo) /\ Offered' = deferred' \o fill'.found
      BY <2>1 DEF Offers, Offered
    <3> QED
      BY <3>1, Joined
  <2>4. /\ deferred \in Seq(Photo) /\ fill.found \in Seq(Photo)
        /\ Offered = deferred \o fill.found
    BY <2>1 DEF Offers, Offered
  <2>5. /\ DOMAIN Offered = 1..(Len(deferred) + Len(fill.found))
        /\ \A k \in 1..Len(deferred) : Offered[k] = deferred[k]
        /\ Len(deferred) \in Nat /\ Len(fill.found) \in Nat
    BY ONLY <2>4, Joined
  <2> QED
    BY ONLY <1>5, <2>2, <2>3, <2>5
<1>7. ASSUME NEW p \in Photo, NEW k \in DOMAIN Offered', Offered'[k] = p
      PROVE  /\ p \in seen'
             /\ p \notin Losable => \A i \in Enqueued' : ~On(p, i)'
             /\ \A l \in DOMAIN Offered' : Offered'[l] = p => l = k
  <2>1. ASSUME NEW m \in DOMAIN Offered', Offered'[m] = p
        PROVE  \/ m \in 1..Len(deferred) /\ m \in DOMAIN Offered /\ Offered[m] = p /\ p \in seen
               \/ /\ m - Len(deferred) \in 1..Cardinality(S) /\ p \in S
                  /\ Ascending(S)[m - Len(deferred)] = p
    <3>1. CASE m <= Len(deferred)
      <4>1. m \in 1..Len(deferred) /\ m \in DOMAIN Offered
        BY <1>6, <3>1
      <4> QED
        BY <1>6, <2>1, <4>1 DEF Own, Waits
    <3>2. CASE ~(m <= Len(deferred))
      <4>1. m - Len(deferred) \in 1..Cardinality(S) /\ m = Len(deferred) + (m - Len(deferred))
        BY <1>4, <1>6, <3>2
      <4>2. Ascending(S)[m - Len(deferred)] = p
        BY <1>6, <2>1, <4>1
      <4> QED
        BY <1>4, <4>1, <4>2
    <3> QED
      BY <3>1, <3>2
  <2>2. p \in seen'
    BY <1>1, <1>7, <2>1
  <2>3. p \notin Losable => \A i \in Enqueued' : ~On(p, i)'
    BY <1>2, <1>3, <1>7, <2>1 DEF Own, Waits, Known, NoneAdded
  <2>4. ASSUME NEW l \in DOMAIN Offered', Offered'[l] = p
        PROVE  l = k
    <3>1. CASE p \in seen
      BY <1>1, <1>7, <2>1, <2>4, <3>1 DEF Own, Waits
    <3>2. CASE p \notin seen
      <4>1. k - Len(deferred) = l - Len(deferred)
        BY <1>4, <1>7, <2>1, <2>4, <3>2
      <4> QED
        BY <1>6, <4>1
    <3> QED
      BY <3>1, <3>2
  <2> QED
    BY <2>2, <2>3, <2>4
<1>8. Waits'
  BY <1>7 DEF Waits, Losable
<1>9. Apart' /\ Known'
  BY <1>1, <1>2, <1>3 DEF Own, Apart, Known, NoneAdded, Losable
<1> QED
  BY <1>3, <1>8, <1>9 DEF Own

\* So was the photo a recovered card takes.
LEMMA PrepareOwn ==
  ASSUME SavesInv, SavesInv', Own, Prepare
  PROVE  Own'
<1> USE Numbers DEF SavesInv
<1>1. /\ UNCHANGED <<items, deferred, fill, inflight, helper>> /\ helper # "down"
      /\ seen \subseteq seen' /\ Enqueued' = Enqueued
  BY DEF Prepare, ledgerVars, Down, NoSched, Enqueued
<1>2. CASE candidate' = candidate
  BY <1>1, <1>2, OwnKept, SameAdds DEF Own, Analysed
<1>3. CASE candidate' # candidate
  <2>1. PICK p \in Photo \ seen :
          /\ candidate[Card] = Unresolved
          /\ candidate' = [candidate EXCEPT ![Card] = p]
          /\ seen' = seen \cup {p}
    BY <1>3 DEF Prepare, Discovered
  <2>2. Card \in Enqueued
    <3>1. sched.batch # <<>>
      BY DEF Prepare, Batch
    <3>2. 1 \in DOMAIN sched.batch /\ Head(sched.batch) = sched.batch[1]
      BY <3>1 DEF Shapes
    <3> QED
      BY <3>2 DEF Batch, BatchCard, Card
  <2>3. \A i \in Enqueued : candidate'[i] = IF i = Card THEN p ELSE candidate[i]
    BY <2>1, <2>2 DEF Shapes
  <2>4. \A q \in Photo : \A i \in Enqueued : On(q, i)' => On(q, i) \/ (i = Card /\ q = p)
    BY <1>1, <2>3 DEF On, Sourced
  <2>5. p \notin Losable => \A i \in Enqueued : ~On(p, i)
    BY <1>1, <2>1 DEF Own, Known
  <2>6. Apart' /\ Known'
    BY <1>1, <2>1, <2>4, <2>5 DEF Own, Apart, Known, Losable
  <2>7. Waits'
    <3>1. Offered' = Offered
      BY <1>1 DEF Offered
    <3>2. ASSUME NEW q \in Photo, NEW k \in DOMAIN Offered, Offered[k] = q
          PROVE  /\ q \in seen'
                 /\ q \notin Losable => \A i \in Enqueued' : ~On(q, i)'
                 /\ \A l \in DOMAIN Offered : Offered[l] = q => l = k
      <4>1. /\ q \in seen
            /\ q \notin Losable => \A i \in Enqueued : ~On(q, i)
            /\ \A l \in DOMAIN Offered : Offered[l] = q => l = k
        BY <3>2 DEF Own, Waits
      <4>2. q # p
        BY <4>1, <2>1
      <4> QED
        BY <1>1, <2>4, <4>1, <4>2
    <3> QED
      BY <3>1, <3>2 DEF Waits, Losable
  <2>8. Analysed'
    <3>1. \A f \in inflight : f.item \in Enqueued /\ candidate[f.item] \in Photo
      BY DEF Analyses
    <3>2. Unresolved \notin Photo
      BY CoordinatorConstants
    <3>3. \A f \in inflight : f.item # Card
      BY <3>1, <3>2, <2>1
    <3> QED
      BY <1>1, <2>3, <3>1, <3>3 DEF Own, Analysed
  <2> QED
    BY <2>6, <2>7, <2>8 DEF Own
<1> QED
  BY <1>2, <1>3

\* Between helpers nothing is on offer.
LEMMA ForgottenOwn ==
  ASSUME SavesInv, Own, Forgotten
  PROVE  Own'
<1>1. /\ items' = items /\ Enqueued' = Enqueued /\ inflight' = {} /\ helper' = "down"
      /\ \A i \in Enqueued : candidate'[i] = None
      /\ deferred' = <<>> /\ fill'.found = <<>>
  BY DEF Forgotten, ledgerVars, NoFill, Enqueued
<1>2. DOMAIN Offered' = {}
  BY <1>1 DEF Offered
<1>3. \A p \in Photo : \A i \in Enqueued : On(p, i)' => On(p, i)
  <2>1. None \notin Photo
    BY LedgerConstants DEF None, Photo
  <2> QED
    BY <1>1, <2>1 DEF On, Sourced
<1>4. Apart' /\ Known'
  BY <1>1, <1>3 DEF Own, Apart, Known, Losable
<1> QED
  BY <1>1, <1>2, <1>4 DEF Own, Waits, Analysed

LEMMA Backwards ==
  ASSUME NEW a \in Int, NEW b \in Int, NEW c \in Int, c = a - b
  PROVE  b + c = a
  OBVIOUS

LEMMA Dropped ==
  ASSUME NEW X, NEW s \in Seq(X), NEW m \in 0..Len(s)
  PROVE  /\ SubSeq(s, m + 1, Len(s)) \in Seq(X)
         /\ Len(SubSeq(s, m + 1, Len(s))) = Len(s) - m
         /\ \A k \in 1..(Len(s) - m) : SubSeq(s, m + 1, Len(s))[k] = s[m + k]
<1> DEFINE b == SubSeq(s, m + 1, Len(s))
<1>1. Len(s) \in Nat /\ m \in Nat /\ m <= Len(s)
  BY LenProperties
<1>2. \A k \in (m + 1)..Len(s) : s[k] \in X
  BY <1>1, ElementOfSeq
<1>3. /\ b \in Seq(X) /\ Len(b) = IF m + 1 <= Len(s) THEN Len(s) - (m + 1) + 1 ELSE 0
      /\ \A k \in 1..(Len(s) - (m + 1) + 1) : b[k] = s[(m + 1) + k - 1]
  BY <1>1, <1>2, SubSeqProperties
<1>4. /\ Len(s) - (m + 1) + 1 = Len(s) - m /\ (m + 1 <= Len(s) \/ Len(s) - m = 0)
  BY <1>1
<1> HIDE DEF b
<1>5. ASSUME NEW k \in 1..(Len(s) - m)
      PROVE  b[k] = s[m + k]
  <2>1. k \in 1..(Len(s) - (m + 1) + 1)
    BY <1>4
  <2>2. k \in Int /\ m \in Int
    BY <1>1
  <2>3. (m + 1) + k - 1 = m + k
    BY ONLY <2>2
  <2>4. b[k] = s[(m + 1) + k - 1]
    BY <1>3, <2>1
  <2> QED
    BY ONLY <2>3, <2>4
<1>6. Len(b) = Len(s) - m
  BY <1>3, <1>4, Zenon
<1> QED
  BY <1>3, <1>5, <1>6 DEF b

\* What new cards take from, and what is set aside when n have taken.
Offering == SubSeq(deferred, 1, fill.taken) \o fill.found

Remaining(n) ==
  SubSeq(deferred, Least(n, fill.taken) + 1, Len(deferred))
    \o SubSeq(Offering, (IF n > fill.taken THEN n ELSE fill.taken) + 1, Len(Offering))

\* Their places among the offers.
Taken(k) == IF k <= fill.taken THEN k ELSE Len(deferred) + k - fill.taken

SetAside(n, k) ==
  IF k <= Len(deferred) - Least(n, fill.taken) THEN Least(n, fill.taken) + k ELSE n + k

LEMMA Handed ==
  ASSUME Offers, NEW n \in 0..(fill.taken + Len(fill.found))
  PROVE  /\ Len(Offering) = fill.taken + Len(fill.found)
         /\ \A k \in 1..n : Offering[k] = Offered[Taken(k)]
         /\ Remaining(n) \in Seq(Photo)
         /\ DOMAIN Remaining(n) = 1..(Len(deferred) + Len(fill.found) - n)
         /\ \A k \in DOMAIN Remaining(n) : Remaining(n)[k] = Offered[SetAside(n, k)]
<1> DEFINE d      == deferred
           f      == fill.found
           t      == fill.taken
           offers == Offering
           from   == IF n > t THEN n ELSE t
           rest   == Remaining(n)
<1>0. /\ offers = SubSeq(d, 1, t) \o f /\ from = IF n > t THEN n ELSE t
      /\ rest = SubSeq(d, Least(n, t) + 1, Len(d)) \o SubSeq(offers, from + 1, Len(offers))
      /\ d \in Seq(Photo) /\ f \in Seq(Photo) /\ t \in Nat /\ t <= Len(d)
      /\ n \in 0..(t + Len(f)) /\ Offered = d \o f
  BY DEF Offering, Remaining, Offers, Offered
<1>taken. \A k : Taken(k) = IF k <= t THEN k ELSE Len(d) + k - t
  BY DEF Taken
<1>aside. \A k : SetAside(n, k) = IF k <= Len(d) - Least(n, t) THEN Least(n, t) + k ELSE n + k
  BY DEF SetAside
<1> HIDE DEF d, f, t, offers, from, rest
<1>1. Len(d) \in Nat /\ Len(f) \in Nat /\ t \in Nat /\ n \in Nat /\ t <= Len(d) /\ n <= t + Len(f)
  BY <1>0, LenProperties
<1>2. /\ \A k \in 1..Len(d) : (d \o f)[k] = d[k]
      /\ \A k \in 1..Len(f) : (d \o f)[Len(d) + k] = f[k]
  BY <1>0, Joined
<1> DEFINE a == SubSeq(d, 1, t)
           m == Least(n, t)
           b == SubSeq(d, m + 1, Len(d))
           c == SubSeq(offers, from + 1, Len(offers))
<1>3. a \in Seq(Photo) /\ Len(a) = t /\ \A k \in 1..t : a[k] = d[k]
  <2>1. \A k \in 1..t : d[k] \in Photo
    BY <1>0, <1>1, ElementOfSeq
  <2>2. /\ a \in Seq(Photo) /\ Len(a) = IF 1 <= t THEN t - 1 + 1 ELSE 0
        /\ \A k \in 1..(t - 1 + 1) : a[k] = d[1 + k - 1]
    BY <1>1, <2>1, SubSeqProperties
  <2> HIDE DEF a
  <2> QED
    BY <1>1, <2>2
<1>4. /\ offers \in Seq(Photo) /\ Len(offers) = t + Len(f)
      /\ \A k \in 1..(t + Len(f)) : offers[k] = (d \o f)[Taken(k)]
  <2>1. /\ a \o f \in Seq(Photo) /\ Len(a \o f) = t + Len(f)
        /\ \A k \in 1..(t + Len(f)) : (a \o f)[k] = IF k <= t THEN a[k] ELSE f[k - t]
    <3> HIDE DEF a
    <3> QED
      BY <1>0, <1>3, ConcatProperties
  <2>2. ASSUME NEW k \in 1..(t + Len(f))
        PROVE  offers[k] = (d \o f)[Taken(k)]
    <3>1. CASE k <= t
      <4>1. k \in 1..t /\ k \in 1..Len(d)
        BY <1>1, <3>1
      <4> QED
        BY <1>0, <1>2, <1>3, <1>taken, <2>1, <3>1, <4>1
    <3>2. CASE ~(k <= t)
      <4>1. k - t \in 1..Len(f) /\ Len(d) + k - t = Len(d) + (k - t)
        BY <1>1, <3>2
      <4> QED
        BY <1>0, <1>2, <1>taken, <2>1, <3>2, <4>1
    <3> QED
      BY <3>1, <3>2
  <2> QED
    BY <1>0, <2>1, <2>2
<1>5. /\ m \in Nat /\ m <= n /\ m <= t /\ from \in Nat /\ from <= t + Len(f) /\ m <= Len(d)
      /\ t <= from /\ from + m = n + t
  BY <1>0, <1>1 DEF Least
<1> HIDE DEF m
<1>6. /\ b \in Seq(Photo) /\ Len(b) = Len(d) - m
      /\ \A k \in 1..(Len(d) - m) : b[k] = d[m + k]
  <2>1. m \in 0..Len(d)
    BY <1>1, <1>5
  <2> QED
    BY <1>0, <2>1, Dropped
<1>7. /\ c \in Seq(Photo) /\ Len(c) = t + Len(f) - from
      /\ \A k \in 1..(t + Len(f) - from) : c[k] = offers[from + k]
  <2>1. from \in 0..Len(offers) /\ Len(offers) = t + Len(f) /\ offers \in Seq(Photo)
    BY <1>1, <1>4, <1>5
  <2>2. /\ c \in Seq(Photo) /\ Len(c) = Len(offers) - from
        /\ \A k \in 1..(Len(offers) - from) : c[k] = offers[from + k]
    BY ONLY <2>1, Dropped
  <2> HIDE DEF c
  <2>3. Len(offers) = t + Len(f)
    BY <1>4
  <2> QED
    BY ONLY <1>1, <1>5, <2>2, <2>3
<1>8. /\ rest \in Seq(Photo) /\ DOMAIN rest = 1..(Len(d) + Len(f) - n)
      /\ \A k \in 1..(Len(d) - m) : rest[k] = b[k]
      /\ \A k \in 1..(t + Len(f) - from) : rest[Len(d) - m + k] = c[k]
  <2>1. rest = b \o c
    BY <1>0 DEF m
  <2> HIDE DEF b, c
  <2>2. /\ rest \in Seq(Photo) /\ DOMAIN rest = 1..(Len(b) + Len(c))
        /\ \A k \in 1..Len(b) : rest[k] = b[k]
        /\ \A k \in 1..Len(c) : rest[Len(b) + k] = c[k]
    BY ONLY <1>6, <1>7, <2>1, Joined, SMTT(30)
  <2>3. (Len(d) - m) + (t + Len(f) - from) = Len(d) + Len(f) - n
    BY ONLY <1>1, <1>5
  <2> QED
    BY <1>6, <1>7, <2>2, <2>3
<1> HIDE DEF a, b, c
<1>9. ASSUME NEW k \in DOMAIN rest
      PROVE  rest[k] = (d \o f)[SetAside(n, k)]
  <2>1. CASE k <= Len(d) - m
    <3>0. k \in 1..(Len(d) + Len(f) - n)
      BY <1>8
    <3>1. k \in 1..(Len(d) - m) /\ m + k \in 1..Len(d)
      BY ONLY <1>1, <1>5, <2>1, <3>0
    <3> QED
      BY <1>2, <1>6, <1>8, <1>aside, <2>1, <3>1 DEF m
  <2>2. CASE ~(k <= Len(d) - m)
    <3> DEFINE j == k - (Len(d) - m)
    <3>0. k \in 1..(Len(d) + Len(f) - n)
      BY <1>8
    <3>1. /\ j \in 1..(t + Len(f) - from) /\ Len(d) - m + j = k
          /\ from + j \in 1..(t + Len(f)) /\ from + j > t
          /\ Len(d) + (from + j) - t = n + k
      <4>1. /\ Len(d) \in Nat /\ Len(f) \in Nat /\ t \in Nat /\ n \in Nat
            /\ k \in Nat /\ k <= Len(d) + Len(f) - n
        BY <1>1, <3>0
      <4>2. /\ m \in Nat /\ m <= Len(d) /\ from \in Nat /\ t <= from /\ from + m = n + t
            /\ k > Len(d) - m /\ j = k - (Len(d) - m)
        BY <1>1, <1>5, <2>2, <4>1
      <4> HIDE DEF j
      <4>3. j \in Int /\ j >= 1
        BY ONLY <4>1, <4>2
      <4>4. from + j > t
        BY ONLY <4>1, <4>2, <4>3
      <4>5. from + j <= t + Len(f)
        BY ONLY <4>1, <4>2, <4>3
      <4>6. j <= t + Len(f) - from
        BY ONLY <4>1, <4>2, <4>3
      <4>7. Len(d) - m + j = k
        BY ONLY <4>1, <4>2, <4>3, Backwards
      <4>8. Len(d) + (from + j) - t = n + k
        <5>1. Len(d) + (from + j) - t = (Len(d) - m + j) + (from + m) - t
          BY ONLY <4>1, <4>2, <4>3
        <5>2. from + m = n + t
          BY ONLY <4>2
        <5>3. k + (n + t) - t = n + k
          BY ONLY <4>1
        <5> QED
          BY ONLY <4>7, <5>1, <5>2, <5>3
      <4>9. j \in 1..(t + Len(f) - from)
        BY ONLY <4>1, <4>2, <4>3, <4>6
      <4>10. from + j \in 1..(t + Len(f))
        BY ONLY <4>1, <4>2, <4>3, <4>5
      <4> QED
        BY ONLY <4>4, <4>7, <4>8, <4>9, <4>10
    <3> HIDE DEF j
    <3>2. rest[k] = offers[from + j]
      BY <1>7, <1>8, <3>1
    <3>3. Taken(from + j) = n + k
      <4>1. ~(from + j <= t)
        BY <1>1, <3>1
      <4> QED
        BY <1>taken, <3>1, <4>1
    <3>4. SetAside(n, k) = n + k
      BY <1>aside, <2>2 DEF m
    <3> QED
      BY <1>4, <3>1, <3>2, <3>3, <3>4
  <2> QED
    BY <2>1, <2>2
<1>10. \A k \in 1..n : k \in 1..(t + Len(f))
  BY <1>1
<1> QED
  BY <1>0, <1>4, <1>8, <1>9, <1>10 DEF d, f, t, offers, rest

\* The places are different ones.
LEMMA Places ==
  ASSUME Offers, NEW n \in 0..(fill.taken + Len(fill.found)),
         NEW size, size = Len(deferred) + Len(fill.found)
  PROVE  /\ \A k \in 1..n : Taken(k) \in 1..size
         /\ \A k \in 1..(size - n) : SetAside(n, k) \in 1..size
         /\ \A k, l \in 1..n : Taken(k) = Taken(l) => k = l
         /\ \A k, l \in 1..(size - n) : SetAside(n, k) = SetAside(n, l) => k = l
         /\ \A k \in 1..n, l \in 1..(size - n) : Taken(k) # SetAside(n, l)
<1> DEFINE t == fill.taken
           D == Len(deferred)
           F == Len(fill.found)
<1>1. D \in Nat /\ F \in Nat /\ t \in Nat /\ n \in Nat /\ t <= D /\ n <= t + F /\ size = D + F
  BY LenProperties DEF Offers
<1>taken. \A k : Taken(k) = IF k <= t THEN k ELSE D + k - t
  BY DEF Taken
<1>aside. \A k : SetAside(n, k) = IF k <= D - Least(n, t) THEN Least(n, t) + k ELSE n + k
  BY DEF SetAside
<1> HIDE DEF t, D, F
<1>3. ASSUME NEW k \in 1..n
      PROVE  Taken(k) \in 1..size /\ (n <= t => Taken(k) <= n)
             /\ Taken(k) = (IF k <= t THEN k ELSE D + k - t)
  BY <1>1, <1>taken
<1>4. ASSUME NEW l \in 1..(size - n)
      PROVE  /\ SetAside(n, l) \in 1..size
             /\ SetAside(n, l) = (IF n <= t THEN n + l ELSE IF l <= D - t THEN t + l ELSE n + l)
  BY <1>1, <1>aside DEF Least
<1>5. ASSUME NEW k \in 1..n, NEW l \in 1..n, Taken(k) = Taken(l)
      PROVE  k = l
  BY <1>1, <1>3, <1>5
<1>6. ASSUME NEW k \in 1..(size - n), NEW l \in 1..(size - n),
             SetAside(n, k) = SetAside(n, l)
      PROVE  k = l
  <2> DEFINE x == SetAside(n, k)
             y == SetAside(n, l)
  <2>1. x = (IF n <= t THEN n + k ELSE IF k <= D - t THEN t + k ELSE n + k)
    BY <1>4
  <2>2. y = (IF n <= t THEN n + l ELSE IF l <= D - t THEN t + l ELSE n + l)
    BY <1>4
  <2>3. x = y /\ k \in Int /\ l \in Int
    BY <1>1, <1>6
  <2> HIDE DEF x, y
  <2> QED
    BY ONLY <1>1, <2>1, <2>2, <2>3, SMTT(30)
<1>7. ASSUME NEW k \in 1..n, NEW l \in 1..(size - n)
      PROVE  Taken(k) # SetAside(n, l)
  BY <1>1, <1>3, <1>4, SMTT(60)
<1> QED
  BY <1>3, <1>4, <1>5, <1>6, <1>7, SMTT(30)

\* A new card takes an offer, and the other offers stay.
LEMMA AdmitOwn ==
  ASSUME SavesInv, SavesInv', Own, FillAdmit
  PROVE  Own'
<1> USE Numbers DEF SavesInv
<1> DEFINE offers == SubSeq(deferred, 1, fill.taken) \o fill.found
           n      == IF Running THEN Least(Len(offers), Missing) ELSE 0
           first  == Cardinality(Enqueued)
           new    == (first + 1)..(first + n)
           from   == IF n > fill.taken THEN n ELSE fill.taken
           row    == << [state |-> "discovered", source |-> None] >>
           rest   == SubSeq(deferred, Least(n, fill.taken) + 1, Len(deferred))
                       \o SubSeq(offers, from + 1, Len(offers))
           t      == fill.taken
           size   == Len(deferred) + Len(fill.found)
<1>1. /\ items' = [i \in ItemId |-> IF i \in new THEN row ELSE items[i]]
      /\ candidate' = [i \in ItemId |->
                         IF i \in new THEN offers[i - first] ELSE candidate[i]]
      /\ deferred' = rest /\ fill' = NoFill
      /\ UNCHANGED <<seen, inflight, helper>>
  <2>1. fill' = NoFill
    BY ONLY FillAdmit, Zenon DEF FillAdmit, FillReturns
  <2>2. UNCHANGED <<seen, inflight, helper>>
    BY ONLY FillAdmit, Zenon DEF FillAdmit
  <2>3. items' = [i \in ItemId |-> IF i \in new THEN row ELSE items[i]]
    BY ONLY FillAdmit, Zenon DEF FillAdmit
  <2>4. candidate' = [i \in ItemId |->
                        IF i \in new THEN offers[i - first] ELSE candidate[i]]
    BY ONLY FillAdmit, Zenon DEF FillAdmit
  <2>5. deferred' = rest
    BY ONLY FillAdmit, Zenon DEF FillAdmit
  <2> HIDE DEF offers, n, first, new, from, row, rest
  <2> QED
    BY <2>1, <2>2, <2>3, <2>4, <2>5, Zenon
<1>2. helper # "down"
  BY Alive DEF FillAdmit
<1>3. /\ t \in 0..Len(deferred) /\ deferred \in Seq(Photo) /\ fill.found \in Seq(Photo)
      /\ Len(deferred) \in Nat /\ Len(fill.found) \in Nat /\ t \in Nat
  BY LenProperties DEF Offers
<1>4. n \in 0..(t + Len(fill.found))
  <2>1. Len(offers) = t + Len(fill.found)
    <3>1. 0 \in 0..(fill.taken + Len(fill.found)) /\ offers = Offering
      BY <1>3 DEF Offering
    <3> QED
      BY <3>1, Handed
  <2>2. Missing \in Nat
    BY WindowCounts
  <2> HIDE DEF offers
  <2> QED
    BY <1>3, <2>1, <2>2 DEF Least
<1> HIDE DEF n
<1>5. /\ \A k \in 1..n : offers[k] = Offered[Taken(k)]
      /\ DOMAIN rest = 1..(size - n) /\ rest \in Seq(Photo)
      /\ \A k \in DOMAIN rest : rest[k] = Offered[SetAside(n, k)]
  <2>1. offers = Offering /\ rest = Remaining(n)
    BY DEF Offering, Remaining
  <2> HIDE DEF offers, rest
  <2> QED
    BY <1>4, <2>1, Handed
<1>6. /\ \A k \in 1..n : Taken(k) \in 1..size
      /\ \A k \in 1..(size - n) : SetAside(n, k) \in 1..size
      /\ \A k, l \in 1..n : Taken(k) = Taken(l) => k = l
      /\ \A k, l \in 1..(size - n) :
           SetAside(n, k) = SetAside(n, l) => k = l
      /\ \A k \in 1..n, l \in 1..(size - n) :
           Taken(k) # SetAside(n, l)
  BY <1>4, Places, SMTT(30)
<1>7. DOMAIN Offered = 1..size
  BY ONLY <1>3, Joined DEF Offered
<1>8. Offered' = rest
  <2>1. Offered' = deferred' \o <<>>
    BY <1>1 DEF Offered, NoFill
  <2> HIDE DEF rest
  <2> QED
    BY <1>1, <1>5, <2>1, ConcatEmptySeq
<1> HIDE DEF offers, from, rest, size
<1>9. first \in Nat /\ new \cap Enqueued = {} /\ n \in Nat
  BY <1>4, WindowCounts
<1>10. row # <<>> /\ DOMAIN row = {1} /\ row[1].source = None
  OBVIOUS
<1> HIDE DEF row
<1>11. Enqueued' = Enqueued \cup (new \cap ItemId)
  BY <1>1, <1>10 DEF Enqueued, InSession
<1>12. /\ \A i \in Enqueued : items'[i] = items[i] /\ candidate'[i] = candidate[i]
       /\ \A i \in new \cap ItemId : items'[i] = row /\ candidate'[i] = offers[i - first]
       /\ \A i \in new : i - first \in 1..n
  BY <1>1, <1>9
<1>13. \A p \in Photo : \A i \in Enqueued : On(p, i)' <=> On(p, i)
  BY <1>12 DEF On, Sourced
<1>14. ASSUME NEW p \in Photo, NEW i \in Enqueued' \ Enqueued, On(p, i)'
       PROVE  /\ i - first \in 1..n /\ i \in new
              /\ Taken(i - first) \in DOMAIN Offered
              /\ Offered[Taken(i - first)] = p
  <2>1. i \in new \cap ItemId /\ items'[i] = row /\ candidate'[i] = offers[i - first]
    BY <1>11, <1>12
  <2>2. None \notin Photo
    BY LedgerConstants DEF None, Photo
  <2>3. p = offers[i - first]
    BY <1>10, <1>14, <2>1, <2>2 DEF On, Sourced
  <2> QED
    BY <1>5, <1>6, <1>7, <1>12, <2>1, <2>3
<1> HIDE DEF new, first, t
<1>15. Apart'
  <2> SUFFICES ASSUME NEW p \in Photo \ Losable, NEW i \in Enqueued', NEW j \in Enqueued',
                      On(p, i)', On(p, j)'
               PROVE  i = j
    BY DEF Apart, Losable
  <2>1. CASE i \in Enqueued /\ j \in Enqueued
    BY <1>13, <2>1 DEF Own, Apart
  <2>2. CASE i \in Enqueued /\ j \notin Enqueued
    BY <1>13, <1>14, <2>2 DEF Own, Waits
  <2>3. CASE i \notin Enqueued /\ j \in Enqueued
    BY <1>13, <1>14, <2>3 DEF Own, Waits
  <2>4. CASE i \notin Enqueued /\ j \notin Enqueued
    <3>1. Taken(i - first) = Taken(j - first)
      BY <1>14, <2>4 DEF Own, Waits
    <3>2. i - first = j - first
      BY <1>6, <1>14, <2>4, <3>1
    <3> QED
      BY <1>9, <1>14, <2>4, <3>2 DEF new
  <2> QED
    BY <2>1, <2>2, <2>3, <2>4
<1>16. Known'
  <2> SUFFICES ASSUME NEW p \in Photo \ Losable, NEW i \in Enqueued', On(p, i)'
               PROVE  p \in seen
    BY <1>1 DEF Known, Losable
  <2>1. CASE i \in Enqueued
    BY <1>2, <1>13, <2>1 DEF Own, Known
  <2>2. CASE i \notin Enqueued
    BY <1>14, <2>2 DEF Own, Waits
  <2> QED
    BY <2>1, <2>2
<1>17. Waits'
  <2>1. ASSUME NEW p \in Photo, NEW k \in DOMAIN Offered', Offered'[k] = p
        PROVE  /\ SetAside(n, k) \in DOMAIN Offered
               /\ Offered[SetAside(n, k)] = p
               /\ k \in 1..(size - n)
    BY <1>5, <1>6, <1>7, <1>8, <2>1
  <2>2. ASSUME NEW p \in Photo, NEW k \in DOMAIN Offered', Offered'[k] = p
        PROVE  /\ p \in seen'
               /\ p \notin Losable => \A i \in Enqueued' : ~On(p, i)'
               /\ \A l \in DOMAIN Offered' : Offered'[l] = p => l = k
    <3>1. p \in seen'
      BY <1>1, <2>1, <2>2 DEF Own, Waits
    <3>2. ASSUME p \notin Losable, NEW i \in Enqueued', On(p, i)'
          PROVE  FALSE
      <4>1. CASE i \in Enqueued
        BY <1>13, <2>1, <2>2, <3>2, <4>1 DEF Own, Waits
      <4>2. CASE i \notin Enqueued
        <5>1. Taken(i - first) = SetAside(n, k)
          BY <1>14, <2>1, <2>2, <3>2, <4>2 DEF Own, Waits
        <5> QED
          BY <1>6, <1>14, <2>1, <2>2, <3>2, <4>2, <5>1
      <4> QED
        BY <4>1, <4>2
    <3>3. ASSUME NEW l \in DOMAIN Offered', Offered'[l] = p
          PROVE  l = k
      <4>1. SetAside(n, l) = SetAside(n, k)
        BY <2>1, <2>2, <3>3 DEF Own, Waits
      <4> QED
        BY <1>6, <2>1, <2>2, <3>3, <4>1
    <3> QED
      BY <3>1, <3>2, <3>3
  <2> QED
    BY <2>2 DEF Waits, Losable
<1>18. Analysed'
  <2>1. \A f \in inflight : f.item \in Enqueued
    BY DEF Analyses
  <2> QED
    BY <1>1, <1>12, <2>1 DEF Own, Analysed
<1> QED
  BY <1>15, <1>16, <1>17, <1>18 DEF Own

LEMMA Greatest ==
  ASSUME NEW S \in SUBSET Int, IsFiniteSet(S), S # {}
  PROVE  \E x \in S : \A y \in S : y <= x
<1> DEFINE n == Cardinality(S)
           q == Ascending(S)
<1>1. n \in Nat /\ n # 0 /\ IsFiniteSet(1..n) /\ Cardinality(1..n) = n
  <2>1. n \in Nat /\ n # 0
    BY FS_CardinalityType, FS_EmptySet
  <2> HIDE DEF n
  <2>2. IsFiniteSet(1..n) /\ Cardinality(1..n) = n
    BY <2>1, FS_Interval
  <2> QED
    BY <2>1, <2>2
<1>2. q \in [1..n -> S] /\ \A a, b \in 1..n : a < b => q[a] < q[b]
  BY AscendingOrder
<1> HIDE DEF q
<1>3. \A x \in S : x \in Int
  OBVIOUS
<1>4. q \in Injection(1..n, S)
  <2>1. ASSUME NEW a \in 1..n, NEW b \in 1..n, q[a] = q[b]
        PROVE  a = b
    <3>1. q[a] \in Int /\ ~(q[a] < q[b]) /\ ~(q[b] < q[a])
      <4>1. q[a] \in Int
        BY <1>2, <1>3
      <4>2. \A z \in Int : ~(z < z)
        OBVIOUS
      <4> QED
        BY ONLY <2>1, <4>1, <4>2
    <3>2. ~(a < b) /\ ~(b < a)
      BY <1>2, <3>1
    <3> HIDE DEF n
    <3> QED
      BY <1>1, <3>2
  <2> QED
    BY <1>2, <2>1 DEF Injection, IsInjective
<1>5. q \in Surjection(1..n, S)
  BY <1>1, <1>4, FS_Injection
<1> HIDE DEF n
<1>6. n \in 1..n /\ q[n] \in S
  BY <1>1, <1>2
<1>7. ASSUME NEW y \in S
      PROVE  y <= q[n]
  <2>1. PICK k \in 1..n : q[k] = y
    BY <1>5 DEF Surjection
  <2>2. CASE k = n
    BY <1>3, <2>1, <2>2
  <2>3. CASE k < n
    <3>1. q[k] < q[n]
      BY <1>2, <1>6, <2>3
    <3>2. q[k] \in Int /\ q[n] \in Int
      BY <1>3, <1>6, <2>1
    <3> QED
      BY <2>1, <3>1, <3>2
  <2> QED
    BY <1>1, <2>2, <2>3
<1> QED
  BY <1>6, <1>7

\* The run an earlier revision carried is one of the card's.
LEMMA EarlierIsSourced ==
  ASSUME SavesInv, NEW i \in Enqueued, EarlierRun(i) # None
  PROVE  Sourced(EarlierRun(i), i)
<1> USE Numbers DEF SavesInv
<1> DEFINE n == Revision(items, i)
           C == {r \in 1..(n - 1) : items[i][r].source # None}
           x == CHOOSE r \in C : \A q \in C : q <= r
<1>1. n \in Nat /\ DOMAIN items[i] = 1..n
  BY Rows, LenProperties DEF Revision
<1>2. C # {} /\ EarlierRun(i) = items[i][x].source
  BY DEF EarlierRun
<1> HIDE DEF n
<1>3. C \in SUBSET Int /\ IsFiniteSet(C)
  <2>1. 1 \in Int /\ n - 1 \in Int
    BY <1>1
  <2>2. IsFiniteSet(1..(n - 1))
    BY <2>1, FS_Interval
  <2>3. C \in SUBSET (1..(n - 1)) /\ C \in SUBSET Int
    OBVIOUS
  <2> HIDE DEF C
  <2>4. IsFiniteSet(C)
    BY <2>2, <2>3, FS_Subset
  <2> QED
    BY <2>3, <2>4
<1>4. \E r \in C : \A q \in C : q <= r
  <2> HIDE DEF C
  <2> QED
    BY <1>2, <1>3, Greatest
<1>5. x \in C
  <2> HIDE DEF C
  <2> QED
    BY <1>4
<1> HIDE DEF x
<1> QED
  BY <1>1, <1>2, <1>5 DEF Sourced

\* A recovered card is given one of its photos or none.
LEMMA RecoverOwn ==
  ASSUME SavesInv, SavesInv', Own, Recover
  PROVE  Own'
<1> USE Numbers DEF SavesInv
<1>1. /\ deferred' = <<>> /\ fill'.found = <<>> /\ inflight' = {}
  BY DEF Recover, Down, NoFill
<1>2. PICK gone \in LostRuns,
           anon \in SUBSET {i \in Enqueued : Current(items, i).state = "failed"} :
        /\ items' = [i \in ItemId |->
             IF i \in Enqueued
             THEN WithCheckpoint(items, i, RecoveredState(Current(items, i), gone), None)[i]
             ELSE items[i]]
        /\ candidate' = [i \in ItemId |->
             IF i \in Enqueued THEN RecoveredCandidate(i, gone, anon) ELSE None]
        /\ seen' = RecoveredSeen(gone)
  BY DEF Recover
<1> DEFINE st == [i \in Enqueued |-> RecoveredState(Current(items, i), gone)]
<1>3. st \in [Enqueued -> ItemStates]
  <2>1. \A i \in Enqueued : Current(items, i).state \in ItemStates
    BY DEF ItemRevision
  <2> QED
    BY <2>1 DEF RecoveredState, ItemStates
<1>4. items' = [i \in ItemId |-> IF i \in Enqueued THEN WithCheckpoint(items, i, st[i], None)[i]
                                 ELSE items[i]]
  BY <1>2
<1> HIDE DEF st
<1>5. /\ Marked(Enqueued) /\ Enqueued' = Enqueued
      /\ \A i \in Enqueued : Current(items', i).source = Current(items, i).source
  BY <1>3, <1>4, ManyMarked DEF Marked
<1>6. None \notin Photo /\ Unresolved \notin Photo
  BY LedgerConstants, CoordinatorConstants DEF None, Photo
<1>7. \A p \in Photo : \A i \in Enqueued : Sourced(p, i)' => Sourced(p, i)
  <2>1. \A j \in Enqueued : \A p : Sourced(p, j)' => Sourced(p, j) \/ (j \in Enqueued /\ p = None)
    BY <1>5, SourcesMarked
  <2> QED
    BY <1>6, <2>1
<1>8. ASSUME NEW i \in Enqueued, candidate'[i] \in Photo
      PROVE  Sourced(candidate'[i], i)
  <2>1. candidate'[i] = RecoveredCandidate(i, gone, anon)
    BY <1>2
  <2>2. candidate'[i] \in {None, Unresolved, Current(items, i).source, EarlierRun(i)}
    BY <2>1 DEF RecoveredCandidate
  <2>3. Sourced(Current(items, i).source, i)
    <3>1. Revision(items, i) \in DOMAIN items[i]
      BY Rows, LenProperties DEF Revision
    <3> QED
      BY <3>1 DEF Sourced
  <2> QED
    BY <1>6, <1>8, <2>2, <2>3, EarlierIsSourced
<1>9. ASSUME NEW p \in Photo, NEW i \in Enqueued, On(p, i)'
      PROVE  Sourced(p, i)
  BY <1>7, <1>8, <1>9 DEF On
<1>10. Apart'
  BY <1>5, <1>9 DEF Own, Apart, On, Losable
<1>11. Known'
  <2>1. ASSUME NEW p \in Photo \ Losable, NEW i \in Enqueued, On(p, i)'
        PROVE  p \in seen'
    <3>1. PICK r \in DOMAIN items[i] : items[i][r].source = p
      BY <1>9, <2>1 DEF Sourced
    <3>2. p \in SourcesOf(Enqueued)
      BY <3>1 DEF SourcesOf
    <3>3. p \notin gone \cup {None}
      BY <1>6 DEF Losable
    <3> QED
      BY <1>2, <3>2, <3>3 DEF RecoveredSeen
  <2> QED
    BY <1>5, <2>1 DEF Known, Losable
<1>12. Waits' /\ Analysed'
  <2>1. Offered' = <<>>
    BY <1>1 DEF Offered
  <2> QED
    BY <1>1, <2>1 DEF Waits, Analysed
<1> QED
  BY <1>10, <1>11, <1>12 DEF Own

LEMMA OwnInit == Init => Own
<1> SUFFICES ASSUME Init
             PROVE  Own
  OBVIOUS
<1>1. Enqueued = {} /\ inflight = {}
  BY DEF Init, Enqueued, InSession
<1>2. Offered = <<>>
  BY DEF Init, Offered, NoFill
<1> QED
  BY <1>1, <1>2 DEF Own, Apart, Known, Waits, Analysed

LEMMA OwnNext ==
  ASSUME SavesInv, SavesInv', Own, [Next]_vars
  PROVE  Own'
<1>1. CASE FillStep \/ FillRaises
  BY <1>1, CalmOwn, DiscoverOwn, AdmitOwn DEF FillStep
<1>2. CASE SchedulerStep \/ \E kind \in {"schedule", "completing"} : ScheduleEnter(kind)
  <2>1. CASE SchedulePick \/ RestoreQueued \/ PrepareFailed \/ Submit
    <3>1. helper # "down"
      BY <2>1 DEF SchedulePick, RestoreQueued, PrepareFailed, Submit, SavesInv, Down, NoSched
    <3> QED
      BY <2>1, <3>1, SchedulerOwn
  <2> QED
    BY <1>2, <2>1, CalmOwn, PrepareOwn DEF SchedulerStep
<1>3. CASE \E f \in inflight : AnalysisFinished(f)
  BY <1>3, AnalysisOwn
<1>4. CASE (\E t \in Persister : PersistStep(t) \/ WritePhotos(t)) \/ WriteStep
  BY <1>4, SaverOwn DEF WriteStep
<1>5. CASE UserStep
  BY <1>5, UserOwn
<1>6. CASE Unload \/ Crash
  BY <1>6, ForgottenOwn DEF Unload, Crash
<1>7. CASE Recover
  BY <1>7, RecoverOwn
<1>8. CASE CloseStep \/ UNCHANGED vars
  BY <1>8, CalmOwn
<1> QED
  BY <1>1, <1>2, <1>3, <1>4, <1>5, <1>6, <1>7, <1>8 DEF Next

(***************************************************************************)
(* No photo is on two cards, photos whose run was lost apart: discovery,   *)
(* candidates set aside, replacements of recovered cards and the photos of *)
(* earlier revisions never overlap (queue_coordinator.py: _fill_slots;     *)
(* queue_runtime.py: discover, prepare and the recovery in _start).        *)
(***************************************************************************)
THEOREM CardsAreApart == Spec => []CardsHaveOwnPhotos
<1>1. SavesInv /\ Own => CardsHaveOwnPhotos
  <2> SUFFICES ASSUME SavesInv, Own, NEW i \in Enqueued, NEW j \in Enqueued, i # j,
                      NEW p \in SourcesOf({i}), p \in SourcesOf({j}), p # None
               PROVE  p \in Losable
    BY DEF CardsHaveOwnPhotos, Losable
  <2> USE Numbers DEF SavesInv
  <2>1. Sourced(p, i) /\ Sourced(p, j)
    BY DEF SourcesOf, Sourced
  <2>2. p \in Photo
    <3>1. PICK r \in DOMAIN items[i] : items[i][r].source = p
      BY <2>1 DEF Sourced
    <3>2. items[i][r] \in ItemRevision
      BY Rows, <3>1, LenProperties, ElementOfSeq
    <3> QED
      BY <3>1, <3>2 DEF ItemRevision, None, Photo
  <2> QED
    BY <2>1, <2>2 DEF Own, Apart, On
<1>2. SavesInv /\ Own /\ [Next]_vars => Own'
  BY SavesNext, OwnNext
<1> QED
  BY <1>1, <1>2, SavesAlways, OwnInit, PTL DEF Spec

-----------------------------------------------------------------------------
(***************************************************************************)
(* The bound of the inference pool, and the types.                         *)
(***************************************************************************)

\* What is left to offer fits the unused cards.
Room ==
  /\ fill.missing \in Nat /\ (fill.pc # "admit" => fill.found = <<>>)
  /\ Cardinality(Enqueued) + Len(deferred)
       + (IF fill.pc \in {"read", "discover"} THEN fill.missing ELSE Len(fill.found))
       <= LastItem

\* Revisions are counted from 1 and bounded.
Keyed ==
  /\ \A i \in ItemId : Revision(items, i) <= MaxItemRevision
  /\ \A k \in DOMAIN sched.batch : sched.batch[k][2] # 0
  /\ \A f \in inflight : f.rev # 0

Flags ==
  /\ session \in SessionStates
  /\ helper \in {"up", "closing", "draining", "closed", "gone", "aborting", "down"}
  /\ lane \in {"free", "fill", "prepare", "write"}
  /\ commands \in 0..MaxCommands /\ crashes \in 0..MaxCrashes

Counts == callers \in [{"start", "fill", "schedule", "completing"} -> Nat]

Choices == candidate \in [ItemId -> Photos] /\ decisions \subseteq Decision

Pool == IsFiniteSet(inflight) /\ InferenceBounded

LEMMA FlagsNext ==
  ASSUME Flags, [Next]_vars
  PROVE  Flags'
<1> USE DEF Flags, SessionStates
<1>1. CASE FillStep \/ FillRaises
  BY <1>1 DEF FillStep, FillRaises, FillEnter, FillRead, FillDiscover, FillAdmit,
              ledgerVars, boundVars
<1>2. CASE SchedulerStep \/ \E kind \in {"schedule", "completing"} : ScheduleEnter(kind)
  BY <1>2 DEF SchedulerStep, ScheduleEnter, SchedulePick, ScheduleLeave, ScheduleEnd,
              PrepareRead, RestoreQueued, Prepare, Submit, PrepareFailed, ledgerVars,
              boundVars
<1>3. CASE \E f \in inflight : AnalysisFinished(f)
  BY <1>3 DEF AnalysisFinished, Finished, boundVars
<1>4. CASE \E t \in Persister : PersistStep(t) \/ WritePhotos(t)
  BY <1>4 DEF PersistStep, PersistDecide, PersistSubmit, PersistSettle, PersistLeave,
              WritePhotos, ledgerVars, boundVars
<1>5. CASE WriteStep
  BY <1>5 DEF WriteStep, WriteBegin, WriteReturn, ledgerVars, boundVars
<1>6. CASE UserStep
  <2>1. CASE \E id \in DecisionId, i \in Enqueued : Discard(id, i) \/ Rescan(id, i)
    BY <2>1, CoordinatorConstants DEF Discard, Rescan, Command
  <2>2. CASE \E t \in Persister, id \in DecisionId, i \in Enqueued :
               \E r \in DOMAIN items[i] : PersistArrive(t, id, i, r)
    BY <2>2, CoordinatorConstants DEF PersistArrive, Command, ledgerVars
  <2>3. CASE Pause \/ Resume \/ UpdateConfig \/ Stop
    BY <2>3, CoordinatorConstants DEF Pause, Resume, UpdateConfig, Stop, Command
  <2> QED
    BY <1>6, <2>1, <2>2, <2>3 DEF UserStep
<1>7. CASE Unload \/ Crash
  BY <1>7, CoordinatorConstants DEF Unload, Crash, Forgotten, ledgerVars
<1>8. CASE Recover \/ CloseStep \/ UNCHANGED vars
  BY <1>8 DEF Recover, CloseStep, vars, ledgerVars, boundVars
<1> QED
  BY <1>1, <1>2, <1>3, <1>4, <1>5, <1>6, <1>7, <1>8 DEF Next

LEMMA CountsNext ==
  ASSUME Counts, [Next]_vars
  PROVE  Counts'
<1> DEFINE Kinds == {"start", "fill", "schedule", "completing"}
<1>1. \A k \in Kinds : [callers EXCEPT ![k] = @ + 1] \in [Kinds -> Nat]
  BY DEF Counts
<1>2. \A k \in Kinds : callers[k] > 0 => [callers EXCEPT ![k] = @ - 1] \in [Kinds -> Nat]
  BY DEF Counts
<1>3. CASE UNCHANGED callers
  BY <1>3 DEF Counts
<1>4. CASE \E k \in Kinds : callers' = [callers EXCEPT ![k] = @ + 1]
  BY <1>1, <1>4 DEF Counts
<1>5. CASE \E k \in Kinds : callers[k] > 0 /\ callers' = [callers EXCEPT ![k] = @ - 1]
  BY <1>2, <1>5 DEF Counts
<1>6. CASE FillStep \/ FillRaises
  <2>1. ASSUME NEW k \in {"start", "fill"}, FillEnter(k)
        PROVE  Counts'
    <3>1. CASE callers' = [callers EXCEPT ![k] = @ - 1, !.schedule = @ + 1]
      <4>1. callers[k] > 0
        BY <2>1 DEF FillEnter
      <4>2. [callers EXCEPT ![k] = @ - 1] \in [Kinds -> Nat]
        BY <1>2, <4>1
      <4>3. \A c \in [Kinds -> Nat] : [c EXCEPT !.schedule = @ + 1] \in [Kinds -> Nat]
        OBVIOUS
      <4>4. [callers EXCEPT ![k] = @ - 1, !.schedule = @ + 1]
              = [[callers EXCEPT ![k] = @ - 1] EXCEPT !.schedule = @ + 1]
        BY DEF Counts
      <4> QED
        BY <3>1, <4>2, <4>3, <4>4 DEF Counts
    <3>2. CASE callers[k] > 0 /\ callers' = [callers EXCEPT ![k] = @ - 1]
      BY <1>5, <3>2
    <3> QED
      BY <2>1, <3>1, <3>2, Zenon DEF FillEnter
  <2>2. CASE FillAdmit
    <3>1. callers' = [callers EXCEPT !["schedule"] = @ + 1]
      BY <2>2, Zenon DEF FillAdmit, FillReturns
    <3> QED
      BY <1>4, <3>1
  <2>3. CASE FillRead \/ FillDiscover \/ FillRaises
    BY <1>3, <2>3, Zenon DEF FillRead, FillDiscover, FillRaises
  <2> QED
    BY <1>6, <2>1, <2>2, <2>3 DEF FillStep
<1>7. CASE SchedulerStep \/ \E kind \in {"schedule", "completing"} : ScheduleEnter(kind)
  <2>1. CASE \E kind \in {"schedule", "completing"} : ScheduleEnter(kind)
    BY <1>5, <2>1, Zenon DEF ScheduleEnter
  <2>2. CASE SchedulerStep
    BY <1>3, <2>2, Zenon DEF SchedulerStep, SchedulePick, ScheduleLeave, ScheduleEnd, PrepareRead,
                      RestoreQueued, Prepare, Submit, PrepareFailed
  <2> QED
    BY <1>7, <2>1, <2>2
<1>8. CASE \E f \in inflight : AnalysisFinished(f)
  BY <1>4, <1>8, Zenon DEF AnalysisFinished, Finished
<1>9. CASE \E t \in Persister : PersistStep(t) \/ WritePhotos(t)
  <2>1. PICK t \in Persister : PersistStep(t) \/ WritePhotos(t)
    BY <1>9
  <2>2. CASE PersistLeave(t)
    BY <1>3, <1>4, <2>2, Zenon DEF PersistLeave
  <2>3. CASE PersistDecide(t) \/ PersistSubmit(t) \/ PersistSettle(t) \/ WritePhotos(t)
    BY <1>3, <2>3, Zenon DEF PersistDecide, PersistSubmit, PersistSettle, WritePhotos, threadVars
  <2> QED
    BY <2>1, <2>2, <2>3 DEF PersistStep
<1>10. CASE WriteStep
  BY <1>3, <1>10, Zenon DEF WriteStep, WriteBegin, WriteReturn, threadVars
<1>11. CASE UserStep
  <2>1. CASE \E id \in DecisionId, i \in Enqueued : Discard(id, i) \/ Rescan(id, i)
    BY <1>4, <2>1, Zenon DEF Discard, Rescan
  <2>2. CASE \E t \in Persister, id \in DecisionId, i \in Enqueued :
               \E r \in DOMAIN items[i] : PersistArrive(t, id, i, r)
    BY <1>3, <2>2, Zenon DEF PersistArrive, threadVars
  <2>3. CASE Pause \/ Resume \/ UpdateConfig \/ Stop
    BY <1>3, <1>4, <2>3, Zenon DEF Pause, Resume, UpdateConfig, Stop, threadVars
  <2> QED
    BY <1>11, <2>1, <2>2, <2>3 DEF UserStep
<1>12. CASE Unload \/ Crash
  BY <1>12 DEF Unload, Crash, Forgotten, NoCallers, Counts
<1>13. CASE Recover \/ CloseStep \/ UNCHANGED vars
  <2>1. CASE Recover
    <3>1. callers' = [callers EXCEPT !["start"] = 1]
      BY <2>1, Zenon DEF Recover
    <3> QED
      BY <3>1 DEF Counts
  <2> QED
    BY <1>3, <1>13, <2>1, Zenon DEF CloseStep, vars, threadVars
<1> QED
  BY <1>6, <1>7, <1>8, <1>9, <1>10, <1>11, <1>12, <1>13 DEF Next

-----------------------------------------------------------------------------

Working == {"each", "defer", "prepare", "submit", "fail"}

LEMMA FewFirst ==
  ASSUME NEW S \in SUBSET Int, IsFiniteSet(S), NEW n \in Nat
  PROVE  IsFiniteSet(First(S, n)) /\ Cardinality(First(S, n)) <= n
<1> DEFINE F == First(S, n)
<1>1. F \in SUBSET S /\ IsFiniteSet(F) /\ Cardinality(F) \in Nat
  <2>1. F \in SUBSET S
    BY DEF First
  <2> QED
    BY <2>1, FS_Subset, FS_CardinalityType
<1>2. ASSUME F # {}
      PROVE  Cardinality(F) <= n
  <2>1. F \in SUBSET Int
    BY <1>1
  <2> HIDE DEF F
  <2>2. PICK x \in F : \A y \in F : y <= x
    BY <1>1, <1>2, <2>1, Greatest
  <2> DEFINE below == {y \in S : y < x}
  <2>3. x \in S /\ Cardinality(below) < n
    BY <2>2 DEF F, First
  <2>4. F \ {x} \subseteq below
    BY <1>1, <2>1, <2>2
  <2>5. below \in SUBSET S
    OBVIOUS
  <2> HIDE DEF below
  <2>6. IsFiniteSet(below) /\ Cardinality(below) \in Nat
    BY <2>5, FS_Subset, FS_CardinalityType
  <2>7. Cardinality(F \ {x}) <= Cardinality(below) /\ Cardinality(F \ {x}) \in Nat
    BY <2>4, <2>6, FS_Subset, FS_CardinalityType
  <2>8. Cardinality(F \ {x}) = Cardinality(F) - 1
    BY <1>1, <2>2, FS_RemoveElement
  <2> QED
    BY <1>1, <2>3, <2>6, <2>7, <2>8
<1>3. F = {} => Cardinality(F) = 0
  BY FS_EmptySet
<1> QED
  BY <1>1, <1>2, <1>3

\* A pass takes no more cards than its capacity, at their current revision.
LEMMA PassTakes ==
  ASSUME SavesInv, IsFiniteSet(inflight), SchedulePick, Scheduling
  PROVE  /\ inflight' = inflight /\ sched'.pc = "each"
         /\ Len(sched'.batch) \in Nat /\ Len(sched'.batch) <= Capacity
         /\ \A k \in DOMAIN sched'.batch : sched'.batch[k][2] # 0
<1> USE Numbers DEF SavesInv
<1> DEFINE picked == First(Pending, Capacity)
           order  == Ascending(picked)
           taken  == [k \in DOMAIN order |-> <<order[k], Revision(items, order[k])>>]
<1>1. inflight' = inflight /\ sched' = [sched EXCEPT !.pc = "each", !.batch = taken]
  BY DEF SchedulePick
<1>2. Pending \in SUBSET Enqueued /\ IsFiniteSet(Pending) /\ Pending \in SUBSET Int
  <2>1. Pending \in SUBSET Enqueued
    BY DEF Pending
  <2>2. Enqueued \in SUBSET Int
    BY WindowCounts
  <2> QED
    BY <2>1, <2>2, WindowCounts, FS_Subset
<1>3. IsFiniteSet(Preparing) /\ Cardinality(Preparing) \in Nat
  <2>1. Preparing \in SUBSET Enqueued
    BY DEF Preparing
  <2> QED
    BY <2>1, WindowCounts, FS_Subset, FS_CardinalityType
<1>4. Capacity \in Nat
  <2>1. config.concurrency \in Nat /\ Cardinality(inflight) \in Nat
    BY CoordinatorConstants, FS_CardinalityType DEF Shapes
  <2> QED
    BY <1>3, <2>1 DEF Capacity, AtLeast0
<1>5. IsFiniteSet(picked) /\ Cardinality(picked) <= Capacity /\ Cardinality(picked) \in Nat
  BY <1>2, <1>4, FewFirst, FS_CardinalityType
<1>6. picked \in SUBSET Enqueued /\ picked \in SUBSET Int
  BY <1>2 DEF First
<1> HIDE DEF picked
<1>7. order \in [1..Cardinality(picked) -> picked]
  BY <1>5, <1>6, AscendingOrder
<1> HIDE DEF order
<1>8. \A k \in 1..Cardinality(picked) : taken[k][2] = Revision(items, order[k]) /\ order[k] \in Enqueued
  BY <1>6, <1>7
<1>9. taken \in Seq(ItemId \X Nat) /\ Len(taken) = Cardinality(picked)
  <2>1. taken \in [1..Cardinality(picked) -> ItemId \X Nat]
    BY <1>6, <1>7
  <2> HIDE DEF taken
  <2>2. taken \in Seq(ItemId \X Nat)
    BY <1>5, <2>1, SeqDef
  <2> QED
    BY <1>5, <2>1, <2>2, LenProperties
<1>10. \A k \in 1..Cardinality(picked) : taken[k][2] # 0
  BY <1>8
<1> HIDE DEF taken
<1>11. sched'.batch = taken /\ sched'.pc = "each"
  BY <1>1 DEF Shapes
<1>12. DOMAIN taken = 1..Cardinality(picked)
  BY <1>9, LenProperties
<1> QED
  BY <1>1, <1>5, <1>9, <1>10, <1>11, <1>12

\* What else happens to the batch and to the analyses.
Idles == /\ inflight' \subseteq inflight
         /\ \/ sched'.batch = sched.batch /\ (sched'.pc \in Working => sched.pc \in Working)
            \/ sched'.batch = <<>>

Advances == /\ sched.pc \in Working /\ sched.batch # <<>> /\ sched'.batch = Tail(sched.batch)
            /\ \/ inflight' = inflight
               \/ \E p : inflight' = inflight \cup {[item |-> Card, rev |-> CardRev, photo |-> p]}

LEMMA Traffic ==
  ASSUME SavesInv, [Next]_vars
  PROVE  Idles \/ Advances \/ (SchedulePick /\ Scheduling)
<1> USE DEF SavesInv
<1>1. CASE UNCHANGED <<sched, inflight>>
  BY <1>1 DEF Idles
<1>2. CASE FillStep \/ FillRaises
  BY <1>1, <1>2, Zenon DEF FillStep, FillRaises, FillEnter, FillRead, FillDiscover, FillAdmit
<1>3. CASE \E kind \in {"schedule", "completing"} : ScheduleEnter(kind)
  <2>1. inflight' = inflight
    BY <1>3 DEF ScheduleEnter
  <2>2. \/ sched' = sched \/ sched' = [sched EXCEPT !.again = TRUE]
        \/ sched' = [sched EXCEPT !.pc = "pick"]
    BY <1>3, Zenon DEF ScheduleEnter
  <2> QED
    BY <2>1, <2>2 DEF Idles, Working, Shapes
<1>4. CASE RestoreQueued \/ Submit \/ PrepareFailed
  <2>1. sched.pc \in Working /\ sched.batch # <<>>
    BY <1>4 DEF RestoreQueued, Submit, PrepareFailed, Batch, Working
  <2>2. CASE RestoreQueued \/ PrepareFailed \/ (Submit /\ PoolOpen)
    <3>1. sched' = NextCard
      BY <2>2 DEF RestoreQueued, Submit, PrepareFailed
    <3>2. sched'.batch = Tail(sched.batch)
      BY <3>1 DEF NextCard, Shapes
    <3> QED
      BY <2>1, <2>2, <3>2 DEF RestoreQueued, Submit, PrepareFailed, Advances
  <2>3. CASE Submit /\ ~PoolOpen
    BY <2>3 DEF Submit, Idles, Shapes
  <2> QED
    BY <1>4, <2>2, <2>3
<1>5. CASE SchedulePick \/ ScheduleLeave \/ ScheduleEnd \/ PrepareRead \/ Prepare
  <2>1. CASE SchedulePick /\ ~Scheduling
    BY <2>1 DEF SchedulePick, Idles, Shapes, Working
  <2>2. CASE ScheduleLeave
    BY <2>2 DEF ScheduleLeave, Idles, Shapes, Working
  <2>3. CASE ScheduleEnd
    BY <2>3 DEF ScheduleEnd, Idles, NoSched
  <2>4. CASE PrepareRead \/ Prepare
    BY <2>4 DEF PrepareRead, Prepare, Idles, Shapes, Working
  <2> QED
    BY <1>5, <2>1, <2>2, <2>3, <2>4
<1>6. CASE \E f \in inflight : AnalysisFinished(f)
  BY <1>6 DEF AnalysisFinished, Finished, Idles
<1>7. CASE \E t \in Persister : PersistStep(t) \/ WritePhotos(t)
  BY <1>1, <1>7, Zenon DEF PersistStep, PersistDecide, PersistSubmit, PersistSettle, PersistLeave,
              WritePhotos, threadVars
<1>8. CASE WriteStep
  BY <1>1, <1>8, Zenon DEF WriteStep, WriteBegin, WriteReturn, threadVars
<1>9. CASE UserStep
  <2>1. CASE \E id \in DecisionId, i \in Enqueued : Discard(id, i) \/ Rescan(id, i)
    BY <1>1, <2>1, Zenon DEF Discard, Rescan
  <2>2. CASE \E t \in Persister, id \in DecisionId, i \in Enqueued :
               \E r \in DOMAIN items[i] : PersistArrive(t, id, i, r)
    BY <1>1, <2>2, Zenon DEF PersistArrive, threadVars
  <2>3. CASE Pause \/ Resume \/ UpdateConfig \/ Stop
    BY <1>1, <2>3, Zenon DEF Pause, Resume, UpdateConfig, Stop, threadVars
  <2> QED
    BY <1>9, <2>1, <2>2, <2>3 DEF UserStep
<1>10. CASE Unload \/ Crash
  BY <1>10 DEF Unload, Crash, Forgotten, NoSched, Idles
<1>11. CASE Recover \/ CloseStep \/ UNCHANGED vars
  BY <1>1, <1>11, Zenon DEF Recover, CloseStep, vars, threadVars
<1> QED
  BY <1>2, <1>3, <1>4, <1>5, <1>6, <1>7, <1>8, <1>9, <1>10, <1>11 DEF Next, SchedulerStep

LEMMA PoolNext ==
  ASSUME SavesInv, SavesInv', Pool, [Next]_vars
  PROVE  Pool'
<1> DEFINE batched == IF sched.pc \in Working THEN Len(sched.batch) ELSE 0
           load    == Cardinality(inflight) + batched
<1>1. PICK c \in Config : load <= c.concurrency
  BY DEF Pool, InferenceBounded, Working
<1>2. /\ Cardinality(inflight) \in Nat /\ IsFiniteSet(inflight)
      /\ sched.batch \in Seq(ItemId \X Nat) /\ Len(sched.batch) \in Nat
      /\ c.concurrency \in Nat
  BY CoordinatorConstants, FS_CardinalityType, LenProperties DEF Pool, SavesInv, Shapes
<1>3. CASE Idles
  <2>1. /\ IsFiniteSet(inflight') /\ Cardinality(inflight') <= Cardinality(inflight)
        /\ Cardinality(inflight') \in Nat
    BY <1>2, <1>3, FS_Subset, FS_CardinalityType DEF Idles
  <2>2. batched' <= batched /\ batched' \in Nat
    BY <1>2, <1>3 DEF Idles
  <2>3. load' <= c.concurrency
    BY <1>1, <1>2, <2>1, <2>2
  <2> QED
    BY <2>1, <2>3 DEF Pool, InferenceBounded, Working
<1>4. CASE Advances
  <2>1. /\ Len(Tail(sched.batch)) = Len(sched.batch) - 1 /\ Len(sched.batch) # 0
    BY <1>2, <1>4, HeadTailProperties, EmptySeq DEF Advances
  <2>2. /\ IsFiniteSet(inflight') /\ Cardinality(inflight') <= Cardinality(inflight) + 1
        /\ Cardinality(inflight') \in Nat
    <3>1. CASE inflight' = inflight
      BY <1>2, <3>1
    <3>2. ASSUME NEW f, inflight' = inflight \cup {f}
          PROVE  /\ IsFiniteSet(inflight') /\ Cardinality(inflight') \in Nat
                 /\ Cardinality(inflight') <= Cardinality(inflight) + 1
      <4>1. /\ IsFiniteSet(inflight \cup {f})
            /\ Cardinality(inflight \cup {f}) \in {Cardinality(inflight), Cardinality(inflight) + 1}
        BY <1>2, FS_AddElement
      <4> QED
        BY <1>2, <3>2, <4>1
    <3> QED
      BY <1>4, <3>1, <3>2 DEF Advances
  <2>3. batched = Len(sched.batch) /\ batched' <= Len(sched.batch) - 1
    BY <1>2, <1>4, <2>1 DEF Advances
  <2>4. load' <= c.concurrency
    <3> DEFINE a == Cardinality(inflight)
               b == Cardinality(inflight')
               m == Len(sched.batch)
               n == batched'
               z == c.concurrency
    <3>1. n \in Int
      BY <1>2, <1>4, <2>1 DEF Advances
    <3>2. /\ a \in Int /\ b \in Int /\ m \in Int /\ n \in Int /\ z \in Int
          /\ b <= a + 1 /\ n <= m - 1 /\ a + m <= z
      BY <1>1, <1>2, <2>2, <2>3, <3>1
    <3>3. load' = b + n
      OBVIOUS
    <3> HIDE DEF a, b, m, n, z, load
    <3>4. b + n <= z
      BY ONLY <3>2
    <3> QED
      BY <3>3, <3>4 DEF z
  <2> QED
    BY <2>2, <2>4 DEF Pool, InferenceBounded, Working
<1>5. CASE SchedulePick /\ Scheduling
  <2>1. /\ inflight' = inflight /\ sched'.pc \in Working
        /\ Len(sched'.batch) \in Nat /\ Len(sched'.batch) <= Capacity
    BY <1>2, <1>5, PassTakes DEF Working
  <2>2. load' = Cardinality(inflight) + Len(sched'.batch)
    BY <2>1
  <2>3. /\ config \in Config /\ config.concurrency \in Nat
        /\ Cardinality(Preparing) \in Nat
    <3>1. Preparing \in SUBSET Enqueued
      BY DEF Preparing
    <3>2. config \in Config /\ IsFiniteSet(Preparing)
      BY <3>1, WindowCounts, FS_Subset DEF SavesInv, Shapes
    <3> QED
      BY <3>2, CoordinatorConstants, FS_CardinalityType
  <2>4. load' <= c.concurrency \/ load' <= config.concurrency
    <3> DEFINE a == Cardinality(inflight)
               b == Cardinality(Preparing)
               m == Len(sched'.batch)
               d == config.concurrency
               z == c.concurrency
    <3>1. /\ a \in Int /\ b \in Nat /\ m \in Nat /\ d \in Int /\ z \in Int /\ a <= z
          /\ m <= AtLeast0(d - a - b)
      BY <1>1, <1>2, <2>1, <2>3 DEF Capacity
    <3> HIDE DEF a, b, m, d, z, load
    <3>2. a + m <= z \/ a + m <= d
      BY ONLY <3>1 DEF AtLeast0
    <3> QED
      BY <2>2, <3>2 DEF a, m, d, z
  <2> QED
    BY <2>1, <2>3, <2>4 DEF Pool, InferenceBounded, Working, SavesInv, Shapes
<1> QED
  BY <1>3, <1>4, <1>5, Traffic

-----------------------------------------------------------------------------

LEMMA AdmitGives ==
  ASSUME SavesInv, FillAdmit
  PROVE  /\ fill' = NoFill /\ deferred' \in Seq(Photo)
         /\ Cardinality(Enqueued') + Len(deferred')
              <= Cardinality(Enqueued) + Len(deferred) + Len(fill.found)
         /\ \A i \in ItemId : Revision(items', i) \in {Revision(items, i), 1}
         /\ DOMAIN candidate' = ItemId
         /\ \A i \in ItemId : candidate'[i] = candidate[i] \/ candidate'[i] \in Photo
         /\ UNCHANGED <<sched, inflight, decisions>>
<1> USE Numbers DEF SavesInv
<1> DEFINE offers == SubSeq(deferred, 1, fill.taken) \o fill.found
           n      == IF Running THEN Least(Len(offers), Missing) ELSE 0
           first  == Cardinality(Enqueued)
           new    == (first + 1)..(first + n)
           from   == IF n > fill.taken THEN n ELSE fill.taken
           row    == << [state |-> "discovered", source |-> None] >>
           rest   == SubSeq(deferred, Least(n, fill.taken) + 1, Len(deferred))
                       \o SubSeq(offers, from + 1, Len(offers))
<1>1. /\ items' = [i \in ItemId |-> IF i \in new THEN row ELSE items[i]]
      /\ candidate' = [i \in ItemId |->
                         IF i \in new THEN offers[i - first] ELSE candidate[i]]
      /\ deferred' = rest /\ fill' = NoFill
      /\ UNCHANGED <<sched, inflight, decisions>>
  <2>1. fill' = NoFill
    BY ONLY FillAdmit, Zenon DEF FillAdmit, FillReturns
  <2>2. UNCHANGED <<sched, inflight, decisions>>
    BY ONLY FillAdmit, Zenon DEF FillAdmit
  <2>3. items' = [i \in ItemId |-> IF i \in new THEN row ELSE items[i]]
    BY ONLY FillAdmit, Zenon DEF FillAdmit
  <2>4. candidate' = [i \in ItemId |->
                        IF i \in new THEN offers[i - first] ELSE candidate[i]]
    BY ONLY FillAdmit, Zenon DEF FillAdmit
  <2>5. deferred' = rest
    BY ONLY FillAdmit, Zenon DEF FillAdmit
  <2> HIDE DEF offers, n, first, new, from, row, rest
  <2> QED
    BY <2>1, <2>2, <2>3, <2>4, <2>5, Zenon
<1>2. /\ fill.taken \in 0..Len(deferred) /\ deferred \in Seq(Photo)
      /\ fill.found \in Seq(Photo) /\ Len(deferred) \in Nat /\ Len(fill.found) \in Nat
  BY LenProperties DEF Offers
<1>3. offers = Offering /\ rest = Remaining(n)
  BY DEF Offering, Remaining
<1> DEFINE size == fill.taken + Len(fill.found)
<1>4. size \in Nat /\ 0 \in 0..size
  BY <1>2, SMTT(30)
<1>5. Len(offers) = size
  BY <1>3, <1>4, Handed
<1>6. offers \in Seq(Photo)
  <2>1. \A k \in 1..fill.taken : deferred[k] \in Photo
    BY <1>2, ElementOfSeq
  <2>2. SubSeq(deferred, 1, fill.taken) \in Seq(Photo)
    BY <1>2, <2>1, SubSeqProperties
  <2> QED
    BY <1>2, <2>2, ConcatProperties
<1> HIDE DEF offers, rest
<1>7. n \in 0..size
  BY <1>4, <1>5, WindowCounts DEF Least
<1> HIDE DEF n
<1>8. /\ deferred' \in Seq(Photo)
      /\ Len(deferred') = Len(deferred) + Len(fill.found) - n
  <2>1. rest \in Seq(Photo) /\ DOMAIN rest = 1..(Len(deferred) + Len(fill.found) - n)
    BY <1>3, <1>7, Handed
  <2>2. Len(deferred) + Len(fill.found) - n \in Nat
    BY <1>2, <1>7
  <2>3. Len(rest) = Len(deferred) + Len(fill.found) - n
    <3> DEFINE m == Len(deferred) + Len(fill.found) - n
    <3>1. Len(rest) \in Nat /\ 1..Len(rest) = 1..m /\ m \in Nat
      BY <2>1, <2>2, LenProperties
    <3> HIDE DEF m
    <3>2. \A a \in Nat : Cardinality(1..a) = a
      BY FS_Interval
    <3> QED
      BY <3>1, <3>2 DEF m
  <2> QED
    BY <1>1, <2>1, <2>3
<1>9. Cardinality(Enqueued') \in Nat /\ Cardinality(Enqueued') <= first + n
  <2>1. Enqueued' \subseteq 1..(first + n)
    <3>1. Enqueued' \subseteq Enqueued \cup new
      BY <1>1 DEF Enqueued, InSession
    <3>2. Enqueued = 1..first /\ first \in Nat /\ n \in Nat
      BY <1>7, WindowCounts
    <3> QED
      BY ONLY <3>1, <3>2
  <2>2. first + n \in Nat
    BY <1>7, WindowCounts
  <2>3. IsFiniteSet(1..(first + n)) /\ Cardinality(1..(first + n)) = first + n
    BY <2>2, FS_Interval
  <2> QED
    BY <2>1, <2>3, FS_Subset, FS_CardinalityType
<1>10. \A i \in ItemId : Revision(items', i) \in {Revision(items, i), 1}
  BY <1>1 DEF Revision
<1> HIDE DEF row
<1>11. \A i \in ItemId : candidate'[i] = candidate[i] \/ candidate'[i] \in Photo
  <2>1. \A i \in new : i - first \in 1..Len(offers)
    BY <1>4, <1>5, <1>7, WindowCounts
  <2>2. \A k \in 1..Len(offers) : offers[k] \in Photo
    BY <1>6, ElementOfSeq
  <2> HIDE DEF new
  <2> QED
    BY <1>1, <2>1, <2>2
<1>12. Cardinality(Enqueued') + Len(deferred')
         <= Cardinality(Enqueued) + Len(deferred) + Len(fill.found)
  <2>1. first \in Nat /\ n \in Nat
    BY <1>7, WindowCounts
  <2> QED
    BY <1>2, <1>8, <1>9, <2>1
<1>13. DOMAIN candidate' = ItemId
  BY <1>1
<1> QED
  BY <1>1, <1>8, <1>10, <1>11, <1>12, <1>13

LEMMA KeyedNext ==
  ASSUME SavesInv, SavesInv', Pool, Keyed, [Next]_vars
  PROVE  Keyed'
<1>1. \A i \in ItemId : Revision(items', i) <= MaxItemRevision
  <2>1. CASE FillAdmit
    BY <2>1, AdmitGives, CoordinatorConstants DEF Keyed
  <2>2. CASE CardsKept
    BY <2>2 DEF Keyed, CardsKept, LengthKept
  <2> QED
    BY <2>1, <2>2, CardsNext
<1>2. sched.batch \in Seq(ItemId \X Nat) /\ sched'.batch \in Seq(ItemId \X Nat)
  BY DEF SavesInv, Shapes
<1>3. CASE Idles
  BY <1>1, <1>3, EmptySeq DEF Keyed, Idles
<1>4. CASE Advances
  <2>1. /\ sched'.batch = Tail(sched.batch) /\ Len(sched.batch) \in Nat /\ Len(sched.batch) # 0
        /\ 1 \in DOMAIN sched.batch /\ Head(sched.batch) = sched.batch[1]
    BY <1>2, <1>4, EmptySeq, LenProperties, HeadTailProperties DEF Advances
  <2>2. \A k \in DOMAIN sched'.batch : k + 1 \in DOMAIN sched.batch
                                       /\ sched'.batch[k] = sched.batch[k + 1]
    BY <1>2, <2>1, LenProperties, HeadTailProperties
  <2>3. CardRev # 0
    BY <2>1 DEF Keyed, CardRev
  <2> QED
    BY <1>1, <1>4, <2>2, <2>3 DEF Keyed, Advances
<1>5. CASE SchedulePick /\ Scheduling
  BY <1>1, <1>5, PassTakes DEF Keyed, Pool
<1> QED
  BY <1>3, <1>4, <1>5, Traffic

LEMMA FillOrNot ==
  ASSUME [Next]_vars
  PROVE  FillStep \/ FillRaises \/ Unload \/ Crash \/ UNCHANGED <<fill, deferred>>
<1>1. CASE SchedulerStep \/ \E kind \in {"schedule", "completing"} : ScheduleEnter(kind)
  BY <1>1, Zenon DEF SchedulerStep, ScheduleEnter, SchedulePick, ScheduleLeave, ScheduleEnd,
              PrepareRead, RestoreQueued, Prepare, Submit, PrepareFailed, photoVars
<1>2. CASE \E f \in inflight : AnalysisFinished(f)
  BY <1>2, Zenon DEF AnalysisFinished, Finished
<1>3. CASE \E t \in Persister : PersistStep(t) \/ WritePhotos(t)
  BY <1>3, Zenon DEF PersistStep, PersistDecide, PersistSubmit, PersistSettle, PersistLeave,
              WritePhotos, threadVars, photoVars
<1>4. CASE WriteStep
  BY <1>4, Zenon DEF WriteStep, WriteBegin, WriteReturn, threadVars, photoVars
<1>5. CASE UserStep
  <2>1. CASE \E id \in DecisionId, i \in Enqueued : Discard(id, i) \/ Rescan(id, i)
    BY <2>1, Zenon DEF Discard, Rescan, photoVars
  <2>2. CASE \E t \in Persister, id \in DecisionId, i \in Enqueued :
               \E r \in DOMAIN items[i] : PersistArrive(t, id, i, r)
    BY <2>2, Zenon DEF PersistArrive, threadVars, photoVars
  <2>3. CASE Pause \/ Resume \/ UpdateConfig \/ Stop
    BY <2>3, Zenon DEF Pause, Resume, UpdateConfig, Stop, threadVars, photoVars
  <2> QED
    BY <1>5, <2>1, <2>2, <2>3 DEF UserStep
<1>6. CASE Recover \/ CloseStep \/ UNCHANGED vars
  BY <1>6, Zenon DEF Recover, CloseStep, vars, threadVars, photoVars
<1> QED
  BY <1>1, <1>2, <1>3, <1>4, <1>5, <1>6 DEF Next

LEMMA RoomNext ==
  ASSUME SavesInv, SavesInv', Room, [Next]_vars
  PROVE  Room'
<1> USE DEF SavesInv
<1>1. /\ deferred \in Seq(Photo) /\ Len(deferred) \in Nat /\ fill.found \in Seq(Photo)
      /\ Len(fill.found) \in Nat /\ fill.taken \in Nat /\ LastItem \in Nat
      /\ Cardinality(Enqueued) \in Nat
  BY LenProperties, WindowCounts, CoordinatorConstants DEF Offers
<1>2. Cardinality(Enqueued') \in Nat /\ Cardinality(Enqueued') <= LastItem
  <2>1. Enqueued' \in SUBSET ItemId
    BY DEF Enqueued
  <2>2. IsFiniteSet(ItemId) /\ Cardinality(ItemId) = LastItem
    BY <1>1, CoordinatorConstants, FS_Interval
  <2> QED
    BY <2>1, <2>2, FS_Subset, FS_CardinalityType
<1>3. CASE FillAdmit
  <2>1. Len(deferred') \in Nat /\ fill' = NoFill
    BY <1>3, AdmitGives, LenProperties
  <2>2. fill.pc = "admit"
    BY <1>3 DEF FillAdmit
  <2> QED
    BY <1>1, <1>2, <1>3, <2>1, <2>2, AdmitGives, SMTT(30) DEF Room, NoFill
<1>4. CASE Unload \/ Crash
  BY <1>2, <1>4 DEF Unload, Crash, Forgotten, Room, NoFill
<1>5. CASE ~FillAdmit
  <2>1. Cardinality(Enqueued') <= Cardinality(Enqueued)
    BY <1>5, CardsNext, WindowCounts, FS_Subset DEF CardsKept
  <2>2. CASE UNCHANGED <<fill, deferred>>
    BY <1>1, <1>2, <2>1, <2>2 DEF Room
  <2>3. CASE \E kind \in {"start", "fill"} : FillEnter(kind)
    <3> DEFINE missing == Missing
               taken   == Least(missing, Len(deferred))
               room    == LastItem - Cardinality(Enqueued) - Len(deferred)
    <3>1. deferred' = deferred
      BY <2>3 DEF FillEnter, photoVars
    <3>2. \/ fill' = NoFill
          \/ \E kind \in {"start", "fill"} :
               fill' = [kind    |-> kind,
                        pc      |-> IF taken < missing THEN "read" ELSE "admit",
                        missing |-> Least(missing - taken, room),
                        taken   |-> taken,
                        found   |-> <<>>]
      BY <2>3, Zenon DEF FillEnter
    <3>3. missing \in Nat /\ taken \in Nat /\ taken <= missing
      BY <1>1, WindowCounts DEF Least
    <3>4. room \in Nat
      BY <1>1 DEF Room
    <3> HIDE DEF missing, taken
    <3>5. Least(missing - taken, room) \in Nat /\ Least(missing - taken, room) <= room
      BY <3>3, <3>4 DEF Least
    <3>6. fill'.missing \in 0..room /\ fill'.found = <<>> /\ fill'.pc \in {"idle", "read", "admit"}
      BY <3>2, <3>4, <3>5 DEF NoFill
    <3> QED
      BY <1>1, <1>2, <2>1, <3>1, <3>6 DEF Room
  <2>4. CASE FillRead
    <3>1. deferred' = deferred /\ fill.pc = "read"
      BY <2>4 DEF FillRead, photoVars
    <3>2. /\ fill'.missing = fill.missing /\ fill'.found = fill.found
          /\ fill'.pc \in {"admit", "discover"}
      BY <2>4 DEF FillRead, Offers
    <3>3. fill.missing \in Nat /\ fill.found = <<>> /\ Len(fill.found) = 0
          /\ Cardinality(Enqueued) + Len(deferred) + fill.missing <= LastItem
      BY <3>1 DEF Room
    <3>4. /\ Cardinality(Enqueued') + Len(deferred') + fill'.missing <= LastItem
          /\ Cardinality(Enqueued') + Len(deferred') + Len(fill'.found) <= LastItem
      BY <1>1, <1>2, <2>1, <3>1, <3>2, <3>3
    <3> QED
      BY <3>2, <3>3, <3>4 DEF Room
  <2>5. CASE FillDiscover
    <3>1. PICK S \in Discovered(fill.missing) :
             fill' = [fill EXCEPT !.pc = "admit", !.found = Ascending(S)]
      BY <2>5 DEF FillDiscover
    <3>2. deferred' = deferred /\ fill.pc = "discover"
      BY <2>5 DEF FillDiscover
    <3>3. S \in SUBSET Int /\ IsFiniteSet(S) /\ Cardinality(S) <= fill.missing
      <4>1. S \in SUBSET Photo
        BY DEF Discovered
      <4>2. IsFiniteSet(S) /\ IsFiniteSet(Photo \ seen) /\ Cardinality(Photo \ seen) \in Nat
        BY <4>1, CoordinatorConstants, FS_Subset, FS_Difference, FS_CardinalityType
      <4>3. fill.missing \in Nat
        BY DEF Room
      <4> QED
        BY <4>1, <4>2, <4>3, CoordinatorConstants DEF Discovered, Least
    <3>4. /\ fill'.pc = "admit" /\ fill'.found = Ascending(S) /\ fill'.missing = fill.missing
      BY <3>1 DEF Offers
    <3>5. Len(fill'.found) = Cardinality(S)
      <4>1. /\ Ascending(S) \in [1..Cardinality(S) -> S] /\ Cardinality(S) \in Nat
        BY <3>3, AscendingOrder, FS_CardinalityType
      <4>2. Ascending(S) \in Seq(S)
        BY <4>1, SeqDef
      <4> QED
        BY <3>4, <4>1, <4>2, LenProperties
    <3> QED
      BY <1>1, <1>2, <2>1, <3>2, <3>3, <3>4, <3>5 DEF Room
  <2>6. CASE FillRaises
    BY <1>1, <1>2, <2>1, <2>6 DEF FillRaises, Room, NoFill
  <2>7. FillStep \/ FillRaises \/ Unload \/ Crash \/ UNCHANGED <<fill, deferred>>
    BY FillOrNot
  <2> QED
    BY <1>4, <1>5, <2>2, <2>3, <2>4, <2>5, <2>6, <2>7 DEF FillStep
<1> QED
  BY <1>3, <1>5

LEMMA Recorded ==
  ASSUME Shapes, decisions \subseteq Decision, NEW id \in DecisionId, NEW i \in Enqueued,
         NEW a \in Actions
  PROVE  decisions \cup {Asked(id, i, a)} \subseteq Decision
<1>1. i \in ItemId /\ Revision(items, i) \in Nat
  BY Numbers
<1> QED
  BY <1>1 DEF Asked, Decision

LEMMA ChoicesNext ==
  ASSUME SavesInv, Choices, [Next]_vars
  PROVE  Choices'
<1> USE DEF SavesInv
<1>1. CASE UNCHANGED <<candidate, decisions>>
  BY <1>1 DEF Choices
<1>2. CASE FillStep \/ FillRaises
  <2>1. CASE FillAdmit
    <3>1. /\ DOMAIN candidate' = ItemId /\ decisions' = decisions
          /\ \A i \in ItemId : candidate'[i] = candidate[i] \/ candidate'[i] \in Photo
      BY <2>1, AdmitGives
    <3>2. candidate' = [i \in ItemId |-> candidate'[i]]
      BY <2>1, Zenon DEF FillAdmit
    <3> QED
      BY <3>1, <3>2 DEF Choices, Photos
  <2>2. CASE ~FillAdmit
    BY <1>1, <1>2, <2>2, Zenon DEF FillStep, FillRaises, FillEnter, FillRead, FillDiscover,
                photoVars, ledgerVars
  <2> QED
    BY <2>1, <2>2
<1>3. CASE SchedulerStep \/ \E kind \in {"schedule", "completing"} : ScheduleEnter(kind)
  <2>1. CASE Prepare
    <3>1. decisions' = decisions
      BY <2>1 DEF Prepare, ledgerVars
    <3>2. candidate' = candidate \/ \E p \in Photo : candidate' = [candidate EXCEPT ![Card] = p]
      BY <2>1, Zenon DEF Prepare, Discovered
    <3> QED
      BY <3>1, <3>2 DEF Choices, Photos
  <2>2. CASE ~Prepare
    BY <1>1, <1>3, <2>2, Zenon DEF SchedulerStep, ScheduleEnter, SchedulePick, ScheduleLeave,
                ScheduleEnd, PrepareRead, RestoreQueued, Submit, PrepareFailed, photoVars,
                ledgerVars
  <2> QED
    BY <2>1, <2>2
<1>4. CASE \E f \in inflight : AnalysisFinished(f)
  BY <1>1, <1>4, Zenon DEF AnalysisFinished, Finished
<1>5. CASE \E t \in Persister : PersistStep(t) \/ WritePhotos(t)
  <2>1. PICK t \in Persister : PersistStep(t) \/ WritePhotos(t)
    BY <1>5
  <2>2. CASE PersistDecide(t)
    <3>1. candidate' = candidate /\ (decisions' = decisions \cup {persist[t].d}
                                     \/ decisions' = decisions)
      BY <2>2, Zenon DEF PersistDecide, Decide, photoVars
    <3>2. persist[t].d \in Decision
      BY <2>2 DEF PersistDecide, Savers
    <3> QED
      BY <3>1, <3>2 DEF Choices
  <2>3. CASE ~PersistDecide(t)
    BY <1>1, <2>1, <2>3, Zenon DEF PersistStep, PersistSubmit, PersistSettle, PersistLeave,
                WritePhotos, photoVars, ledgerVars
  <2> QED
    BY <2>2, <2>3
<1>6. CASE WriteStep
  BY <1>1, <1>6, Zenon DEF WriteStep, WriteBegin, WriteReturn, photoVars, ledgerVars
<1>7. CASE UserStep
  <2>1. ASSUME NEW id \in DecisionId, NEW i \in Enqueued, Discard(id, i) \/ Rescan(id, i)
        PROVE  Choices'
    <3>1. candidate' = candidate
      BY <2>1, Zenon DEF Discard, Rescan, photoVars
    <3>2. \E a \in {"discard", "rescan"} : decisions' = decisions \cup {Asked(id, i, a)}
      BY <2>1, Zenon DEF Discard, Rescan, Decide
    <3> QED
      BY <3>1, <3>2, Recorded DEF Choices, Actions
  <2>2. CASE \E t \in Persister, id \in DecisionId, i \in Enqueued :
               \E r \in DOMAIN items[i] : PersistArrive(t, id, i, r)
    BY <1>1, <2>2, Zenon DEF PersistArrive, photoVars, ledgerVars
  <2>3. CASE Pause \/ Resume \/ UpdateConfig \/ Stop
    BY <1>1, <2>3, Zenon DEF Pause, Resume, UpdateConfig, Stop, photoVars
  <2> QED
    BY <1>7, <2>1, <2>2, <2>3 DEF UserStep
<1>8. CASE Unload \/ Crash
  BY <1>8 DEF Unload, Crash, Forgotten, Choices, Photos, ledgerVars
<1>9. CASE Recover
  <2>1. PICK gone \in LostRuns, anon \in SUBSET Enqueued :
          candidate' = [i \in ItemId |->
            IF i \in Enqueued THEN RecoveredCandidate(i, gone, anon) ELSE None]
    BY <1>9 DEF Recover
  <2>2. \A i \in Enqueued : RecoveredCandidate(i, gone, anon) \in Photos
    BY DEF RecoveredCandidate, Readable, Photos
  <2>3. decisions' = decisions
    BY <1>9 DEF Recover
  <2> QED
    BY <2>1, <2>2, <2>3 DEF Choices, Photos
<1>10. CASE CloseStep \/ UNCHANGED vars
  BY <1>1, <1>10, Zenon DEF CloseStep, vars, photoVars, ledgerVars
<1> QED
  BY <1>2, <1>3, <1>4, <1>5, <1>6, <1>7, <1>8, <1>9, <1>10 DEF Next

ResourcesInv ==
  SavesInv /\ LaneInv /\ Pool /\ Room /\ Keyed /\ Flags /\ Counts /\ Choices

LEMMA ResourcesInit == Init => ResourcesInv
<1> SUFFICES ASSUME Init
             PROVE  ResourcesInv
  OBVIOUS
<1>1. SavesInv /\ LaneInv
  BY SavesInit, LaneInit
<1>2. Pool
  <2>1. Cardinality(inflight) = 0 /\ IsFiniteSet(inflight) /\ sched.pc = "idle"
    BY FS_EmptySet DEF Init, NoSched
  <2>2. config \in Config /\ config.concurrency \in Nat
    BY CoordinatorConstants DEF Init
  <2> QED
    BY <2>1, <2>2 DEF Pool, InferenceBounded
<1>3. Room
  <2>1. Enqueued = {} /\ Cardinality(Enqueued) = 0
    BY FS_EmptySet DEF Init, Enqueued, InSession
  <2>2. Len(deferred) = 0 /\ fill = NoFill
    BY DEF Init
  <2> QED
    BY <2>1, <2>2, CoordinatorConstants DEF Room, NoFill
<1>4. Keyed
  BY CoordinatorConstants DEF Init, Keyed, Revision, NoSched
<1>5. Flags /\ Choices
  BY CoordinatorConstants DEF Init, Flags, SessionStates, Choices, Photos
<1>6. Counts
  <2>1. callers = [NoCallers EXCEPT !["start"] = 1]
    BY Zenon DEF Init
  <2> QED
    BY <2>1 DEF NoCallers, Counts
<1> QED
  BY <1>1, <1>2, <1>3, <1>4, <1>5, <1>6 DEF ResourcesInv

(***************************************************************************)
(* Nothing the helper shares is overused, whatever arrives meanwhile:      *)
(* Photos by one thread, the inference pool within the concurrency of one  *)
(* of the settings, no more cards than there are identifiers, and no       *)
(* counter of the threads below zero (queue_coordinator.py: _PhotosLane,   *)
(* _fill_slots, _schedule_available).                                      *)
(***************************************************************************)
THEOREM ResourcesNeverOverused == Spec => []ResourcesRespected
<1>1. ResourcesInv => ResourcesRespected
  <2> SUFFICES ASSUME ResourcesInv
               PROVE  TypeOK /\ PhotosExclusive /\ InferenceBounded
    BY DEF ResourcesRespected
  <2> USE DEF ResourcesInv, SavesInv
  <2>1. sched \in [pc : {"idle", "pick", "each", "defer", "prepare", "submit", "fail",
                         "leave"},
                   batch : Seq(CardKey), again : BOOLEAN]
    <3>1. sched.batch \in Seq(ItemId \X Nat) /\ sched.batch \in [1..Len(sched.batch) -> ItemId \X Nat]
          /\ Len(sched.batch) \in Nat
      BY LenProperties DEF Shapes
    <3>2. \A k \in 1..Len(sched.batch) : sched.batch[k] \in CardKey
      <4> SUFFICES ASSUME NEW k \in 1..Len(sched.batch)
                   PROVE  sched.batch[k] \in CardKey
        OBVIOUS
      <4> DEFINE i == sched.batch[k][1]
                 r == sched.batch[k][2]
      <4>1. i \in ItemId /\ r \in Nat /\ sched.batch[k] = <<i, r>> /\ k \in DOMAIN sched.batch
        BY <3>1
      <4>2. r # 0 /\ r <= Revision(items, i) /\ Revision(items, i) <= MaxItemRevision
        BY <4>1 DEF Keyed, Batch, BatchCard
      <4>3. Revision(items, i) \in Nat
        BY <4>1, Numbers, Rows
      <4> HIDE DEF i, r
      <4>4. r \in 1..MaxItemRevision
        BY <4>1, <4>2, <4>3, CoordinatorConstants
      <4> QED
        BY <4>1, <4>4 DEF CardKey
    <3>3. sched.batch \in [1..Len(sched.batch) -> CardKey]
      <4> DEFINE b == sched.batch
      <4>1. /\ b \in [1..Len(b) -> ItemId \X Nat]
            /\ \A k \in 1..Len(b) : b[k] \in CardKey
        BY <3>1, <3>2
      <4> HIDE DEF b
      <4>2. b \in [1..Len(b) -> CardKey]
        BY ONLY <4>1
      <4> QED
        BY <4>2 DEF b
    <3>4. sched.batch \in Seq(CardKey)
      <4> DEFINE b == sched.batch
                 n == Len(b)
      <4>1. n \in Nat /\ b \in [1..n -> CardKey]
        BY <3>1, <3>3
      <4> HIDE DEF b, n
      <4>2. [1..n -> CardKey] \subseteq Seq(CardKey)
        <5>1. \A S : [1..n -> S] \subseteq Seq(S)
          BY ONLY <4>1, SeqDef
        <5> QED
          BY <5>1
      <4> QED
        BY <4>1, <4>2 DEF b
    <3> QED
      BY <3>4 DEF Shapes
  <2>2. inflight \subseteq [item : ItemId, rev : 1..MaxItemRevision, photo : Photos]
    <3> SUFFICES ASSUME NEW f \in inflight
                 PROVE  f \in [item : ItemId, rev : 1..MaxItemRevision, photo : Photos]
      OBVIOUS
    <3>1. f \in [item : ItemId, rev : Nat, photo : Photo]
      BY DEF Shapes
    <3>2. f.rev # 0 /\ f.rev <= Revision(items, f.item)
          /\ Revision(items, f.item) <= MaxItemRevision
      BY <3>1 DEF Keyed, Analyses
    <3>3. Revision(items, f.item) \in Nat
      BY <3>1, Numbers, Rows
    <3>4. f.rev \in 1..MaxItemRevision
      BY <3>1, <3>2, <3>3, CoordinatorConstants
    <3> QED
      BY <3>1, <3>4 DEF Photos
  <2>3. fill \in [pc : {"idle", "read", "discover", "admit"}, kind : {"start", "fill"},
                  missing : Nat, taken : Nat, found : Seq(Photo)]
    BY DEF Offers, Room
  <2>4. persist \in [Persister ->
          [pc : {"idle", "decide", "submit", "queued", "saving", "wrote", "settle", "leave"},
           d  : Decision \cup {None},
           outcome : {"none", "refused", "verified", "unverified"}]]
    BY DEF Shapes, Serving
  <2> QED
    BY <2>1, <2>2, <2>3, <2>4 DEF TypeOK, Shapes, Offers, Flags, Counts, Choices, LaneInv, Pool
<1>2. ResourcesInv /\ [Next]_vars => ResourcesInv'
  <2> SUFFICES ASSUME ResourcesInv, [Next]_vars
               PROVE  ResourcesInv'
    OBVIOUS
  <2>1. SavesInv' /\ LaneInv'
    BY SavesNext, LaneNext DEF ResourcesInv
  <2> QED
    BY <2>1, PoolNext, RoomNext, KeyedNext, FlagsNext, CountsNext, ChoicesNext
       DEF ResourcesInv
<1> QED
  BY <1>1, <1>2, ResourcesInit, PTL DEF Spec
=============================================================================
