------------------------- MODULE QueueSessionProofs -------------------------
(***************************************************************************)
(* Proofs about QueueSession, for every set of cards, decisions, runs and  *)
(* settings and every limit on the revisions.                              *)
(*                                                                         *)
(* Five of the seven actions commit a new ledger L.  What the properties   *)
(* need from L is collected in Successor(L) and proved once per action;    *)
(* the invariants are then proved for Commit(L), Unload and Resume only.   *)
(***************************************************************************)
EXTENDS QueueSession, SequenceTheorems, TLAPS

Frozen(old, new) ==
  \A i \in ItemId : \A r \in 1..(Len(old[i]) - 1) :
    r \in DOMAIN new[i] /\ new[i][r] = old[i][r]

Successor(L) ==
  /\ L \in Ledger
  /\ \/ L = ledger
     \/ L.revision = ledger.revision + 1
     \/ L.revision = MaxRevision
  /\ Frozen(ledger.items, L.items)
  /\ RescanLineage(ledger) => RescanLineage(L)

-----------------------------------------------------------------------------
(* Items.                                                                  *)

ItemsType == [ItemId -> Seq(ItemRevision)]

LEMMA NewCardItems ==
  ASSUME NEW items \in ItemsType, NEW i \in ItemId, ~InSession(items, i),
         NEW st \in ItemStates
  PROVE  /\ WithNewCard(items, i, st) \in ItemsType
         /\ Len(WithNewCard(items, i, st)[i]) = 1
         /\ items[i] = <<>>
         /\ \A j \in ItemId \ {i} : WithNewCard(items, i, st)[j] = items[j]
<1> DEFINE new == [state |-> st, source |-> NoRun]
<1>1. new \in ItemRevision
  BY DEF ItemRevision
<1>2. <<new>> \in Seq(ItemRevision) /\ Len(<<new>>) = 1
  BY <1>1
<1>3. WithNewCard(items, i, st) = [items EXCEPT ![i] = <<new>>]
  BY DEF WithNewCard
<1> QED
  BY <1>2, <1>3 DEF ItemsType, InSession

LEMMA CheckpointItems ==
  ASSUME NEW items \in ItemsType, NEW i \in ItemId, InSession(items, i),
         NEW st \in ItemStates, NEW src \in Run \cup {NoRun}
  PROVE  LET new == WithCheckpoint(items, i, st, src)
         IN  /\ new \in ItemsType
             /\ \A j \in ItemId : Len(new[j]) = Len(items[j])
             /\ Frozen(items, new)
<1> DEFINE q   == items[i]
           rev == [state  |-> st,
                   source |-> IF src = NoRun THEN q[Len(q)].source ELSE src]
           up  == [q EXCEPT ![Len(q)] = rev]
<1>1. q \in Seq(ItemRevision) /\ q # <<>>
  BY DEF ItemsType, InSession
<1>2. Len(q) \in 1..Len(q)
  BY <1>1, EmptySeq, LenProperties
<1>3. q[Len(q)] \in ItemRevision
  BY <1>1, <1>2, ElementOfSeq
<1>4. rev \in ItemRevision
  BY <1>3 DEF ItemRevision
<1>5. /\ up \in Seq(ItemRevision) /\ Len(up) = Len(q)
      /\ \A r \in 1..(Len(q) - 1) : up[r] = q[r]
  BY <1>1, <1>2, <1>4, ExceptSeq
<1>6. WithCheckpoint(items, i, st, src) = [items EXCEPT ![i] = up]
  BY DEF WithCheckpoint, Revision
<1>7. \A j \in ItemId : items[j] \in Seq(ItemRevision)
  BY DEF ItemsType
<1> HIDE DEF up
<1>8. Frozen(items, [items EXCEPT ![i] = up])
  <2> SUFFICES ASSUME NEW j \in ItemId, NEW r \in 1..(Len(items[j]) - 1)
               PROVE  /\ r \in DOMAIN [items EXCEPT ![i] = up][j]
                      /\ [items EXCEPT ![i] = up][j][r] = items[j][r]
    BY DEF Frozen
  <2>1. r \in 1..Len(items[j])
    BY <1>7, LenProperties
  <2>2. CASE j = i
    BY <2>1, <2>2, <1>5, LenProperties DEF ItemsType
  <2>3. CASE j # i
    BY <2>1, <2>3, <1>7, LenProperties DEF ItemsType
  <2> QED  BY <2>2, <2>3
<1> QED
  BY <1>5, <1>6, <1>7, <1>8 DEF ItemsType

LEMMA RescanItems ==
  ASSUME NEW items \in ItemsType, NEW i \in ItemId,
         NEW st \in ItemStates
  PROVE  LET rev == [state |-> st, source |-> NoRun]
             new == [items EXCEPT ![i] = Append(@, rev)]
         IN  /\ new \in ItemsType
             /\ Len(new[i]) = Len(items[i]) + 1
             /\ \A j \in ItemId \ {i} : new[j] = items[j]
             /\ Frozen(items, new)
<1> DEFINE rev == [state |-> st, source |-> NoRun]
           up  == Append(items[i], rev)
<1>1. rev \in ItemRevision
  BY DEF ItemRevision
<1>2. \A j \in ItemId : items[j] \in Seq(ItemRevision)
  BY DEF ItemsType
<1>3. /\ up \in Seq(ItemRevision) /\ Len(up) = Len(items[i]) + 1
      /\ \A r \in 1..Len(items[i]) : up[r] = items[i][r]
  BY <1>1, <1>2, AppendProperties
<1>4. [items EXCEPT ![i] = Append(@, rev)] = [items EXCEPT ![i] = up]
  OBVIOUS
<1> HIDE DEF up, rev
<1>5. Frozen(items, [items EXCEPT ![i] = up])
  <2> SUFFICES ASSUME NEW j \in ItemId, NEW r \in 1..(Len(items[j]) - 1)
               PROVE  /\ r \in DOMAIN [items EXCEPT ![i] = up][j]
                      /\ [items EXCEPT ![i] = up][j][r] = items[j][r]
    BY DEF Frozen
  <2>1. r \in 1..Len(items[j])
    BY <1>2, LenProperties
  <2>2. CASE j = i
    BY <2>1, <2>2, <1>2, <1>3, LenProperties DEF ItemsType
  <2>3. CASE j # i
    BY <2>1, <2>3, <1>2, LenProperties DEF ItemsType
  <2> QED  BY <2>2, <2>3
<1>6. /\ [items EXCEPT ![i] = up] \in ItemsType
      /\ Len([items EXCEPT ![i] = up][i]) = Len(items[i]) + 1
      /\ \A j \in ItemId \ {i} : [items EXCEPT ![i] = up][j] = items[j]
  BY <1>3 DEF ItemsType
<1> QED
  BY <1>4, <1>5, <1>6 DEF rev

-----------------------------------------------------------------------------
(* Every mutation of the ledger yields a successor.                        *)

LEMMA AdvancedSuccessor ==
  ASSUME NEW L \in Ledger, L.revision = ledger.revision, ledger \in Ledger,
         Frozen(ledger.items, L.items),
         RescanLineage(ledger) => RescanLineage(L)
  PROVE  Successor(Advanced(L))
<1>1. L.revision \in 0..MaxRevision /\ MaxRevision \in Nat
  BY SessionConstants DEF Ledger
<1>2. CASE L.revision < MaxRevision
  <2> DEFINE A == [L EXCEPT !.revision = @ + 1]
  <2>1. Advanced(L) = A
    BY <1>2 DEF Advanced
  <2>2. L.revision + 1 \in 0..MaxRevision
    BY <1>1, <1>2
  <2>3. A \in Ledger
    BY <2>2 DEF Ledger
  <2>4. A.items = L.items /\ A.decisions = L.decisions /\ A.revision = L.revision + 1
    BY DEF Ledger
  <2>5. RescanLineage(L) => RescanLineage(A)
    BY <2>4 DEF RescanLineage
  <2> QED
    BY <2>1, <2>3, <2>4, <2>5 DEF Successor
<1>3. CASE ~(L.revision < MaxRevision)
  BY <1>1, <1>3 DEF Advanced, Successor
<1> QED
  BY <1>2, <1>3

LEMMA SameSuccessor ==
  ASSUME ledger \in Ledger
  PROVE  Successor(ledger)
<1>1. \A i \in ItemId : ledger.items[i] \in Seq(ItemRevision)
  BY DEF Ledger
<1>2. Frozen(ledger.items, ledger.items)
  BY <1>1, LenProperties DEF Frozen
<1> QED
  BY <1>2 DEF Successor

\* The number of revisions and the recorded decisions carry the lineage.
LEMMA LineageKept ==
  ASSUME NEW L \in Ledger, NEW M \in Ledger,
         \A i \in ItemId : \/ Len(M.items[i]) = Len(L.items[i])
                           \/ Len(L.items[i]) = 0 /\ Len(M.items[i]) = 1,
         {d \in M.decisions : d.action = "rescan"}
           = {d \in L.decisions : d.action = "rescan"},
         RescanLineage(L)
  PROVE  RescanLineage(M)
<1>1. \A d : d \in M.decisions /\ d.action = "rescan"
                <=> d \in L.decisions /\ d.action = "rescan"
  OBVIOUS
<1>2. \A d \in L.decisions : d.item \in ItemId /\ d.rev \in Nat
  BY DEF Ledger, Decision
<1>3. \A i \in ItemId : Len(L.items[i]) \in Nat /\ Len(M.items[i]) \in Nat
  BY LenProperties DEF Ledger
<1>4. ASSUME NEW d \in M.decisions, d.action = "rescan"
      PROVE  d.rev < Len(M.items[d.item])
  BY <1>1, <1>2, <1>3, <1>4 DEF RescanLineage
<1>5. ASSUME NEW i \in ItemId, NEW r \in 2..Len(M.items[i])
      PROVE  \E d \in M.decisions :
               /\ d.item = i /\ d.rev = r - 1 /\ d.action = "rescan"
               /\ \A e \in M.decisions :
                    e.item = i /\ e.rev = r - 1 /\ e.action = "rescan" => e = d
  <2>1. r \in 2..Len(L.items[i])
    <3>1. Len(M.items[i]) = Len(L.items[i]) \/ Len(M.items[i]) = 1
      OBVIOUS
    <3> DEFINE n == Len(M.items[i])
    <3>2. n \in Nat /\ r \in 2..n
      BY <1>3
    <3> HIDE DEF n
    <3>3. n # 1
      BY <3>2
    <3> QED
      BY <3>1, <3>3 DEF n
  <2>2. PICK d \in L.decisions :
               /\ d.item = i /\ d.rev = r - 1 /\ d.action = "rescan"
               /\ \A e \in L.decisions :
                    e.item = i /\ e.rev = r - 1 /\ e.action = "rescan" => e = d
    BY <2>1 DEF RescanLineage
  <2> QED
    BY <1>1, <2>2
<1> QED
  BY <1>4, <1>5 DEF RescanLineage

\* A rescan decision opens the revision after the current one.
LEMMA LineageExtended ==
  ASSUME NEW L \in Ledger, NEW M \in Ledger, NEW d \in Decision,
         d.action = "rescan", d.rev = Len(L.items[d.item]),
         Len(M.items[d.item]) = Len(L.items[d.item]) + 1,
         \A i \in ItemId \ {d.item} : M.items[i] = L.items[i],
         M.decisions = L.decisions \cup {d},
         RescanLineage(L)
  PROVE  RescanLineage(M)
<1>1. \A e \in M.decisions : e.item \in ItemId /\ e.rev \in Nat
  BY DEF Ledger, Decision
<1>2. \A i \in ItemId : Len(L.items[i]) \in Nat /\ Len(M.items[i]) \in Nat
  BY LenProperties DEF Ledger
<1>3. d.item \in ItemId /\ d.rev \in Nat
  BY DEF Decision
<1>4. \A e \in L.decisions : e.action = "rescan" => e.rev < Len(L.items[e.item])
  BY DEF RescanLineage
<1>5. ASSUME NEW e \in M.decisions, e.action = "rescan"
      PROVE  e.rev < Len(M.items[e.item])
  <2>1. CASE e = d
    BY <2>1, <1>2, <1>3
  <2>2. CASE e \in L.decisions /\ e.item = d.item
    BY <2>2, <1>1, <1>2, <1>3, <1>4, <1>5
  <2>3. CASE e \in L.decisions /\ e.item # d.item
    BY <2>3, <1>1, <1>4, <1>5
  <2> QED
    BY <2>1, <2>2, <2>3
<1>6. ASSUME NEW i \in ItemId, NEW r \in 2..Len(M.items[i])
      PROVE  \E e \in M.decisions :
               /\ e.item = i /\ e.rev = r - 1 /\ e.action = "rescan"
               /\ \A f \in M.decisions :
                    f.item = i /\ f.rev = r - 1 /\ f.action = "rescan" => f = e
  <2>1. CASE i = d.item /\ r = Len(M.items[i])
    <3>1. d.item = i /\ d.rev = r - 1
      BY <2>1, <1>2, <1>3
    <3>2. \A f \in L.decisions :
            ~(f.item = i /\ f.rev = r - 1 /\ f.action = "rescan")
      BY <2>1, <3>1, <1>2, <1>3, <1>4
    <3> QED
      BY <3>1, <3>2
  <2>2. CASE ~(i = d.item /\ r = Len(M.items[i]))
    <3>1. r \in 2..Len(L.items[i])
      BY <2>2, <1>2
    <3>2. PICK e \in L.decisions :
               /\ e.item = i /\ e.rev = r - 1 /\ e.action = "rescan"
               /\ \A f \in L.decisions :
                    f.item = i /\ f.rev = r - 1 /\ f.action = "rescan" => f = e
      BY <3>1 DEF RescanLineage
    <3>3. ~(d.item = i /\ d.rev = r - 1)
      BY <3>1, <1>2, <1>3
    <3> QED
      BY <3>2, <3>3
  <2> QED
    BY <2>1, <2>2
<1> QED
  BY <1>5, <1>6 DEF RescanLineage

-----------------------------------------------------------------------------
(* The five mutations.                                                     *)

LEMMA EnqueueCommits ==
  ASSUME TypeOK, NEW i \in ItemId, Enqueue(i)
  PROVE  \E L : Successor(L) /\ Commit(L)
<1> DEFINE items == WithNewCard(ledger.items, i, "discovered")
           M     == [ledger EXCEPT !.items = items]
<1>1. ledger \in Ledger /\ ledger.items \in ItemsType
  BY DEF TypeOK, Ledger, ItemsType
<1>2. ~InSession(ledger.items, i)
  BY DEF Enqueue, CanEnqueue
<1>3. /\ items \in ItemsType /\ Len(items[i]) = 1 /\ ledger.items[i] = <<>>
      /\ \A j \in ItemId \ {i} : items[j] = ledger.items[j]
  BY <1>1, <1>2, NewCardItems DEF ItemStates
<1> HIDE DEF items
<1>4. /\ M \in Ledger /\ M.items = items /\ M.decisions = ledger.decisions
      /\ M.revision = ledger.revision
  BY <1>1, <1>3 DEF Ledger, ItemsType
<1> HIDE DEF M
<1>5. Len(ledger.items[i]) = 0
  BY <1>3, EmptySeq
<1>6. Frozen(ledger.items, M.items)
  <2>1. \A j \in ItemId : ledger.items[j] \in Seq(ItemRevision)
    BY <1>1 DEF ItemsType
  <2> QED
    BY <2>1, <1>3, <1>4, <1>5, LenProperties DEF Frozen
<1>7. RescanLineage(ledger) => RescanLineage(M)
  BY <1>1, <1>3, <1>4, <1>5, LineageKept
<1>8. Successor(Advanced(M))
  BY <1>1, <1>4, <1>6, <1>7, AdvancedSuccessor
<1> QED
  BY <1>8 DEF Enqueue, Change, M, items

LEMMA SetStateCommits ==
  ASSUME TypeOK, NEW e, NEW s \in SessionStates, SetState(e, s)
  PROVE  \E L : Successor(L) /\ Commit(L)
<1> DEFINE M == [ledger EXCEPT !.state = s]
<1>1. ledger \in Ledger
  BY DEF TypeOK
<1>2. /\ M \in Ledger /\ M.items = ledger.items /\ M.decisions = ledger.decisions
      /\ M.revision = ledger.revision
  BY <1>1 DEF Ledger
<1> HIDE DEF M
<1>3. Successor(ledger)
  BY <1>1, SameSuccessor
<1>4. RescanLineage(ledger) => RescanLineage(M)
  BY <1>2 DEF RescanLineage
<1>5. Successor(Advanced(M))
  BY <1>1, <1>2, <1>3, <1>4, AdvancedSuccessor DEF Successor
<1> QED
  BY <1>3, <1>5 DEF SetState, Change, M

LEMMA UpdateConfigCommits ==
  ASSUME TypeOK, NEW e, NEW c \in Config, UpdateConfig(e, c)
  PROVE  \E L : Successor(L) /\ Commit(L)
<1> DEFINE M == [ledger EXCEPT !.config = c]
<1>1. ledger \in Ledger
  BY DEF TypeOK
<1>2. /\ M \in Ledger /\ M.items = ledger.items /\ M.decisions = ledger.decisions
      /\ M.revision = ledger.revision
  BY <1>1 DEF Ledger
<1> HIDE DEF M
<1>3. Successor(ledger)
  BY <1>1, SameSuccessor
<1>4. RescanLineage(ledger) => RescanLineage(M)
  BY <1>2 DEF RescanLineage
<1>5. Successor(Advanced(M))
  BY <1>1, <1>2, <1>3, <1>4, AdvancedSuccessor DEF Successor
<1> QED
  BY <1>3, <1>5 DEF UpdateConfig, Change, M

\* A checkpoint of a card, with or without a decision that is no rescan.
LEMMA CheckpointSuccessor ==
  ASSUME TypeOK, NEW i \in ItemId, InSession(ledger.items, i),
         NEW st \in ItemStates, NEW src \in Run \cup {NoRun},
         NEW D \in SUBSET {d \in Decision : d.action # "rescan"}
  PROVE  Successor(Advanced(
           [ledger EXCEPT !.items     = WithCheckpoint(ledger.items, i, st, src),
                          !.decisions = @ \cup D]))
<1> DEFINE items == WithCheckpoint(ledger.items, i, st, src)
           M     == [ledger EXCEPT !.items = items, !.decisions = @ \cup D]
<1>1. ledger \in Ledger /\ ledger.items \in ItemsType
  BY DEF TypeOK, Ledger, ItemsType
<1>2. /\ items \in ItemsType
      /\ \A j \in ItemId : Len(items[j]) = Len(ledger.items[j])
      /\ Frozen(ledger.items, items)
  BY <1>1, CheckpointItems
<1> HIDE DEF items
<1>3. /\ M \in Ledger /\ M.items = items /\ M.decisions = ledger.decisions \cup D
      /\ M.revision = ledger.revision
  BY <1>1, <1>2 DEF Ledger, ItemsType
<1> HIDE DEF M
<1>4. {d \in M.decisions : d.action = "rescan"}
        = {d \in ledger.decisions : d.action = "rescan"}
  BY <1>3
<1>5. RescanLineage(ledger) => RescanLineage(M)
  BY <1>1, <1>2, <1>3, <1>4, LineageKept
<1>6. Successor(Advanced(M))
  BY <1>1, <1>2, <1>3, <1>5, AdvancedSuccessor
<1> QED
  BY <1>6 DEF M, items

LEMMA CheckpointCommits ==
  ASSUME TypeOK, NEW i \in ItemId, NEW r, NEW st \in ItemStates,
         NEW src \in Run \cup {NoRun}, CheckpointItem(i, r, st, src)
  PROVE  \E L : Successor(L) /\ Commit(L)
<1> DEFINE items == WithCheckpoint(ledger.items, i, st, src)
           M     == [ledger EXCEPT !.items = items]
<1>1. ledger \in Ledger /\ InSession(ledger.items, i)
  BY DEF TypeOK, CheckpointItem, IsCurrent
<1>2. Successor(Advanced([ledger EXCEPT !.items = items, !.decisions = @ \cup {}]))
  BY <1>1, CheckpointSuccessor
<1>3. [ledger EXCEPT !.items = items, !.decisions = @ \cup {}] = M
  BY <1>1 DEF Ledger
<1>4. Successor(ledger)
  BY <1>1, SameSuccessor
<1>5. Commit(ledger) \/ Commit(Advanced(M))
  BY DEF CheckpointItem, Change
<1> QED
  BY <1>2, <1>3, <1>4, <1>5

LEMMA DecisionCommits ==
  ASSUME TypeOK, NEW d \in Decision, RecordDecision(d)
  PROVE  \E L : Successor(L) /\ Commit(L)
<1> DEFINE M == [ledger EXCEPT !.items     = WithDecision(@, d),
                               !.decisions = @ \cup {d}]
<1>1. ledger \in Ledger /\ ledger.items \in ItemsType
  BY DEF TypeOK, Ledger, ItemsType
<1>2. CASE IsReplay(ledger.decisions, d) /\ Commit(ledger)
  BY <1>1, <1>2, SameSuccessor
<1>3. CASE Admissible(ledger.items, ledger.decisions, d) /\ Commit(Advanced(M))
  <2> SUFFICES Successor(Advanced(M))
    BY <1>3
  <2>1. /\ d.item \in ItemId /\ d.rev = Len(ledger.items[d.item])
        /\ InSession(ledger.items, d.item) /\ d.action \in Actions
    BY <1>3 DEF Admissible, IsCurrent, Revision, Decision
  <2>2. ASSUME NEW st \in {"save_queued", "discarded"}, d.action # "rescan",
               WithDecision(ledger.items, d)
                 = WithCheckpoint(ledger.items, d.item, st, NoRun)
        PROVE  Successor(Advanced(M))
    <3>1. st \in ItemStates
      BY DEF ItemStates
    <3>2. Successor(Advanced([ledger EXCEPT
            !.items     = WithCheckpoint(ledger.items, d.item, st, NoRun),
            !.decisions = @ \cup {d}]))
      BY <2>1, <2>2, <3>1, CheckpointSuccessor
    <3> QED
      BY <2>2, <3>2
  <2>3. CASE d.action = "persist"
    BY <2>2, <2>3 DEF WithDecision
  <2>4. CASE d.action = "discard"
    BY <2>2, <2>4 DEF WithDecision
  <2>5. CASE d.action = "rescan"
    <3> DEFINE new   == [state |-> "queued", source |-> NoRun]
               items == [ledger.items EXCEPT ![d.item] = Append(@, new)]
    <3>1. WithDecision(ledger.items, d) = items
      BY <2>5 DEF WithDecision
    <3>2. /\ items \in ItemsType
          /\ Len(items[d.item]) = Len(ledger.items[d.item]) + 1
          /\ \A j \in ItemId \ {d.item} : items[j] = ledger.items[j]
          /\ Frozen(ledger.items, items)
      BY <1>1, <2>1, RescanItems DEF ItemStates
    <3> HIDE DEF items
    <3>3. /\ M \in Ledger /\ M.items = items /\ M.decisions = ledger.decisions \cup {d}
          /\ M.revision = ledger.revision
      BY <1>1, <3>1, <3>2 DEF Ledger, ItemsType
    <3> HIDE DEF M
    <3>4. RescanLineage(ledger) => RescanLineage(M)
      BY <1>1, <2>1, <2>5, <3>2, <3>3, LineageExtended
    <3> QED
      BY <1>1, <3>2, <3>3, <3>4, AdvancedSuccessor
  <2> QED
    BY <2>1, <2>3, <2>4, <2>5 DEF Actions
<1> QED
  BY <1>2, <1>3 DEF RecordDecision, Change

-----------------------------------------------------------------------------
(* The steps of the specification, seen through Successor.                 *)

CommitStep == \E L : Successor(L) /\ Commit(L)

ResumeStep == \E e \in 0..MaxRevision : Resume(e)

LEMMA StepCases ==
  ASSUME TypeOK, [Next]_vars
  PROVE  CommitStep \/ Unload \/ ResumeStep \/ UNCHANGED vars
<1>1. ASSUME NEW i \in ItemId, Enqueue(i)
      PROVE  CommitStep
  BY <1>1, EnqueueCommits DEF CommitStep
<1>2. ASSUME NEW e, NEW s \in SessionStates \ {"attention"}, SetState(e, s)
      PROVE  CommitStep
  BY <1>2, SetStateCommits DEF CommitStep
<1>3. ASSUME NEW e, NEW c \in Config, UpdateConfig(e, c)
      PROVE  CommitStep
  BY <1>3, UpdateConfigCommits DEF CommitStep
<1>4. ASSUME NEW i \in ItemId, NEW r, NEW st \in StageState,
             NEW src \in Run \cup {NoRun}, CheckpointItem(i, r, st, src)
      PROVE  CommitStep
  BY <1>4, SessionConstants, CheckpointCommits DEF CommitStep
<1>5. ASSUME NEW d \in [id : DecisionId, item : ItemId, rev : 1..MaxItemRevision,
                        action : Actions], RecordDecision(d)
      PROVE  CommitStep
  <2>1. d \in Decision
    BY SessionConstants DEF Decision
  <2> QED
    BY <1>5, <2>1, DecisionCommits DEF CommitStep
<1> QED
  BY <1>1, <1>2, <1>3, <1>4, <1>5 DEF Next, ResumeStep

LEMMA ResumedLedger ==
  ASSUME NEW L \in Ledger
  PROVE  /\ Resumed(L) \in Ledger
         /\ Resumed(L).items = L.items /\ Resumed(L).decisions = L.decisions
         /\ \/ Resumed(L) = L
            \/ Resumed(L).revision = L.revision + 1
            \/ Resumed(L).revision = MaxRevision
<1> DEFINE R == [L EXCEPT !.state = "running"]
           A == [R EXCEPT !.revision = @ + 1]
<1>1. L.revision \in 0..MaxRevision /\ MaxRevision \in Nat
  BY SessionConstants DEF Ledger
<1>2. /\ R \in Ledger /\ R.items = L.items /\ R.decisions = L.decisions
      /\ R.revision = L.revision
  BY DEF Ledger, SessionStates
<1>3. CASE L.state = "running"
  BY <1>3 DEF Resumed
<1>4. CASE L.state # "running" /\ L.revision < MaxRevision
  <2>1. Resumed(L) = A
    BY <1>2, <1>4 DEF Resumed, Advanced
  <2>2. L.revision + 1 \in 0..MaxRevision
    BY <1>1, <1>4
  <2>3. /\ A \in Ledger /\ A.items = R.items /\ A.decisions = R.decisions
        /\ A.revision = R.revision + 1
    BY <1>2, <2>2 DEF Ledger
  <2> QED
    BY <1>2, <2>1, <2>3
<1>5. CASE L.state # "running" /\ ~(L.revision < MaxRevision)
  <2>1. Resumed(L) = R /\ L.revision = MaxRevision
    BY <1>1, <1>2, <1>5 DEF Resumed, Advanced
  <2> QED
    BY <1>2, <2>1
<1> QED
  BY <1>3, <1>4, <1>5

-----------------------------------------------------------------------------
(* Type correctness.                                                       *)

LEMMA InitialLedger ==
  ASSUME NEW c \in Config
  PROVE  /\ NewLedger(c) \in Ledger
         /\ \A i \in ItemId : NewLedger(c).items[i] = <<>>
         /\ NewLedger(c).decisions = {}
  BY EmptySeq, SessionConstants DEF NewLedger, Ledger, SessionStates

LEMMA TypeStep ==
  ASSUME TypeOK, [Next]_vars
  PROVE  TypeOK'
<1>1. CASE CommitStep
  BY <1>1 DEF CommitStep, Successor, Commit, WriteThenEmit, Announce, TypeOK
<1>2. CASE Unload
  BY <1>2 DEF Unload, TypeOK
<1>3. CASE ResumeStep
  BY <1>3, ResumedLedger DEF ResumeStep, Resume, Announce, TypeOK
<1>4. CASE UNCHANGED vars
  BY <1>4 DEF vars, TypeOK
<1> QED
  BY <1>1, <1>2, <1>3, <1>4, StepCases

(***************************************************************************)
(* The ledger, its file and what the client saw keep the shapes validate   *)
(* accepts.                                                                *)
(***************************************************************************)
THEOREM TypeCorrect == Spec => []TypeOK
<1>1. Init => TypeOK
  BY InitialLedger DEF Init, TypeOK
<1> QED
  BY <1>1, TypeStep, PTL DEF Spec

-----------------------------------------------------------------------------
(***************************************************************************)
(* A client is never ahead of the ledger it talks to, and what it holds is *)
(* either no newer than the file or exactly what a resume of that file     *)
(* announces - which every later resume of the same file announces again.  *)
(***************************************************************************)
ClientKnows ==
  /\ loaded => client.revision <= ledger.revision
  /\ client.revision <= disk.revision \/ client = Resumed(disk)
  /\ client.revision = disk.revision /\ disk.revision < MaxRevision => client = disk

RevisionInv == TypeOK /\ RevisionNamesLedger /\ ClientKnows

LEMMA RevisionCommit ==
  ASSUME RevisionInv, NEW L, Successor(L), Commit(L)
  PROVE  (RevisionNamesLedger /\ ClientKnows)'
<1>1. /\ ledger.revision \in 0..MaxRevision /\ L.revision \in 0..MaxRevision
      /\ client.revision \in 0..MaxRevision /\ disk.revision \in 0..MaxRevision
      /\ MaxRevision \in Nat
  BY SessionConstants DEF RevisionInv, TypeOK, Successor, Ledger
<1>2. loaded /\ loaded' /\ ledger' = L
  BY DEF Commit
<1>3. /\ client.revision <= ledger.revision
      /\ client.revision = ledger.revision /\ ledger.revision < MaxRevision
           => client = ledger
  BY <1>2 DEF RevisionInv, ClientKnows, RevisionNamesLedger
<1>4. /\ client.revision <= L.revision
      /\ client.revision = L.revision /\ L.revision < MaxRevision => client = L
  BY <1>1, <1>3 DEF Successor
<1>5. CASE client' = L /\ disk' = L
  BY <1>1, <1>2, <1>5 DEF RevisionNamesLedger, ClientKnows
<1>6. CASE client' = client /\ disk' = L
  BY <1>1, <1>2, <1>4, <1>6 DEF RevisionNamesLedger, ClientKnows
<1>7. CASE client' = client /\ disk' = disk
  <2>1. /\ client.revision <= disk.revision \/ client = Resumed(disk)
        /\ client.revision = disk.revision /\ disk.revision < MaxRevision => client = disk
    BY DEF RevisionInv, ClientKnows
  <2> QED
    BY <1>2, <1>4, <1>7, <2>1 DEF RevisionNamesLedger, ClientKnows
<1> QED
  BY <1>5, <1>6, <1>7 DEF Commit, WriteThenEmit, Announce

LEMMA RevisionResume ==
  ASSUME RevisionInv, ResumeStep
  PROVE  (RevisionNamesLedger /\ ClientKnows)'
<1> DEFINE R == Resumed(disk)
<1>1. /\ loaded' /\ ledger' = R /\ disk' = disk /\ client' \in {client, R}
  BY DEF ResumeStep, Resume, Announce
<1>2. disk \in Ledger /\ client \in Ledger /\ R \in Ledger
  BY ResumedLedger DEF RevisionInv, TypeOK
<1>3. /\ disk.revision \in 0..MaxRevision /\ client.revision \in 0..MaxRevision
      /\ R.revision \in 0..MaxRevision /\ MaxRevision \in Nat
  BY <1>2, SessionConstants DEF Ledger
<1>4. R = disk \/ R.revision = disk.revision + 1 \/ R.revision = MaxRevision
  BY <1>2, ResumedLedger
<1> HIDE DEF R
<1>5. /\ client.revision <= disk.revision \/ client = R
      /\ client.revision = disk.revision /\ disk.revision < MaxRevision => client = disk
  BY DEF RevisionInv, ClientKnows, R
<1>6. /\ client.revision <= R.revision
      /\ client.revision = R.revision /\ R.revision < MaxRevision => client = R
  BY <1>3, <1>4, <1>5
<1>7. R = disk \/ R.revision # disk.revision \/ ~(disk.revision < MaxRevision)
  BY <1>3, <1>4
<1>8. CASE client' = client
  BY <1>1, <1>5, <1>6, <1>8 DEF RevisionNamesLedger, ClientKnows, R
<1>9. CASE client' = R
  BY <1>1, <1>3, <1>7, <1>9 DEF RevisionNamesLedger, ClientKnows, R
<1> QED
  BY <1>1, <1>8, <1>9

(***************************************************************************)
(* For a revision below the limit, a client holding the revision number    *)
(* of the live ledger holds that ledger: the number alone is a sound       *)
(* precondition for the controls that carry it.                            *)
(***************************************************************************)
THEOREM RevisionIsSound == Spec => []RevisionNamesLedger
<1>1. Init => RevisionInv
  <2> SUFFICES ASSUME Init PROVE RevisionInv
    OBVIOUS
  <2>1. TypeOK /\ client = ledger /\ disk = ledger
    BY InitialLedger DEF Init, TypeOK
  <2>2. ledger.revision <= ledger.revision
    BY <2>1, SessionConstants DEF TypeOK, Ledger
  <2> QED
    BY <2>1, <2>2 DEF RevisionInv, RevisionNamesLedger, ClientKnows
<1>2. RevisionInv /\ [Next]_vars => RevisionInv'
  <2> SUFFICES ASSUME RevisionInv, [Next]_vars PROVE RevisionInv'
    OBVIOUS
  <2>1. TypeOK'
    BY TypeStep DEF RevisionInv
  <2>2. CASE CommitStep
    BY <2>1, <2>2, RevisionCommit DEF CommitStep, RevisionInv
  <2>3. CASE Unload
    BY <2>1, <2>3 DEF Unload, RevisionInv, RevisionNamesLedger, ClientKnows
  <2>4. CASE ResumeStep
    BY <2>1, <2>4, RevisionResume DEF RevisionInv
  <2>5. CASE UNCHANGED vars
    BY <2>1, <2>5 DEF vars, RevisionInv, RevisionNamesLedger, ClientKnows
  <2> QED
    BY <2>2, <2>3, <2>4, <2>5, StepCases DEF RevisionInv
<1>3. RevisionInv => RevisionNamesLedger
  BY DEF RevisionInv
<1> QED
  BY <1>1, <1>2, <1>3, PTL DEF Spec

-----------------------------------------------------------------------------
(* Reanalysis.                                                             *)

LineageInv == TypeOK /\ RescansMatchRevisions

(***************************************************************************)
(* Replays, failed writes, crashes and resumes neither lose nor repeat a   *)
(* reanalysis, in memory or in the file.                                   *)
(***************************************************************************)
THEOREM RescansAreExact == Spec => []RescansMatchRevisions
<1>1. Init => LineageInv
  <2> SUFFICES ASSUME Init PROVE LineageInv
    OBVIOUS
  <2>1. PICK c \in Config : ledger = NewLedger(c) /\ disk = ledger /\ client = ledger
    BY DEF Init
  <2>2. /\ ledger \in Ledger /\ ledger.decisions = {}
        /\ \A i \in ItemId : Len(ledger.items[i]) = 0
    BY <2>1, InitialLedger, EmptySeq
  <2>3. RescanLineage(ledger)
    BY <2>2 DEF RescanLineage
  <2> QED
    BY <2>1, <2>2, <2>3 DEF Init, LineageInv, TypeOK, RescansMatchRevisions
<1>2. LineageInv /\ [Next]_vars => LineageInv'
  <2> SUFFICES ASSUME LineageInv, [Next]_vars PROVE LineageInv'
    OBVIOUS
  <2>1. TypeOK /\ TypeOK' /\ RescanLineage(ledger) /\ RescanLineage(disk)
    BY TypeStep DEF LineageInv, RescansMatchRevisions
  <2>2. ASSUME NEW L, Successor(L), Commit(L)
        PROVE  RescanLineage(ledger') /\ RescanLineage(disk')
    BY <2>1, <2>2 DEF Successor, Commit, WriteThenEmit
  <2>3. CASE Unload
    BY <2>1, <2>3 DEF Unload, LineageInv, RescansMatchRevisions
  <2>4. CASE ResumeStep
    <3>1. RescanLineage(Resumed(disk))
      BY <2>1, ResumedLedger DEF RescanLineage, TypeOK
    <3> QED
      BY <2>1, <2>4, <3>1 DEF ResumeStep, Resume, LineageInv, RescansMatchRevisions
  <2>5. CASE UNCHANGED vars
    BY <2>1, <2>5 DEF vars, LineageInv, RescansMatchRevisions
  <2>6. CASE CommitStep
    BY <2>1, <2>2, <2>6 DEF CommitStep, LineageInv, RescansMatchRevisions
  <2> QED
    BY <2>1, <2>3, <2>4, <2>5, <2>6, StepCases
<1>3. LineageInv => RescansMatchRevisions
  BY DEF LineageInv
<1> QED
  BY <1>1, <1>2, <1>3, PTL DEF Spec

(***************************************************************************)
(* Reanalysing keeps every earlier attempt as it was.                      *)
(***************************************************************************)
THEOREM EarlierAttemptsKept == Spec => SupersededRevisionsFrozen
<1> DEFINE Kept == loaded /\ loaded' => Frozen(ledger.items, ledger'.items)
<1>1. TypeOK /\ [Next]_vars => [Kept]_vars
  <2> SUFFICES ASSUME TypeOK, [Next]_vars PROVE Kept \/ UNCHANGED vars
    OBVIOUS
  <2>1. CASE CommitStep
    BY <2>1 DEF CommitStep, Successor, Commit
  <2>2. CASE Unload
    BY <2>2 DEF Unload
  <2>3. CASE ResumeStep
    BY <2>3 DEF ResumeStep, Resume
  <2> QED
    BY <2>1, <2>2, <2>3, StepCases
<1>2. Spec => [][Kept]_vars
  BY <1>1, TypeCorrect, PTL DEF Spec
<1> QED
  BY <1>2 DEF SupersededRevisionsFrozen, Frozen
=============================================================================
