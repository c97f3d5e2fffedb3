--------------------------- MODULE InventoryProofs ---------------------------
(***************************************************************************)
(* Proofs about Inventory: for every library, and every size of runs and   *)
(* pages, the walk is the library newest first.                            *)
(*                                                                         *)
(* The model computes by recursion what the code does in loops, so the     *)
(* proofs need induction.  It is stated of sets (Induction) and follows    *)
(* from the well-foundedness of < (Descent, Least).  A recursive           *)
(* definition chooses a function that satisfies its equation; that there   *)
(* is one is Recursion, and only then do the ...Unfold lemmas use it.      *)
(*                                                                         *)
(*   Sorting.  Same(f, g) says that g holds what f holds, each as often:   *)
(*     a bijection of places.  A run is sorted by giving each record the   *)
(*     place of its rank (Ranks, Listed).  A merge keeps that it has given *)
(*     the beginning of each run and that nothing left comes before what   *)
(*     it has given (GoodTaken); each level of merges keeps what all runs  *)
(*     hold together and leaves fewer runs (MergeLevelIs).                 *)
(*   The reference.  Without duplicates there is only one such list        *)
(*     (TheSortedList); duplicates are neighbours by id (DuplicatesAre).   *)
(*   The tree.  A level of n nodes is followed by one of half as many, so  *)
(*     the proofs have the bit length page() expects (TopIs).  The node    *)
(*     over a page joins the page's with its sibling's (ParentJoins), so   *)
(*     its proof leads up to the root (ProofLeads) and, read downwards,    *)
(*     nothing else does (OnlyTheLeafLeads).                               *)
(*   The walk.  IInv adds to WalkIsTheLibrary what pages and snapshot are  *)
(*     (SnapshotIsTheLibrary) and where the walk stands between pages      *)
(*     (WalkStands).                                                       *)
(***************************************************************************)
EXTENDS Inventory, FiniteSetTheorems, FunctionTheorems, SequenceTheorems,
        WellFoundedInduction, TLAPS

-----------------------------------------------------------------------------
(* Induction and recursion                                                     *)

(* The naturals are well-founded; the library states it of the operator <.     *)
LEMMA Descent ==
  IsWellFoundedOn({ss \in Nat \X Nat : ss[1] < ss[2]}, Nat)
  BY NatLessThanWellFounded DEF OpToRel

(* A set of naturals that is not empty has a least element.                    *)
LEMMA Least ==
  ASSUME NEW T, T \subseteq Nat, T # {}
  PROVE  \E m \in T : \A k \in T : m <= k
<1> DEFINE R == {ss \in Nat \X Nat : ss[1] < ss[2]}
<1>1. IsWellFoundedOn(R, Nat)
  BY Descent
<1>2. \A x, y \in Nat : y < x => <<y, x>> \in R
  OBVIOUS
<1> HIDE DEF R
<1>3. PICK x \in T : \A y \in T : ~ (<<y, x>> \in R)
  BY <1>1, WFMin
<1>4. \A y \in T : ~(y < x)
  BY <1>3, <1>2
<1> QED
  BY <1>4

(* Induction over a set, where the library's theorem takes a predicate.        *)
LEMMA Induction ==
  ASSUME NEW S, 0 \in S, \A n \in S \cap Nat : n + 1 \in S
  PROVE  Nat \subseteq S
<1> SUFFICES ASSUME Nat \ S # {} PROVE FALSE
  OBVIOUS
<1>1. PICK m \in Nat \ S : \A k \in Nat \ S : m <= k
  BY Least
<1>2. m # 0
  OBVIOUS
<1>3. m - 1 \in Nat /\ ~(m <= m - 1)
  BY <1>2
<1>4. m - 1 \in S
  BY <1>1, <1>3
<1>5. (m - 1) + 1 \in S
  BY <1>4, <1>3
<1> QED
  BY <1>5

(* One turn of each loop of the module that is written as a recursion.         *)
Turn(loop, env, n, v) ==
  CASE loop = "merge"  -> TakeOne(env.runs, env.key, v)
    [] loop = "levels" -> MergeLevel(v, env)
    [] loop = "tree"   -> Parents(v)
    [] loop = "halves" -> v \div 2
    [] loop = "climb"  -> Join(v, Halving(env.index)[n - 1], env.proof[n])

Runs(f, loop, env, a) == f = [n \in Nat |-> IF n = 0 THEN a ELSE Turn(loop, env, n, f[n - 1])]

(* The recursions of the module define a function: there is one that satisfies *)
(* the equation, built from its finite beginnings.                             *)
LEMMA Recursion ==
  ASSUME NEW loop, NEW env, NEW a
  PROVE  \E f : Runs(f, loop, env, a)
<1> DEFINE Step(n, v) == Turn(loop, env, n, v)
<1> HIDE DEF Step
<1> DEFINE Rec(g, n) == DOMAIN g = 0 .. n /\ g[0] = a /\ \A k \in 1 .. n : g[k] = Step(k, g[k - 1])
<1> DEFINE S == {n \in Nat : \E g : Rec(g, n)}
<1>1. 0 \in S
  <2>1. Rec([k \in 0 .. 0 |-> a], 0)
    OBVIOUS
  <2> HIDE DEF Rec
  <2> QED BY <2>1
<1>2. ASSUME NEW n \in S PROVE n + 1 \in S
  <2>1. n \in Nat /\ n + 1 \in Nat
    OBVIOUS
  <2>2. PICK g : Rec(g, n)
    OBVIOUS
  <2> DEFINE gg == [k \in 0 .. n + 1 |-> IF k = n + 1 THEN Step(k, g[n]) ELSE g[k]]
  <2>3. DOMAIN gg = 0 .. n + 1 /\ gg[0] = a
    BY <2>1, <2>2
  <2>4. ASSUME NEW k \in 1 .. n + 1 PROVE gg[k] = Step(k, gg[k - 1])
    <3>1. CASE k = n + 1
      BY <3>1, <2>1
    <3>2. CASE k # n + 1
      BY <3>2, <2>1, <2>2
    <3> QED BY <3>1, <3>2
  <2>5. Rec(gg, n + 1)
    BY <2>3, <2>4
  <2> HIDE DEF Rec, gg
  <2> QED BY <2>5, <2>1
<1>3. Nat \subseteq S
  <2> HIDE DEF S
  <2> QED BY <1>1, <1>2, Induction
<1>4. ASSUME NEW m \in Nat, NEW g, Rec(g, m), NEW n \in Nat, NEW h, Rec(h, n), m <= n
      PROVE  g[m] = h[m]
  <2> DEFINE T == {k \in Nat : k <= m => g[k] = h[k]}
  <2>1. 0 \in T
    BY <1>4
  <2>2. ASSUME NEW k \in T PROVE k + 1 \in T
    <3>1. k \in Nat
      OBVIOUS
    <3>2. ASSUME k + 1 <= m PROVE g[k + 1] = h[k + 1]
      <4>1. g[k] = h[k] /\ k + 1 \in 1 .. m /\ k + 1 \in 1 .. n /\ (k + 1) - 1 = k
        BY <3>1, <3>2, <1>4
      <4> QED BY <4>1, <1>4
    <3> QED BY <3>1, <3>2
  <2>3. Nat \subseteq T
    <3> HIDE DEF T
    <3> QED BY <2>1, <2>2, Induction
  <2> QED BY <2>3
<1> DEFINE G(n) == CHOOSE g : Rec(g, n)
<1>5. \A n \in Nat : Rec(G(n), n)
  <2> HIDE DEF Rec
  <2> QED BY <1>3
<1> DEFINE f == [n \in Nat |-> G(n)[n]]
<1>6. ASSUME NEW n \in Nat
      PROVE  f[n] = IF n = 0 THEN a ELSE Step(n, f[n - 1])
  <2>1. CASE n = 0
    BY <2>1, <1>5
  <2>2. CASE n # 0
    <3>1. n - 1 \in Nat /\ n - 1 <= n /\ n \in 1 .. n
      BY <2>2
    <3>2. Rec(G(n), n) /\ Rec(G(n - 1), n - 1)
      BY <1>5, <3>1
    <3>3. G(n)[n] = Step(n, G(n)[n - 1])
      <4> HIDE DEF G
      <4> QED BY <3>1, <3>2
    <3>4. G(n - 1)[n - 1] = G(n)[n - 1]
      <4> HIDE DEF Rec, G
      <4> QED BY <1>4, <3>1, <3>2
    <3> QED BY <2>2, <3>1, <3>3, <3>4
  <2> QED BY <2>1, <2>2
<1>7. f = [n \in Nat |-> IF n = 0 THEN a ELSE Step(n, f[n - 1])]
  <2> HIDE DEF G
  <2> QED BY <1>6
<1> HIDE DEF f
<1> QED BY <1>7 DEF Step, Runs

(* What each recursion computes, turn by turn.                                 *)
LEMMA TakenUnfolds ==
  ASSUME NEW runs, NEW key
  PROVE  /\ Taken(runs, key)[0] = [r \in DOMAIN runs |-> 0]
         /\ \A n \in Nat : Taken(runs, key)[n + 1] = TakeOne(runs, key, Taken(runs, key)[n])
<1> DEFINE start == [r \in DOMAIN runs |-> 0]
<1> DEFINE env == [runs |-> runs, key |-> key]
<1>1. \E f : Runs(f, "merge", env, start)
  <2> HIDE DEF start, env
  <2> QED BY Recursion
<1>2. \E f : f = [n \in Nat |-> IF n = 0 THEN start ELSE TakeOne(runs, key, f[n - 1])]
  BY <1>1 DEF Runs, Turn
<1>3. Taken(runs, key) =
        [n \in Nat |-> IF n = 0 THEN start ELSE TakeOne(runs, key, Taken(runs, key)[n - 1])]
  BY <1>2 DEF Taken
<1> HIDE DEF start
<1>4. Taken(runs, key)[0] = start
  BY <1>3
<1>5. ASSUME NEW n \in Nat
      PROVE  Taken(runs, key)[n + 1] = TakeOne(runs, key, Taken(runs, key)[n])
  <2>1. n + 1 \in Nat /\ n + 1 # 0 /\ (n + 1) - 1 = n
    OBVIOUS
  <2> QED BY <2>1, <1>3
<1> QED BY <1>4, <1>5 DEF start

LEMMA MergeLevelsUnfolds ==
  ASSUME NEW runs, NEW key
  PROVE  /\ MergeLevels(runs, key)[0] = runs
         /\ \A l \in Nat :
              MergeLevels(runs, key)[l + 1] = MergeLevel(MergeLevels(runs, key)[l], key)
<1>1. \E f : Runs(f, "levels", key, runs)
  BY Recursion
<1>2. \E f : f = [n \in Nat |-> IF n = 0 THEN runs ELSE MergeLevel(f[n - 1], key)]
  BY <1>1 DEF Runs, Turn
<1>3. MergeLevels(runs, key) =
        [n \in Nat |-> IF n = 0 THEN runs ELSE MergeLevel(MergeLevels(runs, key)[n - 1], key)]
  BY <1>2 DEF MergeLevels
<1>4. ASSUME NEW n \in Nat
      PROVE  MergeLevels(runs, key)[n + 1] = MergeLevel(MergeLevels(runs, key)[n], key)
  <2>1. n + 1 \in Nat /\ n + 1 # 0 /\ (n + 1) - 1 = n
    OBVIOUS
  <2> QED BY <2>1, <1>3
<1> QED BY <1>3, <1>4

LEMMA LevelsUnfold ==
  ASSUME NEW leaves
  PROVE  /\ Levels(leaves)[0] = leaves
         /\ \A h \in Nat : Levels(leaves)[h + 1] = Parents(Levels(leaves)[h])
<1>1. \E f : Runs(f, "tree", 0, leaves)
  BY Recursion
<1>2. \E f : f = [n \in Nat |-> IF n = 0 THEN leaves ELSE Parents(f[n - 1])]
  BY <1>1 DEF Runs, Turn
<1>3. Levels(leaves) = [n \in Nat |-> IF n = 0 THEN leaves ELSE Parents(Levels(leaves)[n - 1])]
  BY <1>2 DEF Levels
<1>4. ASSUME NEW n \in Nat
      PROVE  Levels(leaves)[n + 1] = Parents(Levels(leaves)[n])
  <2>1. n + 1 \in Nat /\ n + 1 # 0 /\ (n + 1) - 1 = n
    OBVIOUS
  <2> QED BY <2>1, <1>3
<1> QED BY <1>3, <1>4

LEMMA HalvingUnfolds ==
  ASSUME NEW n
  PROVE  /\ Halving(n)[0] = n
         /\ \A h \in Nat : Halving(n)[h + 1] = Halving(n)[h] \div 2
<1>1. \E f : Runs(f, "halves", 0, n)
  BY Recursion
<1>2. \E f : f = [h \in Nat |-> IF h = 0 THEN n ELSE f[h - 1] \div 2]
  BY <1>1 DEF Runs, Turn
<1>3. Halving(n) = [h \in Nat |-> IF h = 0 THEN n ELSE Halving(n)[h - 1] \div 2]
  BY <1>2 DEF Halving
<1>4. ASSUME NEW h \in Nat
      PROVE  Halving(n)[h + 1] = Halving(n)[h] \div 2
  <2>1. h + 1 \in Nat /\ h + 1 # 0 /\ (h + 1) - 1 = h
    OBVIOUS
  <2> QED BY <2>1, <1>3
<1> QED BY <1>3, <1>4

LEMMA ClimbUnfolds ==
  ASSUME NEW digest, NEW index, NEW proof
  PROVE  /\ Climb(digest, index, proof)[0] = digest
         /\ \A h \in Nat : Climb(digest, index, proof)[h + 1] =
              Join(Climb(digest, index, proof)[h], Halving(index)[h], proof[h + 1])
<1> DEFINE env == [index |-> index, proof |-> proof]
<1>1. \E f : Runs(f, "climb", env, digest)
  <2> HIDE DEF env
  <2> QED BY Recursion
<1>2. \E f : f = [h \in Nat |-> IF h = 0 THEN digest
                                ELSE Join(f[h - 1], Halving(index)[h - 1], proof[h])]
  BY <1>1 DEF Runs, Turn
<1>3. Climb(digest, index, proof) =
        [h \in Nat |-> IF h = 0 THEN digest
                       ELSE Join(Climb(digest, index, proof)[h - 1], Halving(index)[h - 1],
                                 proof[h])]
  BY <1>2 DEF Climb
<1>4. ASSUME NEW h \in Nat
      PROVE  Climb(digest, index, proof)[h + 1] =
               Join(Climb(digest, index, proof)[h], Halving(index)[h], proof[h + 1])
  <2>1. h + 1 \in Nat /\ h + 1 # 0 /\ (h + 1) - 1 = h
    OBVIOUS
  <2> QED BY <2>1, <1>3
<1> QED BY <1>3, <1>4

-----------------------------------------------------------------------------
(* Ranks in a finite order                                                     *)

IsOrder(R, S) ==
  /\ \A x \in S : <<x, x>> \notin R
  /\ \A x, y, z \in S : <<x, y>> \in R /\ <<y, z>> \in R => <<x, z>> \in R
  /\ \A x, y \in S : x # y => <<x, y>> \in R \/ <<y, x>> \in R

Below(R, S, x) == {y \in S : <<y, x>> \in R}

(* What is lower has fewer below it, and every number of elements below it     *)
(* belongs to one element.                                                     *)
LEMMA Ranks ==
  ASSUME NEW S, IsFiniteSet(S), NEW R, IsOrder(R, S)
  PROVE  /\ Cardinality(S) \in Nat
         /\ \A x \in S : Cardinality(Below(R, S, x)) \in 0 .. Cardinality(S) - 1
         /\ \A x, y \in S : <<x, y>> \in R =>
              Cardinality(Below(R, S, x)) < Cardinality(Below(R, S, y))
         /\ \A n \in 1 .. Cardinality(S) : \E x \in S : Cardinality(Below(R, S, x)) = n - 1
<1> DEFINE N == Cardinality(S)
           rank(x) == Cardinality(Below(R, S, x))
<1>1. N \in Nat
  BY FS_CardinalityType
<1>2. ASSUME NEW x \in S
      PROVE  IsFiniteSet(Below(R, S, x)) /\ rank(x) \in Nat /\ rank(x) < N
  <2>1. Below(R, S, x) \in SUBSET S /\ x \notin Below(R, S, x)
    BY DEF Below, IsOrder
  <2>2. IsFiniteSet(Below(R, S, x)) /\ rank(x) <= N /\ rank(x) # N
    BY <2>1, FS_Subset
  <2>3. rank(x) \in Nat
    BY <2>2, FS_CardinalityType
  <2> QED BY <2>2, <2>3, <1>1
<1>3. ASSUME NEW x \in S, NEW y \in S, <<x, y>> \in R
      PROVE  rank(x) < rank(y)
  <2>1. Below(R, S, x) \in SUBSET Below(R, S, y) /\ x \in Below(R, S, y) /\ x \notin Below(R, S, x)
    BY <1>3 DEF Below, IsOrder
  <2>2. rank(x) <= rank(y) /\ rank(x) # rank(y)
    BY <2>1, <1>2, FS_Subset
  <2> QED BY <2>2, <1>2
<1> HIDE DEF N, rank
<1> DEFINE f == [x \in S |-> rank(x)]
<1>4. f \in Injection(S, 0 .. N - 1)
  <2>1. f \in [S -> 0 .. N - 1]
    BY <1>1, <1>2
  <2>2. ASSUME NEW x \in S, NEW y \in S, x # y PROVE f[x] # f[y]
    <3>1. rank(x) < rank(y) \/ rank(y) < rank(x)
      BY <1>3, <2>2 DEF IsOrder
    <3> QED BY <3>1, <1>2
  <2> HIDE DEF f
  <2> QED BY <2>1, <2>2 DEF Injection, IsInjective
<1>5. IsFiniteSet(0 .. N - 1) /\ Cardinality(0 .. N - 1) = N
  BY <1>1, FS_Interval
<1>6. f \in Surjection(S, 0 .. N - 1)
  <2> HIDE DEF f
  <2> QED BY <1>4, <1>5, FS_Injection DEF N
<1>7. ASSUME NEW n \in 1 .. N PROVE \E x \in S : rank(x) = n - 1
  <2>1. n - 1 \in 0 .. N - 1
    BY <1>1
  <2>2. PICK x \in S : f[x] = n - 1
    <3> HIDE DEF f
    <3> QED BY <1>6, <2>1 DEF Surjection
  <2> QED BY <2>2
<1>8. \A x \in S : rank(x) \in 0 .. N - 1
  BY <1>1, <1>2
<1> QED BY <1>1, <1>3, <1>7, <1>8 DEF N, rank

ByRank(ord, R, S) ==
  \A n \in 1 .. Cardinality(S) : ord[n] \in S /\ Cardinality(Below(R, S, ord[n])) = n - 1

(* So the elements listed by their rank are each of them, once, in order.      *)
LEMMA Listed ==
  ASSUME NEW S, IsFiniteSet(S), NEW R, IsOrder(R, S), NEW ord, ByRank(ord, R, S)
  PROVE  /\ \A n, m \in 1 .. Cardinality(S) : n < m => <<ord[n], ord[m]>> \in R
         /\ \A n, m \in 1 .. Cardinality(S) : n # m => ord[n] # ord[m]
         /\ \A x \in S : \E n \in 1 .. Cardinality(S) : ord[n] = x
<1> DEFINE N == Cardinality(S)
           rank(x) == Cardinality(Below(R, S, x))
<1>1. N \in Nat /\ \A x \in S : rank(x) \in 0 .. N - 1
  BY Ranks
<1>2. \A x, y \in S : <<x, y>> \in R => rank(x) < rank(y)
  BY Ranks
<1>3. \A n \in 1 .. N : ord[n] \in S /\ rank(ord[n]) = n - 1
  BY DEF ByRank
<1> HIDE DEF N, rank
<1>4. ASSUME NEW x \in S, NEW y \in S, rank(x) = rank(y) PROVE x = y
  <2> SUFFICES ASSUME x # y PROVE FALSE
    OBVIOUS
  <2>1. <<x, y>> \in R \/ <<y, x>> \in R
    BY DEF IsOrder
  <2>2. rank(x) < rank(y) \/ rank(y) < rank(x)
    BY <2>1, <1>2
  <2> QED BY <2>2, <1>4, <1>1
<1>5. ASSUME NEW n \in 1 .. N, NEW m \in 1 .. N, n < m PROVE <<ord[n], ord[m]>> \in R
  <2>1. rank(ord[n]) = n - 1 /\ rank(ord[m]) = m - 1 /\ ord[n] \in S /\ ord[m] \in S
    BY <1>3
  <2>2. n - 1 # m - 1 /\ ~(m - 1 < n - 1)
    BY <1>5, <1>1
  <2>3. ord[n] # ord[m]
    BY <2>1, <2>2
  <2>4. <<ord[m], ord[n]>> \notin R
    BY <2>1, <2>2, <1>2
  <2> QED BY <2>1, <2>3, <2>4 DEF IsOrder
<1>6. ASSUME NEW n \in 1 .. N, NEW m \in 1 .. N, n # m PROVE ord[n] # ord[m]
  <2>1. n - 1 # m - 1
    BY <1>6, <1>1
  <2> QED BY <2>1, <1>3
<1>7. ASSUME NEW x \in S PROVE \E n \in 1 .. N : ord[n] = x
  <2>1. rank(x) + 1 \in 1 .. N /\ (rank(x) + 1) - 1 = rank(x)
    BY <1>1
  <2>2. ord[rank(x) + 1] \in S /\ rank(ord[rank(x) + 1]) = rank(x)
    BY <2>1, <1>3
  <2> QED BY <2>1, <2>2, <1>4
<1> QED BY <1>5, <1>6, <1>7 DEF N

-----------------------------------------------------------------------------
(* The same records in another arrangement                                     *)

Matches(b, f, g) ==
  /\ b \in [DOMAIN f -> DOMAIN g]
  /\ \A x, y \in DOMAIN f : x # y => b[x] # b[y]
  /\ \A z \in DOMAIN g : \E x \in DOMAIN f : b[x] = z
  /\ \A x \in DOMAIN f : f[x] = g[b[x]]

Same(f, g) == \E b : Matches(b, f, g)

Contents(F) == [p \in Places(F) |-> F[p[1]][p[2]]]

LEMMA SameItself ==
  ASSUME NEW f
  PROVE  Same(f, f)
<1>1. Matches([x \in DOMAIN f |-> x], f, f)
  BY DEF Matches
<1> QED BY <1>1 DEF Same

LEMMA SameThrough ==
  ASSUME NEW f, NEW g, NEW h, Same(f, g), Same(g, h)
  PROVE  Same(f, h)
<1>1. PICK b : Matches(b, f, g)
  BY DEF Same
<1>2. PICK c : Matches(c, g, h)
  BY DEF Same
<1> DEFINE d == [x \in DOMAIN f |-> c[b[x]]]
<1>3. d \in [DOMAIN f -> DOMAIN h]
  BY <1>1, <1>2 DEF Matches
<1>4. \A x, y \in DOMAIN f : x # y => d[x] # d[y]
  BY <1>1, <1>2 DEF Matches
<1>5. ASSUME NEW z \in DOMAIN h PROVE \E x \in DOMAIN f : d[x] = z
  <2>1. PICK y \in DOMAIN g : c[y] = z
    BY <1>2 DEF Matches
  <2>2. PICK x \in DOMAIN f : b[x] = y
    BY <1>1 DEF Matches
  <2> QED BY <2>1, <2>2
<1>6. \A x \in DOMAIN f : f[x] = h[d[x]]
  BY <1>1, <1>2 DEF Matches
<1> HIDE DEF d
<1>7. Matches(d, f, h)
  BY <1>3, <1>4, <1>5, <1>6 DEF Matches
<1> QED BY <1>7 DEF Same

LEMMA SameValues ==
  ASSUME NEW f, NEW g, Same(f, g)
  PROVE  Range(f) = Range(g)
<1>1. PICK b : Matches(b, f, g)
  BY DEF Same
<1>2. ASSUME NEW x \in DOMAIN f PROVE \E y \in DOMAIN g : f[x] = g[y]
  BY <1>1 DEF Matches
<1>3. ASSUME NEW y \in DOMAIN g PROVE \E x \in DOMAIN f : f[x] = g[y]
  <2>1. PICK x \in DOMAIN f : b[x] = y
    BY <1>1 DEF Matches
  <2> QED BY <2>1, <1>1 DEF Matches
<1> QED BY <1>2, <1>3 DEF Range

LEMMA APlace ==
  ASSUME NEW F, NEW r, NEW i
  PROVE  <<r, i>> \in Places(F) <=> r \in DOMAIN F /\ i \in DOMAIN F[r]
  BY DEF Places

LEMMA IsAPlace ==
  ASSUME NEW F, NEW p \in Places(F)
  PROVE  p = <<p[1], p[2]>> /\ p[1] \in DOMAIN F /\ p[2] \in DOMAIN F[p[1]]
  BY DEF Places

LEMMA AtPlace ==
  ASSUME NEW F
  PROVE  /\ DOMAIN Contents(F) = Places(F)
         /\ \A p \in Places(F) : Contents(F)[p] = F[p[1]][p[2]]
  BY DEF Contents

(* Run by run.                                                                 *)
LEMMA SameRuns ==
  ASSUME NEW F, NEW G, DOMAIN F = DOMAIN G, \A r \in DOMAIN F : Same(F[r], G[r])
  PROVE  Same(Contents(F), Contents(G))
<1> DEFINE B(r) == CHOOSE b : Matches(b, F[r], G[r])
<1>1. ASSUME NEW r \in DOMAIN F PROVE Matches(B(r), F[r], G[r])
  BY DEF Same
<1> HIDE DEF B
<1> DEFINE d == [p \in Places(F) |-> <<p[1], B(p[1])[p[2]]>>]
<1>2. ASSUME NEW p \in Places(F)
      PROVE  /\ d[p] \in Places(G) /\ d[p][1] = p[1] /\ d[p][2] = B(p[1])[p[2]]
             /\ Contents(F)[p] = Contents(G)[d[p]]
  <2>1. p[1] \in DOMAIN F /\ p[2] \in DOMAIN F[p[1]]
    BY IsAPlace
  <2>2. B(p[1])[p[2]] \in DOMAIN G[p[1]] /\ F[p[1]][p[2]] = G[p[1]][B(p[1])[p[2]]]
    BY <2>1, <1>1 DEF Matches
  <2>3. d[p] = <<p[1], B(p[1])[p[2]]>>
    OBVIOUS
  <2>4. d[p] \in Places(G)
    BY <2>1, <2>2, <2>3, APlace
  <2> HIDE DEF d
  <2> QED BY <2>2, <2>3, <2>4, AtPlace
<1>3. ASSUME NEW p \in Places(F), NEW q \in Places(F), d[p] = d[q] PROVE p = q
  <2>1. p[1] = q[1] /\ B(p[1])[p[2]] = B(p[1])[q[2]]
    <3> HIDE DEF d
    <3> QED BY <1>2, <1>3
  <2>2. p = <<p[1], p[2]>> /\ q = <<q[1], q[2]>> /\ p[1] \in DOMAIN F
        /\ p[2] \in DOMAIN F[p[1]] /\ q[2] \in DOMAIN F[p[1]]
    BY <2>1, IsAPlace
  <2>3. p[2] = q[2]
    BY <2>1, <2>2, <1>1 DEF Matches
  <2> QED BY <2>1, <2>2, <2>3
<1>4. ASSUME NEW z \in Places(G) PROVE \E p \in Places(F) : d[p] = z
  <2>1. z = <<z[1], z[2]>> /\ z[1] \in DOMAIN F /\ z[2] \in DOMAIN G[z[1]]
    BY IsAPlace
  <2>2. PICK i \in DOMAIN F[z[1]] : B(z[1])[i] = z[2]
    BY <2>1, <1>1 DEF Matches
  <2>3. <<z[1], i>> \in Places(F)
    BY <2>1, <2>2, APlace
  <2> QED BY <2>1, <2>2, <2>3
<1>5. d \in [Places(F) -> Places(G)]
  BY <1>2
<1> HIDE DEF d
<1>6. Matches(d, Contents(F), Contents(G))
  BY <1>2, <1>3, <1>4, <1>5, AtPlace DEF Matches
<1> QED BY <1>6 DEF Same

(* Regrouping runs does not change what they hold.                             *)
LEMMA SameGroups ==
  ASSUME NEW F, NEW runs, Same(Contents(F), runs)
  PROVE  Same(Contents([g \in DOMAIN F |-> Contents(F[g])]), Contents(runs))
<1> DEFINE H == [g \in DOMAIN F |-> Contents(F[g])]
<1>1. PICK b : Matches(b, Contents(F), runs)
  BY DEF Same
<1>2. /\ \A p \in Places(F) : b[p] \in DOMAIN runs /\ F[p[1]][p[2]] = runs[b[p]]
      /\ \A p, q \in Places(F) : p # q => b[p] # b[q]
      /\ \A r \in DOMAIN runs : \E p \in Places(F) : b[p] = r
  BY <1>1, AtPlace DEF Matches
<1>3. \A g \in DOMAIN H : H[g] = Contents(F[g]) /\ DOMAIN H[g] = Places(F[g])
  BY AtPlace
<1>4. ASSUME NEW p \in Places(H)
      PROVE  /\ p = <<p[1], p[2]>> /\ p[2] = <<p[2][1], p[2][2]>>
             /\ <<p[1], p[2][1]>> \in Places(F)
             /\ p[2][2] \in DOMAIN F[p[1]][p[2][1]]
             /\ Contents(H)[p] = F[p[1]][p[2][1]][p[2][2]]
  <2>1. p = <<p[1], p[2]>> /\ p[1] \in DOMAIN H /\ p[2] \in DOMAIN H[p[1]]
    BY IsAPlace
  <2>2. p[1] \in DOMAIN F /\ p[2] \in Places(F[p[1]])
    BY <2>1, <1>3
  <2>3. p[2] = <<p[2][1], p[2][2]>> /\ p[2][1] \in DOMAIN F[p[1]]
        /\ p[2][2] \in DOMAIN F[p[1]][p[2][1]]
    BY <2>2, IsAPlace
  <2>4. Contents(H)[p] = H[p[1]][p[2]]
    BY AtPlace
  <2>5. H[p[1]][p[2]] = F[p[1]][p[2][1]][p[2][2]]
    BY <2>1, <2>2, <1>3, AtPlace
  <2>6. <<p[1], p[2][1]>> \in Places(F)
    BY <2>2, <2>3, APlace
  <2> QED BY <2>1, <2>3, <2>4, <2>5, <2>6
<1> DEFINE d == [p \in Places(H) |-> <<b[<<p[1], p[2][1]>>], p[2][2]>>]
<1>5. ASSUME NEW p \in Places(H)
      PROVE  d[p] \in Places(runs) /\ Contents(H)[p] = Contents(runs)[d[p]]
  <2> DEFINE r == b[<<p[1], p[2][1]>>]
  <2>1. r \in DOMAIN runs /\ F[p[1]][p[2][1]] = runs[r]
    BY <1>2, <1>4
  <2>2. d[p] = <<r, p[2][2]>>
    OBVIOUS
  <2> HIDE DEF r, H
  <2>3. d[p] \in Places(runs)
    BY <2>1, <2>2, <1>4, APlace
  <2>4. Contents(runs)[d[p]] = runs[r][p[2][2]]
    BY <2>2, <2>3, AtPlace
  <2> QED BY <2>1, <2>3, <2>4, <1>4
<1> HIDE DEF H
<1>6. ASSUME NEW p \in Places(H), NEW q \in Places(H), d[p] = d[q] PROVE p = q
  <2>1. b[<<p[1], p[2][1]>>] = b[<<q[1], q[2][1]>>] /\ p[2][2] = q[2][2]
    BY <1>6
  <2>2. <<p[1], p[2][1]>> = <<q[1], q[2][1]>>
    BY <2>1, <1>2, <1>4
  <2>3. p[1] = q[1] /\ p[2][1] = q[2][1]
    BY <2>2
  <2>4. p[2] = <<p[2][1], p[2][2]>> /\ q[2] = <<q[2][1], q[2][2]>>
        /\ p = <<p[1], p[2]>> /\ q = <<q[1], q[2]>>
    BY <1>4
  <2>5. p[2] = q[2]
    BY <2>1, <2>3, <2>4
  <2> QED BY <2>3, <2>4, <2>5
<1>7. ASSUME NEW z \in Places(runs) PROVE \E p \in Places(H) : d[p] = z
  <2>1. z = <<z[1], z[2]>> /\ z[1] \in DOMAIN runs /\ z[2] \in DOMAIN runs[z[1]]
    BY IsAPlace
  <2>2. PICK p \in Places(F) : b[p] = z[1]
    BY <2>1, <1>2
  <2>3. p = <<p[1], p[2]>> /\ p[1] \in DOMAIN F /\ p[2] \in DOMAIN F[p[1]]
    BY IsAPlace
  <2>4. z[2] \in DOMAIN F[p[1]][p[2]]
    BY <2>1, <2>2, <1>2
  <2>5. <<p[2], z[2]>> \in Places(F[p[1]])
    BY <2>3, <2>4, APlace
  <2>6. p[1] \in DOMAIN H /\ <<p[2], z[2]>> \in DOMAIN H[p[1]]
    BY <2>3, <2>5, <1>3 DEF H
  <2>7. <<p[1], <<p[2], z[2]>>>> \in Places(H)
    BY <2>6, APlace
  <2>8. d[<<p[1], <<p[2], z[2]>>>>] = <<b[<<p[1], p[2]>>], z[2]>>
    BY <2>7
  <2>9. d[<<p[1], <<p[2], z[2]>>>>] = z
    BY <2>1, <2>2, <2>3, <2>8
  <2> QED BY <2>7, <2>9
<1>8. d \in [Places(H) -> Places(runs)]
  BY <1>5
<1> HIDE DEF d
<1>9. Matches(d, Contents(H), Contents(runs))
  BY <1>5, <1>6, <1>7, <1>8, AtPlace DEF Matches
<1> QED BY <1>9 DEF Same, H

-----------------------------------------------------------------------------
(* Pieces                                                                      *)

LEMMA Times ==
  ASSUME NEW a \in Int, NEW b \in Int, NEW k \in Nat, a <= b
  PROVE  a * k <= b * k
<1>1. (b - a) * k >= 0
  OBVIOUS
<1> QED BY <1>1

LEMMA Quotient ==
  ASSUME NEW a \in Nat, NEW k \in Nat \ {0}
  PROVE  /\ a \div k \in Nat /\ a % k \in 0 .. k - 1
         /\ (a \div k) * k + (a % k) = a
  OBVIOUS

LEMMA CeilIs ==
  ASSUME NEW n \in Nat, NEW k \in Nat \ {0}
  PROVE  /\ Ceil(n, k) \in Nat
         /\ \A r \in Nat \ {0} : r <= Ceil(n, k) <=> (r - 1) * k < n
         /\ n <= Ceil(n, k) * k /\ Ceil(n, k) * k < n + k
         /\ Ceil(n, k) = 0 <=> n = 0
<1> DEFINE c == (n + k - 1) \div k
<1>1. n + k - 1 \in Nat
  OBVIOUS
<1>2. c \in Nat /\ c * k + ((n + k - 1) % k) = n + k - 1 /\ (n + k - 1) % k \in 0 .. k - 1
  BY <1>1, Quotient
<1>3. c = Ceil(n, k)
  BY DEF Ceil
<1> HIDE DEF c
<1>4. c * k \in Int /\ n <= c * k /\ c * k < n + k
  BY <1>2
<1>5. ASSUME NEW r \in Nat \ {0}, r <= c PROVE (r - 1) * k < n
  <2>1. (r - 1) * k <= (c - 1) * k /\ (c - 1) * k = c * k - k
    BY <1>2, <1>5, Times
  <2> QED BY <2>1, <1>4
<1>6. ASSUME NEW r \in Nat \ {0}, ~(r <= c) PROVE ~((r - 1) * k < n)
  <2>1. c * k <= (r - 1) * k
    BY <1>2, <1>6, Times
  <2>2. (r - 1) * k \in Int
    OBVIOUS
  <2> QED BY <2>1, <2>2, <1>4
<1>7. c = 0 <=> n = 0
  <2>1. CASE n = 0
    <3>1. c * k < k /\ (c # 0 => 1 * k <= c * k)
      BY <2>1, <1>2, <1>4, Times
    <3> QED BY <3>1, <2>1, <1>2
  <2>2. CASE c = 0
    BY <2>2, <1>4
  <2> QED BY <2>1, <2>2
<1> QED BY <1>2, <1>3, <1>4, <1>5, <1>6, <1>7

\* How long the r-th piece is.
Share(n, k, r) == IF r * k < n THEN k ELSE n - (r - 1) * k

LEMMA ShareIs ==
  ASSUME NEW n \in Nat, NEW k \in Nat \ {0}, NEW r \in 1 .. Ceil(n, k)
  PROVE  /\ Share(n, k, r) \in 1 .. k
         /\ (r - 1) * k \in Nat /\ r * k = (r - 1) * k + k
         /\ (r - 1) * k + Share(n, k, r) <= n
         /\ r < Ceil(n, k) => Share(n, k, r) = k
         /\ r = Ceil(n, k) => (r - 1) * k + Share(n, k, r) = n
<1>1. r \in Nat \ {0} /\ Ceil(n, k) \in Nat
  BY CeilIs
<1>2. (r - 1) * k < n
  BY <1>1, CeilIs
<1>3. 0 * k <= (r - 1) * k /\ (r - 1) * k \in Int
  BY <1>1, Times
<1>4. (r - 1) * k \in Nat /\ r * k = (r - 1) * k + k
  BY <1>1, <1>3
<1>5. r < Ceil(n, k) => r * k < n
  <2>1. r + 1 \in Nat \ {0} /\ (r + 1) - 1 = r
    BY <1>1
  <2>2. r < Ceil(n, k) => r + 1 <= Ceil(n, k)
    BY <1>1
  <2> QED BY <2>1, <2>2, CeilIs
<1>6. r = Ceil(n, k) => ~(r * k < n)
  <2>1. n <= Ceil(n, k) * k
    BY CeilIs
  <2> QED BY <2>1, <1>4
<1> QED BY <1>2, <1>4, <1>5, <1>6 DEF Share

LEMMA PieceIs ==
  ASSUME NEW s, NEW k, NEW i
  PROVE  Piece(s, k, i) = [j \in 1 .. Share(Len(s), k, i) |-> s[(i - 1) * k + j]]
  BY DEF Piece, Share

LEMMA ASequence ==
  ASSUME NEW T, NEW n \in Nat, NEW f \in [1 .. n -> T]
  PROVE  f \in Seq(T) /\ Len(f) = n /\ DOMAIN f = 1 .. n
  OBVIOUS

LEMMA PieceHolds ==
  ASSUME NEW T, NEW s \in Seq(T), NEW k \in Nat \ {0}, NEW r \in 1 .. Ceil(Len(s), k)
  PROVE  /\ Piece(s, k, r) \in Seq(T)
         /\ Len(Piece(s, k, r)) = Share(Len(s), k, r)
         /\ DOMAIN Piece(s, k, r) = 1 .. Share(Len(s), k, r)
         /\ \A i \in 1 .. Share(Len(s), k, r) :
              /\ (r - 1) * k + i \in 1 .. Len(s)
              /\ Piece(s, k, r)[i] = s[(r - 1) * k + i]
<1> DEFINE n == Len(s)
<1>1. n \in Nat /\ Ceil(n, k) \in Nat
  BY CeilIs, LenProperties
<1>2. /\ Share(n, k, r) \in 1 .. k /\ (r - 1) * k \in Nat
      /\ (r - 1) * k + Share(n, k, r) <= n
  BY <1>1, ShareIs
<1>3. \A i \in 1 .. Share(n, k, r) : (r - 1) * k + i \in 1 .. n
  BY <1>2, <1>1
<1>4. Piece(s, k, r) = [j \in 1 .. Share(n, k, r) |-> s[(r - 1) * k + j]]
  BY PieceIs
<1> HIDE DEF n
<1>5. \A j \in 1 .. n : s[j] \in T
  BY DEF n
<1>6. Piece(s, k, r) \in [1 .. Share(n, k, r) -> T]
  BY <1>3, <1>4, <1>5
<1>7. Share(n, k, r) \in Nat
  BY <1>2
<1> QED BY <1>3, <1>4, <1>6, <1>7, ASequence DEF n

(* What a cut of s into pieces of k is, the values being in T.                  *)
CutInto(pieces, s, k, T) ==
  /\ pieces \in Seq(Seq(T))
  /\ Len(pieces) = Ceil(Len(s), k)
  /\ DOMAIN pieces = 1 .. Ceil(Len(s), k)
  /\ \A r \in 1 .. Ceil(Len(s), k) :
       /\ pieces[r] \in Seq(T)
       /\ Len(pieces[r]) = Share(Len(s), k, r)
       /\ DOMAIN pieces[r] = 1 .. Share(Len(s), k, r)
       /\ \A i \in 1 .. Share(Len(s), k, r) :
            /\ (r - 1) * k + i \in 1 .. Len(s)
            /\ pieces[r][i] = s[(r - 1) * k + i]

LEMMA PiecesAre ==
  ASSUME NEW T, NEW s \in Seq(T), NEW k \in Nat \ {0}
  PROVE  CutInto(Pieces(s, k), s, k, T)
<1> DEFINE n == Len(s)
<1>1. n \in Nat /\ Ceil(n, k) \in Nat
  BY CeilIs, LenProperties
<1>2. ASSUME NEW r \in 1 .. Ceil(n, k)
      PROVE  /\ Piece(s, k, r) \in Seq(T)
             /\ Len(Piece(s, k, r)) = Share(n, k, r)
             /\ DOMAIN Piece(s, k, r) = 1 .. Share(n, k, r)
             /\ \A i \in 1 .. Share(n, k, r) :
                  (r - 1) * k + i \in 1 .. n /\ Piece(s, k, r)[i] = s[(r - 1) * k + i]
  BY PieceHolds
<1>3. Pieces(s, k) = [r \in 1 .. Ceil(n, k) |-> Piece(s, k, r)]
  BY DEF Pieces
<1> HIDE DEF n
<1>4. Pieces(s, k) \in [1 .. Ceil(n, k) -> Seq(T)]
  BY <1>2, <1>3
<1>5. /\ Pieces(s, k) \in Seq(Seq(T)) /\ Len(Pieces(s, k)) = Ceil(n, k)
      /\ DOMAIN Pieces(s, k) = 1 .. Ceil(n, k)
  BY <1>1, <1>4, ASequence
<1>6. \A r \in 1 .. Ceil(n, k) :
        /\ Pieces(s, k)[r] \in Seq(T)
        /\ Len(Pieces(s, k)[r]) = Share(n, k, r)
        /\ DOMAIN Pieces(s, k)[r] = 1 .. Share(n, k, r)
        /\ \A i \in 1 .. Share(n, k, r) :
             (r - 1) * k + i \in 1 .. n /\ Pieces(s, k)[r][i] = s[(r - 1) * k + i]
  BY <1>2, <1>3
<1> QED BY <1>5, <1>6 DEF n, CutInto

LEMMA APieceIs ==
  ASSUME NEW T, NEW s \in Seq(T), NEW k \in Nat \ {0}, NEW r \in 1 .. Ceil(Len(s), k)
  PROVE  /\ Pieces(s, k)[r] \in Seq(T)
         /\ Len(Pieces(s, k)[r]) = Share(Len(s), k, r)
         /\ \A i \in 1 .. Share(Len(s), k, r) :
              /\ (r - 1) * k + i \in 1 .. Len(s)
              /\ Pieces(s, k)[r][i] = s[(r - 1) * k + i]
<1>1. Pieces(s, k)[r] = Piece(s, k, r)
  BY DEF Pieces
<1>2. /\ Piece(s, k, r) \in Seq(T)
      /\ Len(Piece(s, k, r)) = Share(Len(s), k, r)
      /\ \A i \in 1 .. Share(Len(s), k, r) :
           /\ (r - 1) * k + i \in 1 .. Len(s)
           /\ Piece(s, k, r)[i] = s[(r - 1) * k + i]
  BY PieceHolds
<1> QED BY <1>1, <1>2

(* Every place of a sequence is one place of one piece.                        *)
LEMMA WhichPiece ==
  ASSUME NEW n \in Nat, NEW k \in Nat \ {0}, NEW j \in 1 .. n
  PROVE  /\ ((j - 1) \div k) + 1 \in 1 .. Ceil(n, k)
         /\ ((j - 1) % k) + 1 \in 1 .. Share(n, k, ((j - 1) \div k) + 1)
         /\ ((j - 1) \div k) * k + ((j - 1) % k) + 1 = j
         /\ (j - 1) \div k \in Nat /\ (j - 1) % k \in 0 .. k - 1
<1> DEFINE q == (j - 1) \div k
           m == (j - 1) % k
<1>1. j - 1 \in Nat
  OBVIOUS
<1>2. q \in Nat /\ m \in 0 .. k - 1 /\ q * k + m = j - 1
  BY <1>1, Quotient
<1> HIDE DEF q, m
<1>3. q * k \in Int
  BY <1>2
<1>4. q * k < n
  BY <1>2, <1>3
<1>5. q + 1 \in Nat \ {0} /\ (q + 1) - 1 = q
  BY <1>2
<1>6. q + 1 \in 1 .. Ceil(n, k)
  <2>1. ((q + 1) - 1) * k < n
    BY <1>4, <1>5
  <2>2. q + 1 <= Ceil(n, k)
    BY <2>1, <1>5, CeilIs
  <2> QED BY <2>2, <1>5, CeilIs
<1>7. m + 1 \in 1 .. Share(n, k, q + 1)
  <2>1. m + 1 \in 1 .. k /\ m + 1 <= n - q * k
    BY <1>2, <1>3
  <2> QED BY <2>1, <1>5, <1>2, <1>3 DEF Share
<1>8. q * k + m + 1 = j
  BY <1>2, <1>3
<1> QED BY <1>2, <1>6, <1>7, <1>8 DEF q, m

LEMMA OnePiece ==
  ASSUME NEW k \in Nat \ {0}, NEW r \in Nat, NEW q \in Nat, NEW i \in 1 .. k, NEW j \in 1 .. k,
         (r - 1) * k + i = (q - 1) * k + j
  PROVE  r = q /\ i = j
<1>1. ASSUME NEW a \in Nat, NEW b \in Nat, NEW x \in 1 .. k, NEW y \in 1 .. k, a < b
      PROVE  (a - 1) * k + x # (b - 1) * k + y
  <2>1. a * k <= (b - 1) * k /\ a * k = (a - 1) * k + k
    BY <1>1, Times
  <2>2. (a - 1) * k \in Int /\ (b - 1) * k \in Int
    OBVIOUS
  <2> QED BY <2>1, <2>2
<1>2. r = q
  BY <1>1
<1> QED BY <1>2

LEMMA SamePieces ==
  ASSUME NEW T, NEW s \in Seq(T), NEW k \in Nat \ {0}
  PROVE  Same(Contents(Pieces(s, k)), s)
<1> DEFINE F == Pieces(s, k)
           n == Len(s)
           b == [p \in Places(F) |-> (p[1] - 1) * k + p[2]]
<1>1. n \in Nat /\ DOMAIN s = 1 .. n
  BY LenProperties
<1>p. CutInto(F, s, k, T)
  BY PiecesAre
<1>2. DOMAIN F = 1 .. Ceil(n, k) /\ \A r \in 1 .. Ceil(n, k) : DOMAIN F[r] = 1 .. Share(n, k, r)
  BY <1>p DEF CutInto
<1>3. \A r \in 1 .. Ceil(n, k) : \A i \in 1 .. Share(n, k, r) :
        (r - 1) * k + i \in 1 .. n /\ F[r][i] = s[(r - 1) * k + i]
  BY <1>p DEF CutInto
<1>c. Ceil(n, k) \in Nat
  BY <1>1, CeilIs
<1> HIDE DEF F, n
<1>4. ASSUME NEW p \in Places(F)
      PROVE  /\ p = <<p[1], p[2]>> /\ p[1] \in 1 .. Ceil(n, k) /\ p[2] \in 1 .. Share(n, k, p[1])
             /\ p[1] \in Nat /\ p[2] \in 1 .. k
             /\ b[p] = (p[1] - 1) * k + p[2] /\ b[p] \in 1 .. n /\ Contents(F)[p] = s[b[p]]
  <2>1. p = <<p[1], p[2]>> /\ p[1] \in 1 .. Ceil(n, k) /\ p[2] \in 1 .. Share(n, k, p[1])
    BY <1>2, IsAPlace
  <2>2. Share(n, k, p[1]) \in 1 .. k
    BY <2>1, <1>1, ShareIs
  <2>3. p[1] \in Nat /\ p[2] \in 1 .. k
    BY <2>1, <2>2, <1>c
  <2>4. Contents(F)[p] = F[p[1]][p[2]]
    BY AtPlace
  <2> QED BY <2>1, <2>3, <2>4, <1>3
<1> DEFINE spot(r, i) == (r - 1) * k + i
<1>o. \A r, q \in Nat : \A i, j \in 1 .. k : spot(r, i) = spot(q, j) => r = q /\ i = j
  BY OnePiece
<1>5. ASSUME NEW p \in Places(F), NEW q \in Places(F), b[p] = b[q] PROVE p = q
  <2>1. spot(p[1], p[2]) = spot(q[1], q[2])
    BY <1>4, <1>5
  <2> HIDE DEF b, spot
  <2>2. p[1] \in Nat /\ q[1] \in Nat /\ p[2] \in 1 .. k /\ q[2] \in 1 .. k
    BY <1>4
  <2>3. p[1] = q[1] /\ p[2] = q[2]
    BY <2>1, <2>2, <1>o
  <2>4. p = <<p[1], p[2]>> /\ q = <<q[1], q[2]>>
    BY <1>4
  <2> QED BY <2>3, <2>4
<1>6. ASSUME NEW j \in 1 .. n PROVE \E p \in Places(F) : b[p] = j
  <2> DEFINE r == ((j - 1) \div k) + 1
             i == ((j - 1) % k) + 1
  <2>1. r \in 1 .. Ceil(n, k) /\ i \in 1 .. Share(n, k, r)
    BY <1>1, WhichPiece
  <2>2. ((j - 1) \div k) * k + ((j - 1) % k) + 1 = j
    BY <1>1, WhichPiece
  <2>3. (j - 1) \div k \in Nat /\ (j - 1) % k \in 0 .. k - 1
    BY <1>1, WhichPiece
  <2>4. (r - 1) * k + i = j
    BY <2>2, <2>3
  <2> HIDE DEF r, i
  <2>5. <<r, i>> \in Places(F)
    BY <2>1, <1>2, APlace
  <2>6. b[<<r, i>>] = (r - 1) * k + i
    BY <2>5
  <2> QED BY <2>4, <2>5, <2>6
<1>7. b \in [Places(F) -> 1 .. n]
  BY <1>4
<1> HIDE DEF b
<1>8. Matches(b, Contents(F), s)
  BY <1>1, <1>4, <1>5, <1>6, <1>7, AtPlace DEF Matches
<1> QED BY <1>8 DEF Same, F

-----------------------------------------------------------------------------
(* The orders, and one sorted run                                              *)

Sorted(key, s) == \A i, j \in DOMAIN s : i < j => ~Before(key, s[j], s[i])

LEMMA BeforeIs ==
  ASSUME NEW key, NEW a \in Asset, NEW b \in Asset, NEW c \in Asset
  PROVE  /\ ~Before(key, a, a)
         /\ Before(key, a, b) => ~Before(key, b, a)
         /\ Before(key, a, b) /\ Before(key, b, c) => Before(key, a, c)
         /\ ~Before(key, b, a) /\ ~Before(key, c, b) => ~Before(key, c, a)
<1>1. /\ a.id \in Int /\ b.id \in Int /\ c.id \in Int
      /\ a.date \in Int /\ b.date \in Int /\ c.date \in Int
  BY DEF Asset
<1>2. CASE key = "ids"
  BY <1>1, <1>2 DEF Before
<1>3. CASE key # "ids"
  BY <1>1, <1>3 DEF Before, NewestFirst
<1> QED BY <1>2, <1>3

LEMMA NotBeforeThrough ==
  ASSUME NEW key, NEW a \in Asset, NEW b \in Asset, NEW c \in Asset,
         ~Before(key, b, a), ~Before(key, c, b)
  PROVE  ~Before(key, c, a)
  BY BeforeIs

LEMMA AheadIs ==
  ASSUME NEW key, NEW a \in Asset, NEW b \in Asset, NEW c \in Asset,
         NEW i \in Int, NEW j \in Int, NEW k \in Int
  PROVE  /\ ~Ahead(key, a, i, a, i)
         /\ Ahead(key, a, i, b, j) => ~Before(key, b, a)
         /\ Ahead(key, a, i, b, j) /\ Ahead(key, b, j, c, k) => Ahead(key, a, i, c, k)
         /\ i # j => Ahead(key, a, i, b, j) \/ Ahead(key, b, j, a, i)
<1>1. /\ ~Before(key, a, a)
      /\ Before(key, a, b) => ~Before(key, b, a)
      /\ Before(key, a, b) /\ Before(key, b, c) => Before(key, a, c)
      /\ ~Before(key, b, a) /\ ~Before(key, c, b) => ~Before(key, c, a)
      /\ ~Before(key, c, b) /\ ~Before(key, a, c) => ~Before(key, a, b)
      /\ ~Before(key, a, c) /\ ~Before(key, b, a) => ~Before(key, b, c)
  BY BeforeIs
<1>2. Ahead(key, a, i, b, j) /\ Ahead(key, b, j, c, k) => Ahead(key, a, i, c, k)
  BY <1>1 DEF Ahead
<1> QED BY <1>1, <1>2 DEF Ahead

AheadOrder(key, val, S) == {p \in S \X S : Ahead(key, val[p[1]], p[1], val[p[2]], p[2])}

LEMMA AheadOrders ==
  ASSUME NEW S \in SUBSET Int, NEW val, \A i \in S : val[i] \in Asset, NEW key
  PROVE  /\ IsOrder(AheadOrder(key, val, S), S)
         /\ \A i, j \in S :
              <<i, j>> \in AheadOrder(key, val, S) <=> Ahead(key, val[i], i, val[j], j)
<1>1. \A i, j \in S : <<i, j>> \in AheadOrder(key, val, S) <=> Ahead(key, val[i], i, val[j], j)
  BY DEF AheadOrder
<1>2. \A i \in S : ~Ahead(key, val[i], i, val[i], i)
  BY AheadIs
<1>3. \A i, j, k \in S : Ahead(key, val[i], i, val[j], j) /\ Ahead(key, val[j], j, val[k], k)
                           => Ahead(key, val[i], i, val[k], k)
  BY AheadIs
<1>4. \A i, j \in S : i # j => Ahead(key, val[i], i, val[j], j) \/ Ahead(key, val[j], j, val[i], i)
  BY AheadIs
<1> QED BY <1>1, <1>2, <1>3, <1>4 DEF IsOrder

LEMMA SortRunIs ==
  ASSUME NEW run \in Seq(Asset), NEW key
  PROVE  /\ SortRun(run, key) \in Seq(Asset)
         /\ Len(SortRun(run, key)) = Len(run)
         /\ Sorted(key, SortRun(run, key))
         /\ Same(SortRun(run, key), run)
<1> DEFINE n == Len(run)
           S == 1 .. n
           R == AheadOrder(key, run, S)
           rank(x) == Cardinality(Below(R, S, x))
           ord == [m \in S |-> CHOOSE i \in S :
                               Cardinality({j \in S : Ahead(key, run[j], j, run[i], i)}) = m - 1]
<1>1. n \in Nat /\ DOMAIN run = S /\ \A i \in S : run[i] \in Asset
  BY LenProperties
<1>2. IsFiniteSet(S) /\ Cardinality(S) = n
  <2> HIDE DEF R, ord
  <2>1. n \in Int /\ 1 \in Int
    BY <1>1
  <2> HIDE DEF n
  <2>2. IsFiniteSet(1 .. n) /\ Cardinality(1 .. n) = IF 1 > n THEN 0 ELSE n - 1 + 1
    BY <2>1, FS_Interval
  <2> QED BY <2>2, <1>1
<1>3. SortRun(run, key) = [m \in S |-> run[ord[m]]]
  BY <1>1 DEF SortRun, Nth
<1>4. IsOrder(R, S) /\ \A i, j \in S : <<i, j>> \in R <=> Ahead(key, run[i], i, run[j], j)
  <2>1. S \in SUBSET Int
    OBVIOUS
  <2> HIDE DEF S
  <2> QED BY <2>1, <1>1, AheadOrders
<1>5. \A m \in 1 .. Cardinality(S) : \E x \in S : rank(x) = m - 1
  <2> HIDE DEF S, R
  <2> QED BY <1>2, <1>4, Ranks
<1>6. \A i \in S : {j \in S : Ahead(key, run[j], j, run[i], i)} = Below(R, S, i)
  <2> HIDE DEF S, R
  <2> QED BY <1>4 DEF Below
<1>7. ASSUME NEW m \in S PROVE ord[m] \in S /\ rank(ord[m]) = m - 1
  <2>1. \E i \in S : Cardinality({j \in S : Ahead(key, run[j], j, run[i], i)}) = m - 1
    <3>1. m \in 1 .. Cardinality(S)
      BY <1>1, <1>2
    <3>2. PICK i \in S : rank(i) = m - 1
      BY <3>1, <1>5
    <3>3. {j \in S : Ahead(key, run[j], j, run[i], i)} = Below(R, S, i)
      BY <1>6
    <3> HIDE DEF S, R
    <3> QED BY <3>2, <3>3
  <2>2. ord[m] = CHOOSE i \in S : Cardinality({j \in S : Ahead(key, run[j], j, run[i], i)}) = m - 1
    OBVIOUS
  <2> HIDE DEF ord, S, R
  <2>3. ord[m] \in S /\ Cardinality({j \in S : Ahead(key, run[j], j, run[ord[m]], ord[m])}) = m - 1
    BY <2>1, <2>2
  <2> QED BY <2>3, <1>6
<1> HIDE DEF ord
<1>8. ByRank(ord, R, S)
  BY <1>7, <1>2 DEF ByRank
<1>9. /\ \A i, j \in S : i < j => <<ord[i], ord[j]>> \in R
      /\ \A i, j \in S : i # j => ord[i] # ord[j]
      /\ \A x \in S : \E m \in S : ord[m] = x
  <2>1. 1 .. Cardinality(S) = S
    BY <1>2
  <2> HIDE DEF S, R
  <2>2. /\ \A i, j \in 1 .. Cardinality(S) : i < j => <<ord[i], ord[j]>> \in R
        /\ \A i, j \in 1 .. Cardinality(S) : i # j => ord[i] # ord[j]
        /\ \A x \in S : \E m \in 1 .. Cardinality(S) : ord[m] = x
    BY <1>2, <1>4, <1>8, Listed
  <2> QED BY <2>1, <2>2
<1>10. SortRun(run, key) \in [1 .. n -> Asset]
  BY <1>1, <1>3, <1>7
<1>11. /\ SortRun(run, key) \in Seq(Asset) /\ Len(SortRun(run, key)) = n
       /\ DOMAIN SortRun(run, key) = S
  BY <1>1, <1>10, ASequence
<1>12. Sorted(key, SortRun(run, key))
  <2> SUFFICES ASSUME NEW i \in S, NEW j \in S, i < j
               PROVE  ~Before(key, SortRun(run, key)[j], SortRun(run, key)[i])
    BY <1>11 DEF Sorted
  <2>1. SortRun(run, key)[j] = run[ord[j]] /\ SortRun(run, key)[i] = run[ord[i]]
    BY <1>3
  <2>2. ord[i] \in S /\ ord[j] \in S /\ ord[i] \in Int /\ ord[j] \in Int
    BY <1>7
  <2> HIDE DEF S, R
  <2>3. Ahead(key, run[ord[i]], ord[i], run[ord[j]], ord[j])
    BY <2>2, <1>4, <1>9
  <2>4. run[ord[i]] \in Asset /\ run[ord[j]] \in Asset
    BY <2>2, <1>1
  <2>5. ~Before(key, run[ord[j]], run[ord[i]])
    BY <2>2, <2>3, <2>4, AheadIs
  <2> QED BY <2>1, <2>5
<1>13. Matches([m \in S |-> ord[m]], SortRun(run, key), run)
  BY <1>1, <1>3, <1>7, <1>9, <1>11 DEF Matches
<1> QED BY <1>11, <1>12, <1>13 DEF Same

(* The run a merge reads from has the least head.                              *)
LEMMA SmallestIs ==
  ASSUME NEW m \in Nat, NEW runs \in [1 .. m -> Seq(Asset)], NEW key, NEW taken \in [1 .. m -> Nat],
         Unread(runs, taken) # {}
  PROVE  LET r == Smallest(runs, key, taken)
         IN  /\ r \in 1 .. m /\ taken[r] < Len(runs[r])
             /\ \A q \in 1 .. m : taken[q] < Len(runs[q]) =>
                  ~Before(key, runs[q][taken[q] + 1], runs[r][taken[r] + 1])
<1> DEFINE S == Unread(runs, taken)
           val == [r \in 1 .. m |-> runs[r][taken[r] + 1]]
           R == AheadOrder(key, val, S)
<1>1. S \in SUBSET (1 .. m) /\ S \in SUBSET Int /\ S # {}
  BY DEF Unread
<1>2. \A r \in 1 .. m : r \in S <=> taken[r] < Len(runs[r])
  BY DEF Unread
<1> HIDE DEF S
<1>3. \A r \in S : val[r] \in Asset /\ val[r] = runs[r][taken[r] + 1]
  <2> SUFFICES ASSUME NEW r \in S PROVE runs[r][taken[r] + 1] \in Asset /\ r \in 1 .. m
    OBVIOUS
  <2>1. r \in 1 .. m /\ runs[r] \in Seq(Asset) /\ taken[r] \in Nat /\ taken[r] < Len(runs[r])
    BY <1>1, <1>2
  <2>2. Len(runs[r]) \in Nat
    BY <2>1, LenProperties
  <2>3. taken[r] + 1 \in 1 .. Len(runs[r])
    BY <2>1, <2>2
  <2> QED BY <2>1, <2>3, ElementOfSeq
<1> HIDE DEF val
<1>4. IsFiniteSet(S) /\ Cardinality(S) \in Nat /\ Cardinality(S) # 0
  <2>1. IsFiniteSet(1 .. m)
    BY FS_Interval
  <2>2. IsFiniteSet(S)
    BY <2>1, <1>1, FS_Subset
  <2> QED BY <2>2, <1>1, FS_CardinalityType, FS_EmptySet
<1>5. IsOrder(R, S) /\ \A i, j \in S : <<i, j>> \in R <=> Ahead(key, val[i], i, val[j], j)
  BY <1>1, <1>3, AheadOrders
<1> HIDE DEF R
<1>6. \E x \in S : Cardinality(Below(R, S, x)) = 1 - 1
  <2>1. 1 \in 1 .. Cardinality(S)
    BY <1>4
  <2> QED BY <2>1, <1>4, <1>5, Ranks
<1>7. PICK x \in S : Cardinality(Below(R, S, x)) = 0
  BY <1>6
<1>8. Below(R, S, x) = {}
  <2>1. Below(R, S, x) \in SUBSET S
    BY DEF Below
  <2>2. IsFiniteSet(Below(R, S, x))
    BY <2>1, <1>4, FS_Subset
  <2> QED BY <2>2, <1>7, FS_EmptySet
<1>9. \A q \in S \ {x} : Ahead(key, val[x], x, val[q], q)
  BY <1>5, <1>8 DEF Below, IsOrder
<1>10. \E r \in S : \A q \in S \ {r} :
         Ahead(key, runs[r][taken[r] + 1], r, runs[q][taken[q] + 1], q)
  BY <1>3, <1>9
<1> DEFINE r == Smallest(runs, key, taken)
<1>11. r = CHOOSE r_1 \in S : \A q \in S \ {r_1} :
         Ahead(key, runs[r_1][taken[r_1] + 1], r_1, runs[q][taken[q] + 1], q)
  BY DEF Smallest, S
<1> HIDE DEF r
<1>12. r \in S /\ \A q \in S \ {r} :
         Ahead(key, runs[r][taken[r] + 1], r, runs[q][taken[q] + 1], q)
  BY <1>10, <1>11
<1>13. ASSUME NEW q \in S
       PROVE  ~Before(key, runs[q][taken[q] + 1], runs[r][taken[r] + 1])
  <2>1. runs[q][taken[q] + 1] \in Asset /\ runs[r][taken[r] + 1] \in Asset /\ q \in Int /\ r \in Int
    BY <1>1, <1>3, <1>12
  <2>2. CASE q = r
    BY <2>1, <2>2, BeforeIs
  <2>3. CASE q # r
    <3>1. Ahead(key, runs[r][taken[r] + 1], r, runs[q][taken[q] + 1], q)
      BY <2>3, <1>12
    <3> QED BY <2>1, <3>1, AheadIs
  <2> QED BY <2>2, <2>3
<1> QED BY <1>1, <1>2, <1>12, <1>13 DEF r

-----------------------------------------------------------------------------
(* The merge                                                                   *)

Got(runs, taken) == {p \in Places(runs) : p[2] <= taken[p[1]]}

\* n records are taken, and none of the others is before any of them.
GoodTaken(runs, key, taken, n) ==
  /\ taken \in [DOMAIN runs -> Nat]
  /\ \A r \in DOMAIN runs : taken[r] <= Len(runs[r])
  /\ Cardinality(Got(runs, taken)) = n
  /\ \A p \in Got(runs, taken), q \in Places(runs) \ Got(runs, taken) :
       ~Before(key, runs[q[1]][q[2]], runs[p[1]][p[2]])

SortedRuns(runs, m, key) ==
  /\ runs \in [1 .. m -> Seq(Asset)]
  /\ \A r \in 1 .. m : Sorted(key, runs[r])

LEMMA RunsAre ==
  ASSUME NEW m \in Nat, NEW key, NEW runs, SortedRuns(runs, m, key)
  PROVE  /\ DOMAIN runs = 1 .. m
         /\ \A r \in 1 .. m : /\ runs[r] \in Seq(Asset) /\ Len(runs[r]) \in Nat
                              /\ DOMAIN runs[r] = 1 .. Len(runs[r])
                              /\ \A i \in 1 .. Len(runs[r]) : runs[r][i] \in Asset
         /\ \A p \in Places(runs) : /\ p = <<p[1], p[2]>> /\ p[1] \in 1 .. m
                                    /\ p[2] \in 1 .. Len(runs[p[1]])
                                    /\ runs[p[1]][p[2]] \in Asset
         /\ \A r \in 1 .. m : \A i \in 1 .. Len(runs[r]) : <<r, i>> \in Places(runs)
<1>1. DOMAIN runs = 1 .. m /\ \A r \in 1 .. m : runs[r] \in Seq(Asset)
  BY DEF SortedRuns
<1>2. \A r \in 1 .. m : /\ Len(runs[r]) \in Nat /\ DOMAIN runs[r] = 1 .. Len(runs[r])
                        /\ \A i \in 1 .. Len(runs[r]) : runs[r][i] \in Asset
  BY <1>1, LenProperties
<1>3. ASSUME NEW p \in Places(runs)
      PROVE  p = <<p[1], p[2]>> /\ p[1] \in 1 .. m /\ p[2] \in 1 .. Len(runs[p[1]])
  <2>1. p = <<p[1], p[2]>> /\ p[1] \in DOMAIN runs /\ p[2] \in DOMAIN runs[p[1]]
    BY IsAPlace
  <2> QED BY <2>1, <1>1, <1>2
<1>4. ASSUME NEW r \in 1 .. m, NEW i \in 1 .. Len(runs[r]) PROVE <<r, i>> \in Places(runs)
  <2>1. r \in DOMAIN runs /\ i \in DOMAIN runs[r]
    BY <1>1, <1>2
  <2> QED BY <2>1, APlace
<1> QED BY <1>1, <1>2, <1>3, <1>4

LEMMA FinitePlaces ==
  ASSUME NEW m \in Nat, NEW key, NEW runs, SortedRuns(runs, m, key)
  PROVE  IsFiniteSet(Places(runs)) /\ Cardinality(Places(runs)) \in Nat
<1> DEFINE rows == {{r} \X DOMAIN runs[r] : r \in 1 .. m}
           row == [r \in 1 .. m |-> {r} \X DOMAIN runs[r]]
<1>1. IsFiniteSet(1 .. m)
  BY FS_Interval
<1>2. row \in Surjection(1 .. m, rows)
  BY DEF Surjection
<1>3. IsFiniteSet(rows)
  <2> HIDE DEF row, rows
  <2> QED BY <1>1, <1>2, FS_Surjection
<1>4. ASSUME NEW r \in 1 .. m PROVE IsFiniteSet({r} \X DOMAIN runs[r])
  <2>1. DOMAIN runs[r] = 1 .. Len(runs[r]) /\ Len(runs[r]) \in Nat
    BY RunsAre
  <2>2. IsFiniteSet(1 .. Len(runs[r]))
    BY <2>1, FS_Interval
  <2>3. IsFiniteSet({r})
    BY FS_Singleton
  <2> QED BY <2>1, <2>2, <2>3, FS_Product
<1>5. \A row_1 \in rows : IsFiniteSet(row_1)
  BY <1>4
<1>6. IsFiniteSet(UNION rows)
  <2> HIDE DEF rows
  <2> QED BY <1>3, <1>5, FS_UNION
<1>7. Places(runs) = UNION rows
  BY RunsAre DEF Places
<1> QED BY <1>6, <1>7, FS_CardinalityType

(* One record more.                                                            *)
LEMMA TakesOne ==
  ASSUME NEW m \in Nat, NEW key, NEW runs, SortedRuns(runs, m, key),
         NEW taken, NEW n \in Nat, GoodTaken(runs, key, taken, n),
         n < Cardinality(Places(runs))
  PROVE  LET more == TakeOne(runs, key, taken)
             r == Smallest(runs, key, taken)
             place == <<r, more[r]>>
         IN  /\ GoodTaken(runs, key, more, n + 1)
             /\ place \in Places(runs) \ Got(runs, taken)
             /\ Got(runs, more) = Got(runs, taken) \cup {place}
<1> DEFINE P == Places(runs)
           more == TakeOne(runs, key, taken)
           r == Smallest(runs, key, taken)
           place == <<r, more[r]>>
<1>1. /\ taken \in [1 .. m -> Nat]
      /\ \A s \in 1 .. m : taken[s] <= Len(runs[s])
      /\ Cardinality(Got(runs, taken)) = n
      /\ \A p \in Got(runs, taken), q \in P \ Got(runs, taken) :
           ~Before(key, runs[q[1]][q[2]], runs[p[1]][p[2]])
  BY RunsAre DEF GoodTaken
<1>2. \A p \in P : /\ p = <<p[1], p[2]>> /\ p[1] \in 1 .. m /\ p[2] \in 1 .. Len(runs[p[1]])
                   /\ runs[p[1]][p[2]] \in Asset /\ Len(runs[p[1]]) \in Nat
  BY RunsAre
<1>3. IsFiniteSet(P) /\ IsFiniteSet(Got(runs, taken)) /\ Got(runs, taken) # P
  <2>1. Got(runs, taken) \in SUBSET P
    BY DEF Got
  <2>2. IsFiniteSet(P) /\ Cardinality(P) \in Nat
    BY FinitePlaces
  <2> QED BY <2>1, <2>2, <1>1, FS_Subset
<1>4. Unread(runs, taken) # {}
  <2>1. PICK p \in P : ~(p[2] <= taken[p[1]])
    BY <1>3 DEF Got
  <2>2. p[1] \in 1 .. m /\ p[2] \in 1 .. Len(runs[p[1]]) /\ Len(runs[p[1]]) \in Nat
        /\ taken[p[1]] \in Nat
    BY <1>1, <1>2
  <2>3. taken[p[1]] < Len(runs[p[1]])
    BY <2>1, <2>2
  <2>4. p[1] \in DOMAIN runs
    BY <2>2, RunsAre
  <2> QED BY <2>3, <2>4 DEF Unread
<1>5. /\ r \in 1 .. m /\ taken[r] < Len(runs[r])
      /\ \A q \in 1 .. m : taken[q] < Len(runs[q]) =>
           ~Before(key, runs[q][taken[q] + 1], runs[r][taken[r] + 1])
  <2>1. runs \in [1 .. m -> Seq(Asset)]
    BY DEF SortedRuns
  <2> QED BY <2>1, <1>1, <1>4, SmallestIs
<1>6. more = [taken EXCEPT ![r] = @ + 1]
  BY DEF TakeOne
<1>7. taken[r] \in Nat /\ Len(runs[r]) \in Nat /\ taken[r] + 1 \in 1 .. Len(runs[r])
  <2>1. taken[r] \in Nat /\ Len(runs[r]) \in Nat
    BY <1>1, <1>5, RunsAre
  <2> QED BY <2>1, <1>5
<1> HIDE DEF more, r
<1>8. /\ more \in [1 .. m -> Nat] /\ more[r] = taken[r] + 1
      /\ \A s \in 1 .. m : s # r => more[s] = taken[s]
  BY <1>1, <1>5, <1>6, <1>7
<1>9. place \in P /\ place \notin Got(runs, taken) /\ place = <<r, taken[r] + 1>>
  <2>1. place = <<r, taken[r] + 1>>
    BY <1>8
  <2>2. place \in P
    BY <2>1, <1>5, <1>7, RunsAre
  <2>3. ~(taken[r] + 1 <= taken[r])
    BY <1>7
  <2> QED BY <2>1, <2>2, <2>3 DEF Got
<1>10. Got(runs, more) = Got(runs, taken) \cup {place}
  <2>1. ASSUME NEW p \in P
        PROVE  p[2] <= more[p[1]] <=> (p[2] <= taken[p[1]] \/ p = place)
    <3>1. p = <<p[1], p[2]>> /\ p[1] \in 1 .. m /\ p[2] \in Nat /\ taken[p[1]] \in Nat
      BY <1>1, <1>2
    <3>2. CASE p[1] # r
      <4>1. more[p[1]] = taken[p[1]] /\ p # place
        BY <3>1, <3>2, <1>8
      <4> QED BY <4>1
    <3>3. CASE p[1] = r
      <4>1. p = place <=> p[2] = taken[r] + 1
        BY <3>1, <3>3, <1>9
      <4> QED BY <4>1, <3>1, <3>3, <1>7, <1>8
    <3> QED BY <3>2, <3>3
  <2> HIDE DEF place, P
  <2>2. place \in P
    BY <1>9
  <2>3. /\ Got(runs, more) = {p \in P : p[2] <= more[p[1]]}
        /\ Got(runs, taken) = {p \in P : p[2] <= taken[p[1]]}
    BY DEF Got, P
  <2> QED BY <2>1, <2>2, <2>3
<1>11. Cardinality(Got(runs, more)) = n + 1
  <2> HIDE DEF place
  <2>1. Cardinality(Got(runs, taken) \cup {place}) = Cardinality(Got(runs, taken)) + 1
    BY <1>3, <1>9, FS_AddElement
  <2> QED BY <2>1, <1>1, <1>10
<1>12. ASSUME NEW s \in 1 .. m PROVE more[s] <= Len(runs[s])
  <2>1. CASE s = r
    <3>1. taken[r] + 1 <= Len(runs[r])
      BY <1>7
    <3> QED BY <2>1, <3>1, <1>8
  <2>2. CASE s # r
    <3>1. more[s] = taken[s] /\ taken[s] <= Len(runs[s])
      BY <2>2, <1>1, <1>8
    <3> QED BY <3>1
  <2> QED BY <2>1, <2>2
<1>13. ASSUME NEW q \in P, q \notin Got(runs, more)
       PROVE  ~Before(key, runs[q[1]][q[2]], runs[r][taken[r] + 1])
  <2>1. q[1] \in 1 .. m /\ q[2] \in 1 .. Len(runs[q[1]]) /\ Len(runs[q[1]]) \in Nat
        /\ taken[q[1]] \in Nat
    BY <1>1, <1>2
  <2>2. ~(q[2] <= taken[q[1]])
    BY <1>10, <1>13 DEF Got
  <2> DEFINE h == taken[q[1]] + 1
  <2>3. h \in 1 .. Len(runs[q[1]]) /\ h <= q[2] /\ taken[q[1]] < Len(runs[q[1]])
    BY <2>1, <2>2
  <2>4. /\ runs[q[1]][h] \in Asset /\ runs[q[1]][q[2]] \in Asset
        /\ runs[r][taken[r] + 1] \in Asset
    BY <2>1, <2>3, <1>5, <1>7, RunsAre
  <2>5. ~Before(key, runs[q[1]][h], runs[r][taken[r] + 1])
    BY <2>1, <2>3, <1>5
  <2>6. ~Before(key, runs[q[1]][q[2]], runs[q[1]][h])
    <3>1. CASE h = q[2]
      BY <3>1, <2>4, BeforeIs
    <3>2. CASE h # q[2]
      <4>1. h < q[2] /\ h \in DOMAIN runs[q[1]] /\ q[2] \in DOMAIN runs[q[1]]
        BY <3>2, <2>1, <2>3, RunsAre
      <4>2. Sorted(key, runs[q[1]])
        BY <2>1 DEF SortedRuns
      <4> QED BY <4>1, <4>2 DEF Sorted
    <3> QED BY <3>1, <3>2
  <2> HIDE DEF h
  <2> QED BY <2>4, <2>5, <2>6, NotBeforeThrough
<1>14. ASSUME NEW p \in Got(runs, more), NEW q \in P \ Got(runs, more)
       PROVE  ~Before(key, runs[q[1]][q[2]], runs[p[1]][p[2]])
  <2>1. CASE p = place
    <3>1. p[1] = r /\ p[2] = taken[r] + 1
      BY <2>1, <1>9
    <3> QED BY <3>1, <1>13
  <2>2. CASE p # place
    <3>1. p \in Got(runs, taken) /\ q \in P \ Got(runs, taken)
      BY <2>2, <1>10
    <3> QED BY <3>1, <1>1
  <2> QED BY <2>1, <2>2
<1>15. DOMAIN runs = 1 .. m
  BY RunsAre
<1>16. GoodTaken(runs, key, more, n + 1)
  BY <1>8, <1>11, <1>12, <1>14, <1>15 DEF GoodTaken
<1> QED BY <1>9, <1>10, <1>16 DEF more, r

(* What is merged is sorted and holds the records of the runs.                 *)
LEMMA MergeRunsAre ==
  ASSUME NEW m \in Nat, NEW key, NEW runs, SortedRuns(runs, m, key)
  PROVE  /\ MergeRuns(runs, key) \in Seq(Asset)
         /\ Sorted(key, MergeRuns(runs, key))
         /\ Same(MergeRuns(runs, key), Contents(runs))
<1> DEFINE P == Places(runs)
           N == Cardinality(P)
           T(n) == Taken(runs, key)[n]
           from(n) == Smallest(runs, key, T(n - 1))
           place(n) == <<from(n), T(n)[from(n)]>>
<1>1. N \in Nat /\ IsFiniteSet(P)
  BY FinitePlaces
<1>2. T(0) = [r \in DOMAIN runs |-> 0] /\ \A n \in Nat : T(n + 1) = TakeOne(runs, key, T(n))
  BY TakenUnfolds
<1>3. GoodTaken(runs, key, T(0), 0)
  <2>1. \A r \in 1 .. m : Len(runs[r]) \in Nat
    BY RunsAre
  <2>2. \A p \in P : p[1] \in DOMAIN runs /\ p[2] \in Nat /\ ~(p[2] <= 0)
    BY RunsAre
  <2>3. Got(runs, T(0)) = {}
    <3> HIDE DEF T, P
    <3> QED BY <2>2, <1>2 DEF Got, P
  <2>4. Cardinality(Got(runs, T(0))) = 0
    BY <2>3, FS_EmptySet
  <2>5. T(0) \in [DOMAIN runs -> Nat] /\ \A r \in DOMAIN runs : T(0)[r] <= Len(runs[r])
    BY <1>2, <2>1, RunsAre
  <2> QED BY <2>3, <2>4, <2>5 DEF GoodTaken
<1> HIDE DEF T
<1>4. ASSUME NEW n \in Nat, GoodTaken(runs, key, T(n), n), n < N
      PROVE  /\ GoodTaken(runs, key, T(n + 1), n + 1)
             /\ place(n + 1) \in P \ Got(runs, T(n))
             /\ Got(runs, T(n + 1)) = Got(runs, T(n)) \cup {place(n + 1)}
  <2>1. (n + 1) - 1 = n /\ T(n + 1) = TakeOne(runs, key, T(n))
    BY <1>2
  <2>2. place(n + 1) = <<Smallest(runs, key, T(n)),
                         TakeOne(runs, key, T(n))[Smallest(runs, key, T(n))]>>
    BY <2>1
  <2> HIDE DEF place
  <2> QED BY <2>1, <2>2, <1>4, TakesOne
<1>5. \A n \in Nat : n <= N => GoodTaken(runs, key, T(n), n)
  <2> DEFINE S == {n \in Nat : n <= N => GoodTaken(runs, key, T(n), n)}
  <2>1. 0 \in S
    BY <1>3
  <2>2. ASSUME NEW n \in S PROVE n + 1 \in S
    <3>1. n \in Nat
      OBVIOUS
    <3>2. ASSUME n + 1 <= N PROVE GoodTaken(runs, key, T(n + 1), n + 1)
      <4>1. n <= N /\ n < N
        BY <3>1, <3>2, <1>1
      <4> QED BY <4>1, <3>1, <1>4
    <3> QED BY <3>1, <3>2
  <2>3. Nat \subseteq S
    <3> HIDE DEF S
    <3> QED BY <2>1, <2>2, Induction
  <2> QED BY <2>3
<1> HIDE DEF N, P
<1>6. ASSUME NEW n \in 1 .. N
      PROVE  /\ n - 1 \in Nat
             /\ GoodTaken(runs, key, T(n - 1), n - 1)
             /\ place(n) \in P \ Got(runs, T(n - 1))
             /\ Got(runs, T(n)) = Got(runs, T(n - 1)) \cup {place(n)}
  <2>1. n - 1 \in Nat /\ n - 1 < N /\ n - 1 <= N /\ (n - 1) + 1 = n
    BY <1>1
  <2>2. GoodTaken(runs, key, T(n - 1), n - 1)
    BY <2>1, <1>5
  <2>3. /\ place((n - 1) + 1) \in P \ Got(runs, T(n - 1))
        /\ Got(runs, T((n - 1) + 1)) = Got(runs, T(n - 1)) \cup {place((n - 1) + 1)}
    <3> HIDE DEF place
    <3> QED BY <2>1, <2>2, <1>4
  <2> QED BY <2>1, <2>2, <2>3
<1> HIDE DEF place
<1>7. \A n \in Nat : n <= N => Got(runs, T(n)) = {place(k) : k \in 1 .. n}
  <2> DEFINE S == {n \in Nat : n <= N => Got(runs, T(n)) = {place(k) : k \in 1 .. n}}
  <2>1. 0 \in S
    <3>1. Got(runs, T(0)) \in SUBSET P /\ Cardinality(Got(runs, T(0))) = 0
      BY <1>3 DEF Got, GoodTaken, P
    <3>2. IsFiniteSet(Got(runs, T(0)))
      BY <3>1, <1>1, FS_Subset
    <3>3. Got(runs, T(0)) = {}
      BY <3>1, <3>2, FS_EmptySet
    <3> QED BY <3>3
  <2>2. ASSUME NEW n \in S PROVE n + 1 \in S
    <3>1. n \in Nat
      OBVIOUS
    <3>2. ASSUME n + 1 <= N PROVE Got(runs, T(n + 1)) = {place(k) : k \in 1 .. n + 1}
      <4>1. n <= N /\ n + 1 \in 1 .. N /\ (n + 1) - 1 = n
        BY <3>1, <3>2, <1>1
      <4>2. Got(runs, T(n + 1)) = Got(runs, T(n)) \cup {place(n + 1)}
        BY <4>1, <1>6
      <4>3. Got(runs, T(n)) = {place(k) : k \in 1 .. n}
        BY <4>1
      <4>4. 1 .. n + 1 = (1 .. n) \cup {n + 1}
        BY <3>1
      <4> QED BY <4>2, <4>3, <4>4
    <3> QED BY <3>1, <3>2
  <2>3. Nat \subseteq S
    <3> HIDE DEF S
    <3> QED BY <2>1, <2>2, Induction
  <2> QED BY <2>3
<1>8. \A z \in P : \E k \in 1 .. N : place(k) = z
  <2>1. Got(runs, T(N)) \in SUBSET P /\ Cardinality(Got(runs, T(N))) = Cardinality(P)
    BY <1>1, <1>5 DEF Got, GoodTaken, P, N
  <2>2. Got(runs, T(N)) = P
    BY <2>1, <1>1, FS_Subset
  <2>3. P = {place(k) : k \in 1 .. N}
    BY <2>2, <1>1, <1>7
  <2> QED BY <2>3
<1>9. ASSUME NEW k \in 1 .. N, NEW n \in 1 .. N, k < n
      PROVE  /\ place(k) # place(n)
             /\ ~Before(key, runs[place(n)[1]][place(n)[2]], runs[place(k)[1]][place(k)[2]])
  <2>1. k \in 1 .. n - 1 /\ n - 1 \in Nat /\ n - 1 <= N
    BY <1>1, <1>9
  <2>2. place(k) \in Got(runs, T(n - 1))
    BY <2>1, <1>7
  <2>3. place(n) \in P \ Got(runs, T(n - 1)) /\ GoodTaken(runs, key, T(n - 1), n - 1)
    BY <1>6
  <2> QED BY <2>2, <2>3 DEF GoodTaken, P
<1> DEFINE out == MergeRuns(runs, key)
<1>10. ASSUME NEW n \in 1 .. N
       PROVE  /\ out[n] = runs[place(n)[1]][place(n)[2]] /\ out[n] \in Asset
              /\ place(n) \in P /\ out[n] = Contents(runs)[place(n)]
  <2>1. place(n) \in P
    BY <1>6
  <2>2. out[n] = runs[place(n)[1]][place(n)[2]]
    BY DEF MergeRuns, place, from, T, N, P
  <2>3. runs[place(n)[1]][place(n)[2]] \in Asset
    BY <2>1, RunsAre DEF P
  <2>4. Contents(runs)[place(n)] = runs[place(n)[1]][place(n)[2]]
    BY <2>1, AtPlace DEF P
  <2> HIDE DEF out
  <2> QED BY <2>1, <2>2, <2>3, <2>4
<1>11. out = [n \in 1 .. N |-> out[n]]
  BY DEF MergeRuns, N, P
<1> HIDE DEF out
<1>12. out \in [1 .. N -> Asset]
  BY <1>10, <1>11
<1>13. out \in Seq(Asset) /\ DOMAIN out = 1 .. N
  BY <1>1, <1>12, ASequence
<1>14. Sorted(key, out)
  <2> SUFFICES ASSUME NEW k \in 1 .. N, NEW n \in 1 .. N, k < n
               PROVE  ~Before(key, out[n], out[k])
    BY <1>13 DEF Sorted
  <2> QED BY <1>9, <1>10
<1> DEFINE b == [n \in 1 .. N |-> place(n)]
<1>15. Matches(b, out, Contents(runs))
  <2>1. b \in [1 .. N -> P]
    BY <1>10
  <2>2. ASSUME NEW k \in 1 .. N, NEW n \in 1 .. N, k # n PROVE b[k] # b[n]
    <3>1. k < n \/ n < k
      BY <2>2, <1>1
    <3> QED BY <3>1, <1>9
  <2>3. DOMAIN Contents(runs) = P
    BY AtPlace DEF P
  <2> QED BY <2>1, <2>2, <2>3, <1>8, <1>10, <1>13 DEF Matches
<1> QED BY <1>13, <1>14, <1>15 DEF Same, out

-----------------------------------------------------------------------------
(* The levels of merges                                                        *)

GoodLevel(runs, records, key, m) ==
  /\ m \in Nat \ {0}
  /\ runs \in Seq(Seq(Asset)) /\ Len(runs) = m
  /\ SortedRuns(runs, m, key)
  /\ Same(Contents(runs), records)

LEMMA MergeLevelIs ==
  ASSUME NEW runs, NEW records, NEW key, NEW m, GoodLevel(runs, records, key, m), m > 1
  PROVE  /\ GoodLevel(MergeLevel(runs, key), records, key, Ceil(m, FanIn))
         /\ Ceil(m, FanIn) < m
<1> DEFINE groups == Pieces(runs, FanIn)
           c == Ceil(m, FanIn)
           merged == [g \in 1 .. c |-> MergeRuns(groups[g], key)]
           held == [g \in 1 .. c |-> Contents(groups[g])]
<1>1. m \in Nat /\ m # 0 /\ FanIn \in Nat \ {0} /\ FanIn >= 2
  BY SizesAssumption DEF GoodLevel
<1>2. runs \in Seq(Seq(Asset)) /\ Len(runs) = m /\ DOMAIN runs = 1 .. m
  BY RunsAre, <1>1 DEF GoodLevel
<1>3. c \in Nat \ {0} /\ c < m
  <2>1. c \in Nat /\ c * FanIn < m + FanIn /\ (c = 0 <=> m = 0)
    BY <1>1, CeilIs
  <2>2. SUFFICES ASSUME m <= c PROVE FALSE
    BY <2>1, <1>1
  <2> HIDE DEF c
  <2>3. (c - 1) * 2 <= (c - 1) * FanIn
    <3>1. 2 * (c - 1) <= FanIn * (c - 1)
      <4>1. c - 1 \in Nat
        BY <2>1, <1>1
      <4> QED BY <4>1, <1>1, Times
    <3> QED BY <3>1, <2>1, <1>1
  <2>4. (c - 1) * FanIn = c * FanIn - FanIn /\ c * FanIn \in Int
    BY <2>1, <1>1
  <2> QED BY <2>1, <2>2, <2>3, <2>4, <1>1
<1>4. /\ DOMAIN groups = 1 .. c
      /\ \A g \in 1 .. c :
           /\ groups[g] \in Seq(Seq(Asset))
           /\ Len(groups[g]) = Share(m, FanIn, g)
           /\ DOMAIN groups[g] = 1 .. Share(m, FanIn, g)
           /\ \A i \in 1 .. Share(m, FanIn, g) :
                /\ (g - 1) * FanIn + i \in 1 .. m
                /\ groups[g][i] = runs[(g - 1) * FanIn + i]
  <2> HIDE DEF groups, merged, held, c
  <2>1. CutInto(Pieces(runs, FanIn), runs, FanIn, Seq(Asset))
    <3> DEFINE T == Seq(Asset)
    <3>1. runs \in Seq(T) /\ FanIn \in Nat \ {0}
      BY <1>1, <1>2
    <3> HIDE DEF T
    <3>2. CutInto(Pieces(runs, FanIn), runs, FanIn, T)
      BY <3>1, PiecesAre
    <3> QED BY <3>2 DEF T
  <2>2. Len(runs) = m
    BY <1>2
  <2>3. CutInto(groups, runs, FanIn, Seq(Asset))
    BY <2>1 DEF groups
  <2> QED BY <2>2, <2>3, Zenon DEF CutInto, c
<1>5. \A i \in 1 .. m : runs[i] \in Seq(Asset) /\ Sorted(key, runs[i])
  BY <1>2 DEF GoodLevel, SortedRuns
<1>6. MergeLevel(runs, key) = merged
  <2>1. ~(Len(runs) <= 1)
    BY <1>1, <1>2
  <2>2. MergeLevel(runs, key) = [g \in DOMAIN groups |-> MergeRuns(groups[g], key)]
    <3> HIDE DEF groups
    <3> QED BY <2>1 DEF MergeLevel, groups
  <2>3. DOMAIN groups = 1 .. c
    BY <1>4
  <2> HIDE DEF groups, c
  <2> QED BY <2>2, <2>3
<1>s. Same(Contents(groups), runs)
  BY <1>1, <1>2, SamePieces
<1> HIDE DEF groups, c
<1>7. ASSUME NEW g \in 1 .. c
      PROVE  /\ MergeRuns(groups[g], key) \in Seq(Asset)
             /\ Sorted(key, MergeRuns(groups[g], key))
             /\ Same(MergeRuns(groups[g], key), Contents(groups[g]))
  <2>1. Share(m, FanIn, g) \in Nat
    BY <1>1, ShareIs DEF c
  <2>2. groups[g] \in [1 .. Share(m, FanIn, g) -> Seq(Asset)]
    BY <1>4, LenProperties
  <2>3. \A i \in 1 .. Share(m, FanIn, g) : Sorted(key, groups[g][i])
    BY <1>4, <1>5
  <2>4. SortedRuns(groups[g], Share(m, FanIn, g), key)
    BY <2>2, <2>3 DEF SortedRuns
  <2> QED BY <2>1, <2>4, MergeRunsAre
<1>8. merged \in [1 .. c -> Seq(Asset)]
  BY <1>7
<1>9. merged \in Seq(Seq(Asset)) /\ Len(merged) = c
  BY <1>3, <1>8, ASequence
<1>10. SortedRuns(merged, c, key)
  <2>1. \A g \in 1 .. c : Sorted(key, merged[g])
    BY <1>7
  <2> HIDE DEF merged
  <2> QED BY <2>1, <1>8 DEF SortedRuns
<1>11. Same(Contents(merged), Contents(held))
  <2>1. DOMAIN merged = DOMAIN held /\ \A g \in DOMAIN merged : Same(merged[g], held[g])
    BY <1>7
  <2> HIDE DEF merged, held
  <2> QED BY <2>1, SameRuns
<1>12. Same(Contents(held), Contents(runs))
  <2>1. held = [g \in DOMAIN groups |-> Contents(groups[g])]
    BY <1>4
  <2> HIDE DEF held
  <2> QED BY <2>1, <1>s, SameGroups
<1>13. Same(Contents(merged), records)
  <2> HIDE DEF merged, held
  <2>1. Same(Contents(merged), Contents(runs))
    BY <1>11, <1>12, SameThrough
  <2>2. Same(Contents(runs), records)
    BY DEF GoodLevel
  <2> QED BY <2>1, <2>2, SameThrough
<1> HIDE DEF merged
<1> QED BY <1>3, <1>6, <1>9, <1>10, <1>13 DEF GoodLevel, c

LEMMA OneRun ==
  ASSUME NEW runs, DOMAIN runs = {1}
  PROVE  Same(runs[1], Contents(runs))
<1> DEFINE b == [i \in DOMAIN runs[1] |-> <<1, i>>]
<1>1. \A i \in DOMAIN runs[1] : <<1, i>> \in Places(runs) /\ Contents(runs)[<<1, i>>] = runs[1][i]
  BY APlace, AtPlace
<1>2. ASSUME NEW p \in Places(runs) PROVE \E i \in DOMAIN runs[1] : b[i] = p
  <2>1. p = <<p[1], p[2]>> /\ p[1] = 1 /\ p[2] \in DOMAIN runs[1]
    BY IsAPlace
  <2> QED BY <2>1
<1>3. Matches(b, runs[1], Contents(runs))
  BY <1>1, <1>2, AtPlace DEF Matches
<1> QED BY <1>3 DEF Same

LEMMA NoneOrSome ==
  ASSUME NEW T, NEW s \in Seq(T)
  PROVE  s = <<>> <=> Len(s) = 0
  BY EmptySeq

(* Whatever the sizes of runs and the number merged at once, the external sort *)
(* gives back the records it was given, each as often, in the order of the key *)
(* (_sorted_records, autonomous_inventory.py, 98-135).                         *)
THEOREM TheExternalSortSorts ==
  ASSUME NEW records \in Seq(Asset), NEW key
  PROVE  /\ SortedRecords(records, key) \in Seq(Asset)
         /\ Sorted(key, SortedRecords(records, key))
         /\ Same(SortedRecords(records, key), records)
<1> DEFINE runs == Pieces(records, ChunkSize)
           m == Ceil(Len(records), ChunkSize)
           first == [r \in 1 .. m |-> SortRun(runs[r], key)]
           L(l) == MergeLevels(first, key)[l]
<1>1. ChunkSize \in Nat \ {0} /\ Len(records) \in Nat
  BY SizesAssumption, LenProperties
<1>2. /\ runs \in Seq(Seq(Asset)) /\ Len(runs) = m /\ DOMAIN runs = 1 .. m
      /\ \A r \in 1 .. m : runs[r] \in Seq(Asset)
  <2>1. CutInto(runs, records, ChunkSize, Asset)
    BY <1>1, PiecesAre
  <2> HIDE DEF runs
  <2> QED BY <2>1 DEF CutInto
<1>3. m \in Nat /\ (m = 0 <=> Len(records) = 0)
  BY <1>1, CeilIs
<1>4. Same(Contents(runs), records)
  BY <1>1, SamePieces
<1>5. SortedRecords(records, key) = IF runs = <<>> THEN <<>> ELSE L(m)[1]
  BY <1>2 DEF SortedRecords
<1>6. CASE m = 0
  <2>1. runs = <<>>
    BY <1>2, <1>6, NoneOrSome
  <2>2. records = <<>>
    BY <1>3, <1>6, NoneOrSome
  <2>3. SortedRecords(records, key) = records
    BY <1>5, <2>1, <2>2
  <2>4. Sorted(key, <<>>)
    BY DEF Sorted
  <2> QED BY <2>2, <2>3, <2>4, SameItself
<1>7. CASE m # 0
  <2>1. SortedRecords(records, key) = L(m)[1]
    BY <1>2, <1>5, <1>7, NoneOrSome
  <2> HIDE DEF runs, m
  <2>2. \A r \in 1 .. m : /\ SortRun(runs[r], key) \in Seq(Asset)
                          /\ Sorted(key, SortRun(runs[r], key))
                          /\ Same(SortRun(runs[r], key), runs[r])
    BY <1>2, SortRunIs
  <2>3. GoodLevel(first, records, key, m)
    <3>1. first \in [1 .. m -> Seq(Asset)] /\ \A r \in 1 .. m : Sorted(key, first[r])
      BY <2>2
    <3>2. first \in Seq(Seq(Asset)) /\ Len(first) = m
      BY <3>1, <1>3, ASequence
    <3>3. Same(Contents(first), Contents(runs))
      <4>1. DOMAIN first = DOMAIN runs /\ \A r \in DOMAIN first : Same(first[r], runs[r])
        BY <1>2, <2>2
      <4> HIDE DEF first
      <4> QED BY <4>1, SameRuns
    <3> HIDE DEF first
    <3>4. Same(Contents(first), records)
      BY <3>3, <1>4, SameThrough
    <3> QED BY <3>1, <3>2, <3>4, <1>3, <1>7 DEF GoodLevel, SortedRuns
  <2> HIDE DEF first
  <2>4. L(0) = first /\ \A l \in Nat : L(l + 1) = MergeLevel(L(l), key)
    BY MergeLevelsUnfolds
  <2> HIDE DEF L
  <2> DEFINE S == {l \in Nat : \E n \in Nat \ {0} :
                     GoodLevel(L(l), records, key, n) /\ (n = 1 \/ n + l <= m)}
  <2>5. 0 \in S
    BY <2>3, <2>4, <1>3, <1>7
  <2>6. ASSUME NEW l \in S PROVE l + 1 \in S
    <3>1. l \in Nat
      OBVIOUS
    <3>2. PICK n \in Nat \ {0} : GoodLevel(L(l), records, key, n) /\ (n = 1 \/ n + l <= m)
      OBVIOUS
    <3>3. L(l + 1) = MergeLevel(L(l), key)
      BY <2>4, <3>1
    <3>4. CASE n = 1
      <4>1. Len(L(l)) = 1
        BY <3>2, <3>4 DEF GoodLevel
      <4>2. L(l + 1) = L(l)
        BY <3>3, <4>1 DEF MergeLevel
      <4> QED BY <3>1, <3>2, <3>4, <4>2
    <3>5. CASE n # 1
      <4>1. n > 1
        BY <3>2, <3>5
      <4>2. GoodLevel(L(l + 1), records, key, Ceil(n, FanIn)) /\ Ceil(n, FanIn) < n
        BY <3>2, <3>3, <4>1, MergeLevelIs
      <4>3. Ceil(n, FanIn) \in Nat \ {0}
        BY <4>2 DEF GoodLevel
      <4>4. Ceil(n, FanIn) + (l + 1) <= m
        BY <3>1, <3>2, <3>5, <4>2, <4>3, <1>3
      <4> QED BY <3>1, <4>2, <4>3, <4>4
    <3> QED BY <3>4, <3>5
  <2>7. Nat \subseteq S
    <3> HIDE DEF S
    <3> QED BY <2>5, <2>6, Induction
  <2>8. PICK n \in Nat \ {0} : GoodLevel(L(m), records, key, n) /\ (n = 1 \/ n + m <= m)
    BY <2>7, <1>3
  <2>9. n = 1
    BY <2>8, <1>3
  <2>10. /\ L(m) \in [1 .. 1 -> Seq(Asset)] /\ Sorted(key, L(m)[1])
         /\ Same(Contents(L(m)), records)
    BY <2>8, <2>9 DEF GoodLevel, SortedRuns
  <2>11. DOMAIN L(m) = {1} /\ L(m)[1] \in Seq(Asset)
    BY <2>10
  <2>12. Same(L(m)[1], Contents(L(m)))
    BY <2>11, OneRun
  <2>13. Same(L(m)[1], records)
    BY <2>10, <2>12, SameThrough
  <2> QED BY <2>1, <2>10, <2>11, <2>13
<1> QED BY <1>6, <1>7

-----------------------------------------------------------------------------
(* The valid assets, the duplicates, and the reference                         *)

LEMMA ValidIs ==
  ASSUME NEW list \in Seq(Asset)
  PROVE  Valid(list) \in Seq(Asset)
<1> DEFINE S == {i \in DOMAIN list : list[i].valid}
           R == {p \in S \X S : p[1] < p[2]}
           place == [n \in 1 .. Cardinality(S) |->
                       CHOOSE x \in S : Cardinality({y \in S : y < x}) = n - 1]
<1>1. Len(list) \in Nat /\ DOMAIN list = 1 .. Len(list) /\ \A i \in DOMAIN list : list[i] \in Asset
  BY LenProperties
<1>2. S \in SUBSET (1 .. Len(list)) /\ S \subseteq Int
  BY <1>1
<1>3. IsFiniteSet(S)
  <2>1. IsFiniteSet(1 .. Len(list))
    BY <1>1, FS_Interval
  <2> HIDE DEF S
  <2> QED BY <2>1, <1>2, FS_Subset
<1>4. Valid(list) = [n \in 1 .. Cardinality(S) |-> list[place[n]]]
  BY DEF Valid, Nth
<1> HIDE DEF S
<1>5. IsOrder(R, S) /\ \A x, y \in S : <<x, y>> \in R <=> x < y
  BY <1>2 DEF IsOrder
<1>6. \A x \in S : Below(R, S, x) = {y \in S : y < x}
  BY <1>5 DEF Below
<1> HIDE DEF R
<1>7. Cardinality(S) \in Nat
      /\ \A n \in 1 .. Cardinality(S) : \E x \in S : Cardinality(Below(R, S, x)) = n - 1
  BY <1>3, <1>5, Ranks
<1>8. ASSUME NEW n \in 1 .. Cardinality(S) PROVE place[n] \in S
  <2>1. PICK x \in S : Cardinality(Below(R, S, x)) = n - 1
    BY <1>7
  <2>2. Cardinality({y \in S : y < x}) = n - 1
    BY <2>1, <1>6
  <2> QED BY <2>2
<1> HIDE DEF place
<1>9. \A i \in S : list[i] \in Asset
  BY <1>1 DEF S
<1>10. Valid(list) \in [1 .. Cardinality(S) -> Asset]
  BY <1>4, <1>8, <1>9
<1> QED BY <1>7, <1>10, ASequence

LEMMA UniqueSame ==
  ASSUME NEW f, NEW g, Same(f, g)
  PROVE  UniqueIds(f) <=> UniqueIds(g)
<1>1. PICK b : Matches(b, f, g)
  BY DEF Same
<1>2. \A x \in DOMAIN f : b[x] \in DOMAIN g /\ f[x] = g[b[x]]
  BY <1>1 DEF Matches
<1>3. \A x, y \in DOMAIN f : x # y => b[x] # b[y]
  BY <1>1 DEF Matches
<1>4. \A z \in DOMAIN g : \E x \in DOMAIN f : b[x] = z
  BY <1>1 DEF Matches
<1>5. ASSUME UniqueIds(g) PROVE UniqueIds(f)
  BY <1>2, <1>3, <1>5 DEF UniqueIds
<1>6. ASSUME UniqueIds(f), NEW p \in DOMAIN g, NEW q \in DOMAIN g, g[p].id = g[q].id PROVE p = q
  <2>1. PICK x \in DOMAIN f, y \in DOMAIN f : b[x] = p /\ b[y] = q
    BY <1>4
  <2>2. f[x].id = f[y].id
    BY <2>1, <1>2, <1>6
  <2>3. x = y
    BY <2>2, <1>6 DEF UniqueIds
  <2> QED BY <2>1, <2>3
<1> QED BY <1>5, <1>6 DEF UniqueIds

(* Sorted by identifier, equal ones are neighbours.                            *)
LEMMA DuplicatesAre ==
  ASSUME NEW s \in Seq(Asset), Sorted("ids", s)
  PROVE  HasDuplicates(s) <=> ~UniqueIds(s)
<1> DEFINE n == Len(s)
<1>1. n \in Nat /\ DOMAIN s = 1 .. n /\ \A i \in 1 .. n : s[i].id \in Int
  <2>1. \A i \in 1 .. n : s[i] \in Asset
    BY LenProperties
  <2> QED BY <2>1, LenProperties DEF Asset
<1> HIDE DEF n
<1>2. ASSUME NEW i \in 1 .. n - 1, s[i].id = s[i + 1].id PROVE ~UniqueIds(s)
  <2>1. i \in 1 .. n /\ i + 1 \in 1 .. n /\ i # i + 1
    BY <1>1
  <2> QED BY <2>1, <1>1, <1>2 DEF UniqueIds
<1>3. \A i, j \in 1 .. n : i < j => s[i].id <= s[j].id
  BY <1>1 DEF Sorted, Before
<1>4. ASSUME NEW i \in 1 .. n, NEW j \in 1 .. n, s[i].id = s[j].id, i < j
      PROVE  \E k \in 1 .. n - 1 : s[k].id = s[k + 1].id
  <2>1. i \in 1 .. n - 1 /\ i + 1 \in 1 .. n /\ i < i + 1 /\ (i + 1 = j \/ i + 1 < j)
    BY <1>1, <1>4
  <2>2. s[i].id <= s[i + 1].id /\ s[i + 1].id <= s[j].id
    BY <2>1, <1>1, <1>3
  <2>3. s[i].id = s[i + 1].id
    BY <2>1, <2>2, <1>1, <1>4
  <2> QED BY <2>1, <2>3
<1>5. ASSUME ~UniqueIds(s) PROVE HasDuplicates(s)
  <2>1. PICK i \in 1 .. n, j \in 1 .. n : s[i].id = s[j].id /\ i # j
    BY <1>1, <1>5 DEF UniqueIds
  <2>2. i < j \/ j < i
    BY <2>1, <1>1
  <2>3. \E k \in 1 .. n - 1 : s[k].id = s[k + 1].id
    BY <2>1, <2>2, <1>4
  <2> QED BY <2>3 DEF HasDuplicates, n
<1>6. ASSUME HasDuplicates(s) PROVE ~UniqueIds(s)
  <2>1. PICK i \in 1 .. n - 1 : s[i].id = s[i + 1].id
    BY <1>6 DEF HasDuplicates, n
  <2> QED BY <2>1, <1>2
<1> QED BY <1>5, <1>6

FirstOnes(f, m) == {f[i] : i \in 1 .. m}
NoRepeat(f, m) == \A i, j \in 1 .. m : f[i] = f[j] => i = j

(* What a list without repetition holds is as many as it is long.              *)
LEMMA Counted ==
  ASSUME NEW f, NEW m \in Nat, NoRepeat(f, m)
  PROVE  IsFiniteSet(FirstOnes(f, m)) /\ Cardinality(FirstOnes(f, m)) = m
<1> DEFINE A == FirstOnes(f, m)
           g == [i \in 1 .. m |-> f[i]]
<1>1. g \in [1 .. m -> A] /\ \A i, j \in 1 .. m : g[i] = g[j] => i = j
  BY DEF FirstOnes, NoRepeat
<1>2. \A x \in A : \E i \in 1 .. m : g[i] = x
  BY DEF FirstOnes
<1> HIDE DEF A, g
<1>3. g \in Bijection(1 .. m, A)
  <2>1. g \in Injection(1 .. m, A)
    BY <1>1 DEF Injection, IsInjective
  <2>2. g \in Surjection(1 .. m, A)
    BY <1>1, <1>2 DEF Surjection
  <2> QED BY <2>1, <2>2 DEF Bijection
<1>4. ExistsBijection(1 .. m, A)
  BY <1>3 DEF ExistsBijection
<1>5. IsFiniteSet(A) /\ Cardinality(A) = m
  BY <1>4, FS_NatBijection, FS_CountingElements
<1> QED BY <1>5 DEF A

LEMMA RankOnce ==
  ASSUME NEW S, IsFiniteSet(S), NEW R, IsOrder(R, S), NEW x \in S, NEW y \in S,
         Cardinality(Below(R, S, x)) = Cardinality(Below(R, S, y))
  PROVE  x = y
<1> SUFFICES ASSUME x # y PROVE FALSE
  OBVIOUS
<1>1. <<x, y>> \in R \/ <<y, x>> \in R
  BY DEF IsOrder
<1>2. Cardinality(Below(R, S, x)) < Cardinality(Below(R, S, y))
      \/ Cardinality(Below(R, S, y)) < Cardinality(Below(R, S, x))
  BY <1>1, Ranks
<1>3. Cardinality(Below(R, S, x)) \in Int /\ Cardinality(Below(R, S, y)) \in Int
  BY Ranks
<1> QED BY <1>2, <1>3

(* The reference, for a library without duplicates: there is one sequence of   *)
(* its assets sorted newest first.                                             *)
LEMMA TheSortedList ==
  ASSUME NEW records \in Seq(Asset), NEW s \in Seq(Asset), Sorted("dates", s),
         Same(s, records), UniqueIds(s)
  PROVE  s = [n \in 1 .. Cardinality(ToSet(records)) |-> Nth(ToSet(records), NewestFirst, n)]
<1> DEFINE A == ToSet(records)
           R == {p \in A \X A : NewestFirst(p[1], p[2])}
           n == Len(s)
<1>1. n \in Nat /\ DOMAIN s = 1 .. n /\ s \in [1 .. n -> Asset]
  BY LenProperties
<1>2. A = FirstOnes(s, n)
  <2>1. Range(s) = Range(records)
    BY SameValues
  <2> QED BY <2>1, <1>1 DEF ToSet, Range, FirstOnes
<1>3. \A i, j \in 1 .. n : s[i] = s[j] => i = j
  BY <1>1 DEF UniqueIds
<1>4. \A i, j \in 1 .. n : i < j => NewestFirst(s[i], s[j]) /\ ~NewestFirst(s[j], s[i])
  <2> SUFFICES ASSUME NEW i \in 1 .. n, NEW j \in 1 .. n, i < j
               PROVE  NewestFirst(s[i], s[j]) /\ ~NewestFirst(s[j], s[i])
    OBVIOUS
  <2>1. ~NewestFirst(s[j], s[i])
    BY <1>1 DEF Sorted, Before
  <2>2. s[i].id # s[j].id
    BY <1>1 DEF UniqueIds
  <2>3. s[i] \in Asset /\ s[j] \in Asset
    BY <1>1
  <2> QED BY <2>1, <2>2, <2>3 DEF NewestFirst, Asset
<1> HIDE DEF n, A
<1>5. IsFiniteSet(A) /\ Cardinality(A) = n
  <2>1. NoRepeat(s, n)
    BY <1>3 DEF NoRepeat
  <2> QED BY <2>1, <1>1, <1>2, Counted
<1>6. \A a, b \in A : <<a, b>> \in R <=> NewestFirst(a, b)
  OBVIOUS
<1> HIDE DEF R
<1>7. \A a \in A : a \in Asset /\ \E i \in 1 .. n : a = s[i]
  BY <1>1, <1>2 DEF FirstOnes
<1>8. IsOrder(R, A)
  <2>1. \A a, b, c \in A : ~NewestFirst(a, a)
                           /\ (NewestFirst(a, b) /\ NewestFirst(b, c) => NewestFirst(a, c))
    BY <1>7 DEF NewestFirst, Asset
  <2>2. ASSUME NEW a \in A, NEW b \in A, a # b PROVE NewestFirst(a, b) \/ NewestFirst(b, a)
    <3>1. PICK i \in 1 .. n, j \in 1 .. n : a = s[i] /\ b = s[j]
      BY <1>7
    <3>2. i < j \/ j < i
      BY <2>2, <3>1, <1>1
    <3> QED BY <3>1, <3>2, <1>4
  <2> QED BY <2>1, <2>2, <1>6 DEF IsOrder
<1>9. ASSUME NEW m \in 1 .. n
      PROVE  s[m] \in A /\ Cardinality({y \in A : NewestFirst(y, s[m])}) = m - 1
  <2>1. s[m] \in A
    BY <1>2 DEF FirstOnes
  <2>2. m - 1 \in Nat /\ \A i \in 1 .. m - 1 : i \in 1 .. n /\ i < m
    BY <1>1
  <2>3. ASSUME NEW y \in A, NewestFirst(y, s[m]) PROVE \E i \in 1 .. m - 1 : y = s[i]
    <3>1. PICK i \in 1 .. n : y = s[i]
      BY <1>7
    <3>2. i # m
      BY <2>3, <3>1, <1>6, <1>8, <2>1 DEF IsOrder
    <3>3. ~(m < i)
      BY <2>3, <3>1, <1>4
    <3> QED BY <3>1, <3>2, <3>3, <1>1
  <2>4. \A i \in 1 .. m - 1 : s[i] \in A /\ NewestFirst(s[i], s[m])
    BY <2>2, <1>2, <1>4 DEF FirstOnes
  <2>5. {y \in A : NewestFirst(y, s[m])} = FirstOnes(s, m - 1)
    BY <2>3, <2>4 DEF FirstOnes
  <2>6. Cardinality(FirstOnes(s, m - 1)) = m - 1
    <3>1. NoRepeat(s, m - 1)
      BY <2>2, <1>3 DEF NoRepeat
    <3> QED BY <2>2, <3>1, Counted
  <2> QED BY <2>1, <2>5, <2>6
<1>10. ASSUME NEW m \in 1 .. n PROVE Nth(A, NewestFirst, m) = s[m]
  <2> DEFINE x == CHOOSE x \in A : Cardinality({y \in A : NewestFirst(y, x)}) = m - 1
  <2>1. x \in A /\ Cardinality({y \in A : NewestFirst(y, x)}) = m - 1
    BY <1>9
  <2>2. Nth(A, NewestFirst, m) = x
    BY DEF Nth
  <2> HIDE DEF x
  <2>3. \A z \in A : Below(R, A, z) = {y \in A : NewestFirst(y, z)}
    BY <1>6 DEF Below
  <2>4. Cardinality(Below(R, A, x)) = Cardinality(Below(R, A, s[m]))
    BY <2>1, <2>3, <1>9
  <2>5. x = s[m]
    BY <2>1, <2>4, <1>5, <1>8, <1>9, RankOnce
  <2> QED BY <2>2, <2>5
<1>11. [m \in 1 .. Cardinality(A) |-> Nth(A, NewestFirst, m)] = [m \in 1 .. n |-> s[m]]
  BY <1>5, <1>10
<1> QED BY <1>1, <1>11 DEF A

LEMMA SameLength ==
  ASSUME NEW S, NEW T, NEW f \in Seq(S), NEW g \in Seq(T), Same(f, g)
  PROVE  Len(f) = Len(g)
<1>1. /\ Len(f) \in Nat /\ DOMAIN f = 1 .. Len(f)
      /\ Len(g) \in Nat /\ DOMAIN g = 1 .. Len(g)
  BY LenProperties
<1> DEFINE n == Len(f)
           m == Len(g)
<1>2. PICK b : Matches(b, f, g)
  BY DEF Same
<1> HIDE DEF n, m
<1>3. b \in Bijection(1 .. n, 1 .. m)
  <2>1. b \in Injection(1 .. n, 1 .. m)
    BY <1>1, <1>2 DEF Matches, Injection, IsInjective, n, m
  <2>2. b \in Surjection(1 .. n, 1 .. m)
    BY <1>1, <1>2 DEF Matches, Surjection, n, m
  <2> QED BY <2>1, <2>2 DEF Bijection
<1>4. ExistsBijection(1 .. n, 1 .. m)
  BY <1>3 DEF ExistsBijection
<1>5. n \in Nat /\ m \in Nat
  BY <1>1 DEF n, m
<1>6. Cardinality(1 .. m) = n
  BY <1>4, <1>5, FS_CountingElements
<1>7. Cardinality(1 .. m) = m
  <2>1. m \in Int /\ 1 \in Int
    BY <1>5
  <2>2. Cardinality(1 .. m) = IF 1 > m THEN 0 ELSE m - 1 + 1
    BY <2>1, FS_Interval
  <2> QED BY <2>2, <1>5
<1> QED BY <1>6, <1>7 DEF n, m

\* What the pages of a library hold, one after the other.
Listing(list) == SortedRecords(SortedRecords(Valid(list), "ids"), "dates")

\* The reference, of a library.
Expected(list) ==
  [n \in 1 .. Cardinality(ToSet(Valid(list))) |-> Nth(ToSet(Valid(list)), NewestFirst, n)]

LEMMA ListingIs ==
  ASSUME NEW list \in Seq(Asset)
  PROVE  /\ Valid(list) \in Seq(Asset)
         /\ HasDuplicates(SortedRecords(Valid(list), "ids")) <=> ~UniqueIds(Valid(list))
         /\ Listing(list) \in Seq(Asset)
         /\ Len(Listing(list)) = Len(Valid(list))
         /\ Sorted("dates", Listing(list))
         /\ UniqueIds(Valid(list)) => Listing(list) = Expected(list)
<1> DEFINE records == Valid(list)
           byId == SortedRecords(records, "ids")
<1>1. records \in Seq(Asset)
  BY ValidIs
<1> HIDE DEF records
<1>2. byId \in Seq(Asset) /\ Sorted("ids", byId) /\ Same(byId, records)
  BY <1>1, TheExternalSortSorts
<1>3. HasDuplicates(byId) <=> ~UniqueIds(records)
  <2> HIDE DEF byId
  <2>1. HasDuplicates(byId) <=> ~UniqueIds(byId)
    BY <1>2, DuplicatesAre
  <2>2. UniqueIds(byId) <=> UniqueIds(records)
    BY <1>2, UniqueSame
  <2> QED BY <2>1, <2>2
<1> DEFINE listing == SortedRecords(byId, "dates")
<1>4. listing \in Seq(Asset) /\ Sorted("dates", listing) /\ Same(listing, records)
  <2> HIDE DEF byId
  <2>1. listing \in Seq(Asset) /\ Sorted("dates", listing) /\ Same(listing, byId)
    BY <1>2, TheExternalSortSorts
  <2> HIDE DEF listing
  <2> QED BY <2>1, <1>2, SameThrough
<1>5. listing = Listing(list)
  BY DEF Listing, records
<1> HIDE DEF listing, byId
<1>6. Len(listing) = Len(records)
  BY <1>1, <1>4, SameLength
<1>7. ASSUME UniqueIds(records)
      PROVE  listing = [n \in 1 .. Cardinality(ToSet(records)) |->
                          Nth(ToSet(records), NewestFirst, n)]
  <2>1. UniqueIds(listing)
    BY <1>4, <1>7, UniqueSame
  <2> QED BY <2>1, <1>1, <1>4, TheSortedList
<1> QED BY <1>1, <1>3, <1>4, <1>5, <1>6, <1>7 DEF records, byId, Expected

-----------------------------------------------------------------------------
(* Halving, and the widths of the levels of a tree                             *)

LEMMA HalvingIs ==
  ASSUME NEW n \in Nat, NEW h \in Nat
  PROVE  /\ Halving(n)[h] \in Nat
         /\ Halving(n)[h] = 0 \/ Halving(n)[h] + h <= n
<1> DEFINE S == {k \in Nat : Halving(n)[k] \in Nat /\ (Halving(n)[k] = 0 \/ Halving(n)[k] + k <= n)}
<1>1. 0 \in S
  BY HalvingUnfolds
<1>2. ASSUME NEW k \in S PROVE k + 1 \in S
  <2>1. k \in Nat /\ Halving(n)[k] \in Nat /\ (Halving(n)[k] = 0 \/ Halving(n)[k] + k <= n)
    OBVIOUS
  <2>2. Halving(n)[k + 1] = Halving(n)[k] \div 2
    BY <2>1, HalvingUnfolds
  <2> QED BY <2>1, <2>2
<1>3. Nat \subseteq S
  <2> HIDE DEF S
  <2> QED BY <1>1, <1>2, Induction
<1> QED BY <1>3

LEMMA HalvingGrows ==
  ASSUME NEW n \in Nat, NEW i \in 0 .. n, NEW h \in Nat
  PROVE  Halving(i)[h] <= Halving(n)[h]
<1> DEFINE S == {k \in Nat : Halving(i)[k] <= Halving(n)[k]}
<1>1. 0 \in S
  BY HalvingUnfolds
<1>2. ASSUME NEW k \in S PROVE k + 1 \in S
  <2>1. k \in Nat /\ Halving(i)[k] <= Halving(n)[k]
    OBVIOUS
  <2>2. Halving(n)[k + 1] = Halving(n)[k] \div 2 /\ Halving(i)[k + 1] = Halving(i)[k] \div 2
    BY <2>1, HalvingUnfolds
  <2>3. Halving(n)[k] \in Nat /\ Halving(i)[k] \in Nat
    BY <2>1, HalvingIs
  <2> QED BY <2>1, <2>2, <2>3
<1>3. Nat \subseteq S
  <2> HIDE DEF S
  <2> QED BY <1>1, <1>2, Induction
<1> QED BY <1>3

FirstZero(n, b) == Halving(n)[b] = 0 /\ \A c \in 0 .. b - 1 : Halving(n)[c] > 0

LEMMA OneFirstZero ==
  ASSUME NEW n \in Nat
  PROVE  /\ \E b \in 0 .. n : FirstZero(n, b)
         /\ \A b, c \in Nat : FirstZero(n, b) /\ FirstZero(n, c) => b = c
<1> DEFINE Z == {b \in Nat : Halving(n)[b] = 0}
<1>1. \A h \in Nat : Halving(n)[h] \in Nat
  BY HalvingIs
<1>2. n \in Z
  <2>1. Halving(n)[n] \in Nat /\ (Halving(n)[n] = 0 \/ Halving(n)[n] + n <= n)
    BY HalvingIs
  <2> QED BY <2>1
<1>3. PICK b \in Z : \A c \in Z : b <= c
  BY <1>2, Least
<1>4. b \in 0 .. n /\ FirstZero(n, b)
  BY <1>1, <1>2, <1>3 DEF FirstZero
<1>5. ASSUME NEW x \in Nat, NEW y \in Nat, FirstZero(n, x), FirstZero(n, y), x < y PROVE FALSE
  <2>1. x \in 0 .. y - 1
    BY <1>5
  <2> QED BY <2>1, <1>5 DEF FirstZero
<1> QED BY <1>4, <1>5

LEMMA BitLengthIs ==
  ASSUME NEW n \in Nat
  PROVE  BitLength(n) \in 0 .. n /\ FirstZero(n, BitLength(n))
<1>1. BitLength(n) = CHOOSE b \in 0 .. n : FirstZero(n, b)
  BY DEF BitLength, FirstZero
<1>2. \E b \in 0 .. n : FirstZero(n, b)
  BY OneFirstZero
<1> QED BY <1>1, <1>2

(* A function over 1 .. n is as long as n, whatever its values.                *)
LEMMA AsLong ==
  ASSUME NEW n \in Nat, NEW f, f = [i \in 1 .. n |-> f[i]]
  PROVE  Len(f) = n /\ DOMAIN f = 1 .. n
<1> DEFINE T == {f[i] : i \in 1 .. n}
<1>1. f \in [1 .. n -> T]
  OBVIOUS
<1> HIDE DEF T
<1> QED BY <1>1, ASequence

LEMMA ParentsAre ==
  ASSUME NEW level, Len(level) \in Nat
  PROVE  /\ Len(Parents(level)) = Ceil(Len(level), 2)
         /\ DOMAIN Parents(level) = 1 .. Ceil(Len(level), 2)
<1> DEFINE c == Ceil(Len(level), 2)
<1>1. c \in Nat
  BY CeilIs
<1>2. DOMAIN Parents(level) = 1 .. c /\ Parents(level) = [i \in 1 .. c |-> Parents(level)[i]]
  BY DEF Parents
<1> HIDE DEF c
<1>3. Len(Parents(level)) = c
  BY <1>1, <1>2, AsLong
<1> QED BY <1>2, <1>3 DEF c

LEMMA Widths ==
  ASSUME NEW leaves, Len(leaves) \in Nat \ {0}, NEW h \in Nat
  PROVE  /\ Len(Levels(leaves)[h]) = Halving(Len(leaves) - 1)[h] + 1
         /\ Len(Levels(leaves)[h]) \in Nat \ {0}
<1> DEFINE n == Len(leaves) - 1
           S == {k \in Nat : Len(Levels(leaves)[k]) = Halving(n)[k] + 1}
<1>1. n \in Nat /\ \A k \in Nat : Halving(n)[k] \in Nat
  BY HalvingIs
<1>2. 0 \in S
  <2>1. Levels(leaves)[0] = leaves /\ Len(leaves) = n + 1
    BY LevelsUnfold
  <2> HIDE DEF n
  <2>2. Halving(n)[0] = n
    BY HalvingUnfolds
  <2> QED BY <2>1, <2>2
<1>3. ASSUME NEW k \in S PROVE k + 1 \in S
  <2>1. k \in Nat /\ Len(Levels(leaves)[k]) = Halving(n)[k] + 1
    OBVIOUS
  <2>2. Halving(n)[k + 1] = Halving(n)[k] \div 2 /\ Halving(n)[k] \in Nat
    BY <1>1, <2>1, HalvingUnfolds
  <2>3. Levels(leaves)[k + 1] = Parents(Levels(leaves)[k])
    BY <2>1, LevelsUnfold
  <2>4. Len(Levels(leaves)[k + 1]) = Ceil(Halving(n)[k] + 1, 2)
    BY <2>1, <2>2, <2>3, ParentsAre
  <2> QED BY <2>1, <2>2, <2>4 DEF Ceil
<1>4. Nat \subseteq S
  <2> HIDE DEF S
  <2> QED BY <1>2, <1>3, Induction
<1> QED BY <1>1, <1>4

LEMMA TopIs ==
  ASSUME NEW leaves, Len(leaves) \in Nat \ {0}
  PROVE  /\ Top(leaves) = BitLength(Len(leaves) - 1)
         /\ Top(leaves) \in Nat
         /\ Len(Levels(leaves)[Top(leaves)]) = 1
         /\ Halving(Len(leaves) - 1)[Top(leaves)] = 0
<1> DEFINE n == Len(leaves) - 1
           IsTop(h) == /\ Len(Levels(leaves)[h]) = 1
                       /\ \A g \in 0 .. h - 1 : Len(Levels(leaves)[g]) > 1
<1>1. n \in Nat /\ Len(leaves) = n + 1
  OBVIOUS
<1>2. ASSUME NEW h \in Nat
      PROVE  Len(Levels(leaves)[h]) = Halving(n)[h] + 1 /\ Halving(n)[h] \in Nat
  <2>1. Len(Levels(leaves)[h]) = Halving(n)[h] + 1
    BY Widths
  <2> HIDE DEF n
  <2> QED BY <2>1, <1>1, HalvingIs
<1> HIDE DEF n
<1>3. ASSUME NEW h \in Nat PROVE IsTop(h) <=> FirstZero(n, h)
  <2>1. Len(Levels(leaves)[h]) = 1 <=> Halving(n)[h] = 0
    <3>1. Len(Levels(leaves)[h]) = Halving(n)[h] + 1 /\ Halving(n)[h] \in Nat
      BY <1>2
    <3> HIDE DEF IsTop
    <3> QED BY <3>1
  <2>2. \A g \in 0 .. h - 1 : Len(Levels(leaves)[g]) > 1 <=> Halving(n)[g] > 0
    BY <1>2
  <2> QED BY <2>1, <2>2 DEF FirstZero
<1>4. Top(leaves) = CHOOSE h \in 0 .. Len(leaves) : IsTop(h)
  BY DEF Top
<1> HIDE DEF IsTop
<1>5. BitLength(n) \in 0 .. n /\ FirstZero(n, BitLength(n))
  BY <1>1, BitLengthIs
<1>6. BitLength(n) \in 0 .. Len(leaves) /\ IsTop(BitLength(n))
  BY <1>1, <1>3, <1>5
<1>7. Top(leaves) \in 0 .. Len(leaves) /\ IsTop(Top(leaves))
  BY <1>4, <1>6
<1>8. Top(leaves) \in Nat /\ FirstZero(n, Top(leaves))
  BY <1>3, <1>7
<1>9. Top(leaves) = BitLength(n)
  <2>1. BitLength(n) \in Nat
    BY <1>5
  <2> QED BY <2>1, <1>1, <1>5, <1>8, OneFirstZero
<1>10. Len(Levels(leaves)[Top(leaves)]) = 1
  BY <1>7 DEF IsTop
<1> QED BY <1>8, <1>9, <1>10 DEF FirstZero, n

-----------------------------------------------------------------------------
(* The proof of a page leads to the root, and nothing but the page leads there *)

LEMMA JoinsOnce ==
  ASSUME NEW d, NEW e, NEW s, NEW t, NEW p, Join(d, p, s) = Join(e, p, t)
  PROVE  d = e
  BY DEF Join, NodeHash

LEMMA ParentJoins ==
  ASSUME NEW level, Len(level) \in Nat, NEW p \in 0 .. Len(level) - 1
  PROVE  Parents(level)[(p \div 2) + 1] =
           Join(level[p + 1], p, level[Sibling(p, Len(level)) + 1])
<1> DEFINE n == Len(level)
           i == (p \div 2) + 1
<1>1. n \in Nat /\ p \in Nat /\ p < n
  OBVIOUS
<1>2. i \in 1 .. Ceil(n, 2)
  BY <1>1 DEF Ceil
<1>3. Parents(level)[i] =
        NodeHash(level[2 * i - 1], level[IF 2 * i > n THEN 2 * i - 1 ELSE 2 * i])
  <2> HIDE DEF i
  <2> QED BY <1>2 DEF Parents
<1>4. CASE p % 2 = 0
  <2>1. 2 * i - 1 = p + 1 /\ 2 * i = p + 2
    BY <1>1, <1>4
  <2>2. Sibling(p, n) + 1 = IF 2 * i > n THEN 2 * i - 1 ELSE 2 * i
    BY <1>1, <1>4, <2>1 DEF Sibling
  <2> HIDE DEF i, n
  <2> QED BY <1>3, <1>4, <2>1, <2>2 DEF Join, n, i
<1>5. CASE p % 2 = 1
  <2>1. 2 * i - 1 = p /\ 2 * i = p + 1 /\ ~(2 * i > n)
    BY <1>1, <1>5
  <2>2. Sibling(p, n) + 1 = p
    BY <1>1, <1>5 DEF Sibling
  <2> HIDE DEF i, n
  <2> QED BY <1>3, <1>5, <2>1, <2>2 DEF Join, n, i
<1>6. p % 2 = 0 \/ p % 2 = 1
  BY <1>1
<1> QED BY <1>4, <1>5, <1>6

\* The hash that page i has at level h of the tree.
OnPath(leaves, i, h) == Levels(leaves)[h][Halving(i)[h] + 1]

LEMMA PathClimbs ==
  ASSUME NEW leaves, Len(leaves) \in Nat \ {0}, NEW i \in 0 .. Len(leaves) - 1, NEW h \in Nat
  PROVE  OnPath(leaves, i, h + 1) =
           Join(OnPath(leaves, i, h), Halving(i)[h],
                Levels(leaves)[h][Sibling(Halving(i)[h], Len(Levels(leaves)[h])) + 1])
<1> DEFINE level == Levels(leaves)[h]
           p == Halving(i)[h]
           n == Len(leaves) - 1
<1>1. n \in Nat /\ i \in 0 .. n /\ i \in Nat
  OBVIOUS
<1>2. Len(level) = Halving(n)[h] + 1 /\ Len(level) \in Nat
  BY Widths
<1>3. p \in Nat
  BY <1>1, HalvingIs
<1>4. p <= Halving(n)[h] /\ Halving(n)[h] \in Nat
  <2> HIDE DEF n
  <2> QED BY <1>1, HalvingGrows, HalvingIs
<1>5. Halving(i)[h + 1] = p \div 2
  BY HalvingUnfolds
<1>6. Levels(leaves)[h + 1] = Parents(level)
  BY LevelsUnfold
<1> HIDE DEF level, p, n
<1>7. p \in 0 .. Len(level) - 1
  BY <1>2, <1>3, <1>4
<1>8. Parents(level)[(p \div 2) + 1] = Join(level[p + 1], p, level[Sibling(p, Len(level)) + 1])
  BY <1>2, <1>7, ParentJoins
<1> QED BY <1>5, <1>6, <1>8 DEF OnPath, level, p

LEMMA PathEnds ==
  ASSUME NEW leaves, Len(leaves) \in Nat \ {0}, NEW i \in 0 .. Len(leaves) - 1
  PROVE  /\ OnPath(leaves, i, 0) = leaves[i + 1]
         /\ OnPath(leaves, i, Top(leaves)) = Levels(leaves)[Top(leaves)][1]
<1> DEFINE n == Len(leaves) - 1
           t == Top(leaves)
<1>1. n \in Nat /\ i \in 0 .. n /\ i \in Nat
  OBVIOUS
<1>2. t \in Nat /\ Halving(n)[t] = 0
  BY TopIs
<1> HIDE DEF n, t
<1>3. Halving(i)[t] \in Nat /\ Halving(i)[t] <= 0
  <2>1. Halving(i)[t] <= Halving(n)[t]
    BY <1>1, <1>2, HalvingGrows
  <2>2. Halving(i)[t] \in Nat
    BY <1>1, <1>2, HalvingIs
  <2> QED BY <2>1, <2>2, <1>2
<1>4. Halving(i)[t] + 1 = 1
  BY <1>3
<1>5. OnPath(leaves, i, 0) = leaves[i + 1]
  BY HalvingUnfolds, LevelsUnfold DEF OnPath
<1> QED BY <1>4, <1>5 DEF OnPath, t

(* With its proof the page is accepted.                                        *)
LEMMA ProofLeads ==
  ASSUME NEW leaves, Len(leaves) \in Nat \ {0}, NEW i \in 0 .. Len(leaves) - 1
  PROVE  /\ Len(Proof(leaves, i)) = Top(leaves)
         /\ Climb(leaves[i + 1], i, Proof(leaves, i))[Top(leaves)] = Levels(leaves)[Top(leaves)][1]
<1> DEFINE t == Top(leaves)
           proof == Proof(leaves, i)
           climb == Climb(leaves[i + 1], i, proof)
           S == {h \in Nat : h <= t => climb[h] = OnPath(leaves, i, h)}
<1>1. t \in Nat
  BY TopIs
<1>2. DOMAIN proof = 1 .. t /\ proof = [h \in 1 .. t |-> proof[h]]
  BY DEF Proof
<1>3. Len(proof) = t
  <2> HIDE DEF proof, t
  <2> QED BY <1>1, <1>2, AsLong
<1>4. \A h \in Nat : h < t =>
        proof[h + 1] = Levels(leaves)[h][Sibling(Halving(i)[h], Len(Levels(leaves)[h])) + 1]
  <2> SUFFICES ASSUME NEW h \in Nat, h < t
               PROVE  proof[h + 1] =
                        Levels(leaves)[h][Sibling(Halving(i)[h], Len(Levels(leaves)[h])) + 1]
    OBVIOUS
  <2>1. h + 1 \in 1 .. t /\ (h + 1) - 1 = h
    BY <1>1
  <2> HIDE DEF t
  <2> QED BY <2>1 DEF Proof, t
<1>5. /\ climb[0] = leaves[i + 1]
      /\ \A h \in Nat : climb[h + 1] = Join(climb[h], Halving(i)[h], proof[h + 1])
  <2> HIDE DEF proof
  <2> QED BY ClimbUnfolds
<1> HIDE DEF proof, climb, t
<1>6. 0 \in S
  BY <1>5, PathEnds
<1>7. ASSUME NEW h \in S PROVE h + 1 \in S
  <2>1. h \in Nat
    OBVIOUS
  <2>2. ASSUME h + 1 <= t PROVE climb[h + 1] = OnPath(leaves, i, h + 1)
    <3>1. h < t /\ climb[h] = OnPath(leaves, i, h)
      BY <2>1, <2>2, <1>1
    <3>2. OnPath(leaves, i, h + 1) =
           Join(OnPath(leaves, i, h), Halving(i)[h],
                Levels(leaves)[h][Sibling(Halving(i)[h], Len(Levels(leaves)[h])) + 1])
      BY <2>1, PathClimbs
    <3> QED BY <2>1, <3>1, <3>2, <1>4, <1>5
  <2> QED BY <2>1, <2>2
<1>8. Nat \subseteq S
  <2> HIDE DEF S
  <2> QED BY <1>6, <1>7, Induction
<1>9. climb[t] = OnPath(leaves, i, t)
  BY <1>1, <1>8
<1> QED BY <1>3, <1>9, PathEnds DEF t, proof, climb

(* Whatever the proof says, only the page itself climbs to the root.           *)
LEMMA OnlyTheLeafLeads ==
  ASSUME NEW leaves, Len(leaves) \in Nat \ {0}, NEW i \in 0 .. Len(leaves) - 1,
         NEW digest, NEW proof,
         Climb(digest, i, proof)[Top(leaves)] = Levels(leaves)[Top(leaves)][1]
  PROVE  digest = leaves[i + 1]
<1> DEFINE t == Top(leaves)
           climb == Climb(digest, i, proof)
           S == {k \in Nat : k <= t => climb[t - k] = OnPath(leaves, i, t - k)}
<1>1. t \in Nat
  BY TopIs
<1>2. climb[0] = digest /\ \A h \in Nat : climb[h + 1] = Join(climb[h], Halving(i)[h], proof[h + 1])
  BY ClimbUnfolds
<1>3. climb[t] = OnPath(leaves, i, t)
  BY PathEnds
<1> HIDE DEF climb, t
<1>4. 0 \in S
  BY <1>1, <1>3
<1>5. ASSUME NEW k \in S PROVE k + 1 \in S
  <2>1. k \in Nat
    OBVIOUS
  <2>2. ASSUME k + 1 <= t PROVE climb[t - (k + 1)] = OnPath(leaves, i, t - (k + 1))
    <3> DEFINE h == t - (k + 1)
    <3>1. h \in Nat /\ h + 1 = t - k /\ k <= t
      BY <2>1, <2>2, <1>1
    <3>2. climb[h + 1] = OnPath(leaves, i, h + 1)
      BY <3>1
    <3> HIDE DEF h
    <3>3. climb[h + 1] = Join(climb[h], Halving(i)[h], proof[h + 1])
      BY <3>1, <1>2
    <3>4. OnPath(leaves, i, h + 1) =
           Join(OnPath(leaves, i, h), Halving(i)[h],
                Levels(leaves)[h][Sibling(Halving(i)[h], Len(Levels(leaves)[h])) + 1])
      BY <3>1, PathClimbs
    <3>5. climb[h] = OnPath(leaves, i, h)
      BY <3>2, <3>3, <3>4, JoinsOnce
    <3> QED BY <3>5 DEF h
  <2> QED BY <2>1, <2>2
<1>6. Nat \subseteq S
  <2> HIDE DEF S
  <2> QED BY <1>4, <1>5, Induction
<1>7. climb[0] = OnPath(leaves, i, 0)
  <2>1. t \in S
    BY <1>1, <1>6
  <2>2. t - t = 0
    BY <1>1
  <2> QED BY <2>1, <2>2
<1> QED BY <1>2, <1>7, PathEnds

-----------------------------------------------------------------------------
(* A page that is accepted is the page of its index                            *)

LEMMA LeavesAre ==
  ASSUME NEW T, NEW chunks \in Seq(T)
  PROVE  /\ Len(chunks) \in Nat /\ Len(Leaves(chunks)) = Len(chunks)
         /\ \A i \in 1 .. Len(chunks) : Leaves(chunks)[i] = PageHash(i - 1, chunks[i])
<1> DEFINE n == Len(chunks)
<1>1. n \in Nat /\ DOMAIN chunks = 1 .. n
  BY LenProperties
<1>2. Leaves(chunks) = [i \in 1 .. n |-> PageHash(i - 1, chunks[i])]
  BY <1>1 DEF Leaves
<1> HIDE DEF n
<1>3. Leaves(chunks) = [i \in 1 .. n |-> Leaves(chunks)[i]]
  BY <1>2
<1>4. Len(Leaves(chunks)) = n
  BY <1>1, <1>3, AsLong
<1> QED BY <1>1, <1>2, <1>4 DEF n

LEMMA RootIs ==
  ASSUME NEW T, NEW chunks \in Seq(T), Len(chunks) \in Nat \ {0}
  PROVE  Root(chunks) = Levels(Leaves(chunks))[Top(Leaves(chunks))][1]
<1>1. chunks # <<>>
  BY EmptySeq
<1> QED BY <1>1 DEF Root

(* Whatever is in the file, if page() accepts it under the root of these pages *)
(* then its records are those of the page of that index: an exchanged, cut or  *)
(* reordered page is refused (autonomous_inventory.py, 264-284).               *)
THEOREM AcceptedIsThePage ==
  ASSUME NEW T, NEW chunks \in Seq(T), NEW index \in 0 .. Len(chunks) - 1,
         NEW s, s.chunks = Len(chunks), s.root = Root(chunks),
         NEW file, PageAccepted(s, index, file)
  PROVE  file.records = chunks[index + 1]
<1> DEFINE leaves == Leaves(chunks)
           n == Len(chunks)
           digest == PageHash(index, file.records)
<1>1. n \in Nat /\ n # 0 /\ index + 1 \in 1 .. n /\ (index + 1) - 1 = index
  BY LenProperties
<1>2. Len(leaves) = n /\ leaves[index + 1] = PageHash(index, chunks[index + 1])
  BY <1>1, LeavesAre
<1>3. Root(chunks) = Levels(leaves)[Top(leaves)][1]
  BY <1>1, RootIs
<1>4. /\ Len(file.proof) = BitLength(n - 1)
      /\ Climb(digest, index, file.proof)[Len(file.proof)] = Root(chunks)
  BY DEF PageAccepted
<1> HIDE DEF leaves, n, digest
<1>5. Len(leaves) \in Nat \ {0} /\ index \in 0 .. Len(leaves) - 1
  BY <1>1, <1>2 DEF n
<1>6. Top(leaves) = BitLength(n - 1)
  BY <1>2, <1>5, TopIs
<1>7. Climb(digest, index, file.proof)[Top(leaves)] = Levels(leaves)[Top(leaves)][1]
  BY <1>3, <1>4, <1>6
<1>8. digest = leaves[index + 1]
  BY <1>5, <1>7, OnlyTheLeafLeads
<1> QED BY <1>2, <1>8 DEF digest, PageHash

(* The page as create() wrote it is accepted, for every number of pages and    *)
(* however the last page and the levels of the tree end (156-194, 264-301).    *)
THEOREM ThePageIsAccepted ==
  ASSUME NEW list \in Seq(Asset), Sorted("dates", list),
         NEW chunks, chunks = Pieces(list, ChunkSize), NEW index \in 0 .. Len(chunks) - 1,
         NEW s, s.total = Len(list), s.chunks = Len(chunks), s.root = Root(chunks)
  PROVE  PageAccepted(s, index, AttachProofs(chunks)[index + 1])
<1> DEFINE leaves == Leaves(chunks)
           n == Len(chunks)
           total == Len(list)
           k == ChunkSize
           r == index + 1
           piece == chunks[r]
           file == AttachProofs(chunks)[r]
<1>1. k \in Nat \ {0} /\ total \in Nat
  BY SizesAssumption, LenProperties
<1>2. /\ chunks \in Seq(Seq(Asset)) /\ n = Ceil(total, k) /\ DOMAIN chunks = 1 .. n
      /\ \A q \in 1 .. n :
           /\ chunks[q] \in Seq(Asset) /\ Len(chunks[q]) = Share(total, k, q)
           /\ \A i \in 1 .. Share(total, k, q) :
                (q - 1) * k + i \in 1 .. total /\ chunks[q][i] = list[(q - 1) * k + i]
  <2>1. CutInto(Pieces(list, ChunkSize), list, ChunkSize, Asset)
    BY <1>1, PiecesAre
  <2> QED BY <2>1, Zenon DEF CutInto
<1>3. n \in Nat
  BY <1>2, LenProperties
<1>4. n # 0 /\ r \in 1 .. n /\ r - 1 = index /\ index \in Nat
  BY <1>3
<1>5. file = [index |-> index, records |-> piece, proof |-> Proof(leaves, index)]
  <2> HIDE DEF piece, r, n
  <2>1. file = [index |-> r - 1, records |-> chunks[r], proof |-> Proof(leaves, r - 1)]
    BY <1>2, <1>4 DEF AttachProofs
  <2> QED BY <2>1, <1>4 DEF piece
<1>6. Len(leaves) = n /\ leaves[r] = PageHash(index, piece)
  <2> HIDE DEF n, r
  <2>1. /\ Len(chunks) \in Nat /\ Len(Leaves(chunks)) = Len(chunks)
        /\ \A i \in 1 .. Len(chunks) : Leaves(chunks)[i] = PageHash(i - 1, chunks[i])
    BY <1>2, LeavesAre
  <2> QED BY <2>1, <1>4 DEF n
<1>7. Root(chunks) = Levels(leaves)[Top(leaves)][1]
  <2> HIDE DEF leaves
  <2>1. Len(chunks) \in Nat \ {0}
    BY <1>3, <1>4
  <2> QED BY <2>1, <1>2, RootIs DEF leaves
<1> HIDE DEF file, leaves, n, piece
<1>8. /\ Len(leaves) \in Nat \ {0} /\ index \in 0 .. Len(leaves) - 1
      /\ leaves[index + 1] = PageHash(index, piece)
  BY <1>3, <1>4, <1>6
<1>9. /\ Len(Proof(leaves, index)) = Top(leaves)
      /\ Climb(PageHash(index, piece), index, Proof(leaves, index))[Top(leaves)]
           = Levels(leaves)[Top(leaves)][1]
  BY <1>8, ProofLeads
<1>10. Top(leaves) = BitLength(n - 1)
  BY <1>6, <1>8, TopIs
<1>11. Len(file.proof) = BitLength(s.chunks - 1)
  BY <1>5, <1>9, <1>10 DEF n
<1>12. Climb(PageHash(index, file.records), index, file.proof)[Len(file.proof)] = s.root
  BY <1>5, <1>7, <1>9
<1> HIDE DEF k, total, r
<1>13. /\ Len(piece) = Share(total, k, r)
       /\ \A i \in 1 .. Share(total, k, r) :
            (r - 1) * k + i \in 1 .. total /\ piece[i] = list[(r - 1) * k + i]
  BY <1>2, <1>4 DEF piece
<1>14. Len(file.records) = IF s.total - index * k < k THEN s.total - index * k ELSE k
  <2>1. r \in 1 .. Ceil(total, k)
    BY <1>2, <1>4
  <2>2. Share(total, k, r) \in 1 .. k /\ r * k = (r - 1) * k + k /\ (r - 1) * k \in Nat
    BY <2>1, <1>1, ShareIs
  <2>3. Share(total, k, r) = IF r * k < total THEN k ELSE total - (r - 1) * k
    BY DEF Share
  <2>4. s.total = total /\ index * k = (r - 1) * k
    BY <1>4 DEF total
  <2>5. ~(r * k < total) /\ ~(total - index * k < k) => total - index * k = k
    BY <2>2, <2>4, <1>1
  <2>6. r * k < total => ~(total - index * k < k)
    BY <2>2, <2>4, <1>1
  <2> QED BY <2>3, <2>4, <2>5, <2>6, <1>5, <1>13
<1>15. InOrder(file.records)
  <2> SUFFICES ASSUME NEW i \in 1 .. Len(piece) - 1 PROVE ~NewestFirst(piece[i + 1], piece[i])
    BY <1>5 DEF InOrder
  <2> DEFINE start == (r - 1) * k
  <2>1. Share(total, k, r) \in Nat /\ start \in Int
    <3>1. r \in 1 .. Ceil(total, k)
      BY <1>2, <1>4
    <3>2. Share(total, k, r) \in 1 .. k /\ (r - 1) * k \in Nat
      BY <3>1, <1>1, ShareIs
    <3> QED BY <3>2, <1>1
  <2>2. i \in 1 .. Share(total, k, r) /\ i + 1 \in 1 .. Share(total, k, r)
    BY <2>1, <1>13
  <2>3. /\ start + i \in 1 .. total /\ piece[i] = list[start + i]
        /\ start + (i + 1) \in 1 .. total /\ piece[i + 1] = list[start + (i + 1)]
    BY <2>2, <1>13
  <2> HIDE DEF start
  <2>4. start + i < start + (i + 1)
    BY <2>1, <2>2
  <2>5. DOMAIN list = 1 .. total
    BY LenProperties DEF total
  <2>6. ~Before("dates", list[start + (i + 1)], list[start + i])
    BY <2>3, <2>4, <2>5 DEF Sorted
  <2> QED BY <2>3, <2>6 DEF Before
<1> QED BY <1>5, <1>11, <1>12, <1>14, <1>15 DEF PageAccepted, file, k, r

-----------------------------------------------------------------------------
(* The inductive invariant                                                     *)

Chunks(list) == Pieces(Listing(list), ChunkSize)

Reached(list, p) == IF p * ChunkSize < Len(Listing(list)) THEN p * ChunkSize ELSE Len(Listing(list))

\* An inventory is made.
Made == phase \notin {"new", "refused"}

(* Nothing is kept of a library that is refused, and only one with duplicates  *)
(* is.                                                                         *)
NothingYet ==
  ~Made => /\ seen = <<>> /\ found = NotLooked
           /\ phase = "new" => ~damaged
           /\ phase = "refused" => ~UniqueIds(Valid(library))

(* The snapshot and, until a page is damaged, the pages are those of the       *)
(* library as it was listed.                                                   *)
SnapshotIsTheLibrary ==
  Made => /\ UniqueIds(Valid(library))
          /\ snap.total = Len(Listing(library))
          /\ snap.chunks = Len(Chunks(library))
          /\ snap.root = Root(Chunks(library))
          /\ ~damaged => pages = AttachProofs(Chunks(library))

(* What was yielded, over all walks, and what was looked up are the listing's. *)
SeenIsTheListing ==
  /\ seen \in Seq(Asset)
  /\ Made => /\ Len(seen) <= Len(Listing(library))
             /\ \A i \in 1 .. Len(seen) : seen[i] = Listing(library)[i]
             /\ \/ found.at = -1
                \/ /\ found.at \in 0 .. Len(seen) - 1
                   /\ found.asset = Listing(library)[found.at + 1]

(* Where a walk stands: what it still has to yield of the pages it has read    *)
(* follows what it has passed, and it never passes what no walk has yielded.   *)
WalkStands ==
  phase = "walking" =>
    /\ page \in 0 .. Len(Chunks(library))
    /\ position \in 0 .. Len(seen)
    /\ buffer \in Seq(Asset)
    /\ position + Len(buffer) = Reached(library, page)
    /\ \A i \in 1 .. Len(buffer) : buffer[i] = Listing(library)[position + i]

Ends ==
  /\ phase = "done" => Len(seen) = Len(Listing(library))
  /\ phase = "failed" => damaged

IInv ==
  /\ library \in Libraries
  /\ phase \in {"new", "refused", "stored", "walking", "failed", "done"}
  /\ NothingYet /\ SnapshotIsTheLibrary /\ SeenIsTheListing /\ WalkStands /\ Ends

LEMMA ReferenceIs == Reference = Expected(library)
  BY DEF Reference, Expected

(* What the invariant says of the library and its pages.                       *)
LEMMA TheLibrary ==
  ASSUME NEW list \in Libraries
  PROVE  /\ Listing(list) \in Seq(Asset) /\ Len(Listing(list)) \in Nat
         /\ Chunks(list) \in Seq(Seq(Asset))
         /\ Len(Chunks(list)) \in Nat /\ Len(Chunks(list)) = Ceil(Len(Listing(list)), ChunkSize)
         /\ DOMAIN Chunks(list) = 1 .. Len(Chunks(list))
         /\ Sorted("dates", Listing(list))
         /\ Len(Valid(list)) = Len(Listing(list))
         /\ UniqueIds(Valid(list)) => Listing(list) = Expected(list)
<1> DEFINE l == Listing(list)
<1>1. list \in Seq(Asset) /\ ChunkSize \in Nat \ {0}
  BY LibrariesAssumption, SizesAssumption
<1>2. /\ l \in Seq(Asset) /\ Sorted("dates", l) /\ Len(Valid(list)) = Len(l)
      /\ UniqueIds(Valid(list)) => l = Expected(list)
  BY <1>1, ListingIs
<1> HIDE DEF l
<1>3. Len(l) \in Nat
  BY <1>2, LenProperties
<1>4. /\ Pieces(l, ChunkSize) \in Seq(Seq(Asset))
      /\ Len(Pieces(l, ChunkSize)) = Ceil(Len(l), ChunkSize)
      /\ DOMAIN Pieces(l, ChunkSize) = 1 .. Ceil(Len(l), ChunkSize)
  <2>1. CutInto(Pieces(l, ChunkSize), l, ChunkSize, Asset)
    BY <1>1, <1>2, PiecesAre
  <2> QED BY <2>1 DEF CutInto
<1>5. Ceil(Len(l), ChunkSize) \in Nat
  BY <1>1, <1>3, CeilIs
<1> QED BY <1>2, <1>3, <1>4, <1>5 DEF Chunks, l

(* A page is a piece of the listing.                                           *)
LEMMA ThePages ==
  ASSUME NEW list \in Libraries, NEW r \in 1 .. Len(Chunks(list))
  PROVE  /\ Chunks(list)[r] \in Seq(Asset)
         /\ Len(Chunks(list)[r]) = Share(Len(Listing(list)), ChunkSize, r)
         /\ \A i \in 1 .. Share(Len(Listing(list)), ChunkSize, r) :
              /\ (r - 1) * ChunkSize + i \in 1 .. Len(Listing(list))
              /\ Chunks(list)[r][i] = Listing(list)[(r - 1) * ChunkSize + i]
<1> DEFINE l == Listing(list)
<1>1. l \in Seq(Asset) /\ ChunkSize \in Nat \ {0}
  BY TheLibrary, SizesAssumption
<1>2. r \in 1 .. Ceil(Len(l), ChunkSize)
  BY TheLibrary
<1> HIDE DEF l
<1>3. /\ Pieces(l, ChunkSize)[r] \in Seq(Asset)
      /\ Len(Pieces(l, ChunkSize)[r]) = Share(Len(l), ChunkSize, r)
      /\ \A i \in 1 .. Share(Len(l), ChunkSize, r) :
           /\ (r - 1) * ChunkSize + i \in 1 .. Len(l)
           /\ Pieces(l, ChunkSize)[r][i] = l[(r - 1) * ChunkSize + i]
  BY <1>1, <1>2, APieceIs
<1> QED BY <1>3 DEF Chunks, l

(* A page that is accepted is the one that was made, and one that was not      *)
(* damaged is accepted.                                                        *)
LEMMA PagesAreChecked ==
  ASSUME IInv, Made, NEW index \in 0 .. snap.chunks - 1
  PROVE  /\ PageAccepted(snap, index, pages[index + 1])
              => pages[index + 1].records = Chunks(library)[index + 1]
         /\ ~damaged => PageAccepted(snap, index, pages[index + 1])
<1> DEFINE chunks == Chunks(library)
           l == Listing(library)
<1>1. library \in Libraries
  BY DEF IInv
<1>2. /\ snap.total = Len(l) /\ snap.chunks = Len(chunks) /\ snap.root = Root(chunks)
      /\ ~damaged => pages = AttachProofs(chunks)
  BY DEF IInv, SnapshotIsTheLibrary
<1>3. l \in Seq(Asset) /\ Sorted("dates", l) /\ chunks \in Seq(Seq(Asset))
  BY <1>1, TheLibrary
<1>4. chunks = Pieces(l, ChunkSize)
  BY DEF Chunks
<1>5. index \in 0 .. Len(chunks) - 1
  BY <1>2
<1> HIDE DEF chunks, l
<1>6. ASSUME PageAccepted(snap, index, pages[index + 1])
      PROVE  pages[index + 1].records = chunks[index + 1]
  <2> DEFINE T == Seq(Asset)
  <2>1. chunks \in Seq(T)
    BY <1>3
  <2> HIDE DEF T
  <2> QED BY <2>1, <1>2, <1>5, <1>6, AcceptedIsThePage
<1>7. ASSUME ~damaged PROVE PageAccepted(snap, index, pages[index + 1])
  <2>1. PageAccepted(snap, index, AttachProofs(chunks)[index + 1])
    BY <1>2, <1>3, <1>4, <1>5, ThePageIsAccepted
  <2> QED BY <2>1, <1>2, <1>7
<1> QED BY <1>6, <1>7 DEF chunks

LEMMA StartsRight ==
  ASSUME Init
  PROVE  IInv
<1>1. phase = "new" /\ seen = <<>> /\ found = NotLooked /\ ~damaged /\ library \in Libraries
  BY DEF Init
<1>2. seen \in Seq(Asset)
  BY <1>1, EmptySeq
<1> QED BY <1>1, <1>2 DEF IInv, NothingYet, SnapshotIsTheLibrary, SeenIsTheListing, WalkStands,
                          Ends, Made

LEMMA CreateKeeps ==
  ASSUME IInv, Create
  PROVE  IInv'
<1>1. library \in Libraries /\ library' = library /\ phase = "new" /\ damaged' = damaged
      /\ seen' = seen /\ found' = found
  BY DEF IInv, Create
<1>2. seen = <<>> /\ found = NotLooked /\ ~damaged /\ seen \in Seq(Asset)
  BY <1>1 DEF IInv, NothingYet, SeenIsTheListing, Made
<1>3. library \in Seq(Asset)
  BY <1>1, LibrariesAssumption
<1> DEFINE byId == SortedRecords(Valid(library), "ids")
<1>4. HasDuplicates(byId) <=> ~UniqueIds(Valid(library))
  BY <1>3, ListingIs
<1>5. CASE HasDuplicates(byId)
  <2>1. phase' = "refused"
    BY <1>5 DEF Create
  <2>2. ~UniqueIds(Valid(library'))
    BY <1>1, <1>4, <1>5
  <2> QED BY <1>1, <1>2, <2>1, <2>2
          DEF IInv, NothingYet, SnapshotIsTheLibrary, SeenIsTheListing, WalkStands, Ends, Made
<1>6. CASE ~HasDuplicates(byId)
  <2>1. /\ phase' = "stored" /\ pages' = AttachProofs(Chunks(library))
        /\ snap' = [total |-> Len(Valid(library)), invalid |-> Len(library) - Len(Valid(library)),
                    chunks |-> Len(Chunks(library)), root |-> Root(Chunks(library))]
    BY <1>6 DEF Create, Chunks, Listing
  <2>2. Len(Valid(library)) = Len(Listing(library)) /\ Len(Listing(library)) \in Nat
    BY <1>1, TheLibrary
  <2>3. SnapshotIsTheLibrary'
    BY <1>1, <1>4, <1>6, <2>1, <2>2 DEF SnapshotIsTheLibrary
  <2>4. SeenIsTheListing'
    <3>1. Len(seen') = 0 /\ found'.at = -1 /\ seen' \in Seq(Asset)
      BY <1>1, <1>2, EmptySeq DEF NotLooked
    <3>2. Len(Listing(library')) \in Nat
      BY <1>1, <2>2
    <3> QED BY <3>1, <3>2 DEF SeenIsTheListing
  <2> QED BY <1>1, <2>1, <2>3, <2>4 DEF IInv, NothingYet, WalkStands, Ends, Made
<1> QED BY <1>5, <1>6

LEMMA DamageKeeps ==
  ASSUME IInv, Damage
  PROVE  IInv'
<1>1. /\ phase = "stored" /\ damaged' = TRUE
      /\ UNCHANGED <<library, phase, snap, page, buffer, position, seen, found, restarts>>
  BY DEF Damage
<1>2. SeenIsTheListing'
  BY <1>1 DEF IInv, SeenIsTheListing, Made
<1>3. SnapshotIsTheLibrary'
  BY <1>1 DEF IInv, SnapshotIsTheLibrary, Made
<1> QED BY <1>1, <1>2, <1>3 DEF IInv, NothingYet, WalkStands, Ends, Made

LEMMA OpenKeeps ==
  ASSUME IInv, Open
  PROVE  IInv'
<1>1. /\ phase = "stored" /\ page' = 0 /\ buffer' = <<>> /\ position' = 0
      /\ phase' = (IF MetadataAccepted THEN "walking" ELSE "failed")
      /\ UNCHANGED <<library, snap, pages, damaged, seen, found, restarts>>
  BY DEF Open
<1>2. library \in Libraries /\ Made
  BY <1>1 DEF IInv, Made
<1>3. /\ Len(Chunks(library)) \in Nat /\ Len(Listing(library)) \in Nat
      /\ Len(Chunks(library)) = Ceil(Len(Listing(library)), ChunkSize)
  BY <1>2, TheLibrary
<1>4. MetadataAccepted
  BY <1>2, <1>3 DEF IInv, SnapshotIsTheLibrary, MetadataAccepted
<1>5. phase' = "walking"
  BY <1>1, <1>4
<1>6. SeenIsTheListing'
  BY <1>1, <1>2, <1>5 DEF IInv, SeenIsTheListing, Made
<1>7. SnapshotIsTheLibrary'
  BY <1>1, <1>2, <1>5 DEF IInv, SnapshotIsTheLibrary, Made
<1>8. WalkStands'
  <2>1. seen \in Seq(Asset)
    BY DEF IInv, SeenIsTheListing
  <2>2. Len(seen') \in Nat
    BY <1>1, <2>1, LenProperties
  <2>3. buffer' \in Seq(Asset) /\ Len(buffer') = 0
    BY <1>1, EmptySeq
  <2>4. Reached(library', page') = 0
    BY <1>1, <1>3, SizesAssumption DEF Reached
  <2>5. page' \in 0 .. Len(Chunks(library')) /\ position' \in 0 .. Len(seen')
    BY <1>1, <1>3, <2>2
  <2>6. position' + Len(buffer') = Reached(library', page')
    BY <1>1, <2>3, <2>4
  <2>7. \A i \in 1 .. Len(buffer') : buffer'[i] = Listing(library')[position' + i]
    BY <2>3
  <2> QED BY <2>3, <2>5, <2>6, <2>7 DEF WalkStands
<1> QED BY <1>1, <1>2, <1>5, <1>6, <1>7, <1>8 DEF IInv, NothingYet, Ends, Made

LEMMA ReadPageKeeps ==
  ASSUME IInv, ReadPage
  PROVE  IInv'
<1>1. /\ phase = "walking" /\ buffer = <<>> /\ page < snap.chunks
      /\ UNCHANGED <<library, snap, pages, damaged, position, seen, found, restarts>>
  BY DEF ReadPage
<1>2. library \in Libraries /\ Made
  BY <1>1 DEF IInv, Made
<1> DEFINE chunks == Chunks(library)
           total == Len(Listing(library))
           k == ChunkSize
<1>3. Len(chunks) \in Nat /\ total \in Nat /\ Len(chunks) = Ceil(total, k) /\ k \in Nat \ {0}
  BY <1>2, TheLibrary, SizesAssumption
<1>4. /\ page \in 0 .. Len(chunks) /\ position \in 0 .. Len(seen)
      /\ position + Len(buffer) = Reached(library, page)
  BY <1>1 DEF IInv, WalkStands
<1>5. snap.chunks = Len(chunks)
  BY <1>2 DEF IInv, SnapshotIsTheLibrary
<1>6. seen \in Seq(Asset) /\ Len(seen) \in Nat
  BY LenProperties DEF IInv, SeenIsTheListing
<1>7. page \in 0 .. snap.chunks - 1 /\ page \in Nat /\ page + 1 \in 1 .. Len(chunks)
      /\ page + 1 \in Nat \ {0} /\ (page + 1) - 1 = page
  BY <1>1, <1>3, <1>4, <1>5
<1>8. CASE PageAccepted(snap, page, pages[page + 1])
  <2>1. buffer' = pages[page + 1].records /\ page' = page + 1 /\ phase' = "walking"
    BY <1>1, <1>8 DEF ReadPage
  <2>2. buffer' = chunks[page + 1]
    BY <1>2, <1>7, <1>8, <2>1, PagesAreChecked
  <2>3. /\ chunks[page + 1] \in Seq(Asset)
        /\ Len(chunks[page + 1]) = Share(total, k, page + 1)
        /\ \A i \in 1 .. Share(total, k, page + 1) :
             chunks[page + 1][i] = Listing(library)[((page + 1) - 1) * k + i]
    BY <1>2, <1>7, ThePages
  <2>4. position = page * k /\ page * k \in Nat
    <3>1. ((page + 1) - 1) * k < total /\ ((page + 1) - 1) * k \in Nat
      <4> HIDE DEF k, total
      <4>1. page + 1 <= Ceil(total, k) /\ page + 1 \in 1 .. Ceil(total, k)
        BY <1>3, <1>7
      <4>2. ((page + 1) - 1) * k < total
        BY <4>1, <1>3, <1>7, CeilIs
      <4>3. ((page + 1) - 1) * k \in Nat
        BY <4>1, <1>3, <1>7, ShareIs
      <4> QED BY <4>2, <4>3
    <3>2. Len(buffer) = 0
      BY <1>1, EmptySeq
    <3>3. page * k < total /\ page * k \in Nat
      BY <3>1, <1>7
    <3>4. Reached(library, page) = page * k
      BY <3>3 DEF Reached
    <3>5. position \in Nat
      BY <1>4, <1>6
    <3> QED BY <3>2, <3>3, <3>4, <3>5, <1>4
  <2>5. position + Share(total, k, page + 1) = Reached(library, page + 1)
    <3>1. Share(total, k, page + 1) =
            IF (page + 1) * k < total THEN k ELSE total - ((page + 1) - 1) * k
      BY DEF Share
    <3>2. Reached(library, page + 1) = IF (page + 1) * k < total THEN (page + 1) * k ELSE total
      BY DEF Reached
    <3>3. (page + 1) * k = page * k + k /\ ((page + 1) - 1) * k = page * k
      BY <1>3, <1>7
    <3> HIDE DEF k, total
    <3> QED BY <3>1, <3>2, <3>3, <2>4, <1>3
  <2>6. WalkStands'
    <3>1. page' \in 0 .. Len(Chunks(library'))
      BY <1>1, <1>3, <1>7, <2>1
    <3>2. position' \in 0 .. Len(seen')
      BY <1>1, <1>4
    <3>3. buffer' \in Seq(Asset) /\ Len(buffer') = Share(total, k, page + 1)
      BY <2>2, <2>3
    <3>4. position' + Len(buffer') = Reached(library', page')
      BY <1>1, <2>1, <2>5, <3>3
    <3>5. \A i \in 1 .. Len(buffer') : buffer'[i] = Listing(library')[position' + i]
      BY <1>1, <1>7, <2>2, <2>3, <2>4, <3>3
    <3> QED BY <3>1, <3>2, <3>3, <3>4, <3>5 DEF WalkStands
  <2>7. SeenIsTheListing'
    BY <1>1, <1>2, <2>1 DEF IInv, SeenIsTheListing, Made
  <2>8. SnapshotIsTheLibrary'
    BY <1>1, <1>2, <2>1 DEF IInv, SnapshotIsTheLibrary, Made
  <2> QED BY <1>1, <1>2, <2>1, <2>6, <2>7, <2>8 DEF IInv, NothingYet, Ends, Made
<1>9. CASE ~PageAccepted(snap, page, pages[page + 1])
  <2>1. phase' = "failed" /\ UNCHANGED <<buffer, page>>
    BY <1>9 DEF ReadPage
  <2>2. damaged
    BY <1>2, <1>7, <1>9, PagesAreChecked
  <2>3. SeenIsTheListing'
    BY <1>1, <1>2, <2>1 DEF IInv, SeenIsTheListing, Made
  <2>4. SnapshotIsTheLibrary'
    BY <1>1, <1>2, <2>1 DEF IInv, SnapshotIsTheLibrary, Made
  <2> QED BY <1>1, <1>2, <2>1, <2>2, <2>3, <2>4 DEF IInv, NothingYet, WalkStands, Ends, Made
<1> QED BY <1>8, <1>9

LEMMA YieldKeeps ==
  ASSUME IInv, Yield
  PROVE  IInv'
<1>1. /\ phase = "walking" /\ buffer # <<>>
      /\ seen' = (IF position < Len(seen) THEN seen ELSE Append(seen, Head(buffer)))
      /\ buffer' = Tail(buffer) /\ position' = position + 1
      /\ UNCHANGED <<library, phase, snap, pages, damaged, page, found, restarts>>
  BY DEF Yield
<1>2. library \in Libraries /\ Made
  BY <1>1 DEF IInv, Made
<1> DEFINE l == Listing(library)
           n == Len(seen)
           m == Len(buffer)
<1>3. Len(l) \in Nat /\ Len(Chunks(library)) \in Nat /\ l \in Seq(Asset)
  BY <1>2, TheLibrary
<1>4. /\ seen \in Seq(Asset) /\ n <= Len(l) /\ \A i \in 1 .. n : seen[i] = l[i]
      /\ \/ found.at = -1
         \/ found.at \in 0 .. n - 1 /\ found.asset = l[found.at + 1]
  BY <1>2 DEF IInv, SeenIsTheListing
<1>5. n \in Nat
  BY <1>4, LenProperties
<1>6. /\ page \in 0 .. Len(Chunks(library)) /\ position \in 0 .. n /\ buffer \in Seq(Asset)
      /\ position + m = Reached(library, page)
      /\ \A i \in 1 .. m : buffer[i] = l[position + i]
  BY <1>1 DEF IInv, WalkStands
<1>7. m \in Nat /\ m # 0 /\ Head(buffer) = buffer[1] /\ Head(buffer) \in Asset
      /\ buffer' \in Seq(Asset) /\ Len(buffer') = m - 1
      /\ \A i \in 1 .. m - 1 : buffer'[i] = buffer[i + 1]
  <2>1. m \in Nat /\ m # 0
    BY <1>1, <1>6, EmptySeq
  <2>2. /\ Head(buffer) \in Asset /\ Tail(buffer) \in Seq(Asset) /\ Len(Tail(buffer)) = m - 1
        /\ \A i \in 1 .. Len(Tail(buffer)) : Tail(buffer)[i] = buffer[i + 1]
    BY <1>1, <1>6, HeadTailProperties
  <2>3. Head(buffer) = buffer[1]
    OBVIOUS
  <2> QED BY <2>1, <2>2, <2>3, <1>1
<1>8. Reached(library, page) <= Len(l)
  <2>1. Reached(library, page) = IF page * ChunkSize < Len(l) THEN page * ChunkSize ELSE Len(l)
    BY DEF Reached
  <2>2. page \in Nat /\ ChunkSize \in Nat
    BY <1>3, <1>6, SizesAssumption
  <2>3. page * ChunkSize \in Int
    BY <2>2
  <2> HIDE DEF l
  <2> QED BY <2>1, <2>3, <1>3
<1>9. position + 1 <= Len(l) /\ position \in Nat
  <2> HIDE DEF l, n, m
  <2> QED BY <1>3, <1>5, <1>6, <1>7, <1>8
<1>10. Head(buffer) = l[position + 1]
  <2>1. 1 \in 1 .. m
    BY <1>7
  <2> QED BY <2>1, <1>6, <1>7
<1>11. /\ seen' \in Seq(Asset) /\ Len(seen') \in Nat /\ n <= Len(seen') /\ Len(seen') <= Len(l)
       /\ \A i \in 1 .. Len(seen') : seen'[i] = l[i]
       /\ position + 1 <= Len(seen')
  <2>1. CASE position < n
    BY <2>1, <1>1, <1>4, <1>5, <1>9
  <2>2. CASE ~(position < n)
    <3>1. position = n
      BY <2>2, <1>5, <1>6
    <3>2. seen' = Append(seen, Head(buffer))
      BY <2>2, <1>1
    <3>3. /\ seen' \in Seq(Asset) /\ Len(seen') = n + 1
          /\ \A i \in 1 .. n : seen'[i] = seen[i]
          /\ seen'[n + 1] = Head(buffer)
      BY <3>2, <1>4, <1>7, AppendProperties
    <3>4. \A i \in 1 .. n + 1 : i \in 1 .. n \/ i = n + 1
      BY <1>5
    <3>5. \A i \in 1 .. n + 1 : seen'[i] = l[i]
      <4> HIDE DEF l, n
      <4> QED BY <3>1, <3>3, <3>4, <1>4, <1>10
    <3> HIDE DEF l, n
    <3> QED BY <3>1, <3>3, <3>5, <1>5, <1>9
  <2> QED BY <2>1, <2>2
<1>12. SeenIsTheListing'
  <2>1. found'.at = -1 \/ (found'.at \in 0 .. Len(seen') - 1 /\ found'.asset = l[found'.at + 1])
    <3> HIDE DEF l, n
    <3> QED BY <1>1, <1>4, <1>5, <1>11
  <2> QED BY <1>1, <1>11, <2>1 DEF SeenIsTheListing
<1>13. SnapshotIsTheLibrary'
  BY <1>1, <1>2 DEF IInv, SnapshotIsTheLibrary, Made
<1>14. WalkStands'
  <2>1. page' \in 0 .. Len(Chunks(library')) /\ position' \in 0 .. Len(seen')
    BY <1>1, <1>6, <1>9, <1>11
  <2>2. position' + Len(buffer') = Reached(library', page')
    <3>1. position' + Len(buffer') = position + m
      BY <1>1, <1>7, <1>9
    <3> QED BY <3>1, <1>1, <1>6
  <2>3. \A i \in 1 .. Len(buffer') : buffer'[i] = Listing(library')[position' + i]
    <3> SUFFICES ASSUME NEW i \in 1 .. m - 1 PROVE buffer'[i] = l[position' + i]
      BY <1>1, <1>7
    <3>1. i + 1 \in 1 .. m /\ position' + i = position + (i + 1)
      BY <1>1, <1>7, <1>9
    <3> HIDE DEF l, m
    <3> QED BY <3>1, <1>6, <1>7
  <2> QED BY <1>7, <2>1, <2>2, <2>3 DEF WalkStands
<1> QED BY <1>1, <1>2, <1>12, <1>13, <1>14 DEF IInv, NothingYet, Ends, Made

LEMMA EndWalkKeeps ==
  ASSUME IInv, EndWalk
  PROVE  IInv'
<1>1. /\ phase = "walking" /\ buffer = <<>> /\ page = snap.chunks /\ phase' = "done"
      /\ UNCHANGED <<library, snap, pages, damaged, page, buffer, position, seen, found, restarts>>
  BY DEF EndWalk
<1>2. library \in Libraries /\ Made
  BY <1>1 DEF IInv, Made
<1> DEFINE total == Len(Listing(library))
           c == Len(Chunks(library))
<1>3. total \in Nat /\ c \in Nat /\ c = Ceil(total, ChunkSize) /\ ChunkSize \in Nat \ {0}
  BY <1>2, TheLibrary, SizesAssumption
<1>4. page = c
  BY <1>1, <1>2 DEF IInv, SnapshotIsTheLibrary
<1>5. position \in 0 .. Len(seen) /\ position + Len(buffer) = Reached(library, page)
  BY <1>1 DEF IInv, WalkStands
<1>6. seen \in Seq(Asset) /\ Len(seen) \in Nat /\ Len(seen) <= total
  BY <1>2, LenProperties DEF IInv, SeenIsTheListing
<1>7. Reached(library, page) = total
  <2>1. ~(c * ChunkSize < total)
    <3> HIDE DEF total, c
    <3>1. total <= c * ChunkSize
      BY <1>3, CeilIs
    <3>2. c * ChunkSize \in Int
      BY <1>3
    <3> QED BY <3>1, <3>2, <1>3
  <2> QED BY <2>1, <1>4 DEF Reached
<1>8. Len(seen) = total
  <2>1. Len(buffer) = 0
    BY <1>1, EmptySeq
  <2> HIDE DEF total
  <2> QED BY <2>1, <1>3, <1>5, <1>6, <1>7
<1>9. SeenIsTheListing'
  BY <1>1, <1>2 DEF IInv, SeenIsTheListing, Made
<1>10. SnapshotIsTheLibrary'
  BY <1>1, <1>2 DEF IInv, SnapshotIsTheLibrary, Made
<1> QED BY <1>1, <1>2, <1>8, <1>9, <1>10 DEF IInv, NothingYet, WalkStands, Ends, Made

LEMMA RestartKeeps ==
  ASSUME IInv, Restart
  PROVE  IInv'
<1>1. /\ phase = "walking" /\ phase' = "stored" /\ found' = NotLooked
      /\ UNCHANGED <<library, snap, pages, damaged, seen>>
  BY DEF Restart
<1>2. Made
  BY <1>1 DEF Made
<1>3. SeenIsTheListing'
  BY <1>1, <1>2 DEF IInv, SeenIsTheListing, Made, NotLooked
<1>4. SnapshotIsTheLibrary'
  BY <1>1, <1>2 DEF IInv, SnapshotIsTheLibrary, Made
<1> QED BY <1>1, <1>3, <1>4 DEF IInv, NothingYet, WalkStands, Ends, Made

LEMMA LookupKeeps ==
  ASSUME IInv, NEW at \in 0 .. snap.total - 1, Lookup(at)
  PROVE  IInv'
<1> DEFINE index == at \div ChunkSize
           file == pages[index + 1]
           l == Listing(library)
           total == Len(l)
           k == ChunkSize
<1>1. /\ phase \in {"walking", "done"} /\ at < Len(seen)
      /\ IF PageAccepted(snap, index, file)
         THEN found' = [at |-> at, asset |-> file.records[(at % k) + 1]] /\ UNCHANGED phase
         ELSE phase' = "failed" /\ UNCHANGED found
      /\ UNCHANGED <<library, snap, pages, damaged, page, buffer, position, seen, restarts>>
  BY DEF Lookup
<1>2. library \in Libraries /\ Made
  BY <1>1 DEF IInv, Made
<1>3. total \in Nat /\ k \in Nat \ {0} /\ Len(Chunks(library)) = Ceil(total, k)
      /\ Len(Chunks(library)) \in Nat
  BY <1>2, TheLibrary, SizesAssumption
<1>4. snap.total = total /\ snap.chunks = Len(Chunks(library))
  BY <1>2 DEF IInv, SnapshotIsTheLibrary
<1>5. at \in Nat /\ at + 1 \in 1 .. total /\ (at + 1) - 1 = at
  BY <1>3, <1>4
<1>6. /\ index + 1 \in 1 .. Ceil(total, k) /\ (at % k) + 1 \in 1 .. Share(total, k, index + 1)
      /\ index * k + (at % k) + 1 = at + 1 /\ index \in Nat /\ at % k \in 0 .. k - 1
  <2> HIDE DEF total, k
  <2>1. /\ (((at + 1) - 1) \div k) + 1 \in 1 .. Ceil(total, k)
        /\ (((at + 1) - 1) % k) + 1 \in 1 .. Share(total, k, (((at + 1) - 1) \div k) + 1)
        /\ (((at + 1) - 1) \div k) * k + (((at + 1) - 1) % k) + 1 = at + 1
        /\ ((at + 1) - 1) \div k \in Nat /\ ((at + 1) - 1) % k \in 0 .. k - 1
    BY <1>3, <1>5, WhichPiece
  <2> QED BY <2>1, <1>5 DEF k
<1> HIDE DEF index, file
<1>7. index \in 0 .. snap.chunks - 1 /\ index + 1 \in 1 .. Len(Chunks(library))
      /\ (index + 1) - 1 = index
  BY <1>3, <1>4, <1>6
<1>8. SnapshotIsTheLibrary'
  <2>1. Made'
    BY <1>1 DEF Made
  <2> QED BY <1>1, <1>2 DEF IInv, SnapshotIsTheLibrary
<1>9. /\ seen \in Seq(Asset) /\ Len(seen) \in Nat /\ Len(seen) <= total
      /\ \A i \in 1 .. Len(seen) : seen[i] = l[i]
  BY <1>2, LenProperties DEF IInv, SeenIsTheListing
<1>10. CASE PageAccepted(snap, index, file)
  <2>1. found'.at = at /\ found'.asset = file.records[(at % k) + 1] /\ phase' = phase
    BY <1>1, <1>10
  <2>2. file.records = Chunks(library)[index + 1]
    BY <1>2, <1>7, <1>10, PagesAreChecked DEF file
  <2>3. Chunks(library)[index + 1][(at % k) + 1] = l[((index + 1) - 1) * k + ((at % k) + 1)]
    BY <1>2, <1>6, <1>7, ThePages
  <2>4. ((index + 1) - 1) * k + ((at % k) + 1) = at + 1
    <3>1. index * k \in Int
      BY <1>3, <1>6
    <3> HIDE DEF k
    <3> QED BY <3>1, <1>6, <1>7, <1>3
  <2>5. found'.asset = l[at + 1]
    BY <2>1, <2>2, <2>3, <2>4
  <2>6. found'.at \in 0 .. Len(seen) - 1
    BY <2>1, <1>1, <1>5, <1>9
  <2>7. SeenIsTheListing'
    BY <1>1, <1>9, <2>1, <2>5, <2>6 DEF SeenIsTheListing
  <2>8. WalkStands'
    BY <1>1, <2>1 DEF IInv, WalkStands
  <2>9. Ends'
    BY <1>1, <2>1 DEF IInv, Ends
  <2> QED BY <1>1, <1>2, <1>8, <2>1, <2>7, <2>8, <2>9 DEF IInv, NothingYet, Made
<1>11. CASE ~PageAccepted(snap, index, file)
  <2>1. phase' = "failed" /\ found' = found
    BY <1>1, <1>11
  <2>2. damaged
    BY <1>2, <1>7, <1>11, PagesAreChecked DEF file
  <2>3. SeenIsTheListing'
    BY <1>1, <1>2, <2>1 DEF IInv, SeenIsTheListing, Made
  <2> QED BY <1>1, <1>2, <1>8, <2>1, <2>2, <2>3 DEF IInv, NothingYet, WalkStands, Ends, Made
<1> QED BY <1>10, <1>11

LEMMA StaysRight ==
  ASSUME IInv, [Next]_vars
  PROVE  IInv'
<1>1. CASE UNCHANGED vars
  BY <1>1 DEF vars, IInv, NothingYet, SnapshotIsTheLibrary, SeenIsTheListing, WalkStands, Ends, Made
<1>2. CASE \E at \in 0 .. snap.total - 1 : Lookup(at)
  BY <1>2, LookupKeeps
<1> QED BY <1>1, <1>2, CreateKeeps, DamageKeeps, OpenKeeps, ReadPageKeeps, YieldKeeps, EndWalkKeeps,
           RestartKeeps DEF Next

LEMMA ThenTheWalkIsTheLibrary ==
  ASSUME IInv
  PROVE  WalkIsTheLibrary
<1>1. library \in Libraries
  BY DEF IInv
<1>2. library \in Seq(Asset)
  BY <1>1, LibrariesAssumption
<1>3. CASE ~Made
  <2>1. seen = <<>> /\ found = NotLooked /\ (phase = "refused" => ~UniqueIds(Valid(library)))
        /\ phase \in {"new", "refused"}
    BY <1>3 DEF IInv, NothingYet, Made
  <2>2. IsPrefix(seen, Reference)
    <3>1. Len(seen) = 0 /\ Len(Reference) \in Nat
      <4> DEFINE S == ToSet(Valid(library))
      <4>1. Valid(library) \in Seq(Asset)
        BY <1>2, ValidIs
      <4>2. IsFiniteSet(S)
        <5>1. /\ Len(Valid(library)) \in Nat /\ DOMAIN Valid(library) = 1 .. Len(Valid(library))
              /\ IsFiniteSet(1 .. Len(Valid(library)))
          BY <4>1, LenProperties, FS_Interval
        <5> DEFINE f == [i \in 1 .. Len(Valid(library)) |-> Valid(library)[i]]
        <5>2. f \in Surjection(1 .. Len(Valid(library)), S)
          BY <5>1 DEF ToSet, Surjection
        <5> HIDE DEF f, S
        <5> QED BY <5>1, <5>2, FS_Surjection
      <4>3. Cardinality(S) \in Nat
        BY <4>2, FS_CardinalityType
      <4> HIDE DEF S
      <4>4. Reference = [n \in 1 .. Cardinality(S) |-> Reference[n]]
        BY DEF Reference, S
      <4>5. Len(Reference) = Cardinality(S)
        BY <4>3, <4>4, AsLong
      <4> QED BY <2>1, <4>3, <4>5, EmptySeq
    <3>2. SubSeq(seen, 1, 0) = SubSeq(Reference, 1, 0)
      BY SubSeqEmpty
    <3> QED BY <3>1, <3>2 DEF IsPrefix
  <2> QED BY <2>1, <2>2 DEF WalkIsTheLibrary, NotLooked
<1>4. CASE Made
  <2> DEFINE l == Listing(library)
  <2>1. UniqueIds(Valid(library))
    BY <1>4 DEF IInv, SnapshotIsTheLibrary
  <2>2. l = Reference /\ l \in Seq(Asset) /\ Len(l) \in Nat
    BY <1>1, <2>1, TheLibrary, ReferenceIs
  <2>3. /\ seen \in Seq(Asset) /\ Len(seen) <= Len(l)
        /\ \A i \in 1 .. Len(seen) : seen[i] = l[i]
        /\ found.at = -1 \/ found.asset = l[found.at + 1]
    BY <1>4 DEF IInv, SeenIsTheListing
  <2> HIDE DEF l
  <2>4. Len(seen) \in Nat
    BY <2>3, LenProperties
  <2>5. seen = SubSeq(l, 1, Len(seen))
    <3>1. \A i \in 1 .. Len(seen) : l[i] \in Asset
      BY <2>2, <2>3, <2>4, ElementOfSeq
    <3>2. /\ SubSeq(l, 1, Len(seen)) \in Seq(Asset)
          /\ Len(SubSeq(l, 1, Len(seen))) = Len(seen)
          /\ \A i \in 1 .. Len(seen) : SubSeq(l, 1, Len(seen))[i] = l[i]
      <4>1. /\ SubSeq(l, 1, Len(seen)) \in Seq(Asset)
            /\ Len(SubSeq(l, 1, Len(seen))) =
                 IF 1 <= Len(seen) THEN Len(seen) - 1 + 1 ELSE 0
            /\ \A i \in 1 .. Len(seen) - 1 + 1 : SubSeq(l, 1, Len(seen))[i] = l[1 + i - 1]
        BY <3>1, <2>4, SubSeqProperties
      <4>2. Len(seen) - 1 + 1 = Len(seen) /\ \A i \in 1 .. Len(seen) : 1 + i - 1 = i
        BY <2>4
      <4>3. \A i \in 1 .. Len(seen) : SubSeq(l, 1, Len(seen))[i] = l[i]
        BY <4>1, <4>2
      <4> QED BY <4>1, <4>3, <2>4
    <3> QED BY <3>2, <2>3, SeqEqual
  <2>6. SubSeq(seen, 1, Len(seen)) = seen
    BY <2>3, SubSeqFull
  <2>7. IsPrefix(seen, l)
    BY <2>3, <2>5, <2>6 DEF IsPrefix
  <2>8. phase = "done" => seen = l
    <3>1. phase = "done" => Len(seen) = Len(l)
      BY DEF IInv, Ends, l
    <3>2. SubSeq(l, 1, Len(l)) = l
      BY <2>2, SubSeqFull
    <3> QED BY <3>1, <3>2, <2>5
  <2>9. phase = "failed" => damaged
    BY DEF IInv, Ends
  <2> QED BY <1>4, <2>1, <2>2, <2>3, <2>7, <2>8, <2>9 DEF WalkIsTheLibrary, Made
<1> QED BY <1>3, <1>4

(* Whatever the library, the sizes of runs and pages, the number of runs       *)
(* merged at once and the number of restarts, the walk yields the library      *)
(* newest first, once each and completely, a position looked up is that of the *)
(* walk, a page that Damage changed on disk (in any of its three ways) is      *)
(* never yielded, and an inventory is refused exactly when an identifier is    *)
(* listed twice; that no other contents pass for the page is AcceptedIsThePage *)
(* (autonomous_inventory.py, 98-144, 156-194, 264-308).                        *)
THEOREM TheWalkIsTheLibrary == Spec => []WalkIsTheLibrary
<1>1. Init => IInv
  BY StartsRight
<1>2. IInv /\ [Next]_vars => IInv'
  BY StaysRight
<1>3. IInv => WalkIsTheLibrary
  BY ThenTheWalkIsTheLibrary
<1> QED BY <1>1, <1>2, <1>3, PTL DEF Spec
=============================================================================
