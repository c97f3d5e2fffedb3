------------------------------ MODULE Inventory ------------------------------
(* The campaign's inventory of the library (autonomous_inventory.py): the      *)
(* assets PhotoKit lists are sorted on disk, first by identifier to refuse     *)
(* duplicates and then newest first, cut into pages, each page carrying the    *)
(* hashes that lead from it to one root; a campaign walks the pages, from the  *)
(* start again after a restart, passing over what already has an outcome.      *)
(*                                                                             *)
(* An asset is [id, date, valid]: one that is not valid has no usable          *)
(* identifier or date.  A hash is the term it is computed from.                *)
(* The staging directory is renamed into place, so a creation happens or not.  *)
EXTENDS Integers, Sequences, FiniteSets, SequencesExt

CONSTANTS Libraries,     \* what PhotoKit may list: sequences of assets
          ChunkSize,     \* records of a sort run and of a page (200)
          FanIn,         \* runs merged at once (32)
          MaxRestarts    \* bound: restarts of the walk

Asset == [id : Int, date : Int, valid : BOOLEAN]

ASSUME SizesAssumption == ChunkSize \in Nat \ {0} /\ FanIn \in Nat \ {0, 1}
ASSUME LibrariesAssumption == \A list \in Libraries : list \in Seq(Asset)

Ceil(n, k) == (n + k - 1) \div k
Piece(s, k, i) ==
  [j \in 1 .. (IF i * k < Len(s) THEN k ELSE Len(s) - (i - 1) * k) |-> s[(i - 1) * k + j]]
Pieces(s, k) == [i \in 1 .. Ceil(Len(s), k) |-> Piece(s, k, i)]

-----------------------------------------------------------------------------
(* Sorting in bounded memory                                                   *)

NewestFirst(a, b) == a.date > b.date \/ (a.date = b.date /\ a.id < b.id)
Before(key, a, b) == IF key = "ids" THEN a.id < b.id ELSE NewestFirst(a, b)

\* a, at place i, comes out before b, at place j: equal keys keep their order.
Ahead(key, a, i, b, j) == Before(key, a, b) \/ (~Before(key, b, a) /\ i < j)

(* What n - 1 of S come before.                                                *)
Nth(S, Less(_, _), n) == CHOOSE x \in S : Cardinality({y \in S : Less(y, x)}) = n - 1

Valid(list) ==
  LET kept == {i \in DOMAIN list : list[i].valid}
  IN  [n \in 1 .. Cardinality(kept) |-> list[Nth(kept, <, n)]]

(* sorted() is stable.                                                         *)
SortRun(run, key) ==
  LET first(i, j) == Ahead(key, run[i], i, run[j], j)
  IN  [n \in DOMAIN run |-> run[Nth(DOMAIN run, first, n)]]

(* heapq.merge, while each run has given as many records as taken says: the    *)
(* next one is the smallest head, of the first run that has it.                *)
Unread(runs, taken) == {r \in DOMAIN runs : taken[r] < Len(runs[r])}
Smallest(runs, key, taken) ==
  LET head(r) == runs[r][taken[r] + 1]
  IN  CHOOSE r \in Unread(runs, taken) :
        \A q \in Unread(runs, taken) \ {r} : Ahead(key, head(r), r, head(q), q)
TakeOne(runs, key, taken) == [taken EXCEPT ![Smallest(runs, key, taken)] = @ + 1]

Taken(runs, key) ==
  LET taken[n \in Nat] == IF n = 0 THEN [r \in DOMAIN runs |-> 0]
                          ELSE TakeOne(runs, key, taken[n - 1])
  IN  taken

Places(runs) == UNION {{r} \X DOMAIN runs[r] : r \in DOMAIN runs}

MergeRuns(runs, key) ==
  LET from(n) == Smallest(runs, key, Taken(runs, key)[n - 1])
  IN  [n \in 1 .. Cardinality(Places(runs)) |-> runs[from(n)][Taken(runs, key)[n][from(n)]]]

(* A level of merges, FanIn runs at a time; none when one run is left.         *)
MergeLevel(runs, key) ==
  LET groups == Pieces(runs, FanIn)
  IN  IF Len(runs) <= 1 THEN runs ELSE [g \in DOMAIN groups |-> MergeRuns(groups[g], key)]

MergeLevels(runs, key) ==
  LET level[l \in Nat] == IF l = 0 THEN runs ELSE MergeLevel(level[l - 1], key)
  IN  level

(* Each level leaves fewer runs, so there are not more levels than runs.       *)
SortedRecords(records, key) ==
  LET runs == Pieces(records, ChunkSize)
      sorted == [r \in DOMAIN runs |-> SortRun(runs[r], key)]
  IN  IF runs = <<>> THEN <<>> ELSE MergeLevels(sorted, key)[Len(runs)][1]

(* Equal identifiers are neighbours once sorted by identifier.                 *)
HasDuplicates(byId) == \E i \in 1 .. Len(byId) - 1 : byId[i].id = byId[i + 1].id

-----------------------------------------------------------------------------
(* Pages and their proofs                                                      *)

PageHash(index, records) == <<"page", index, records>>
NodeHash(left, right) == <<"node", left, right>>

(* The next level of the tree: an odd last node is its own sibling.            *)
Parents(level) ==
  [i \in 1 .. Ceil(Len(level), 2) |->
     NodeHash(level[2 * i - 1], level[IF 2 * i > Len(level) THEN 2 * i - 1 ELSE 2 * i])]

Levels(leaves) ==
  LET level[h \in Nat] == IF h = 0 THEN leaves ELSE Parents(level[h - 1])
  IN  level

(* The first level of one node.                                                *)
Top(leaves) ==
  CHOOSE h \in 0 .. Len(leaves) :
    Len(Levels(leaves)[h]) = 1 /\ \A g \in 0 .. h - 1 : Len(Levels(leaves)[g]) > 1

(* Positions are counted from 0 here, as in the code: position ^ 1.            *)
Sibling(position, width) ==
  LET other == IF position % 2 = 0 THEN position + 1 ELSE position - 1
  IN  IF other >= width THEN position ELSE other

(* position //= 2, as often as there are levels.                               *)
Halving(n) ==
  LET half[h \in Nat] == IF h = 0 THEN n ELSE half[h - 1] \div 2
  IN  half

BitLength(n) ==
  CHOOSE b \in 0 .. n : Halving(n)[b] = 0 /\ \A c \in 0 .. b - 1 : Halving(n)[c] > 0

Proof(leaves, index) ==
  [h \in 1 .. Top(leaves) |->
     LET level == Levels(leaves)[h - 1]
     IN  level[Sibling(Halving(index)[h - 1], Len(level)) + 1]]

Leaves(chunks) == [i \in DOMAIN chunks |-> PageHash(i - 1, chunks[i])]
Root(chunks) ==
  IF chunks = <<>> THEN <<"empty">> ELSE Levels(Leaves(chunks))[Top(Leaves(chunks))][1]

AttachProofs(chunks) ==
  [i \in DOMAIN chunks |->
     [index |-> i - 1, records |-> chunks[i], proof |-> Proof(Leaves(chunks), i - 1)]]

(* How the digest of a page climbs along its proof.                            *)
Join(digest, position, sibling) ==
  IF position % 2 = 1 THEN NodeHash(sibling, digest) ELSE NodeHash(digest, sibling)
Climb(digest, index, proof) ==
  LET climb[h \in Nat] == IF h = 0 THEN digest
                          ELSE Join(climb[h - 1], Halving(index)[h - 1], proof[h])
  IN  climb

InOrder(records) == \A i \in 1 .. Len(records) - 1 : ~NewestFirst(records[i + 1], records[i])

(* page(): the shape, the proof, and the order of the records of a page.       *)
PageAccepted(s, index, file) ==
  /\ file.index = index
  /\ Len(file.records) = (IF s.total - index * ChunkSize < ChunkSize THEN s.total - index * ChunkSize
                          ELSE ChunkSize)
  /\ Len(file.proof) = BitLength(s.chunks - 1)
  /\ Climb(PageHash(index, file.records), index, file.proof)[Len(file.proof)] = s.root
  /\ InOrder(file.records)

-----------------------------------------------------------------------------
VARIABLES
  library,    \* what PhotoKit listed
  phase,      \* new, refused, stored, walking, failed, done
  snap,       \* snapshot.json
  pages,      \* the page files
  damaged,    \* a page file changed since it was written
  page,       \* index of the next page the walk reads
  buffer,     \* records of the page being yielded
  position,   \* how many records this walk has passed
  seen,       \* what the walks have yielded and the campaign has settled
  found,      \* the last asset looked up by its position
  restarts

vars == <<library, phase, snap, pages, damaged, page, buffer, position, seen, found, restarts>>

NoSnapshot == [total |-> 0, invalid |-> 0, chunks |-> 0, root |-> <<"none">>]
NotLooked == [at |-> -1, asset |-> <<>>]

Init ==
  /\ library \in Libraries /\ phase = "new" /\ snap = NoSnapshot /\ pages = <<>>
  /\ damaged = FALSE /\ page = 0 /\ buffer = <<>> /\ position = 0 /\ seen = <<>>
  /\ found = NotLooked /\ restarts = 0

(* create(): the first pass refuses duplicates, the second cuts the pages.     *)
Create ==
  /\ phase = "new"
  /\ LET records == Valid(library)
         byId == SortedRecords(records, "ids")
         chunks == Pieces(SortedRecords(byId, "dates"), ChunkSize)
     IN  IF HasDuplicates(byId)
         THEN phase' = "refused" /\ UNCHANGED <<snap, pages>>
         ELSE /\ phase' = "stored"
              /\ pages' = AttachProofs(chunks)
              /\ snap' = [total |-> Len(records), invalid |-> Len(library) - Len(records),
                          chunks |-> Len(chunks), root |-> Root(chunks)]
  /\ UNCHANGED <<library, damaged, page, buffer, position, seen, found, restarts>>

(* A page file comes back with the contents of another one, with a record      *)
(* missing, or with two records exchanged.                                     *)
DamagedPages(i) ==
  LET others == {pages[j] : j \in DOMAIN pages \ {i}}
      moved == {[other EXCEPT !.index = i - 1] : other \in others}
      altered == {[pages[i] EXCEPT !.records = Tail(@)], [pages[i] EXCEPT !.records = Reverse(@)]}
  IN  (others \cup moved \cup altered) \ {pages[i]}

Damage ==
  /\ phase = "stored" /\ ~damaged /\ damaged' = TRUE
  /\ \E i \in DOMAIN pages : \E other \in DamagedPages(i) : pages' = [pages EXCEPT ![i] = other]
  /\ UNCHANGED <<library, phase, snap, page, buffer, position, seen, found, restarts>>

(* load(), then iter_from(0) under pending().                                  *)
MetadataAccepted == snap.chunks = Ceil(snap.total, ChunkSize)

Open ==
  /\ phase = "stored"
  /\ phase' = IF MetadataAccepted THEN "walking" ELSE "failed"
  /\ page' = 0 /\ buffer' = <<>> /\ position' = 0
  /\ UNCHANGED <<library, snap, pages, damaged, seen, found, restarts>>

ReadPage ==
  /\ phase = "walking" /\ buffer = <<>> /\ page < snap.chunks
  /\ IF PageAccepted(snap, page, pages[page + 1])
     THEN buffer' = pages[page + 1].records /\ page' = page + 1 /\ UNCHANGED phase
     ELSE phase' = "failed" /\ UNCHANGED <<buffer, page>>
  /\ UNCHANGED <<library, snap, pages, damaged, position, seen, found, restarts>>

(* pending() passes over the positions that already have an outcome.           *)
Yield ==
  /\ phase = "walking" /\ buffer # <<>>
  /\ seen' = IF position < Len(seen) THEN seen ELSE Append(seen, Head(buffer))
  /\ buffer' = Tail(buffer) /\ position' = position + 1
  /\ UNCHANGED <<library, phase, snap, pages, damaged, page, found, restarts>>

EndWalk ==
  /\ phase = "walking" /\ buffer = <<>> /\ page = snap.chunks
  /\ phase' = "done"
  /\ UNCHANGED <<library, snap, pages, damaged, page, buffer, position, seen, found, restarts>>

(* next(iter_from(at)): the campaign checks an analysis against the asset of   *)
(* its position.                                                               *)
FaultyLookup(at) ==    \* mutant: the walk starts at the page, not inside it
  /\ phase \in {"walking", "done"} /\ at < Len(seen)
  /\ LET index == at \div ChunkSize
         file == pages[index + 1]
     IN  IF PageAccepted(snap, index, file)
         THEN found' = [at |-> at, asset |-> file.records[1]] /\ UNCHANGED phase
         ELSE phase' = "failed" /\ UNCHANGED found
  /\ UNCHANGED <<library, snap, pages, damaged, page, buffer, position, seen, restarts>>

Lookup(at) ==
  /\ phase \in {"walking", "done"} /\ at < Len(seen)
  /\ LET index == at \div ChunkSize
         file == pages[index + 1]
     IN  IF PageAccepted(snap, index, file)
         THEN found' = [at |-> at, asset |-> file.records[(at % ChunkSize) + 1]] /\ UNCHANGED phase
         ELSE phase' = "failed" /\ UNCHANGED found
  /\ UNCHANGED <<library, snap, pages, damaged, page, buffer, position, seen, restarts>>

(* The helper stops; the next activation walks again from the start.           *)
Restart ==
  /\ phase = "walking" /\ restarts < MaxRestarts
  /\ phase' = "stored" /\ restarts' = restarts + 1
  /\ buffer' = <<>> /\ page' = 0 /\ position' = 0 /\ found' = NotLooked
  /\ UNCHANGED <<library, snap, pages, damaged, seen>>

Next ==
  \/ Create \/ Damage \/ Open \/ ReadPage \/ Yield \/ EndWalk \/ Restart
  \/ \E at \in 0 .. snap.total - 1 : Lookup(at)

Spec == Init /\ [][Next]_vars

-----------------------------------------------------------------------------
(* The reference: the valid assets, newest first, ties by identifier.          *)
Reference ==
  LET assets == ToSet(Valid(library))
  IN  [n \in 1 .. Cardinality(assets) |-> Nth(assets, NewestFirst, n)]

UniqueIds(records) ==
  \A i, j \in DOMAIN records : records[i].id = records[j].id => i = j

(* However the runs and merges fall, and wherever it is interrupted and        *)
(* resumed, the walk yields the library newest first, nothing twice, nothing   *)
(* skipped, and ends only when it has yielded all of it; an asset looked up by *)
(* position is the one of that position; a page that changed on disk stops the *)
(* walk and is never yielded, and nothing else stops it; an inventory is made  *)
(* exactly when no identifier is listed twice (autonomous_inventory.py,        *)
(* 98-144, 156-194, 264-308).                                                  *)
WalkIsTheLibrary ==
  /\ IsPrefix(seen, Reference)
  /\ phase = "done" => seen = Reference
  /\ found.at >= 0 => found.asset = Reference[found.at + 1]
  /\ phase # "new" => ((phase = "refused") = ~UniqueIds(Valid(library)))
  /\ phase = "failed" => damaged
=============================================================================
