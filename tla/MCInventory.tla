----------------------------- MODULE MCInventory -----------------------------
(* Five assets make three sort runs, so two levels of merges, and three pages, *)
(* so an odd level of the tree; shorter lists have duplicates and invalid      *)
(* assets in every place.                                                      *)
EXTENDS Inventory, TLC

Photo(i, d) == [id |-> i, date |-> d, valid |-> TRUE]
Invalid == [id |-> 0, date |-> 0, valid |-> FALSE]

Dates == {<<1, 2, 1, 2, 2>>, <<1, 2, 3, 4, 5>>}

Ordered == {[i \in 1 .. n |-> Photo(p[i], d[p[i]])] :
              n \in {4, 5}, p \in Permutations(1 .. 5), d \in Dates}

Short == UNION {[1 .. n -> {Photo(1, 1), Photo(1, 2), Photo(2, 1), Invalid}] : n \in 0 .. 3}

MCLibraries == Ordered \cup Short
=============================================================================
