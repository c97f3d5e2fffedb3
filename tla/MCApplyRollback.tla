-------------------------- MODULE MCApplyRollback --------------------------
(* Two rows, one with two keywords and a caption, one with a caption only. *)
(* "Lake" is a casing variant of the approved "lake".                      *)
EXTENDS ApplyRollback

MCKeyword == {"lake", "Lake", "city"}

MCKey == [k \in MCKeyword |-> IF k = "Lake" THEN "lake" ELSE k]

MCProposed == [p \in 1..PhotoCount |-> IF p = 1 THEN {"lake", "city"} ELSE {}]

MCCaptioned == {1, 2}

MCLibrary ==
  {[keywords |-> {}, description |-> ""]}
=============================================================================
