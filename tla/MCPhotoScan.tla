---------------------------- MODULE MCPhotoScan ----------------------------
(* Two scans side by side with two outcomes of a photo, and one by itself that *)
(* selects two photos and meets every outcome of each.                         *)
EXTENDS PhotoScan, TLC

CONSTANTS s1, s2, s3, p1, p2, k1, k2

Selectable == (s1 :> {<<p1>>}) @@ (s2 :> {<<p2>>}) @@ (s3 :> {<<p1, p2>>, <<>>})

Tried == (s1 :> {Analysed({k1}, "none")}) @@ (s2 :> {Analysed({k1}, "named")}) @@ (s3 :> Outcomes)
=============================================================================
