----------------------------- MODULE MCReviews -----------------------------
(* Small instances of Reviews. *)
EXTENDS Reviews
CONSTANTS ann, p1, p2, t1
=============================================================================
