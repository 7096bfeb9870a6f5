----------------------------- MODULE MCDownload -----------------------------
(* A manifest that repeats a chunk, so that its copies may change between the
   two times it is read.  An error text of length 2 fits exactly after the
   second chunk, one of length 1 is too short there, one of length 4 too long. *)
EXTENDS Download

CONSTANTS n1, n2, h1, h2

MCManifest == <<h1, h2, h1>>
MCSize == [h \in Hash |-> IF h = h1 THEN 2 ELSE 1]
=============================================================================
