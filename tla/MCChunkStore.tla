---------------------------- MODULE MCChunkStore ----------------------------
(* Two handlers and chunks of two blocks: every pair of calls meets at every
   system call, and a file can be cut in the middle.                       *)
EXTENDS ChunkStore, TLC

CONSTANTS p1, p2, h1, h2, h3

OpSymmetry == Permutations({p1, p2})
StoreSymmetry == OpSymmetry \cup Permutations({h1, h2, h3})
=============================================================================
