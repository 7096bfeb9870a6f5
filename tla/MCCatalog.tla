------------------------------ MODULE MCCatalog ------------------------------
(* The instance of Catalog that TLC checks: two nodes, two hashes, one name
   with three ids, so that a version can be removed from either end of the
   list and its id and its number tried again.                             *)
EXTENDS Catalog, TLC

CONSTANTS n1, n2, h1, h2, nm1, f1, f2, f3

MCNode == {n1, n2}
MCHash == {h1, h2}
MCName == {nm1}
MCFileId == {f1, f2, f3}
MCReplicas == {0, 1}

MCSymmetry == Permutations(MCNode) \cup Permutations(MCHash)
                \cup Permutations(MCFileId)
=============================================================================
