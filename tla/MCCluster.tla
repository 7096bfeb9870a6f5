------------------------------ MODULE MCCluster ------------------------------
(* The instances of Cluster that TLC checks: the cfg files choose the requests,
   the processes and the faults.                                           *)
EXTENDS Cluster, TLC

CONSTANTS n1, n2, n3, h1, h2, nm1, u1, u2, u3, d1

OneChunk == {<<h1>>}

Ask(repls, keeps, contents) ==
  [name: {nm1}, repl: repls, keep: keeps, chunks: contents]

RequestsShared == Ask({1, 2}, {0, 1}, OneChunk)
RequestsVersions == Ask({1}, {1, 2}, OneChunk)
RequestsOne == Ask({1}, {0}, OneChunk)
RequestsPair == Ask({2}, {0}, OneChunk)
RequestsAny == Ask({1, 2}, {0}, OneChunk)

LowerFirst == {<<u1, 1>>}

NodeSymmetry == Permutations({n1, n2})
UploadSymmetry == Permutations({u1, u2, u3})
UploadNodeSymmetry == NodeSymmetry \cup Permutations({u1, u2})
=============================================================================
