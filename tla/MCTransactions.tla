---------------------------- MODULE MCTransactions ----------------------------
(* The instance of Transactions that TLC checks: one goroutine creates files,
   runs retention and confirms or removes locations, the other creates, reads,
   deletes and updates files and runs task lists.                           *)
EXTENDS Transactions, TLC

CONSTANTS p1, p2, f1, f2, h1, h2, n1, nm1

MCCalls ==
  (p1 :> {"CreateFile", "ApplyRetention", "ConfirmChunk", "RemoveChunkLocation"}) @@
  (p2 :> {"CreateFile", "File", "DeleteFile", "UpdateFileReplication",
          "RegisterNode", "DeleteNode", "Tasks"})

MCContents == {{h1, h2}}
MCPairs == {<<h1, n1>>}
=============================================================================
