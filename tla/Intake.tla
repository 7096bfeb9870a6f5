-------------------------------- MODULE Intake --------------------------------
(***************************************************************************)
(* What an upload does with its bytes and with the nodes' space            *)
(* (backupFile in internal/server/handlers.go, PlanChunkSpread,            *)
(* ConfirmChunk, RemoveChunkLocation and RegisterNode in state.go, and the *)
(* heartbeat of cmd/backup-node/main.go).                                  *)
(*                                                                         *)
(* The server knows the free space of a node from its last heartbeat and   *)
(* corrects it with every location it adds or removes.  Meanwhile chunks   *)
(* arrive at the node and leave it, other requests and the scheduler do    *)
(* the same, and a heartbeat may be older than what the server knows.      *)
(*                                                                         *)
(* A chunk is its bytes, in place of their hash.  Every node is online and *)
(* answers; Cluster has the failures.                                      *)
(***************************************************************************)
EXTENDS Chunker, FiniteSetsExt

CONSTANTS
  Node,         \* numbers, in the order of their ids
  Requests,     \* uploads: the body, the replication factor, and how many
                \* operations of other processes there may be meanwhile
  Foreign,      \* a chunk of another backup
  Insertions,   \* what may be put in front of it the next time
  Capacities,   \* capacities of the nodes
  Overhead      \* bytes a node adds to a chunk: nonce and tag, if it encrypts

ASSUME IntakeAssumption ==
  /\ Node \subseteq Nat /\ IsFiniteSet(Node)
  /\ Requests \subseteq [body: Seq(Byte), repl: Int, others: Nat]
  /\ Foreign \in Seq(Byte) /\ Insertions \subseteq Seq(Byte)
  /\ Capacities \subseteq [Node -> Nat] /\ Overhead \in [Node -> Nat]

VARIABLES
  request,   \* one of Requests
  pc,        \* where the upload is
  read,      \* bytes of the body that were cut off
  manifest,  \* the chunks so far, each as the two positions it lies between
  targets,   \* the nodes of the plan that are left, best first
  counts,    \* selectedCounts
  capacity,  \* of each node
  free,      \* as the nodes table has it
  locs,      \* rows of chunk_locations, as <<chunk, node>>
  disk,      \* files on the nodes
  beat,      \* a heartbeat that is under way
  others,    \* operations of others: the file has changed, the row has not
  budget,    \* operations of others still to come
  muddled    \* history: nodes whose free space the server may have wrong

upload == <<request, pc, read, manifest, targets, counts>>
space == <<capacity, free, locs, disk, beat, others, budget, muddled>>
vars == <<upload, space>>

body == request.body

(* Bytes on a node, and bytes the tables place there *)
Weight(S) == MapThenSumSet(LAMBDA p : Len(p[1]), S)
Stored(n) == {p \in disk : p[2] = n}
Placed(n) == {p \in locs : p[2] = n}
Used(n) == Weight(Stored(n)) + Overhead[n] * Cardinality(Stored(n))

(* The chunk at hand *)
Current == Piece(body, manifest[Len(manifest)])

(* The first chunk of the body, if there is one *)
First == {Piece(body, <<0, p>>) : p \in {q \in 1 .. Len(body) : IsCut(body, 0, q)}}

NoBeat == [free |-> -1, exact |-> FALSE]

-----------------------------------------------------------------------------
(* Placement *)

(* The order of sort.Slice in PlanChunkSpread *)
MoreFree(m, n) == \/ free[m] > free[n]
                  \/ free[m] = free[n] /\ m < n
Better(m, n) == \/ counts[m] < counts[n]
                \/ counts[m] = counts[n] /\ MoreFree(m, n)

Eligible(c) == {n \in Node : free[n] >= Len(c) /\ <<c, n>> \notin locs}

(* The k best of them, or all *)
PlanChunkSpread(c, k) ==
  LET Rank(n) == 1 + Cardinality({m \in Eligible(c) : Better(m, n)})
      last == Min({k, Cardinality(Eligible(c))})
  IN  [r \in 1 .. last |-> CHOOSE n \in Eligible(c) : Rank(n) = r]

Touch(n) == beat' = [beat EXCEPT ![n].exact = FALSE]

(* INSERT OR IGNORE, and the UPDATE of free if a row was inserted.  Where free
   stops at 0 the rest of the size is forgotten. *)
ConfirmChunkAgain(c, n) ==
  /\ locs' = locs \cup {<<c, n>>}
  /\ free' = [free EXCEPT ![n] = Larger(0, @ - Len(c))]
  /\ muddled' = IF Len(c) > free[n] THEN muddled \cup {n} ELSE muddled
  /\ Touch(n)
ConfirmChunk(c, n) ==
  /\ locs' = locs \cup {<<c, n>>}
  /\ IF <<c, n>> \in locs
     THEN UNCHANGED <<free, muddled>>
     ELSE /\ free' = [free EXCEPT ![n] = Larger(0, @ - Len(c))]
          /\ muddled' = IF Len(c) > free[n] THEN muddled \cup {n} ELSE muddled
  /\ Touch(n)

RemoveChunkLocation(c, n) ==
  /\ locs' = locs \ {<<c, n>>}
  /\ IF <<c, n>> \notin locs
     THEN UNCHANGED <<free, muddled>>
     ELSE /\ free' = [free EXCEPT ![n] = Min({@ + Len(c), capacity[n]})]
          /\ muddled' = IF free[n] + Len(c) > capacity[n]
                        THEN muddled \cup {n} ELSE muddled
  /\ Touch(n)

(* The capacity check of the node and Put *)
Accepts(n, c) == Used(n) + Len(c) <= capacity[n]

StoreFile(c, n) == Accepts(n, c) /\ disk' = disk \cup {<<c, n>>} /\ Touch(n)

-----------------------------------------------------------------------------
Init ==
  /\ request \in Requests
  /\ capacity \in Capacities
  /\ disk \in {First \X S : S \in SUBSET Node}
  /\ locs = disk
  /\ \A n \in Node : Used(n) <= capacity[n]
  /\ free = [n \in Node |-> capacity[n] - Used(n)]
  /\ pc = "read" /\ read = 0 /\ manifest = <<>> /\ targets = <<>>
  /\ counts = [n \in Node |-> 0]
  /\ beat = [n \in Node |-> NoBeat]
  /\ others = {} /\ budget = request.others /\ muddled = {}

-----------------------------------------------------------------------------
(* backupFile *)

(* readContentDefinedChunk *)
ReadChunk ==
  /\ pc = "read"
  /\ \E p \in read + 1 .. Len(body) :
       /\ IsCut(body, read, p)
       /\ read' = p
       /\ manifest' = Append(manifest, <<read, p>>)
  /\ pc' = "plan"
  /\ UNCHANGED <<request, targets, counts, space>>

Missing(c) == request.repl - Cardinality({n \in Node : <<c, n>> \in locs})

Plan ==
  /\ pc = "plan"
  /\ LET k == Missing(Current)
         plan == PlanChunkSpread(Current, k)
     IN  IF k <= 0 THEN pc' = "read" /\ targets' = <<>>
         ELSE IF Len(plan) < k THEN pc' = "failed" /\ targets' = <<>>
         ELSE pc' = "put" /\ targets' = plan
  /\ UNCHANGED <<request, read, manifest, counts, space>>

Put ==
  /\ pc = "put" /\ StoreFile(Current, Head(targets))
  /\ pc' = "confirm"
  /\ UNCHANGED <<request, read, manifest, targets, counts>>
  /\ UNCHANGED <<capacity, free, locs, others, budget, muddled>>

Refused ==
  /\ pc = "put" /\ ~Accepts(Head(targets), Current)
  /\ pc' = "failed" /\ targets' = <<>>
  /\ UNCHANGED <<request, read, manifest, counts, space>>

Confirm ==
  /\ pc = "confirm"
  /\ ConfirmChunk(Current, Head(targets))
  /\ counts' = [counts EXCEPT ![Head(targets)] = @ + 1]
  /\ targets' = Tail(targets)
  /\ pc' = IF Len(targets) = 1 THEN "read" ELSE "put"
  /\ UNCHANGED <<request, read, manifest>>
  /\ UNCHANGED <<capacity, disk, others, budget>>

Save ==
  /\ pc = "read" /\ read = Len(body)
  /\ pc' = "saved"
  /\ UNCHANGED <<request, read, manifest, targets, counts, space>>

UploadStep == ReadChunk \/ Plan \/ Put \/ Refused \/ Confirm \/ Save

-----------------------------------------------------------------------------
(* Heartbeats *)

(* nodeRegisterRequest.  What it reports agrees with the tables only if the
   node has just the files they place there. *)
SampleNegative(n) ==
  /\ beat[n] = NoBeat
  /\ beat' = [beat EXCEPT ![n] =
                [free |-> capacity[n] - Used(n), exact |-> Stored(n) = Placed(n)]]
  /\ UNCHANGED <<upload, capacity, free, locs, disk, others, budget, muddled>>
Sample(n) ==
  /\ beat[n] = NoBeat
  /\ beat' = [beat EXCEPT ![n] =
                [free |-> Larger(0, capacity[n] - Used(n)),
                 exact |-> Stored(n) = Placed(n)]]
  /\ UNCHANGED <<upload, capacity, free, locs, disk, others, budget, muddled>>

(* RegisterNode *)
DeliverKeepsFree(n) ==
  /\ beat[n] # NoBeat
  /\ beat' = [beat EXCEPT ![n] = NoBeat]
  /\ muddled' = IF beat[n].exact THEN muddled \ {n} ELSE muddled \cup {n}
  /\ UNCHANGED <<upload, capacity, free, locs, disk, others, budget>>
Deliver(n) ==
  /\ beat[n] # NoBeat
  /\ free' = [free EXCEPT ![n] = beat[n].free]
  /\ beat' = [beat EXCEPT ![n] = NoBeat]
  /\ muddled' = IF beat[n].exact THEN muddled \ {n} ELSE muddled \cup {n}
  /\ UNCHANGED <<upload, capacity, locs, disk, others, budget>>

-----------------------------------------------------------------------------
(* Other uploads, deletions and the scheduler.  They deal with the first chunk
   of the body and with a foreign one; each changes the file first and the row
   later, or never. *)

Dealt == First \cup {Foreign}

Starts(op) == budget > 0 /\ budget' = budget - 1 /\ others' = others \cup {op}
Ends(op) == op \in others /\ others' = others \ {op} /\ UNCHANGED budget

OtherPut(c, n) ==
  /\ n \in Eligible(c) /\ StoreFile(c, n)
  /\ Starts([does |-> "put", chunk |-> c, node |-> n])
  /\ UNCHANGED <<upload, capacity, free, locs, muddled>>

OtherConfirm(c, n) ==
  /\ Ends([does |-> "put", chunk |-> c, node |-> n])
  /\ ConfirmChunk(c, n)
  /\ UNCHANGED <<upload, capacity, disk>>

OtherErase(c, n) ==
  /\ <<c, n>> \in locs /\ disk' = disk \ {<<c, n>>} /\ Touch(n)
  /\ Starts([does |-> "erase", chunk |-> c, node |-> n])
  /\ UNCHANGED <<upload, capacity, free, locs, muddled>>

OtherForget(c, n) ==
  /\ Ends([does |-> "erase", chunk |-> c, node |-> n])
  /\ RemoveChunkLocation(c, n)
  /\ UNCHANGED <<upload, capacity, disk>>

OtherStep(c, n) == \/ OtherPut(c, n) \/ OtherConfirm(c, n)
                   \/ OtherErase(c, n) \/ OtherForget(c, n)

Next == \/ UploadStep
        \/ \E n \in Node : Sample(n) \/ Deliver(n) \/ \E c \in Dealt : OtherStep(c, n)

Spec == Init /\ [][Next]_vars

(* A node sends a heartbeat every 15 seconds (heartbeatLoop). *)
FairSpec == Spec /\ \A n \in Node : WF_vars(Sample(n)) /\ WF_vars(Deliver(n))

-----------------------------------------------------------------------------
(* Properties *)

IntakeTypeOK ==
  /\ request \in Requests
  /\ pc \in {"read", "plan", "put", "confirm", "saved", "failed"}
  /\ read \in 0 .. Len(body) /\ manifest \in Seq(Nat \X Nat)
  /\ targets \in Seq(Node) /\ counts \in [Node -> Nat]
  /\ capacity \in Capacities
  /\ \A n \in Node : free[n] \in 0 .. capacity[n]
  /\ beat \in [Node -> [free: Int, exact: BOOLEAN]]
  /\ others \subseteq [does: {"put", "erase"}, chunk: Seq(Byte), node: Node]
  /\ budget \in 0 .. request.others /\ muddled \subseteq Node

(* Once the reader is past the first of two landmarks it has cut at the second,
   wherever it came from: what was cut before does not matter any more. *)
LandmarksAreCuts ==
  \A a, b \in 1 .. Len(body) :
    \/ read <= a
    \/ read >= b /\ \E k \in 1 .. Len(manifest) : manifest[k][2] = b
    \/ ~Landmark(body, a, b)

(* The positions at which s is cut *)
Cuts(s) ==
  LET R[i \in 0 .. Len(s)] ==
        IF i = Len(s) THEN {} ELSE {NextCut(s, i)} \cup R[NextCut(s, i)]
  IN  R[0]

(* An insertion in front of the body does not move the cuts behind its first
   pair of landmarks, so these chunks are found again (handlers.go:316,
   README.md:192). *)
InsertionShiftsNothing ==
  pc = "saved" =>
    \A x \in Insertions : \A a, b \in 1 .. Len(body) :
      Landmark(body, a, b) /\ a >= MinSize =>
        {p \in Cuts(x \o body) : p >= Len(x) + b} =
          {Len(x) + manifest[k][2] : k \in {j \in 1 .. Len(manifest) :
                                              manifest[j][2] >= b}}

(* A saved manifest is the body: its chunks follow one another from the first
   byte to the last, and only the last may be short (handlers.go:638-676). *)
ManifestIsBody ==
  pc = "saved" =>
    /\ \A k \in 1 .. Len(manifest) :
         /\ manifest[k][1] = IF k = 1 THEN 0 ELSE manifest[k - 1][2]
         /\ manifest[k][2] - manifest[k][1] \in 1 .. MaxSize
         /\ k < Len(manifest) => manifest[k][2] - manifest[k][1] >= MinSize
    /\ read = Len(body)
    /\ manifest # <<>> => manifest[Len(manifest)][2] = Len(body)

(* The free space in the table is that of the node whenever the node has just
   the files the tables place there, unless a heartbeat was overtaken by a
   change on the node or free was cut off at a bound: chunks that come and go
   by different hands are debited and credited exactly once (state.go:291-303,
   631-643). *)
FreeExact ==
  \A n \in Node \ muddled :
    Overhead[n] = 0 /\ Stored(n) = Placed(n) => free[n] = capacity[n] - Used(n)

(* Whatever went wrong, the table is right again once no chunk comes or goes
   (main.go:239-248 of backup-node, state.go:145-166). *)
FreeSettles ==
  <>[](\A n \in Node : free[n] = Larger(0, capacity[n] - Used(n)))
=============================================================================
