------------------------------- MODULE Cluster -------------------------------
(***************************************************************************)
(* The server's processes over the metadata and the disks of the nodes:    *)
(* backup uploads with their retention (handlers.go backupFile), deletions *)
(* of a backup (deleteFile), the removal of a node (deleteNode) and the    *)
(* replication scheduler (replicator.go).                                  *)
(*                                                                         *)
(* net/http runs every request in a goroutine of its own and the scheduler *)
(* runs in another; the only thing they share is the database.  A step is  *)
(* one statement or transaction (an operator of Catalog) or one call to a  *)
(* node; everything between two steps interleaves.                         *)
(*                                                                         *)
(* Abstracted: the order in which the processes visit the members of a     *)
(* list (any order is allowed); the free space of nodes (a plan may always *)
(* come back short, a put may always be refused); the LIMIT 100 of the     *)
(* task queries, which the bounds never reach.                             *)
(***************************************************************************)
EXTENDS Catalog, Sequences, Functions

CONSTANTS
  Upload,       \* POST /backups requests; each creates at most one file
  Deleter,      \* DELETE /files requests that may overlap
  sched,        \* the goroutine of StartReplicationScheduler
  Requests,     \* what an upload may ask: [name, repl, keep, chunks]
  Aging,        \* nodes whose heartbeats may stop
  Retirable,    \* nodes an operator may remove
  Updates,      \* <<id, replication>> pairs of PATCH /files/{id}/replication
  LostReplies,  \* a node may carry out a delete whose reply is lost
  Crashes       \* the server may stop between two steps and start again

Proc == Upload \cup Deleter \cup {sched}

ASSUME ClusterAssumption ==
  /\ FileId = Upload
  /\ Upload \cap Deleter = {} /\ sched \notin Upload \cup Deleter
  /\ Requests \subseteq [name: Name, repl: Replicas, keep: Nat,
                         chunks: Seq(Hash)]
  /\ Retirable \subseteq Node /\ Aging \subseteq Node
  /\ Updates \subseteq FileId \X (Replicas \ {0})
  /\ LostReplies \in BOOLEAN /\ Crashes \in BOOLEAN

VARIABLES
  ps,        \* the local state of each process, see Local
  disk,      \* chunk files on the nodes, as <<hash, node>>
  req,       \* the request of each upload
  quota,     \* per hash: copies the scheduler may still remove, or must make
  src,       \* the Sources of the scheduler's replication tasks
  retiring,  \* nodes wiped by a removal that has not deleted the row yet
  raced,     \* history: hashes on which two sequences overlapped, see Note
  struck     \* history: hashes of which a fault or an operator took a copy

vars == <<catVars, ps, disk, req, quota, src, retiring, raced, struck>>

Pair == Hash \X Node

Placing == {"count", "plan", "send", "confirm"}
Reaping == {"snap", "reap", "drop", "locate", "trim", "untrim"}
Location == Placing \cup Reaping \cup
  {"idle", "failed", "done", "expire", "purge",
   "prune", "survey", "aim", "fetch"}

(* pc      where the process is
   todo    the chunks an upload has still to place, the one at hand first;
           the chunk the scheduler is copying
   need    missingCopies of the chunk at hand
   work    pairs still to put, or to delete
   call    the pair between its call to the node and its statement
   doomed  the manifests a deletion or a retention run has selected
   unread  hashes whose locations are not read yet                          *)
Local == [pc: Location, todo: Seq(Hash), need: Nat, work: SUBSET Pair,
          call: SUBSET Pair, doomed: SUBSET [id: FileId, chunks: SUBSET Hash],
          unread: SUBSET Hash]

At(l) == [pc |-> l, todo |-> <<>>, need |-> 0, work |-> {}, call |-> {},
          doomed |-> {}, unread |-> {}]

pc(p) == ps[p].pc
Chunks(u) == Range(req[u].chunks)

-----------------------------------------------------------------------------
(* What the properties tell apart *)

(* A copy a restore can use: it is recorded and the file is there. *)
Good(h) == {n \in Node : <<h, n>> \in locs \cap disk}

(* Somebody relies on the copies of h and no row says so: an upload with h in
   its content has no manifest yet, or the scheduler is copying h. *)
Wanted(h) ==
  \/ \E u \in Upload : pc(u) \in Placing /\ h \in Chunks(u)
  \/ /\ pc(sched) \in {"aim", "fetch", "send", "confirm"}
     /\ h \in ps[sched].unread \/ \E n \in Node : <<h, n>> \in ps[sched].work

(* A list made earlier from which a copy of h may still be deleted. *)
Threatened(h) ==
  \E p \in Proc :
    /\ pc(p) \in Reaping
    /\ h \in ps[p].unread \/ \E n \in Node : <<h, n>> \in ps[p].work

(* A location of a node that was wiped and is about to lose its row. *)
Vacated(h) == \E n \in retiring : <<h, n>> \in locs

(* Two of the code's check-then-act sequences on h overlap. *)
Overlap(h) == \/ Wanted(h) /\ Threatened(h)
              \/ Wanted(h) /\ Vacated(h)
              \/ Threatened(h) /\ Vacated(h)

(* S: what a fault or an operator takes away in this step. *)
Note(S) == /\ raced' = raced \cup {h \in Hash : Overlap(h)'}
           /\ struck' = struck \cup S

(* The hashes the properties make no promise about. *)
Excused == raced \cup struck

-----------------------------------------------------------------------------
Init ==
  /\ CatInit
  /\ ps = [p \in Proc |-> At("idle")]
  /\ disk = {} /\ retiring = {}
  /\ raced = {} /\ struck = {}
  /\ req \in [Upload -> Requests]
  /\ quota = [h \in Hash |-> 0]
  /\ src = {}

(* backupFile: the loop over the chunks *)

Start(u) ==
  /\ pc(u) = "idle"
  /\ ps' = [ps EXCEPT ![u].pc = "count", ![u].todo = req[u].chunks]
  /\ UNCHANGED <<catVars, disk, quota, src, retiring>>

(* existingCopies := onlineCount(ChunkLocations(hash)) *)
CountCopies(u) ==
  /\ pc(u) = "count" /\ ps[u].todo # <<>>
  /\ LET missing == req[u].repl - Cardinality(OnlineLocations(Head(ps[u].todo)))
     IN  ps' = IF missing > 0
               THEN [ps EXCEPT ![u].pc = "plan", ![u].need = missing]
               ELSE [ps EXCEPT ![u].todo = Tail(@)]
  /\ UNCHANGED <<catVars, disk, quota, src, retiring>>

(* PlanChunkSpread has to offer as many nodes as are missing. *)
PlanShort(u) ==
  /\ pc(u) = "plan"
  /\ \E targets \in SUBSET Plannable(Head(ps[u].todo)) :
       /\ Cardinality(targets) \in 1 .. ps[u].need
       /\ ps' = [ps EXCEPT ![u].pc = "send", ![u].need = 0,
                           ![u].work = {Head(ps[u].todo)} \X targets]
  /\ UNCHANGED <<catVars, disk, quota, src, retiring>>
Plan(u) ==
  /\ pc(u) = "plan"
  /\ \E targets \in SUBSET Plannable(Head(ps[u].todo)) :
       /\ Cardinality(targets) = ps[u].need
       /\ ps' = [ps EXCEPT ![u].pc = "send", ![u].need = 0,
                           ![u].work = {Head(ps[u].todo)} \X targets]
  /\ UNCHANGED <<catVars, disk, quota, src, retiring>>

(* Every error return before the manifest is saved: the body cannot be read,
   the plan is too short, a put fails, CreateFile fails.  What was sent stays
   where it is. *)
Abort(u) ==
  /\ pc(u) \in {"count", "plan", "send"}
  /\ ps' = [ps EXCEPT ![u] = At("failed")]
  /\ UNCHANGED <<catVars, disk, quota, src, retiring>>

Commit(u) ==
  /\ pc(u) = "count" /\ ps[u].todo = <<>>
  /\ CreateFile(u, req[u].name, Chunks(u), req[u].repl)
  /\ ps' = [ps EXCEPT ![u].pc = "expire"]
  /\ UNCHANGED <<disk, quota, src, retiring>>

-----------------------------------------------------------------------------
(* putChunk and ConfirmChunk, for an upload and for the scheduler *)

(* p once no call is under way and w is left to put.  The scheduler goes to
   its next task when the targets of this one are used up. *)
Placed(p, w) ==
  IF \E t \in w : t[1] = Head(ps[p].todo)
  THEN [ps[p] EXCEPT !.pc = "send", !.work = w, !.call = {}]
  ELSE [ps[p] EXCEPT !.pc = IF p = sched THEN "fetch" ELSE "count",
                     !.work = w, !.call = {}, !.todo = Tail(@)]

(* An error ends an upload; the scheduler goes on with the next target. *)
PlaceFailed(p, t) ==
  ps' = [ps EXCEPT ![p] = IF p = sched THEN Placed(p, ps[p].work \ {t})
                                       ELSE At("failed")]

Targets(p) == {t \in ps[p].work : t[1] = Head(ps[p].todo)}

Put(p) ==
  /\ pc(p) = "send"
  /\ \E t \in Targets(p) :
       /\ disk' = disk \cup {t}
       /\ ps' = [ps EXCEPT ![p].pc = "confirm", ![p].call = {t}]
  /\ UNCHANGED <<catVars, quota, src, retiring>>

(* The node refused, was not reached, or stored the chunk and its reply was
   lost or late. *)
PutFails(p) ==
  /\ pc(p) = "send"
  /\ \E t \in Targets(p) :
       /\ disk' \in {disk, disk \cup {t}}
       /\ PlaceFailed(p, t)
  /\ UNCHANGED <<catVars, quota, src, retiring>>

Confirm(p) ==
  /\ pc(p) = "confirm"
  /\ \E t \in ps[p].call :
       /\ ConfirmChunk(t[1], t[2])
       /\ ps' = [ps EXCEPT ![p] = Placed(p, ps[p].work \ {t})]
  /\ UNCHANGED <<disk, quota, src, retiring>>

(* The node has no row any more, or the statement fails. *)
ConfirmFails(p) ==
  /\ pc(p) = "confirm"
  /\ \E t \in ps[p].call : PlaceFailed(p, t)
  /\ UNCHANGED <<catVars, disk, quota, src, retiring>>

-----------------------------------------------------------------------------
(* deleteFile and ApplyRetention: select, then delete in a transaction *)

Manifest(f) == [id |-> f.id, chunks |-> f.chunks]

(* State.File in DeleteFile *)
Request(d) ==
  /\ pc(d) = "idle"
  /\ \E f \in files :
       ps' = [ps EXCEPT ![d].pc = "purge", ![d].doomed = {Manifest(f)}]
  /\ UNCHANGED <<catVars, disk, quota, src, retiring>>

(* The id query of ApplyRetention, after CreateFile has returned. *)
Expire(u) ==
  /\ pc(u) = "expire"
  /\ LET old == Expired(req[u].name, req[u].keep)
     IN  ps' = IF old = {}
               THEN [ps EXCEPT ![u] = At("done")]
               ELSE [ps EXCEPT ![u].pc = "purge",
                               ![u].doomed = {Manifest(f) : f \in old}]
  /\ UNCHANGED <<catVars, disk, quota, src, retiring>>

(* Where a process goes once its deletions are over. *)
AfterReap(p) ==
  At(IF p = sched THEN "prune" ELSE IF p \in Deleter THEN "idle" ELSE "done")

(* The transaction: the rows go, and the hashes of the manifests read before
   it that no row has any more are returned.  A retention run reads the
   manifests one by one after it has the ids, and misses those that another
   process deletes meanwhile. *)
PurgeAll(p) ==
  /\ pc(p) = "purge"
  /\ LET ids == {m.id : m \in ps[p].doomed}
         left == UNION {m.chunks : m \in ps[p].doomed}
     IN  /\ DeleteFiles(ids)
         /\ ps' = [ps EXCEPT ![p] = IF left = {} THEN AfterReap(p)
                                    ELSE [At("snap") EXCEPT !.unread = left]]
  /\ UNCHANGED <<disk, quota, src, retiring>>
Purge(p) ==
  /\ pc(p) = "purge"
  /\ LET ids == {m.id : m \in ps[p].doomed}
         live == {m \in ps[p].doomed : \E f \in files : f.id = m.id}
     IN  /\ DeleteFiles(ids)
         /\ \E read \in SUBSET ps[p].doomed :
              /\ live \subseteq read
              /\ p \in Deleter => read = ps[p].doomed
              /\ LET left == {h \in UNION {m.chunks : m \in read} :
                                \A f \in files : h \in f.chunks => f.id \in ids}
                 IN ps' = [ps EXCEPT ![p] =
                             IF left = {} THEN AfterReap(p)
                             ELSE [At("snap") EXCEPT !.unread = left]]
  /\ UNCHANGED <<disk, quota, src, retiring>>

(* A statement or the commit fails and the transaction is rolled back. *)
PurgeFails(p) ==
  /\ pc(p) = "purge"
  /\ ps' = [ps EXCEPT ![p] = AfterReap(p)]
  /\ UNCHANGED <<catVars, disk, quota, src, retiring>>

(* One query per hash: LocationsSnapshot, and the second loop of PruneTasks,
   which keeps the nodes that are online. *)
Snapshot(p) ==
  /\ pc(p) \in {"snap", "locate"}
  /\ \E h \in ps[p].unread :
       LET at == IF pc(p) = "snap" THEN ChunkLocations(h) ELSE OnlineLocations(h)
           left == ps[p].unread \ {h}
       IN  ps' = [ps EXCEPT ![p].work = @ \cup ({h} \X at), ![p].unread = left,
                            ![p].pc = IF left # {} THEN @
                                      ELSE IF @ = "snap" THEN "reap" ELSE "trim"]
  /\ UNCHANGED <<catVars, disk, quota, src, retiring>>

-----------------------------------------------------------------------------
(* deleteChunk and RemoveChunkLocation, for deleteUnusedChunks, for the orphan
   cleanup ("reap", "drop") and for pruneExtraCopies ("trim", "untrim") *)

(* The pairs p may delete next: pruning stops at the surplus of a task. *)
Due(p) == {t \in ps[p].work : pc(p) = "trim" => quota[t[1]] > 0}

(* The file goes; a node that has none answers 404, which counts as done. *)
Reap(p) ==
  /\ pc(p) \in {"reap", "trim"}
  /\ \E t \in Due(p) :
       /\ disk' = disk \ {t}
       /\ ps' = [ps EXCEPT ![p].call = {t},
                           ![p].pc = IF @ = "reap" THEN "drop" ELSE "untrim"]
  /\ UNCHANGED <<catVars, quota, src, retiring>>

(* The call fails and the loop goes on to the next pair; the surplus is not
   reduced. *)
ReapFails(p) ==
  /\ pc(p) \in {"reap", "trim"}
  /\ \E t \in Due(p) : ps' = [ps EXCEPT ![p].work = @ \ {t}]
  /\ UNCHANGED <<catVars, disk, quota, src, retiring>>

(* The same when the node has deleted the file and the reply is lost. *)
ReapReplyLost(p) ==
  /\ LostReplies /\ pc(p) \in {"reap", "trim"}
  /\ UNCHANGED <<catVars, quota, src, retiring>>
  /\ \E t \in Due(p) :
       /\ t \in disk
       /\ disk' = disk \ {t}
       /\ ps' = [ps EXCEPT ![p].work = @ \ {t}]
       /\ Note({t[1]})

DropForgets(p) ==
  /\ pc(p) \in {"drop", "untrim"}
  /\ quota' = [h \in Hash |-> IF pc(p) = "untrim" /\ \E t \in ps[p].call : t[1] = h
                              THEN quota[h] - 1 ELSE quota[h]]
  /\ ps' = [ps EXCEPT ![p].call = {}, ![p].work = @ \ ps[p].call,
                      ![p].pc = IF @ = "drop" THEN "reap" ELSE "trim"]
  /\ UNCHANGED <<catVars, disk, src, retiring>>
DropCountsAll(p) ==
  /\ pc(p) \in {"drop", "untrim"}
  /\ \E t \in ps[p].call :
       /\ RemoveChunkLocation(t[1], t[2])
       /\ quota' = [quota EXCEPT ![t[1]] = @ - 1]
       /\ ps' = [ps EXCEPT ![p].call = {}, ![p].work = @ \ {t},
                           ![p].pc = IF @ = "drop" THEN "reap" ELSE "trim"]
  /\ UNCHANGED <<disk, src, retiring>>
Drop(p) ==
  /\ pc(p) \in {"drop", "untrim"}
  /\ \E t \in ps[p].call :
       /\ RemoveChunkLocation(t[1], t[2])
       /\ quota' = IF pc(p) = "drop" THEN quota
                   ELSE [quota EXCEPT ![t[1]] = @ - 1]
       /\ ps' = [ps EXCEPT ![p].call = {}, ![p].work = @ \ {t},
                           ![p].pc = IF @ = "drop" THEN "reap" ELSE "trim"]
  /\ UNCHANGED <<disk, src, retiring>>

Reaped(p) ==
  /\ pc(p) = "reap" /\ Due(p) = {}
  /\ ps' = [ps EXCEPT ![p] = AfterReap(p)]
  /\ UNCHANGED <<catVars, disk, quota, src, retiring>>

-----------------------------------------------------------------------------
(* runReplicationOnce: orphans, then surplus copies, then missing ones *)

Sweep ==
  /\ pc(sched) = "idle"
  /\ ps' = [ps EXCEPT ![sched].pc = "reap", ![sched].work = OrphanChunks]
  /\ UNCHANGED <<catVars, disk, quota, src, retiring>>

Monus(a, b) == IF a > b THEN a - b ELSE 0
NoQuota == [h \in Hash |-> 0]

(* The tasks of a query that returned m[h] > 0 for each h it has a task for. *)
Tasks(m, next, otherwise) ==
  LET hs == {h \in Hash : m[h] > 0}
  IN  /\ quota' = m
      /\ ps' = [ps EXCEPT ![sched] =
                  IF hs = {} THEN At(otherwise)
                  ELSE [At(next) EXCEPT !.unread = hs]]

(* The first query of PruneTasks: COUNT(recent locations) > MAX(replication).
   Counting a location too many would be the off-by-one. *)
CountSurplusTight ==
  /\ pc(sched) = "prune"
  /\ Tasks([h \in Hash |-> IF ChunkInUse(h)
                           THEN Monus(Cardinality(Active(h)) + 1, Desired(h))
                           ELSE 0], "locate", "survey")
  /\ UNCHANGED <<catVars, disk, src, retiring>>
CountSurplus ==
  /\ pc(sched) = "prune"
  /\ Tasks([h \in Hash |-> IF ChunkInUse(h)
                           THEN Monus(Cardinality(Active(h)), Desired(h))
                           ELSE 0], "locate", "survey")
  /\ UNCHANGED <<catVars, disk, src, retiring>>

Trimmed ==
  /\ pc(sched) = "trim" /\ Due(sched) = {}
  /\ quota' = NoQuota
  /\ ps' = [ps EXCEPT ![sched] = At("survey")]
  /\ UNCHANGED <<catVars, disk, src, retiring>>

(* The first query of ReplicationTasks. *)
CountMissing ==
  /\ pc(sched) = "survey"
  /\ Tasks([h \in Hash |-> Monus(Desired(h), Cardinality(Active(h)))],
           "aim", "idle")
  /\ UNCHANGED <<catVars, disk, src, retiring>>

(* Its second loop: the sources and the candidates of one task.  Without a
   source or a candidate the task is skipped. *)
Aim ==
  /\ pc(sched) = "aim"
  /\ \E h \in ps[sched].unread :
       LET left == ps[sched].unread \ {h}
       IN  \E targets \in SUBSET Plannable(h) :
             /\ Cardinality(targets) <= quota[h]
             /\ ps' = [ps EXCEPT ![sched].work = @ \cup ({h} \X targets),
                                 ![sched].unread = left,
                                 ![sched].pc = IF left = {} THEN "fetch" ELSE @]
             /\ src' = src \cup ({h} \X OnlineLocations(h))
             /\ quota' = [quota EXCEPT ![h] = 0]
  /\ UNCHANGED <<catVars, disk, retiring>>

(* fetchFromAny: some source still has the chunk. *)
Fetch ==
  /\ pc(sched) = "fetch"
  /\ \E t \in ps[sched].work :
       /\ \E n \in Node : <<t[1], n>> \in src \cap disk
       /\ ps' = [ps EXCEPT ![sched].pc = "send", ![sched].todo = <<t[1]>>]
  /\ UNCHANGED <<catVars, disk, quota, src, retiring>>

(* No source answers, or none is listed. *)
FetchFails ==
  /\ pc(sched) = "fetch"
  /\ \E t \in ps[sched].work :
       ps' = [ps EXCEPT ![sched].work = {x \in @ : x[1] # t[1]}]
  /\ UNCHANGED <<catVars, disk, quota, src, retiring>>

Rest ==
  /\ pc(sched) = "fetch" /\ ps[sched].work = {}
  /\ src' = {}
  /\ ps' = [ps EXCEPT ![sched] = At("idle")]
  /\ UNCHANGED <<catVars, disk, quota, retiring>>

-----------------------------------------------------------------------------
(* Nodes, the operator, the clock, the server itself *)

(* What an operator who takes node n away puts at risk: hashes in flight, and
   those whose only copy is on n. *)
AtRisk(n) == {h \in Hash : /\ <<h, n>> \in disk \cup locs
                           /\ Wanted(h) \/ Threatened(h) \/ Good(h) \subseteq {n}}

Heartbeat(n) ==
  /\ RegisterNode(n)
  /\ UNCHANGED <<ps, disk, quota, src, retiring>>

MissHeartbeat(n) ==
  /\ n \in Aging /\ Elapse(n)
  /\ UNCHANGED <<ps, disk, quota, src, retiring>>

(* deleteNode without purge *)
RemoveNode(n) ==
  /\ n \in Retirable /\ DeleteNode(n)
  /\ UNCHANGED <<ps, disk, quota, src, retiring>>
  /\ Note(AtRisk(n))

(* deleteNode?purge=true: clearNodeStorage, then DeleteNode.  When the call
   fails the row stays and what the node has already deleted is gone. *)
ClearNode(n) ==
  /\ n \in (Retirable \cap registered) \ retiring
  /\ disk' = {t \in disk : t[2] # n}
  /\ retiring' = retiring \cup {n}
  /\ UNCHANGED <<catVars, ps, quota, src>>
  /\ Note(AtRisk(n))

ClearNodeFails(n) ==
  /\ LostReplies /\ n \in (Retirable \cap registered) \ retiring
  /\ UNCHANGED <<catVars, ps, quota, src, retiring>>
  /\ \E gone \in SUBSET {t \in disk : t[2] = n} :
       disk' = disk \ gone /\ Note({t[1] : t \in gone})

FinishRemovalRowOnly(n) ==
  /\ n \in retiring
  /\ registered' = registered \ {n} /\ age' = [age EXCEPT ![n] = "stale"]
  /\ retiring' = retiring \ {n}
  /\ UNCHANGED <<files, locs, ps, disk, quota, src>>
  /\ Note(AtRisk(n))
FinishRemoval(n) ==
  /\ n \in retiring
  /\ IF n \in registered THEN DeleteNode(n) ELSE UNCHANGED catVars
  /\ retiring' = retiring \ {n}
  /\ UNCHANGED <<ps, disk, quota, src>>
  /\ Note(AtRisk(n))

(* PATCH /files/{id}/replication *)
PatchReplication(id, r) ==
  /\ \E f \in files : f.id = id
  /\ UpdateFileReplication(id, r)
  /\ UNCHANGED <<ps, disk, quota, src, retiring>>

(* The server stops: whatever was in flight is forgotten, the database is
   not.  A deletion whose statement is missing, and a wiped node whose row is
   still there, leave locations without a file. *)
Crash ==
  /\ Crashes
  /\ ps' = [p \in Proc |-> At(IF p \in Upload /\ pc(p) # "idle"
                              THEN IF pc(p) \in Placing \cup {"failed"}
                                   THEN "failed" ELSE "done"
                              ELSE "idle")]
  /\ quota' = NoQuota /\ src' = {} /\ retiring' = {}
  /\ UNCHANGED <<catVars, disk>>
  /\ Note({h \in Hash : \/ Vacated(h)
                         \/ \E p \in Proc : /\ pc(p) \in {"drop", "untrim"}
                                          /\ \E t \in ps[p].call : t[1] = h})

-----------------------------------------------------------------------------
UploadStep(u) == Start(u) \/ CountCopies(u) \/ Plan(u) \/ Abort(u) \/ Commit(u)
                   \/ Expire(u)

Transfer(p) == Put(p) \/ PutFails(p) \/ Confirm(p) \/ ConfirmFails(p)

Collect(p) == \/ Purge(p) \/ PurgeFails(p) \/ Snapshot(p)
              \/ Reap(p) \/ ReapFails(p) \/ Drop(p) \/ Reaped(p)

Schedule == Sweep \/ CountSurplus \/ Trimmed \/ CountMissing \/ Aim \/ Fetch
              \/ FetchFails \/ Rest

Quiet ==
  \/ \E u \in Upload : UploadStep(u)
  \/ \E p \in Upload \cup {sched} : Transfer(p)
  \/ \E d \in Deleter : Request(d)
  \/ \E p \in Proc : Collect(p)
  \/ Schedule
  \/ \E n \in Node : Heartbeat(n) \/ MissHeartbeat(n)
  \/ \E x \in Updates : PatchReplication(x[1], x[2])

(* Steps that take copies away without the code's doing. *)
Disturbance ==
  \/ \E p \in Proc : ReapReplyLost(p)
  \/ \E n \in Node : \/ RemoveNode(n) \/ ClearNode(n) \/ ClearNodeFails(n)
                     \/ FinishRemoval(n)
  \/ Crash

Next == /\ UNCHANGED req
        /\ (Quiet /\ Note({})) \/ Disturbance

Spec == Init /\ [][Next]_vars

-----------------------------------------------------------------------------
(* Properties *)

ClusterTypeOK ==
  /\ TypeOK
  /\ ps \in [Proc -> Local]
  /\ disk \subseteq Pair /\ src \subseteq Pair
  /\ req \in [Upload -> Requests]
  /\ quota \in [Hash -> Nat]
  /\ retiring \subseteq Node /\ raced \subseteq Hash /\ struck \subseteq Hash

(* A recorded location has its file, except between the call that deletes the
   file and the statement that removes the row (handlers.go:447-451,
   replicator.go:39-43, 106-110), and on a node being removed.  Uploads,
   deletions, retention, pruning, copying and heartbeats interleave freely;
   only the overlaps and faults that Note records may break it. *)
LocationsBacked ==
  \A t \in locs :
    \/ t[1] \in Excused
    \/ t \in disk
    \/ t[2] \in retiring
    \/ \E p \in Proc : pc(p) \in {"drop", "untrim"} /\ t \in ps[p].call

(* No chunk of a live backup loses its last recorded copy, unless Note has
   recorded its hash: orphan cleanup, deleteUnusedChunks and pruning together
   never go too far on their own. *)
LossOnlyIfExcused ==
  \A f \in files : \A h \in f.chunks : h \in Excused \/ Good(h) # {}

(* When a manifest is saved, every chunk in it has as many recorded copies as
   the request asked for (handlers.go:338-359): those found when the chunk was
   counted are still there, and a node counted once is not planned again. *)
FullyCopiedAtCommit ==
  [][\A u \in Upload : pc(u) = "count" /\ pc(u)' = "expire" =>
       \A h \in Chunks(u) :
         h \in Excused' \/ Cardinality(Good(h)) >= req[u].repl]_vars

(* deleteUnusedChunks and the orphan cleanup delete a file only while no backup
   has the hash (README.md:188), unless an upload of the same content was under
   way beside their list.  A deletion lists its hashes in the transaction that
   removes its rows, the cleanup in one query, and both delete long after. *)
DeletesOnlyUnowned ==
  [][\A p \in Proc : pc(p) = "reap" /\ pc(p)' = "drop" =>
       \A t \in ps'[p].call : t[1] \in raced' \/ ~ChunkInUse(t[1])]_vars

(* Pruning leaves as many recorded copies as the most demanding backup of the
   hash asks for, although the surplus was counted before the locations were
   read, and both before the calls. *)
PruneKeepsDesired ==
  [][pc(sched) = "trim" /\ pc(sched)' = "untrim" =>
       \A t \in ps'[sched].call :
         t[1] \in Excused' \/ Cardinality(Good(t[1])') >= Desired(t[1])]_vars

(* Retention with keep = k deletes a version only if k newer versions of the
   name stay (README.md:186), however the retention runs of several uploads
   overlap. *)
RetentionKeepsNewest ==
  [][\A u \in Upload : pc(u) = "purge" /\ pc(u)' # "purge" =>
       \A f \in files \ files' :
         Cardinality({g \in files' : g.name = f.name /\ g.version > f.version})
           >= req[u].keep]_vars

-----------------------------------------------------------------------------
(* What the documentation says, without Excused *)

(* A backup that is listed can be restored: each of its chunks is on some node
   and the server knows where (README.md:188). *)
LiveChunksStored == \A f \in files : \A h \in f.chunks : Good(h) # {}

(* Pruning removes surplus copies (README.md:225): when it has deleted a file,
   another node still has the chunk.  The hashes on which two sequences
   overlapped are left out, so that what remains is the scheduler's alone. *)
PruneLeavesCopy ==
  [][pc(sched) = "trim" /\ pc(sched)' = "untrim" =>
       \A t \in ps'[sched].call :
         t[1] \in raced' \/ \E n \in Node : <<t[1], n>> \in disk']_vars
=============================================================================
