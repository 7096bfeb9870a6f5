----------------------------- MODULE Transactions -----------------------------
(***************************************************************************)
(* The methods of State (internal/server/state.go) statement by statement, *)
(* over the one connection of their pool.                                  *)
(*                                                                         *)
(* A statement takes the connection and gives it back, a transaction keeps *)
(* it from Begin to Commit or Rollback, and a query keeps it until its     *)
(* rows are closed.  Whoever needs it meanwhile waits, in no fixed order.  *)
(* Any statement may fail, and the server may stop anywhere; SQLite then   *)
(* forgets what was not committed.                                         *)
(*                                                                         *)
(* The module shows that this implements Catalog, whose steps are whole    *)
(* transactions on manifests that are one row each.                        *)
(*                                                                         *)
(* Abstracted: the columns no decision reads; the order of rows; the       *)
(* queries of the task lists, of which only the connection is kept.        *)
(***************************************************************************)
EXTENDS Integers, FiniteSetsExt

CONSTANTS
  Node, Hash, Name, FileId,               \* these seven as in Catalog
  Replicas, DefaultReplicas, MaxVersion,
  Goroutine,   \* request handlers and the scheduler
  Calls,       \* the methods each of them may call
  Contents,    \* the chunks a CreateFile may be given
  Pairs,       \* the locations confirmed and removed
  Keeps,       \* keep counts of ApplyRetention, 0 included
  MaxSeries,   \* bound: queries that follow the first one of a task list
  Nobody       \* holder of a free connection

ASSUME TransactionsAssumption ==
  /\ Replicas \subseteq Nat /\ DefaultReplicas \in Nat \ {0}
  /\ MaxVersion \in Nat /\ IsFiniteSet(Node)
  /\ Nobody \notin Goroutine
  /\ Contents \subseteq SUBSET Hash /\ Pairs \subseteq Hash \X Node
  /\ Keeps \subseteq Nat /\ MaxSeries \in Nat

VARIABLES
  db,      \* the tables as committed
  work,    \* the tables as the open transaction sees them, db if there is none
  age,     \* age of nodes.last_seen, as in Catalog
  conn,    \* who has the connection of the pool
  issued,  \* history: the ids given to CreateFile and their chunks
  ps       \* what each goroutine is doing

vars == <<db, work, age, conn, issued, ps>>

FileRow == [id: FileId, name: Name, version: Nat, repl: Nat \ {0}]

Tables == [nodes: SUBSET Node, files: SUBSET FileRow,
           chunks: SUBSET (FileId \X Hash), locs: SUBSET (Hash \X Node)]

(* files joined with file_chunks *)
Manifests(t) ==
  {[id |-> f.id, name |-> f.name, version |-> f.version, repl |-> f.repl,
    chunks |-> {h \in Hash : <<f.id, h>> \in t.chunks}] : f \in t.files}

Cat == INSTANCE Catalog WITH registered <- db.nodes, files <- Manifests(db),
                             locs <- db.locs

(* at      the next statement
   call    the method
   row     the row CreateFile inserts
   ids     the rows a method reads or deletes
   left    those of them still to read or to delete
   file    the one whose manifest is being read
   hashes  the chunks to insert, or those of the manifests read
   todo    those of them still to insert or to count
   out     the unused hashes a deletion will return
   pair    the location at hand
   more    queries still to come
   blind   a manifest was not read because a statement failed               *)
InTransaction == {"version", "insert", "insert chunks", "delete", "count",
                  "unlist", "unregister", "commit"}
HoldsRows == {"rows", "id rows", "task rows"}
Label == {"idle", "create", "row", "chunks", "select", "begin", "query",
          "known", "record", "touch", "size", "erase", "credit",
          "node", "begin node", "register", "update"}
           \cup InTransaction \cup HoldsRows
Methods == {"CreateFile", "File", "DeleteFile", "ApplyRetention", "DeleteNode",
            "UpdateFileReplication", "ConfirmChunk", "RemoveChunkLocation",
            "RegisterNode", "Tasks"}
Local == [at: Label, call: Methods \cup {"none"}, row: SUBSET FileRow,
          ids: SUBSET FileId, left: SUBSET FileId, file: SUBSET FileId,
          hashes: SUBSET Hash, todo: SUBSET Hash, out: SUBSET Hash,
          pair: SUBSET (Hash \X Node), node: SUBSET Node,
          more: Nat, blind: BOOLEAN]

Idle == [at |-> "idle", call |-> "none", row |-> {}, ids |-> {}, left |-> {},
         file |-> {}, hashes |-> {}, todo |-> {}, out |-> {}, pair |-> {},
         node |-> {}, more |-> 0, blind |-> FALSE]

-----------------------------------------------------------------------------
(* The pool: one connection *)

Briefly(p) == conn = Nobody /\ UNCHANGED conn
Take(p)    == conn = Nobody /\ conn' = p
Holding(p) == conn = p /\ UNCHANGED conn
GiveBack(p) == conn = p /\ conn' = Nobody

At(p, l) == ps[p].at = l
Becomes(p, l) == ps' = [ps EXCEPT ![p] = l]
GoTo(p, l) == Becomes(p, [ps[p] EXCEPT !.at = l])
Return(p) == Becomes(p, Idle)

Enter(p, l) == ps[p] = Idle /\ l.call \in Calls[p] /\ Becomes(p, l)

(* A statement outside a transaction commits by itself. *)
Autocommit(t) == db' = t /\ work' = t
Reads == UNCHANGED <<db, work>>

(* A statement of a transaction *)
Changes(p, t) == Holding(p) /\ work' = t /\ UNCHANGED db

Aside == UNCHANGED <<age, issued>>

-----------------------------------------------------------------------------
(* The statements.  PRAGMA foreign_keys was set on the one connection. *)

NormalizedRaw(r) == r
Normalized(r) == IF r <= 0 THEN DefaultReplicas ELSE r

(* COALESCE(MAX(version), 0) + 1 *)
NextVersion(t, nm, v) ==
  /\ \A f \in t.files : f.name = nm => f.version < v
  /\ v = 1 \/ \E f \in t.files : f.name = nm /\ f.version = v - 1

(* INSERT INTO file_chunks *)
WithChunk(t, rows, h) ==
  [t EXCEPT !.chunks = @ \cup {<<r.id, h>> : r \in rows}]

(* DELETE FROM files WHERE id = ?, and ON DELETE CASCADE of file_chunks *)
WithoutFileNoCascade(t, id) == [t EXCEPT !.files = {f \in @ : f.id # id}]
WithoutFile(t, id) ==
  [t EXCEPT !.files = {f \in @ : f.id # id}, !.chunks = {c \in @ : c[1] # id}]

(* ORDER BY version DESC LIMIT -1 OFFSET keep *)
Newer(t, f) == {g \in t.files : g.name = f.name /\ g.version > f.version}
Expired(t, nm, keep) ==
  {id \in FileId : keep > 0 /\ \E f \in t.files :
     f.id = id /\ f.name = nm /\ Cardinality(Newer(t, f)) >= keep}

Used(t, h) == \E c \in t.chunks : c[2] = h

-----------------------------------------------------------------------------
Init ==
  /\ db = [nodes |-> {}, files |-> {}, chunks |-> {}, locs |-> {}]
  /\ work = db
  /\ age = [n \in Node |-> "stale"]
  /\ conn = Nobody
  /\ issued = {}
  /\ ps = [p \in Goroutine |-> Idle]

(* CreateFile *)

StartCreate(p) ==
  /\ \E id \in FileId, nm \in Name, cs \in Contents, r \in Replicas :
       /\ \A i \in issued : i.id # id
       /\ issued' = issued \cup {[id |-> id, chunks |-> cs]}
       /\ Enter(p, [Idle EXCEPT !.call = "CreateFile", !.at = "create",
                                !.hashes = cs, !.todo = cs,
                                !.row = {[id |-> id, name |-> nm, version |-> 0,
                                          repl |-> Normalized(r)]}])
  /\ UNCHANGED <<db, work, age, conn>>

BeginCreate(p) ==
  /\ At(p, "create") /\ Take(p) /\ GoTo(p, "version")
  /\ Reads /\ Aside

AssignVersion(p) ==
  /\ At(p, "version") /\ Holding(p)
  /\ \E r \in ps[p].row, v \in 1 .. MaxVersion :
       /\ NextVersion(work, r.name, v)
       /\ Becomes(p, [ps[p] EXCEPT !.at = "insert",
                                   !.row = {[r EXCEPT !.version = v]}])
  /\ Reads /\ Aside

InsertFile(p) ==
  /\ At(p, "insert") /\ Changes(p, [work EXCEPT !.files = @ \cup ps[p].row])
  /\ GoTo(p, "insert chunks") /\ Aside

(* On the database instead of the transaction it would be a commit of its own. *)
InsertChunkAtOnce(p) ==
  /\ At(p, "insert chunks")
  /\ \E h \in ps[p].todo :
       /\ Autocommit(WithChunk(work, ps[p].row, h))
       /\ Becomes(p, [ps[p] EXCEPT !.todo = @ \ {h}])
  /\ Holding(p) /\ Aside
InsertChunk(p) ==
  /\ At(p, "insert chunks")
  /\ \E h \in ps[p].todo :
       /\ Changes(p, WithChunk(work, ps[p].row, h))
       /\ Becomes(p, [ps[p] EXCEPT !.todo = @ \ {h}])
  /\ Aside

ChunksInserted(p) ==
  /\ At(p, "insert chunks") /\ ps[p].todo = {} /\ GoTo(p, "commit")
  /\ UNCHANGED conn /\ Reads /\ Aside

(* File: the row, then the chunks, for its own callers, DeleteFile and
   ApplyRetention *)

StartFile(p) ==
  /\ \E id \in FileId, m \in {"File", "DeleteFile"} :
       Enter(p, [Idle EXCEPT !.call = m, !.at = "row",
                             !.ids = {id}, !.left = {id}])
  /\ UNCHANGED <<db, work, age, conn, issued>>

(* Where a method goes when File has returned. *)
AfterFile(p, left) ==
  IF left # {} THEN "row" ELSE IF ps[p].call = "File" THEN "idle" ELSE "begin"

FileRead(p, l) ==
  IF l = "idle" THEN Return(p)
  ELSE Becomes(p, [ps[p] EXCEPT !.at = l, !.file = {}])

ReadRow(p) ==
  /\ At(p, "row") /\ Briefly(p)
  /\ \E f \in db.files :
       /\ f.id \in ps[p].left
       /\ Becomes(p, [ps[p] EXCEPT !.at = "chunks", !.file = {f.id},
                                   !.left = @ \ {f.id}])
  /\ Reads /\ Aside

(* No row, or the statement fails: File and DeleteFile return, ApplyRetention
   goes on to the next id. *)
RowMissing(p) ==
  /\ At(p, "row") /\ Briefly(p)
  /\ \E id \in ps[p].left :
       IF ps[p].call = "ApplyRetention"
       THEN Becomes(p, [ps[p] EXCEPT
                          !.left = @ \ {id},
                          !.blind = IF \E f \in db.files : f.id = id
                                    THEN TRUE ELSE @,
                          !.at = AfterFile(p, ps[p].left \ {id})])
       ELSE Return(p)
  /\ Reads /\ Aside

(* The rows of file_chunks stay open while they are scanned. *)
QueryChunks(p) ==
  /\ At(p, "chunks") /\ Take(p)
  /\ Becomes(p, [ps[p] EXCEPT !.at = "rows",
                   !.hashes = @ \cup {h \in Hash : \E id \in ps[p].file :
                                                    <<id, h>> \in db.chunks}])
  /\ Reads /\ Aside

(* fileChunks returns nothing when its query fails, and File succeeds. *)
QueryChunksFails(p) ==
  /\ At(p, "chunks") /\ Briefly(p)
  /\ LET next == AfterFile(p, ps[p].left)
     IN  IF next = "idle" THEN Return(p)
         ELSE Becomes(p, [ps[p] EXCEPT !.at = next, !.file = {}, !.blind = TRUE])
  /\ Reads /\ Aside

CloseChunks(p) ==
  /\ At(p, "rows") /\ GiveBack(p)
  /\ FileRead(p, AfterFile(p, ps[p].left))
  /\ Reads /\ Aside

(* DeleteFile and ApplyRetention *)

StartRetention(p) ==
  /\ Enter(p, [Idle EXCEPT !.call = "ApplyRetention", !.at = "select"])
  /\ UNCHANGED <<db, work, age, conn, issued>>

SelectExpired(p) ==
  /\ At(p, "select") /\ Take(p)
  /\ \E nm \in Name, keep \in Keeps :
       LET ids == Expired(db, nm, keep)
       IN  Becomes(p, [ps[p] EXCEPT !.at = "id rows", !.ids = ids, !.left = ids])
  /\ Reads /\ Aside

CloseIds(p) ==
  /\ At(p, "id rows") /\ GiveBack(p)
  /\ IF ps[p].ids = {} THEN Return(p) ELSE GoTo(p, "row")
  /\ Reads /\ Aside

BeginDelete(p) ==
  /\ At(p, "begin") /\ Take(p)
  /\ Becomes(p, [ps[p] EXCEPT !.at = "delete", !.left = ps[p].ids,
                              !.todo = ps[p].hashes])
  /\ Reads /\ Aside

DeleteRow(p) ==
  /\ At(p, "delete")
  /\ \E id \in ps[p].left :
       /\ Changes(p, WithoutFile(work, id))
       /\ Becomes(p, [ps[p] EXCEPT
            !.left = @ \ {id}, !.at = IF ps[p].left = {id} THEN "count" ELSE @])
  /\ Aside

CountUses(p) ==
  /\ At(p, "count") /\ Holding(p)
  /\ \E h \in ps[p].todo :
       Becomes(p, [ps[p] EXCEPT !.todo = @ \ {h},
                                !.out = IF Used(work, h) THEN @ ELSE @ \cup {h}])
  /\ Reads /\ Aside

UsesCounted(p) ==
  /\ At(p, "count") /\ ps[p].todo = {} /\ GoTo(p, "commit")
  /\ UNCHANGED conn /\ Reads /\ Aside

(* DeleteNode: Node, then a transaction of two deletions *)

StartDeleteNode(p) ==
  /\ \E n \in Node :
       Enter(p, [Idle EXCEPT !.call = "DeleteNode", !.at = "node", !.node = {n}])
  /\ UNCHANGED <<db, work, age, conn, issued>>

ReadNode(p) ==
  /\ At(p, "node") /\ Briefly(p)
  /\ \/ ps[p].node \subseteq db.nodes /\ GoTo(p, "begin node")
     \/ Return(p)
  /\ Reads /\ Aside

BeginDeleteNode(p) ==
  /\ At(p, "begin node") /\ Take(p) /\ GoTo(p, "unlist")
  /\ Reads /\ Aside

DeleteLocations(p) ==
  /\ At(p, "unlist")
  /\ Changes(p, [work EXCEPT !.locs = {l \in @ : l[2] \notin ps[p].node}])
  /\ GoTo(p, "unregister") /\ Aside

DeleteNodeRow(p) ==
  /\ At(p, "unregister")
  /\ Changes(p, [work EXCEPT !.nodes = @ \ ps[p].node,
                             !.locs = {l \in @ : l[2] \notin ps[p].node}])
  /\ GoTo(p, "commit") /\ Aside

(* The end of a transaction.  A row that is gone has no age. *)
Commit(p) ==
  /\ At(p, "commit") /\ GiveBack(p) /\ Return(p)
  /\ db' = work
  /\ age' = [n \in Node |-> IF n \in ps[p].node THEN "stale" ELSE age[n]]
  /\ UNCHANGED <<work, issued>>

(* A statement fails; the method returns, and the deferred Rollback undoes the
   transaction and frees the connection. *)
TransactionFailsKeeps(p) ==
  /\ ps[p].at \in InTransaction /\ Holding(p) /\ Return(p)
  /\ work' = db /\ UNCHANGED db
  /\ Aside
TransactionFails(p) ==
  /\ ps[p].at \in InTransaction /\ GiveBack(p) /\ Return(p)
  /\ work' = db /\ UNCHANGED db
  /\ Aside

(* Begin, or the first query of a method, fails. *)
FirstFails(p) ==
  /\ ps[p].at \in {"create", "begin", "begin node", "select"}
  /\ Briefly(p) /\ Return(p)
  /\ Reads /\ Aside

-----------------------------------------------------------------------------
(* Methods of single statements *)

StartRegister(p) ==
  /\ \E n \in Node :
       Enter(p, [Idle EXCEPT !.call = "RegisterNode", !.at = "register",
                             !.node = {n}])
  /\ UNCHANGED <<db, work, age, conn, issued>>

(* The result of the upsert is not looked at. *)
RegisterNode(p) ==
  /\ At(p, "register") /\ Briefly(p) /\ Return(p)
  /\ \/ /\ Autocommit([db EXCEPT !.nodes = @ \cup ps[p].node])
        /\ age' = [n \in Node |-> IF n \in ps[p].node THEN "fresh" ELSE age[n]]
     \/ Reads /\ UNCHANGED age
  /\ UNCHANGED issued

StartUpdate(p) ==
  /\ \E id \in FileId :
       Enter(p, [Idle EXCEPT !.call = "UpdateFileReplication", !.at = "update",
                             !.ids = {id}])
  /\ UNCHANGED <<db, work, age, conn, issued>>

(* UPDATE files, and File if it changed a row. *)
UpdateFileReplication(p) ==
  /\ At(p, "update") /\ Briefly(p)
  /\ \/ \E r \in Replicas, f \in db.files :
          /\ f.id \in ps[p].ids
          /\ Autocommit([db EXCEPT !.files =
                {IF g.id \in ps[p].ids THEN [g EXCEPT !.repl = Normalized(r)]
                                       ELSE g : g \in @}])
          /\ Becomes(p, [ps[p] EXCEPT !.at = "row", !.call = "File",
                                      !.left = ps[p].ids])
     \/ Return(p) /\ Reads
  /\ Aside

StartPair(p) ==
  /\ \E l \in Pairs :
       \/ Enter(p, [Idle EXCEPT !.call = "ConfirmChunk", !.at = "known",
                                !.pair = {l}])
       \/ Enter(p, [Idle EXCEPT !.call = "RemoveChunkLocation", !.at = "size",
                                !.pair = {l}])
  /\ UNCHANGED <<db, work, age, conn, issued>>

(* ConfirmChunk: the node is looked up, the location inserted, and if it was new
   last_seen is set; each by itself. *)
LookUpNode(p) ==
  /\ At(p, "known") /\ Briefly(p)
  /\ \/ (\A l \in ps[p].pair : l[2] \in db.nodes) /\ GoTo(p, "record")
     \/ Return(p)
  /\ Reads /\ Aside

(* INSERT OR IGNORE, which does not ignore the foreign key. *)
RecordLocation(p) ==
  /\ At(p, "record") /\ Briefly(p)
  /\ \/ /\ \A l \in ps[p].pair : l[2] \in db.nodes
        /\ Autocommit([db EXCEPT !.locs = @ \cup ps[p].pair])
        /\ IF ps[p].pair \subseteq db.locs THEN Return(p) ELSE GoTo(p, "touch")
     \/ Return(p) /\ Reads
  /\ Aside

(* Also when the node was deleted meanwhile: then it changes no row. *)
TouchNode(p) ==
  /\ At(p, "touch") /\ Briefly(p) /\ Return(p)
  /\ \E l \in ps[p].pair :
       age' \in {age, IF l[2] \in db.nodes THEN [age EXCEPT ![l[2]] = "fresh"]
                                          ELSE age}
  /\ Reads /\ UNCHANGED issued

(* RemoveChunkLocation: the size is read, the row deleted, and if there was one
   the node's free space credited. *)
ReadSize(p) ==
  /\ At(p, "size") /\ Briefly(p) /\ GoTo(p, "erase")
  /\ Reads /\ Aside

(* When the statement fails, the method dereferences the result it did not
   get; net/http ends the request (in the scheduler the server stops: Crash). *)
EraseLocation(p) ==
  /\ At(p, "erase") /\ Briefly(p)
  /\ \/ /\ Autocommit([db EXCEPT !.locs = @ \ ps[p].pair])
        /\ IF ps[p].pair \subseteq db.locs THEN GoTo(p, "credit") ELSE Return(p)
     \/ Return(p) /\ Reads
  /\ Aside

CreditNode(p) ==
  /\ At(p, "credit") /\ Briefly(p) /\ Return(p)
  /\ Reads /\ Aside

-----------------------------------------------------------------------------
(* ReplicationTasks, PruneTasks, Files, FileAvailability, LocationsSnapshot: a
   query, and after its rows are closed a series of others; with no other it is
   Nodes, ChunkLocations, PlanChunkSpread or OrphanChunkTasks. *)

StartTasks(p) ==
  /\ \E k \in 0 .. MaxSeries :
       Enter(p, [Idle EXCEPT !.call = "Tasks", !.at = "query", !.more = k])
  /\ UNCHANGED <<db, work, age, conn, issued>>

(* A query that fails yields nothing and the method goes on. *)
AfterQuery(p) == IF ps[p].more = 0 THEN Return(p)
                 ELSE Becomes(p, [ps[p] EXCEPT !.at = "query", !.more = @ - 1])

Query(p) ==
  /\ At(p, "query")
  /\ \/ Take(p) /\ GoTo(p, "task rows")
     \/ Briefly(p) /\ AfterQuery(p)
  /\ Reads /\ Aside

(* The next query would come while the rows are open. *)
CloseRowsLate(p) ==
  /\ At(p, "task rows")
  /\ IF ps[p].more = 0 THEN GiveBack(p) ELSE Holding(p)
  /\ AfterQuery(p)
  /\ Reads /\ Aside
CloseRows(p) ==
  /\ At(p, "task rows") /\ GiveBack(p) /\ AfterQuery(p)
  /\ Reads /\ Aside

-----------------------------------------------------------------------------
(* The clock, and a stop of the server with a start after it: SQLite forgets
   the open transaction, NewState opens the connection again. *)

Elapse(n) ==
  /\ n \in db.nodes
  /\ \/ age[n] = "fresh" /\ age' = [age EXCEPT ![n] = "edge"]
     \/ age[n] # "stale" /\ age' = [age EXCEPT ![n] = "stale"]
  /\ UNCHANGED <<db, work, conn, issued, ps>>

Crash ==
  /\ ps' = [p \in Goroutine |-> Idle]
  /\ conn' = Nobody /\ work' = db
  /\ UNCHANGED <<db, age, issued>>

Call(p) == \/ StartCreate(p) \/ StartFile(p) \/ StartRetention(p)
           \/ StartDeleteNode(p) \/ StartRegister(p) \/ StartUpdate(p)
           \/ StartPair(p) \/ StartTasks(p)

Creating(p) == \/ BeginCreate(p) \/ AssignVersion(p) \/ InsertFile(p)
               \/ InsertChunk(p) \/ ChunksInserted(p)

Reading(p) == \/ ReadRow(p) \/ RowMissing(p) \/ QueryChunks(p)
              \/ QueryChunksFails(p) \/ CloseChunks(p)

Deleting(p) == \/ SelectExpired(p) \/ CloseIds(p) \/ BeginDelete(p)
               \/ DeleteRow(p) \/ CountUses(p) \/ UsesCounted(p)

Removing(p) == \/ ReadNode(p) \/ BeginDeleteNode(p) \/ DeleteLocations(p)
               \/ DeleteNodeRow(p)

Single(p) == \/ RegisterNode(p) \/ UpdateFileReplication(p) \/ LookUpNode(p)
             \/ RecordLocation(p) \/ TouchNode(p) \/ ReadSize(p)
             \/ EraseLocation(p) \/ CreditNode(p) \/ Query(p) \/ CloseRows(p)

(* A step of a method that has been called. *)
Continue(p) == \/ Creating(p) \/ Reading(p) \/ Deleting(p) \/ Removing(p)
               \/ Single(p) \/ Commit(p) \/ TransactionFails(p) \/ FirstFails(p)

Next == \/ \E p \in Goroutine : Call(p) \/ Continue(p)
        \/ \E n \in Node : Elapse(n)
        \/ Crash

Spec == Init /\ [][Next]_vars

(* database/sql hands a connection that comes back to one of those that wait,
   at random: whoever waits gets it in the end, and who has it goes on. *)
Fairness == \A p \in Goroutine : SF_vars(Continue(p))

FairSpec == Spec /\ Fairness

-----------------------------------------------------------------------------
(* Properties *)

TransactionsTypeOK ==
  /\ db \in Tables /\ work \in Tables
  /\ age \in [Node -> Cat!Age]
  /\ conn \in Goroutine \cup {Nobody}
  /\ issued \subseteq [id: FileId, chunks: SUBSET Hash]
  /\ ps \in [Goroutine -> Local]

(* The methods change the tables as Catalog says, whole transactions at a
   time, with half-done ones, failing statements and stops of the server in
   between; the cascades keep manifests and their rows together (state.go). *)
ImplementsCatalog == Cat!CatSpec

(* A manifest is read in two statements outside any transaction, while rows
   come and go: it is found whole or without chunks, never in part (File,
   CreateFile, state.go:338-405, 788-803). *)
ManifestWholeOrEmpty ==
  \A p \in Goroutine : At(p, "rows") /\ ps[p].call # "ApplyRetention" =>
    \A i \in issued : i.id \in ps[p].ids => ps[p].hashes \in {{}, i.chunks}

Owned(t, h) == \E f \in t.files : <<f.id, h>> \in t.chunks

(* A deletion or a retention run that takes the last backup of a hash away
   returns the hash, and returns no hash that a backup still has, although it
   reads the manifests before its transaction (state.go:513-621).  Only a
   manifest that could not be read is missed; that is left to the cleanup of
   orphans. *)
GarbageExact ==
  [][/\ \A h \in Hash : Owned(db, h) /\ ~Owned(db', h) =>
          \E p \in Goroutine : At(p, "commit") /\ (h \in ps[p].out \/ ps[p].blind)
     /\ \A p \in Goroutine : At(p, "commit") /\ conn' # conn /\ db' = work =>
          \A h \in ps[p].out : ~Owned(db', h)]_vars

(* Every call of a method comes back: nobody waits for the one connection for
   ever, not for himself either (state.go:58). *)
CallsReturn == \A p \in Goroutine : ps[p] # Idle ~> ps[p] = Idle
=============================================================================
