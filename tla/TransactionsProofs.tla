-------------------------- MODULE TransactionsProofs --------------------------
(***************************************************************************)
(* Theorems about Transactions: its types, that it implements Catalog,     *)
(* that manifests are read whole, and what deletions return, for any       *)
(* number of goroutines, names, hashes and nodes.                          *)
(***************************************************************************)
EXTENDS Transactions, TLAPS

LEMMA IdleIsLocal == Idle \in Local
  BY DEF Idle, Local, Label, Methods, InTransaction, HoldsRows

LEMMA NormalizedPositive ==
  ASSUME NEW r \in Replicas PROVE Normalized(r) \in Nat \ {0}
  BY TransactionsAssumption DEF Normalized

LEMMA WithoutFileType ==
  ASSUME NEW t \in Tables, NEW id PROVE WithoutFile(t, id) \in Tables
<1>1. [t EXCEPT !.files = {f \in t.files : f.id # id}] \in Tables
  BY DEF Tables
<1>2. QED BY <1>1 DEF WithoutFile, Tables

LEMMA WithChunkType ==
  ASSUME NEW t \in Tables, NEW rows \in SUBSET FileRow, NEW h \in Hash
  PROVE  WithChunk(t, rows, h) \in Tables
  BY DEF WithChunk, Tables, FileRow

LEMMA TypeInit == Init => TransactionsTypeOK
  BY IdleIsLocal DEF Init, TransactionsTypeOK, Tables, Cat!Age

(* The types of a step that changes the state of p to l. *)
LEMMA TypeBecomes ==
  ASSUME TransactionsTypeOK, NEW p \in Goroutine, NEW l \in Local, Becomes(p, l)
  PROVE  ps' \in [Goroutine -> Local]
  BY DEF TransactionsTypeOK, Becomes

LEMMA TypeCall ==
  ASSUME TransactionsTypeOK, NEW p \in Goroutine, Call(p)
  PROVE  TransactionsTypeOK'
<1> USE IdleIsLocal, TypeBecomes DEF Enter
<1>1. CASE StartCreate(p)
  <2>1. PICK id \in FileId, nm \in Name, cs \in Contents, r \in Replicas :
          /\ issued' = issued \cup {[id |-> id, chunks |-> cs]}
          /\ Enter(p, [Idle EXCEPT !.call = "CreateFile", !.at = "create",
                                   !.hashes = cs, !.todo = cs,
                                   !.row = {[id |-> id, name |-> nm, version |-> 0,
                                             repl |-> Normalized(r)]}])
    BY <1>1 DEF StartCreate
  <2>2. cs \in SUBSET Hash BY TransactionsAssumption
  <2>3. [id |-> id, name |-> nm, version |-> 0, repl |-> Normalized(r)] \in FileRow
    BY NormalizedPositive DEF FileRow
  <2>4. [Idle EXCEPT !.call = "CreateFile", !.at = "create", !.hashes = cs, !.todo = cs,
                     !.row = {[id |-> id, name |-> nm, version |-> 0,
                               repl |-> Normalized(r)]}] \in Local
    BY <2>2, <2>3, ZenonT(60) DEF Local, Label, Methods
  <2>5. QED BY <1>1, <2>1, <2>2, <2>4 DEF StartCreate, TransactionsTypeOK
<1>2. CASE StartFile(p)
  <2>1. PICK id \in FileId, m \in {"File", "DeleteFile"} : Becomes(p, [Idle EXCEPT !.call = m, !.at = "row", !.ids = {id}, !.left = {id}])
    BY <1>2 DEF StartFile
  <2>2. [Idle EXCEPT !.call = m, !.at = "row", !.ids = {id}, !.left = {id}] \in Local
    BY ZenonT(60) DEF Local, Label, Methods
  <2>3. QED BY <1>2, <2>1, <2>2 DEF StartFile, TransactionsTypeOK
<1>3. CASE StartRetention(p)
  <2>1. [Idle EXCEPT !.call = "ApplyRetention", !.at = "select"] \in Local
    BY DEF Local, Label, Methods
  <2>2. QED BY <1>3, <2>1 DEF StartRetention, TransactionsTypeOK
<1>4. CASE StartDeleteNode(p)
  <2>1. PICK n \in Node : Becomes(p, [Idle EXCEPT !.call = "DeleteNode", !.at = "node", !.node = {n}])
    BY <1>4 DEF StartDeleteNode
  <2>2. [Idle EXCEPT !.call = "DeleteNode", !.at = "node", !.node = {n}] \in Local
    BY DEF Local, Label, Methods
  <2>3. QED BY <1>4, <2>1, <2>2 DEF StartDeleteNode, TransactionsTypeOK
<1>5. CASE StartRegister(p)
  <2>1. PICK n \in Node : Becomes(p, [Idle EXCEPT !.call = "RegisterNode", !.at = "register", !.node = {n}])
    BY <1>5 DEF StartRegister
  <2>2. [Idle EXCEPT !.call = "RegisterNode", !.at = "register", !.node = {n}] \in Local
    BY DEF Local, Label, Methods
  <2>3. QED BY <1>5, <2>1, <2>2 DEF StartRegister, TransactionsTypeOK
<1>6. CASE StartUpdate(p)
  <2>1. PICK id \in FileId : Becomes(p, [Idle EXCEPT !.call = "UpdateFileReplication", !.at = "update", !.ids = {id}])
    BY <1>6 DEF StartUpdate
  <2>2. [Idle EXCEPT !.call = "UpdateFileReplication", !.at = "update", !.ids = {id}] \in Local
    BY DEF Local, Label, Methods
  <2>3. QED BY <1>6, <2>1, <2>2 DEF StartUpdate, TransactionsTypeOK
<1>7. CASE StartPair(p)
  <2>1. PICK l \in Pairs :
          \/ Becomes(p, [Idle EXCEPT !.call = "ConfirmChunk", !.at = "known", !.pair = {l}])
          \/ Becomes(p, [Idle EXCEPT !.call = "RemoveChunkLocation", !.at = "size", !.pair = {l}])
    BY <1>7 DEF StartPair
  <2>2. l \in Hash \X Node BY TransactionsAssumption
  <2>3. [Idle EXCEPT !.call = "ConfirmChunk", !.at = "known", !.pair = {l}] \in Local
    BY <2>2 DEF Local, Label, Methods
  <2>4. [Idle EXCEPT !.call = "RemoveChunkLocation", !.at = "size", !.pair = {l}] \in Local
    BY <2>2, ZenonT(60) DEF Local, Label, Methods
  <2>5. QED BY <1>7, <2>1, <2>3, <2>4 DEF StartPair, TransactionsTypeOK
<1>8. CASE StartTasks(p)
  <2>1. PICK k \in 0 .. MaxSeries : Becomes(p, [Idle EXCEPT !.call = "Tasks", !.at = "query", !.more = k])
    BY <1>8 DEF StartTasks
  <2>2. k \in Nat BY TransactionsAssumption
  <2>4. [Idle EXCEPT !.call = "Tasks", !.at = "query", !.more = k] \in Local
    BY <2>2 DEF Local, Label, Methods
  <2>5. QED BY <1>8, <2>1, <2>4 DEF StartTasks, TransactionsTypeOK
<1>9. QED BY <1>1, <1>2, <1>3, <1>4, <1>5, <1>6, <1>7, <1>8 DEF Call

LEMMA TypeReturn ==
  ASSUME TransactionsTypeOK, NEW p \in Goroutine, Return(p)
  PROVE  ps' \in [Goroutine -> Local]
  BY IdleIsLocal, TypeBecomes DEF Return

LEMMA TypeGoTo ==
  ASSUME TransactionsTypeOK, NEW p \in Goroutine, NEW l \in Label, GoTo(p, l)
  PROVE  ps' \in [Goroutine -> Local]
<1>1. [ps[p] EXCEPT !.at = l] \in Local
  BY DEF TransactionsTypeOK, Local
<1>2. QED BY <1>1, TypeBecomes DEF GoTo

LEMMA TypeCreating ==
  ASSUME TransactionsTypeOK, NEW p \in Goroutine, Creating(p)
  PROVE  TransactionsTypeOK'
<1> USE TypeGoTo, TypeBecomes DEF Reads, Aside, Take, Holding, Changes
<1>0. ps[p] \in Local BY DEF TransactionsTypeOK
<1>1. CASE BeginCreate(p)
  BY <1>1 DEF BeginCreate, TransactionsTypeOK, Label, InTransaction
<1>2. CASE AssignVersion(p)
  <2>1. PICK r \in ps[p].row, v \in 1 .. MaxVersion :
          Becomes(p, [ps[p] EXCEPT !.at = "insert", !.row = {[r EXCEPT !.version = v]}])
    BY <1>2 DEF AssignVersion
  <2>2. [r EXCEPT !.version = v] \in FileRow
    <3>1. r \in FileRow /\ v \in Nat BY <1>0, TransactionsAssumption DEF Local
    <3>2. QED BY <3>1 DEF FileRow
  <2>3. [ps[p] EXCEPT !.at = "insert", !.row = {[r EXCEPT !.version = v]}] \in Local
    BY <1>0, <2>2 DEF Local, Label, InTransaction
  <2>4. QED BY <1>2, <2>1, <2>3 DEF AssignVersion, TransactionsTypeOK
<1>3. CASE InsertFile(p)
  <2>1. [work EXCEPT !.files = @ \cup ps[p].row] \in Tables
    BY <1>0 DEF TransactionsTypeOK, Tables, Local
  <2>2. QED BY <1>3, <2>1 DEF InsertFile, TransactionsTypeOK, Label, InTransaction
<1>4. CASE InsertChunk(p)
  <2>1. PICK h \in ps[p].todo :
          /\ Changes(p, WithChunk(work, ps[p].row, h))
          /\ Becomes(p, [ps[p] EXCEPT !.todo = @ \ {h}])
    BY <1>4 DEF InsertChunk
  <2>2. h \in Hash /\ ps[p].row \in SUBSET FileRow BY <1>0 DEF Local
  <2>3. WithChunk(work, ps[p].row, h) \in Tables
    BY <2>2, WithChunkType DEF TransactionsTypeOK
  <2>4. [ps[p] EXCEPT !.todo = @ \ {h}] \in Local BY <1>0 DEF Local
  <2>5. QED BY <1>4, <2>1, <2>3, <2>4 DEF InsertChunk, TransactionsTypeOK
<1>5. CASE ChunksInserted(p)
  BY <1>5 DEF ChunksInserted, TransactionsTypeOK, Label, InTransaction
<1>6. QED BY <1>1, <1>2, <1>3, <1>4, <1>5 DEF Creating

LEMMA TypeReading ==
  ASSUME TransactionsTypeOK, NEW p \in Goroutine, Reading(p)
  PROVE  TransactionsTypeOK'
<1> USE TypeReturn, TypeBecomes DEF Reads, Aside, Briefly, Take, GiveBack
<1>0. ps[p] \in Local BY DEF TransactionsTypeOK
<1>a. \A left : AfterFile(p, left) \in Label BY DEF AfterFile, Label
<1>1. CASE ReadRow(p)
  <2>1. PICK f \in db.files :
          Becomes(p, [ps[p] EXCEPT !.at = "chunks", !.file = {f.id}, !.left = @ \ {f.id}])
    BY <1>1 DEF ReadRow
  <2>2. f.id \in FileId BY DEF TransactionsTypeOK, Tables, FileRow
  <2>3. [ps[p] EXCEPT !.at = "chunks", !.file = {f.id}, !.left = @ \ {f.id}] \in Local
    BY <1>0, <2>2 DEF Local, Label
  <2>4. QED BY <1>1, <2>1, <2>3 DEF ReadRow, TransactionsTypeOK
<1>2. CASE RowMissing(p)
  <2>1. CASE Return(p) BY <1>2, <2>1 DEF RowMissing, TransactionsTypeOK
  <2>2. CASE ~Return(p)
    <3>1. PICK id \in ps[p].left :
            Becomes(p, [ps[p] EXCEPT !.left = @ \ {id},
                                     !.blind = IF \E f \in db.files : f.id = id
                                               THEN TRUE ELSE @,
                                     !.at = AfterFile(p, ps[p].left \ {id})])
      BY <1>2, <2>2 DEF RowMissing
    <3> DEFINE b == IF \E f \in db.files : f.id = id THEN TRUE ELSE ps[p].blind
    <3>2. b \in BOOLEAN BY <1>0 DEF Local
    <3>3. [ps[p] EXCEPT !.left = @ \ {id}, !.blind = b,
                        !.at = AfterFile(p, ps[p].left \ {id})] \in Local
      <4> HIDE DEF b
      <4> QED BY <1>0, <1>a, <3>2 DEF Local
    <3>4. QED BY <1>2, <3>1, <3>3 DEF RowMissing, TransactionsTypeOK
  <2>3. QED BY <2>1, <2>2
<1>3. CASE QueryChunks(p)
  <2> DEFINE found == {h \in Hash : \E id \in ps[p].file : <<id, h>> \in db.chunks}
  <2>1. found \in SUBSET Hash OBVIOUS
  <2>2. [ps[p] EXCEPT !.at = "rows", !.hashes = @ \cup found] \in Local
    <3> HIDE DEF found
    <3> QED BY <1>0, <2>1 DEF Local, Label, HoldsRows
  <2>3. Becomes(p, [ps[p] EXCEPT !.at = "rows", !.hashes = @ \cup found])
    BY <1>3 DEF QueryChunks
  <2>4. QED BY <1>3, <2>2, <2>3 DEF QueryChunks, TransactionsTypeOK
<1>4. CASE QueryChunksFails(p)
  <2>1. [ps[p] EXCEPT !.at = AfterFile(p, ps[p].left), !.file = {}, !.blind = TRUE] \in Local
    BY <1>0, <1>a DEF Local
  <2>2. QED BY <1>4, <2>1 DEF QueryChunksFails, TransactionsTypeOK
<1>5. CASE CloseChunks(p)
  <2>1. [ps[p] EXCEPT !.at = AfterFile(p, ps[p].left), !.file = {}] \in Local
    BY <1>0, <1>a DEF Local
  <2>2. QED BY <1>5, <2>1 DEF CloseChunks, FileRead, TransactionsTypeOK
<1>6. QED BY <1>1, <1>2, <1>3, <1>4, <1>5 DEF Reading

LEMMA TypeDeleting ==
  ASSUME TransactionsTypeOK, NEW p \in Goroutine, Deleting(p)
  PROVE  TransactionsTypeOK'
<1> USE TypeReturn, TypeGoTo, TypeBecomes
    DEF Reads, Aside, Take, GiveBack, Holding, Changes
<1>0. ps[p] \in Local BY DEF TransactionsTypeOK
<1>1. CASE SelectExpired(p)
  <2>1. PICK nm \in Name, keep \in Keeps :
          Becomes(p, [ps[p] EXCEPT !.at = "id rows", !.ids = Expired(db, nm, keep),
                                   !.left = Expired(db, nm, keep)])
    BY <1>1 DEF SelectExpired
  <2>2. Expired(db, nm, keep) \in SUBSET FileId
    BY DEF Expired, TransactionsTypeOK, Tables, FileRow
  <2>3. [ps[p] EXCEPT !.at = "id rows", !.ids = Expired(db, nm, keep),
                      !.left = Expired(db, nm, keep)] \in Local
    BY <1>0, <2>2 DEF Local, Label, HoldsRows
  <2>4. QED BY <1>1, <2>1, <2>3 DEF SelectExpired, TransactionsTypeOK
<1>2. CASE CloseIds(p)
  BY <1>2 DEF CloseIds, TransactionsTypeOK, Label
<1>3. CASE BeginDelete(p)
  <2>1. [ps[p] EXCEPT !.at = "delete", !.left = ps[p].ids, !.todo = ps[p].hashes] \in Local
    BY <1>0 DEF Local, Label, InTransaction
  <2>2. QED BY <1>3, <2>1 DEF BeginDelete, TransactionsTypeOK
<1>4. CASE DeleteRow(p)
  <2>1. PICK id \in ps[p].left :
          /\ Changes(p, WithoutFile(work, id))
          /\ Becomes(p, [ps[p] EXCEPT
               !.left = @ \ {id}, !.at = IF ps[p].left = {id} THEN "count" ELSE @])
    BY <1>4 DEF DeleteRow
  <2>2. [ps[p] EXCEPT !.left = @ \ {id},
                      !.at = IF ps[p].left = {id} THEN "count" ELSE @] \in Local
    BY <1>0, ZenonT(60) DEF Local, Label, InTransaction
  <2>3. QED BY <1>4, <2>1, <2>2, WithoutFileType DEF DeleteRow, TransactionsTypeOK
<1>5. CASE CountUses(p)
  <2>1. PICK h \in ps[p].todo :
          Becomes(p, [ps[p] EXCEPT !.todo = @ \ {h},
                                   !.out = IF Used(work, h) THEN @ ELSE @ \cup {h}])
    BY <1>5 DEF CountUses
  <2>2. [ps[p] EXCEPT !.todo = @ \ {h},
                      !.out = IF Used(work, h) THEN @ ELSE @ \cup {h}] \in Local
    BY <1>0 DEF Local
  <2>3. QED BY <1>5, <2>1, <2>2 DEF CountUses, TransactionsTypeOK
<1>6. CASE UsesCounted(p)
  BY <1>6 DEF UsesCounted, TransactionsTypeOK, Label, InTransaction
<1>7. QED BY <1>1, <1>2, <1>3, <1>4, <1>5, <1>6 DEF Deleting

LEMMA TypeRemoving ==
  ASSUME TransactionsTypeOK, NEW p \in Goroutine, Removing(p)
  PROVE  TransactionsTypeOK'
<1> USE TypeReturn, TypeGoTo DEF Reads, Aside, Briefly, Take, Holding, Changes
<1>1. CASE ReadNode(p)
  BY <1>1 DEF ReadNode, TransactionsTypeOK, Label
<1>2. CASE BeginDeleteNode(p)
  BY <1>2 DEF BeginDeleteNode, TransactionsTypeOK, Label, InTransaction
<1>3. CASE DeleteLocations(p)
  <2>1. [work EXCEPT !.locs = {l \in @ : l[2] \notin ps[p].node}] \in Tables
    BY DEF TransactionsTypeOK, Tables
  <2>2. QED BY <1>3, <2>1 DEF DeleteLocations, TransactionsTypeOK, Label, InTransaction
<1>4. CASE DeleteNodeRow(p)
  <2>1. [work EXCEPT !.nodes = @ \ ps[p].node,
                     !.locs = {l \in @ : l[2] \notin ps[p].node}] \in Tables
    <3> DEFINE kept == {l \in work.locs : l[2] \notin ps[p].node}
    <3>1. kept \in SUBSET (Hash \X Node) BY DEF TransactionsTypeOK, Tables
    <3>2. [work EXCEPT !.nodes = @ \ ps[p].node, !.locs = kept] \in Tables
      <4> HIDE DEF kept
      <4> QED BY <3>1 DEF TransactionsTypeOK, Tables
    <3>3. QED BY <3>2
  <2>2. QED BY <1>4, <2>1 DEF DeleteNodeRow, TransactionsTypeOK, Label, InTransaction
<1>5. QED BY <1>1, <1>2, <1>3, <1>4 DEF Removing

LEMMA TypeSingle ==
  ASSUME TransactionsTypeOK, NEW p \in Goroutine, Single(p)
  PROVE  TransactionsTypeOK'
<1> USE TypeReturn, TypeGoTo, TypeBecomes
    DEF Reads, Aside, Briefly, Take, GiveBack, Autocommit
<1>0. ps[p] \in Local BY DEF TransactionsTypeOK
<1>1. CASE RegisterNode(p)
  <2>1. [db EXCEPT !.nodes = @ \cup ps[p].node] \in Tables
    BY <1>0 DEF TransactionsTypeOK, Tables, Local
  <2>2. [n \in Node |-> IF n \in ps[p].node THEN "fresh" ELSE age[n]] \in [Node -> Cat!Age]
    BY DEF TransactionsTypeOK, Cat!Age
  <2>3. QED BY <1>1, <2>1, <2>2 DEF RegisterNode, TransactionsTypeOK
<1>2. CASE UpdateFileReplication(p)
  <2>1. CASE Return(p) /\ Reads
    BY <1>2, <2>1 DEF UpdateFileReplication, TransactionsTypeOK
  <2>2. CASE ~(Return(p) /\ Reads)
    <3>1. PICK r \in Replicas :
            /\ Autocommit([db EXCEPT !.files =
                 {IF g.id \in ps[p].ids THEN [g EXCEPT !.repl = Normalized(r)]
                                        ELSE g : g \in @}])
            /\ Becomes(p, [ps[p] EXCEPT !.at = "row", !.call = "File",
                                        !.left = ps[p].ids])
      BY <1>2, <2>2 DEF UpdateFileReplication
    <3> DEFINE F == {IF g.id \in ps[p].ids THEN [g EXCEPT !.repl = Normalized(r)]
                                          ELSE g : g \in db.files}
    <3>2. F \in SUBSET FileRow
      BY NormalizedPositive DEF TransactionsTypeOK, Tables, FileRow
    <3>3. [db EXCEPT !.files = F] \in Tables
      <4> HIDE DEF F
      <4> QED BY <3>2 DEF TransactionsTypeOK, Tables
    <3>4. [ps[p] EXCEPT !.at = "row", !.call = "File", !.left = ps[p].ids] \in Local
      BY <1>0 DEF Local, Label, Methods
    <3>5. QED BY <1>2, <3>1, <3>3, <3>4 DEF UpdateFileReplication, TransactionsTypeOK
  <2>3. QED BY <2>1, <2>2
<1>3. CASE LookUpNode(p)
  BY <1>3 DEF LookUpNode, TransactionsTypeOK, Label
<1>4. CASE RecordLocation(p)
  <2>1. [db EXCEPT !.locs = @ \cup ps[p].pair] \in Tables
    BY <1>0 DEF TransactionsTypeOK, Tables, Local
  <2>2. QED BY <1>4, <2>1 DEF RecordLocation, TransactionsTypeOK, Label
<1>5. CASE TouchNode(p)
  BY <1>5 DEF TouchNode, TransactionsTypeOK, Cat!Age
<1>6. CASE ReadSize(p)
  BY <1>6 DEF ReadSize, TransactionsTypeOK, Label
<1>7. CASE EraseLocation(p)
  <2>1. [db EXCEPT !.locs = @ \ ps[p].pair] \in Tables
    BY <1>0 DEF TransactionsTypeOK, Tables
  <2>2. QED BY <1>7, <2>1 DEF EraseLocation, TransactionsTypeOK, Label
<1>8. CASE CreditNode(p)
  BY <1>8 DEF CreditNode, TransactionsTypeOK
<1>a. ASSUME AfterQuery(p) PROVE ps' \in [Goroutine -> Local]
  <2>1. CASE ps[p].more = 0 BY <1>a, <2>1 DEF AfterQuery
  <2>2. CASE ps[p].more # 0
    <3>1. ps[p].more - 1 \in Nat BY <1>0, <2>2 DEF Local
    <3>2. [ps[p] EXCEPT !.at = "query", !.more = @ - 1] \in Local
      BY <1>0, <3>1 DEF Local, Label
    <3>3. QED BY <1>a, <2>2, <3>2 DEF AfterQuery
  <2>3. QED BY <2>1, <2>2
<1>9. CASE Query(p)
  BY <1>9, <1>a DEF Query, TransactionsTypeOK, Label, HoldsRows
<1>10. CASE CloseRows(p)
  BY <1>10, <1>a DEF CloseRows, TransactionsTypeOK
<1>11. QED
  BY <1>1, <1>2, <1>3, <1>4, <1>5, <1>6, <1>7, <1>8, <1>9, <1>10 DEF Single

LEMMA TypeStep ==
  ASSUME TransactionsTypeOK, [Next]_vars
  PROVE  TransactionsTypeOK'
<1>1. ASSUME NEW p \in Goroutine, Continue(p)
      PROVE  TransactionsTypeOK'
  <2>1. CASE Commit(p)
    <3>1. [n \in Node |-> IF n \in ps[p].node THEN "stale" ELSE age[n]]
            \in [Node -> Cat!Age]
      BY DEF TransactionsTypeOK, Cat!Age
    <3>2. QED BY <2>1, <3>1, TypeReturn DEF Commit, GiveBack, TransactionsTypeOK
  <2>2. CASE TransactionFails(p)
    BY <2>2, TypeReturn DEF TransactionFails, GiveBack, Aside, TransactionsTypeOK
  <2>3. CASE FirstFails(p)
    BY <2>3, TypeReturn DEF FirstFails, Briefly, Reads, Aside, TransactionsTypeOK
  <2>4. QED
    BY <1>1, <2>1, <2>2, <2>3, TypeCreating, TypeReading, TypeDeleting,
       TypeRemoving, TypeSingle DEF Continue
<1>2. CASE \E n \in Node : Elapse(n)
  BY <1>2 DEF Elapse, TransactionsTypeOK, Cat!Age
<1>3. CASE Crash
  BY <1>3, IdleIsLocal DEF Crash, TransactionsTypeOK
<1>4. CASE UNCHANGED vars
  BY <1>4 DEF vars, TransactionsTypeOK
<1>5. QED BY <1>1, <1>2, <1>3, <1>4, TypeCall DEF Next

(* Every table and every local keeps its type, whatever fails; in particular no
   statement stores a replication factor of zero. *)
THEOREM TransactionsTypeCorrect == Spec => []TransactionsTypeOK
  BY TypeInit, TypeStep, PTL DEF Spec
-----------------------------------------------------------------------------
(* The inductive invariant of the refinement *)

(* Who is in a transaction or has rows open has the connection. *)
Solo == \A p \in Goroutine :
          ps[p].at \in InTransaction \cup HoldsRows => conn = p

(* What the place of a method says of its locals. *)
FlowOK(l) ==
  /\ l.at \in {"create", "version", "insert", "insert chunks"} => l.call = "CreateFile"
  /\ l.at \in {"row", "chunks", "rows"} =>
       l.call \in {"File", "DeleteFile", "ApplyRetention"}
  /\ l.at \in {"select", "id rows"} => l.call = "ApplyRetention"
  /\ l.at \in {"begin", "delete", "count"} => l.call \in {"DeleteFile", "ApplyRetention"}
  /\ l.at \in {"node", "begin node", "unlist", "unregister"} => l.call = "DeleteNode"
  /\ l.at = "commit" => l.call \in {"CreateFile", "DeleteFile", "ApplyRetention", "DeleteNode"}
  /\ l.call \in {"CreateFile", "DeleteFile", "ApplyRetention"} => l.node = {}
  /\ l.call = "DeleteNode" \/ l.at = "register" => \E n \in Node : l.node = {n}
  /\ l.at = "update" => \E id \in FileId : l.ids = {id}
  /\ l.at \in {"known", "record", "touch", "size", "erase"} =>
       l.call # "CreateFile" /\ \E x \in Pairs : l.pair = {x}
  /\ l.at = "delete" => l.left \subseteq l.ids
  /\ l.at \in {"create", "version", "insert"} => l.todo = l.hashes
  /\ l.at = "insert chunks" => l.todo \subseteq l.hashes
  /\ l.call = "CreateFile" /\ l.at = "commit" => l.todo = {}
  /\ l.call = "CreateFile" => \E r \in FileRow, x \in Replicas :
                                l.row = {r} /\ r.repl = Normalized(x)

Flow == \A p \in Goroutine : FlowOK(ps[p])

Creates(p) == ps[p].call = "CreateFile"

(* The ids of rows to come are new. *)
Fresh ==
  /\ \A f \in db.files : \E i \in issued : i.id = f.id
  /\ \A p \in Goroutine : Creates(p) => \A r \in ps[p].row :
       /\ \E i \in issued : i.id = r.id
       /\ \A f \in db.files : f.id # r.id
       /\ \A q \in Goroutine : q # p /\ Creates(q) =>
            \A s \in ps[q].row : s.id # r.id

(* The foreign keys. *)
Keys ==
  /\ \A c \in db.chunks : \E f \in db.files : f.id = c[1]
  /\ \A l \in db.locs : l[2] \in db.nodes
  /\ \A n \in Node \ db.nodes : age[n] = "stale"

Numbered(t, r) == r.version \in 1 .. MaxVersion /\ NextVersion(t, r.name, r.version)

(* What the transaction of p has made of the tables so far. *)
CreateProgress(p) ==
  /\ work.nodes = db.nodes /\ work.locs = db.locs
  /\ work.files = db.files \cup ps[p].row
  /\ \A c : c \in work.chunks <=>
       \/ c \in db.chunks
       \/ \E r \in ps[p].row, h \in ps[p].hashes \ ps[p].todo : c = <<r.id, h>>
  /\ \A r \in ps[p].row : Numbered(db, r)

DeleteProgress(gone) ==
  /\ work.nodes = db.nodes /\ work.locs = db.locs
  /\ work.files = {f \in db.files : f.id \notin gone}
  /\ work.chunks = {c \in db.chunks : c[1] \notin gone}

RemoveProgress(p, rows) ==
  /\ work.files = db.files /\ work.chunks = db.chunks
  /\ work.nodes = db.nodes \ rows
  /\ work.locs = {l \in db.locs : l[2] \notin ps[p].node}

Progress(p) ==
  /\ At(p, "version") => work = db
  /\ At(p, "insert") => work = db /\ \A r \in ps[p].row : Numbered(db, r)
  /\ At(p, "insert chunks") => CreateProgress(p)
  /\ At(p, "delete") => DeleteProgress(ps[p].ids \ ps[p].left)
  /\ At(p, "count") => DeleteProgress(ps[p].ids)
  /\ At(p, "unlist") => work = db
  /\ At(p, "unregister") => RemoveProgress(p, {})
  /\ At(p, "commit") /\ Creates(p) => CreateProgress(p)
  /\ At(p, "commit") /\ ps[p].call = "DeleteNode" => RemoveProgress(p, ps[p].node)
  /\ At(p, "commit") /\ ps[p].call \in {"DeleteFile", "ApplyRetention"} =>
       DeleteProgress(ps[p].ids)

Isolated == (\A p \in Goroutine : ps[p].at \notin InTransaction) => work = db

Progresses == \A p \in Goroutine : Progress(p)

Linked == /\ TransactionsTypeOK /\ Solo /\ Flow /\ Fresh /\ Keys
          /\ Isolated /\ Progresses

LEMMA LinkedInit == Init => Linked
<1>1. ASSUME Init PROVE Linked
  <2>1. TransactionsTypeOK BY <1>1, TypeInit
  <2>2. QED
    BY <1>1, <2>1 DEF Init, Linked, Solo, Flow, FlowOK, Fresh, Keys, Isolated, Progresses,
       Progress, At, Idle, Creates, InTransaction, HoldsRows
<1>2. QED BY <1>1

(* While the connection is free or lent for rows, no transaction is open. *)
LEMMA NoTransaction ==
  ASSUME Linked, NEW p \in Goroutine, conn \in {Nobody, p},
         ps[p].at \notin InTransaction
  PROVE  /\ \A q \in Goroutine : ps[q].at \notin InTransaction
         /\ work = db
  BY TransactionsAssumption DEF Linked, Solo, Isolated

(* The step of p that takes it to l leaves the others where they were. *)
LEMMA FlowStep ==
  ASSUME Flow, NEW p \in Goroutine, NEW l, FlowOK(l),
         \A q \in Goroutine : ps'[q] = IF q = p THEN l ELSE ps[q]
  PROVE  Flow'
<1>1. ASSUME NEW q \in Goroutine PROVE FlowOK(ps[q])'
  <2>1. CASE q = p
    <3>1. ps'[q] = l BY <2>1
    <3>2. QED BY <3>1 DEF FlowOK
  <2>2. CASE q # p
    <3>1. ps'[q] = ps[q] /\ FlowOK(ps[q]) BY <2>2 DEF Flow
    <3>2. QED BY <3>1 DEF FlowOK
  <2>3. QED BY <2>1, <2>2
<1>2. QED BY <1>1 DEF Flow

(* A step of p between two statements of which none is in a transaction, that
   changes no table: all it has to keep is what its new place says. *)
LEMMA QuietStep ==
  ASSUME Linked, NEW p \in Goroutine, NEW l, Becomes(p, l),
         ps[p].at \notin InTransaction, l.at \notin InTransaction,
         FlowOK(l), l.call = "CreateFile" => l.row = ps[p].row /\ Creates(p),
         conn \in {Nobody, p},
         l.at \in HoldsRows => conn' = p,
         TransactionsTypeOK', UNCHANGED <<db, work, issued>>,
         \A n \in Node \ db.nodes : age'[n] = age[n]
  PROVE  Linked'
<1> USE DEF Linked
<1>1. /\ \A q \in Goroutine : ps[q].at \notin InTransaction
      /\ work = db
  BY NoTransaction
<1>2. ps' = [ps EXCEPT ![p] = l] /\ ps \in [Goroutine -> Local]
  BY DEF Becomes, TransactionsTypeOK
<1>3. \A q \in Goroutine : ps'[q] = IF q = p THEN l ELSE ps[q]
  BY <1>2
<1>4. Solo'
  <2>1. ASSUME NEW q \in Goroutine, q # p PROVE ps[q].at \notin InTransaction \cup HoldsRows
    BY <2>1, TransactionsAssumption DEF Solo
  <2>2. QED BY <1>3, <2>1 DEF Solo
<1>5. Flow' BY <1>3, FlowStep DEF Linked
<1>6. Fresh' BY <1>3 DEF Fresh, Creates
<1>7. Keys' BY DEF Keys
<1>8. Isolated' BY <1>1 DEF Isolated
<1>9. Progresses'
  BY <1>1, <1>3 DEF Progresses, Progress, At, InTransaction
<1>10. QED BY <1>4, <1>5, <1>6, <1>7, <1>8, <1>9
LEMMA IdleFlows == FlowOK(Idle) /\ Idle.at \notin InTransaction \cup HoldsRows
                     /\ Idle.call # "CreateFile"
  BY DEF FlowOK, Idle, InTransaction, HoldsRows

(* A method that returns without having been in a transaction. *)
LEMMA QuietReturn ==
  ASSUME Linked, NEW p \in Goroutine, Return(p),
         ps[p].at \notin InTransaction, conn \in {Nobody, p},
         TransactionsTypeOK', UNCHANGED <<db, work, issued>>,
         \A n \in Node \ db.nodes : age'[n] = age[n]
  PROVE  Linked'
  BY QuietStep, IdleFlows DEF Return

(* What another goroutine's transaction has done is not touched. *)
LEMMA ProgressKept ==
  ASSUME NEW q \in Goroutine, Progress(q), ps'[q] = ps[q], UNCHANGED <<db, work>>
  PROVE  Progress(q)'
<1>1. CreateProgress(q) => CreateProgress(q)'
  BY DEF CreateProgress, Numbered, NextVersion
<1>2. \A g : DeleteProgress(g) => DeleteProgress(g)'
  BY DEF DeleteProgress
<1>3. \A g : RemoveProgress(q, g) => RemoveProgress(q, g)'
  BY DEF RemoveProgress
<1>4. (\A r \in ps[q].row : Numbered(db, r)) => (\A r \in ps[q].row : Numbered(db, r))'
  BY DEF Numbered, NextVersion
<1>5. QED BY <1>1, <1>2, <1>3, <1>4 DEF Progress, At, Creates

LEMMA LinkedCall ==
  ASSUME Linked, NEW p \in Goroutine, Call(p), TransactionsTypeOK', ~StartCreate(p)
  PROVE  Linked'
<1> USE DEF Enter
<1>0. ps[p] = Idle => ps[p].at \notin InTransaction \cup HoldsRows
  BY IdleFlows
<1>a. ASSUME NEW l, ps[p] = Idle, Becomes(p, l), FlowOK(l),
             l.at \notin InTransaction \cup HoldsRows, l.call # "CreateFile",
             UNCHANGED <<db, work, age, conn, issued>>
      PROVE  Linked'
  <2>1. /\ Solo' /\ Flow' /\ Fresh' /\ Isolated' /\ Progresses' /\ Keys'
    <3>1. \A q \in Goroutine : ps'[q] = IF q = p THEN l ELSE ps[q]
      BY <1>a DEF Becomes, Linked, TransactionsTypeOK
    <3>2. Solo' BY <1>a, <3>1 DEF Solo, Linked
    <3>3. Flow' BY <1>a, <3>1, FlowStep DEF Linked
    <3>4. Fresh' BY <1>a, <3>1 DEF Fresh, Creates, Linked
    <3>5. Isolated' BY <1>a, <1>0, <3>1 DEF Isolated, Linked
    <3>6. Progresses'
      <4>1. ASSUME NEW q \in Goroutine PROVE Progress(q)'
        <5>1. CASE q = p
          <6>1. ps'[q] = l BY <3>1, <5>1
          <6>2. QED BY <1>a, <6>1 DEF Progress, At, InTransaction
        <5>2. CASE q # p
          <6>1. ps'[q] = ps[q] /\ Progress(q) BY <3>1, <5>2 DEF Linked, Progresses
          <6>2. QED BY <1>a, <6>1, ProgressKept
        <5>3. QED BY <5>1, <5>2
      <4>2. QED BY <4>1 DEF Progresses
    <3>7. Keys' BY <1>a DEF Keys, Linked
    <3>8. QED BY <3>2, <3>3, <3>4, <3>5, <3>6, <3>7
  <2>2. QED BY <2>1 DEF Linked
<1>1. CASE StartFile(p)
  <2>1. PICK id \in FileId, m \in {"File", "DeleteFile"} :
          ps[p] = Idle /\ Becomes(p, [Idle EXCEPT !.call = m, !.at = "row", !.ids = {id}, !.left = {id}])
    BY <1>1 DEF StartFile
  <2> DEFINE l == [Idle EXCEPT !.call = m, !.at = "row", !.ids = {id}, !.left = {id}]
  <2>2. FlowOK(l) /\ l.at \notin InTransaction \cup HoldsRows /\ l.call # "CreateFile"
    BY DEF FlowOK, Idle, InTransaction, HoldsRows
  <2>3. Becomes(p, l) BY <2>1
  <2> HIDE DEF l
  <2>4. QED BY <1>1, <2>1, <2>2, <2>3, <1>a DEF StartFile
<1>2. CASE StartDeleteNode(p)
  <2>1. PICK n \in Node :
          ps[p] = Idle /\ Becomes(p, [Idle EXCEPT !.call = "DeleteNode", !.at = "node", !.node = {n}])
    BY <1>2 DEF StartDeleteNode
  <2> DEFINE l == [Idle EXCEPT !.call = "DeleteNode", !.at = "node", !.node = {n}]
  <2>2. FlowOK(l) /\ l.at \notin InTransaction \cup HoldsRows /\ l.call # "CreateFile"
    BY DEF FlowOK, Idle, InTransaction, HoldsRows
  <2>3. Becomes(p, l) BY <2>1
  <2> HIDE DEF l
  <2>4. QED BY <1>2, <2>1, <2>2, <2>3, <1>a DEF StartDeleteNode
<1>3. CASE StartRegister(p)
  <2>1. PICK n \in Node :
          ps[p] = Idle /\ Becomes(p, [Idle EXCEPT !.call = "RegisterNode", !.at = "register", !.node = {n}])
    BY <1>3 DEF StartRegister
  <2> DEFINE l == [Idle EXCEPT !.call = "RegisterNode", !.at = "register", !.node = {n}]
  <2>2. FlowOK(l) /\ l.at \notin InTransaction \cup HoldsRows /\ l.call # "CreateFile"
    BY DEF FlowOK, Idle, InTransaction, HoldsRows
  <2>3. Becomes(p, l) BY <2>1
  <2> HIDE DEF l
  <2>4. QED BY <1>3, <2>1, <2>2, <2>3, <1>a DEF StartRegister
<1>4. CASE StartUpdate(p)
  <2>1. PICK id \in FileId :
          ps[p] = Idle /\ Becomes(p, [Idle EXCEPT !.call = "UpdateFileReplication", !.at = "update", !.ids = {id}])
    BY <1>4 DEF StartUpdate
  <2> DEFINE l == [Idle EXCEPT !.call = "UpdateFileReplication", !.at = "update", !.ids = {id}]
  <2>2. FlowOK(l) /\ l.at \notin InTransaction \cup HoldsRows /\ l.call # "CreateFile"
    BY DEF FlowOK, Idle, InTransaction, HoldsRows
  <2>3. Becomes(p, l) BY <2>1
  <2> HIDE DEF l
  <2>4. QED BY <1>4, <2>1, <2>2, <2>3, <1>a DEF StartUpdate
<1>5. CASE StartTasks(p)
  <2>1. PICK k \in 0 .. MaxSeries :
          ps[p] = Idle /\ Becomes(p, [Idle EXCEPT !.call = "Tasks", !.at = "query", !.more = k])
    BY <1>5 DEF StartTasks
  <2> DEFINE l == [Idle EXCEPT !.call = "Tasks", !.at = "query", !.more = k]
  <2>2. FlowOK(l) /\ l.at \notin InTransaction \cup HoldsRows /\ l.call # "CreateFile"
    BY DEF FlowOK, Idle, InTransaction, HoldsRows
  <2>3. Becomes(p, l) BY <2>1
  <2> HIDE DEF l
  <2>4. QED BY <1>5, <2>1, <2>2, <2>3, <1>a DEF StartTasks
<1>6. CASE StartRetention(p)
  <2> DEFINE l == [Idle EXCEPT !.call = "ApplyRetention", !.at = "select"]
  <2>1. ps[p] = Idle /\ Becomes(p, l) BY <1>6 DEF StartRetention
  <2>2. FlowOK(l) /\ l.at \notin InTransaction \cup HoldsRows /\ l.call # "CreateFile"
    BY DEF FlowOK, Idle, InTransaction, HoldsRows
  <2> HIDE DEF l
  <2>3. QED BY <1>6, <2>1, <2>2, <1>a DEF StartRetention
<1>7. CASE StartPair(p)
  <2>1. PICK x \in Pairs, m \in {"ConfirmChunk", "RemoveChunkLocation"}, a \in {"known", "size"} :
          ps[p] = Idle /\ Becomes(p, [Idle EXCEPT !.call = m, !.at = a, !.pair = {x}])
    BY <1>7 DEF StartPair
  <2> DEFINE l == [Idle EXCEPT !.call = m, !.at = a, !.pair = {x}]
  <2>2. FlowOK(l) /\ l.at \notin InTransaction \cup HoldsRows /\ l.call # "CreateFile"
    BY DEF FlowOK, Idle, InTransaction, HoldsRows
  <2>3. Becomes(p, l) BY <2>1
  <2> HIDE DEF l
  <2>4. QED BY <1>7, <2>1, <2>2, <2>3, <1>a DEF StartPair
<1>8. QED BY <1>1, <1>2, <1>3, <1>4, <1>5, <1>6, <1>7 DEF Call

LEMMA LinkedReading ==
  ASSUME Linked, NEW p \in Goroutine, Reading(p), TransactionsTypeOK'
  PROVE  Linked'
<1> USE DEF Reads, Aside, Briefly, Take, GiveBack, At
<1>0. ps[p] \in Local /\ FlowOK(ps[p]) BY DEF Linked, TransactionsTypeOK, Flow
<1>1. CASE ReadRow(p)
  <2>1. PICK f \in db.files :
          Becomes(p, [ps[p] EXCEPT !.at = "chunks", !.file = {f.id}, !.left = @ \ {f.id}])
    BY <1>1 DEF ReadRow
  <2> DEFINE l == [ps[p] EXCEPT !.at = "chunks", !.file = {f.id}, !.left = @ \ {f.id}]
  <2>2. FlowOK(l) /\ l.at \notin InTransaction \cup HoldsRows /\ l.call # "CreateFile"
    BY <1>0, <1>1 DEF ReadRow, FlowOK, Local, InTransaction, HoldsRows
  <2>3. Becomes(p, l) BY <2>1
  <2>4. ps[p].at \notin InTransaction BY <1>1 DEF ReadRow, InTransaction
  <2> HIDE DEF l
  <2>5. QED BY <1>1, <2>2, <2>3, <2>4, QuietStep DEF ReadRow
<1>2. CASE RowMissing(p)
  <2>0. ps[p].at \notin InTransaction BY <1>2 DEF RowMissing, InTransaction
  <2>1. CASE Return(p) BY <1>2, <2>0, <2>1, QuietReturn DEF RowMissing
  <2>2. CASE ~Return(p)
    <3>1. PICK id \in ps[p].left :
            Becomes(p, [ps[p] EXCEPT !.left = @ \ {id},
                                     !.blind = IF \E f \in db.files : f.id = id
                                               THEN TRUE ELSE @,
                                     !.at = AfterFile(p, ps[p].left \ {id})])
      BY <1>2, <2>2 DEF RowMissing
    <3> DEFINE b == IF \E f \in db.files : f.id = id THEN TRUE ELSE ps[p].blind
               nx == AfterFile(p, ps[p].left \ {id})
               l == [ps[p] EXCEPT !.left = @ \ {id}, !.blind = b, !.at = nx]
    <3>2. Becomes(p, l) BY <3>1
    <3>3. FlowOK(l) /\ l.at \notin InTransaction \cup HoldsRows /\ l.call # "CreateFile"
      <4>1. nx \in {"row", "idle", "begin"} /\ (nx = "begin" => ps[p].call # "File")
        BY DEF AfterFile
      <4> HIDE DEF b, nx
      <4> QED BY <1>0, <1>2, <4>1 DEF RowMissing, FlowOK, Local, InTransaction, HoldsRows
    <3> HIDE DEF l
    <3>4. QED BY <1>2, <2>0, <3>2, <3>3, QuietStep DEF RowMissing
  <2>3. QED BY <2>1, <2>2
<1>3. CASE QueryChunks(p)
  <2> DEFINE found == {h \in Hash : \E id \in ps[p].file : <<id, h>> \in db.chunks}
             l == [ps[p] EXCEPT !.at = "rows", !.hashes = @ \cup found]
  <2>1. Becomes(p, l) /\ ps[p].at \notin InTransaction
    BY <1>3 DEF QueryChunks, InTransaction
  <2>2. FlowOK(l) /\ l.at \notin InTransaction /\ l.call # "CreateFile"
    <3> HIDE DEF found
    <3> QED BY <1>0, <1>3 DEF QueryChunks, FlowOK, Local, InTransaction, HoldsRows
  <2> HIDE DEF l
  <2>3. QED BY <1>3, <2>1, <2>2, QuietStep DEF QueryChunks
<1>4. CASE QueryChunksFails(p)
  <2>0. ps[p].at \notin InTransaction BY <1>4 DEF QueryChunksFails, InTransaction
  <2>1. CASE Return(p) BY <1>4, <2>0, <2>1, QuietReturn DEF QueryChunksFails
  <2>2. CASE ~Return(p)
    <3> DEFINE nx == AfterFile(p, ps[p].left)
               l == [ps[p] EXCEPT !.at = nx, !.file = {}, !.blind = TRUE]
    <3>1. Becomes(p, l) BY <1>4, <2>2 DEF QueryChunksFails
    <3>2. FlowOK(l) /\ l.at \notin InTransaction \cup HoldsRows /\ l.call # "CreateFile"
      <4>1. nx \in {"row", "idle", "begin"} /\ (nx = "begin" => ps[p].call # "File")
        BY DEF AfterFile
      <4> HIDE DEF nx
      <4> QED BY <1>0, <1>4, <4>1 DEF QueryChunksFails, FlowOK, Local, InTransaction, HoldsRows
    <3> HIDE DEF l
    <3>3. QED BY <1>4, <2>0, <3>1, <3>2, QuietStep DEF QueryChunksFails
  <2>3. QED BY <2>1, <2>2
<1>5. CASE CloseChunks(p)
  <2>0. ps[p].at \notin InTransaction BY <1>5 DEF CloseChunks, InTransaction
  <2>1. CASE Return(p) BY <1>5, <2>0, <2>1, QuietReturn DEF CloseChunks
  <2>2. CASE ~Return(p)
    <3> DEFINE nx == AfterFile(p, ps[p].left)
               l == [ps[p] EXCEPT !.at = nx, !.file = {}]
    <3>1. Becomes(p, l) BY <1>5, <2>2 DEF CloseChunks, FileRead
    <3>2. FlowOK(l) /\ l.at \notin InTransaction \cup HoldsRows /\ l.call # "CreateFile"
      <4>1. nx \in {"row", "idle", "begin"} /\ (nx = "begin" => ps[p].call # "File")
        BY DEF AfterFile
      <4> HIDE DEF nx
      <4> QED BY <1>0, <1>5, <4>1 DEF CloseChunks, FlowOK, Local, InTransaction, HoldsRows
    <3> HIDE DEF l
    <3>3. QED BY <1>5, <2>0, <3>1, <3>2, QuietStep DEF CloseChunks
  <2>3. QED BY <2>1, <2>2
<1>6. QED BY <1>1, <1>2, <1>3, <1>4, <1>5 DEF Reading

LEMMA LinkedStartCreate ==
  ASSUME Linked, NEW p \in Goroutine, StartCreate(p), TransactionsTypeOK'
  PROVE  Linked'
<1> USE DEF Enter
<1>1. PICK id \in FileId, nm \in Name, cs \in Contents, r \in Replicas :
        /\ \A i \in issued : i.id # id
        /\ issued' = issued \cup {[id |-> id, chunks |-> cs]}
        /\ Enter(p, [Idle EXCEPT !.call = "CreateFile", !.at = "create",
                                 !.hashes = cs, !.todo = cs,
                                 !.row = {[id |-> id, name |-> nm, version |-> 0,
                                           repl |-> Normalized(r)]}])
  BY DEF StartCreate
<1> DEFINE new == [id |-> id, name |-> nm, version |-> 0, repl |-> Normalized(r)]
           l == [Idle EXCEPT !.call = "CreateFile", !.at = "create",
                             !.hashes = cs, !.todo = cs, !.row = {new}]
<1>2. /\ new \in FileRow /\ new.id = id /\ new.repl = Normalized(r)
  BY NormalizedPositive DEF FileRow
<1> HIDE DEF new
<1>3. /\ l.row = {new} /\ l.at = "create" /\ l.call = "CreateFile" /\ l.node = {}
      /\ l.todo = l.hashes
  BY DEF Idle
<1>4. Becomes(p, l) /\ ps[p] = Idle BY <1>1 DEF new
<1> HIDE DEF l
<1>5. FlowOK(l)
  BY <1>2, <1>3 DEF FlowOK
<1>6. /\ \A q \in Goroutine : ps'[q] = IF q = p THEN l ELSE ps[q]
      /\ UNCHANGED <<db, work, age, conn>>
  BY <1>4 DEF Becomes, Linked, TransactionsTypeOK, StartCreate
<1>7. Solo' BY <1>3, <1>6 DEF Solo, Linked, InTransaction, HoldsRows
<1>8. Flow' BY <1>5, <1>6, FlowStep DEF Linked
<1>9. Fresh'
  <2>1. \A f \in db.files : f.id # id /\ \E i \in issued' : i.id = f.id
    BY <1>1 DEF Linked, Fresh
  <2>2. \A q \in Goroutine : q # p /\ Creates(q) => \A s \in ps[q].row :
          s.id # id /\ \E i \in issued' : i.id = s.id
    BY <1>1 DEF Linked, Fresh
  <2>3. \E i \in issued' : i.id = id
    <3>1. [id |-> id, chunks |-> cs].id = id OBVIOUS
    <3>2. QED BY <1>1, <3>1
  <2>4. ASSUME NEW q \in Goroutine, Creates(q)', NEW s \in ps'[q].row
        PROVE  /\ \E i \in issued' : i.id = s.id
               /\ \A f \in db'.files : f.id # s.id
               /\ \A o \in Goroutine : o # q /\ Creates(o)' =>
                    \A v \in ps'[o].row : v.id # s.id
    <3>1. CASE q = p
      <4>1. s.id = id BY <1>2, <1>3, <1>6, <2>4, <3>1
      <4>2. QED BY <1>6, <2>1, <2>2, <2>3, <3>1, <4>1 DEF Creates
    <3>2. CASE q # p
      <4>1. Creates(q) /\ s \in ps[q].row BY <1>6, <2>4, <3>2 DEF Creates
      <4>2. /\ s.id # id /\ \A f \in db.files : f.id # s.id
            /\ \A o \in Goroutine : o # q /\ Creates(o) => \A v \in ps[o].row : v.id # s.id
        BY <2>2, <3>2, <4>1 DEF Linked, Fresh
      <4>3. QED BY <1>2, <1>3, <1>6, <2>2, <3>2, <4>1, <4>2 DEF Creates
    <3>3. QED BY <3>1, <3>2
  <2>5. QED BY <1>6, <2>1, <2>4 DEF Fresh
<1>10. Isolated' BY <1>3, <1>4, <1>6, IdleFlows DEF Isolated, Linked, InTransaction
<1>11. Progresses'
  <2>1. ASSUME NEW q \in Goroutine PROVE Progress(q)'
    <3>1. CASE q = p
      <4>1. ps'[q] = l BY <1>6, <3>1
      <4>2. QED BY <1>3, <4>1 DEF Progress, At
    <3>2. CASE q # p
      <4>1. ps'[q] = ps[q] /\ Progress(q) BY <1>6, <3>2 DEF Linked, Progresses
      <4>2. QED BY <1>6, <4>1, ProgressKept
    <3>3. QED BY <3>1, <3>2
  <2>2. QED BY <2>1 DEF Progresses
<1>12. Keys' BY <1>6 DEF Keys, Linked
<1>13. QED BY <1>7, <1>8, <1>9, <1>10, <1>11, <1>12 DEF Linked

(* A step of p into or within its transaction: it has the connection, so no
   other goroutine is in one. *)
LEMMA HeldStep ==
  ASSUME Linked, NEW p \in Goroutine, NEW l, Becomes(p, l),
         conn \in {Nobody, p}, conn' = p, l.at \in InTransaction, FlowOK(l),
         l.call = "CreateFile" =>
           Creates(p) /\ \A s \in l.row : \E r \in ps[p].row : s.id = r.id,
         UNCHANGED <<db, issued, age>>, TransactionsTypeOK', Progress(p)'
  PROVE  Linked'
<1>1. \A q \in Goroutine : ps'[q] = IF q = p THEN l ELSE ps[q]
  BY DEF Becomes, Linked, TransactionsTypeOK
<1>2. \A q \in Goroutine : q # p => ps[q].at \notin InTransaction \cup HoldsRows
  BY TransactionsAssumption DEF Linked, Solo
<1>3. Solo' BY <1>1, <1>2 DEF Solo
<1>4. Flow' BY <1>1, FlowStep DEF Linked
<1>5. Fresh'
  <2>1. ASSUME NEW q \in Goroutine, Creates(q)', NEW s \in ps'[q].row
        PROVE  Creates(q) /\ \E r \in ps[q].row : s.id = r.id
    BY <1>1, <2>1 DEF Creates
  <2>2. QED BY <2>1 DEF Fresh, Linked
<1>6. Keys' BY DEF Keys, Linked
<1>7. Isolated' BY <1>1 DEF Isolated
<1>8. Progresses'
  <2>1. ASSUME NEW q \in Goroutine, q # p PROVE Progress(q)'
    BY <1>1, <1>2, <2>1 DEF Progress, At, InTransaction
  <2>2. QED BY <2>1 DEF Progresses
<1>9. QED BY <1>3, <1>4, <1>5, <1>6, <1>7, <1>8 DEF Linked

(* A step after which no transaction is open and p has returned or is between
   two statements; it commits what p has done. *)
LEMMA CommittedStep ==
  ASSUME Linked, NEW p \in Goroutine, NEW l, Becomes(p, l),
         conn \in {Nobody, p}, conn' = Nobody,
         l.at \notin InTransaction \cup HoldsRows, FlowOK(l), l.call # "CreateFile",
         UNCHANGED issued, work' = db', TransactionsTypeOK', Keys',
         \A f \in db'.files :
          \/ \E g \in db.files : g.id = f.id
          \/ Creates(p) /\ \E r \in ps[p].row : r.id = f.id
  PROVE  Linked'
<1>1. \A q \in Goroutine : ps'[q] = IF q = p THEN l ELSE ps[q]
  BY DEF Becomes, Linked, TransactionsTypeOK
<1>2. \A q \in Goroutine : q # p => ps[q].at \notin InTransaction \cup HoldsRows
  BY TransactionsAssumption DEF Linked, Solo
<1>3. Solo' BY <1>1, <1>2 DEF Solo
<1>4. Flow' BY <1>1, FlowStep DEF Linked
<1>5. Fresh'
  <2>1. \A f \in db'.files : \E i \in issued : i.id = f.id
    BY DEF Fresh, Linked
  <2>2. ASSUME NEW q \in Goroutine, Creates(q)', NEW s \in ps'[q].row
        PROVE  /\ q # p /\ Creates(q) /\ s \in ps[q].row
               /\ \A f \in db'.files : f.id # s.id
    <3>1. q # p /\ Creates(q) /\ s \in ps[q].row BY <1>1, <2>2 DEF Creates
    <3>2. QED BY <3>1 DEF Fresh, Linked
  <2>3. QED BY <2>1, <2>2 DEF Fresh, Linked
<1>6. Isolated' BY DEF Isolated
<1>7. Progresses' BY <1>1, <1>2 DEF Progresses, Progress, At, InTransaction
<1>8. QED BY <1>3, <1>4, <1>5, <1>6, <1>7 DEF Linked

LEMMA LinkedCreating ==
  ASSUME Linked, NEW p \in Goroutine, Creating(p), TransactionsTypeOK'
  PROVE  Linked'
<1> USE DEF Reads, Aside, Take, Holding, At
<1>0. /\ ps[p] \in Local /\ FlowOK(ps[p]) /\ Progress(p)
      /\ ps \in [Goroutine -> Local]
  BY DEF Linked, TransactionsTypeOK, Flow, Progresses
<1>1. CASE BeginCreate(p)
  <2> DEFINE l == [ps[p] EXCEPT !.at = "version"]
  <2>1. Becomes(p, l) BY <1>1 DEF BeginCreate, GoTo
  <2>2. /\ FlowOK(l) /\ l.at = "version" /\ l.row = ps[p].row /\ l.call = "CreateFile"
        /\ Creates(p)
    BY <1>0, <1>1 DEF BeginCreate, FlowOK, Local, Creates
  <2>3. ps'[p] = l BY <1>0, <2>1 DEF Becomes
  <2>4. work = db
    <3>1. ps[p].at \notin InTransaction BY <1>1 DEF BeginCreate, InTransaction
    <3>2. QED BY <1>1, <3>1, NoTransaction DEF BeginCreate
  <2> HIDE DEF l
  <2>5. Progress(p)' BY <1>1, <2>2, <2>3, <2>4 DEF Progress, BeginCreate
  <2>6. QED BY <1>1, <2>1, <2>2, <2>5, HeldStep DEF BeginCreate, InTransaction
<1>2. CASE AssignVersion(p)
  <2>1. PICK r \in ps[p].row, v \in 1 .. MaxVersion :
          /\ NextVersion(work, r.name, v)
          /\ Becomes(p, [ps[p] EXCEPT !.at = "insert", !.row = {[r EXCEPT !.version = v]}])
    BY <1>2 DEF AssignVersion
  <2> DEFINE s == [r EXCEPT !.version = v]
             l == [ps[p] EXCEPT !.at = "insert", !.row = {s}]
  <2>2. Becomes(p, l) BY <2>1
  <2>3. r \in FileRow BY <1>0 DEF Local
  <2>4. /\ s.id = r.id /\ s.name = r.name /\ s.version = v /\ s.repl = r.repl
        /\ s \in FileRow
    BY <2>3, TransactionsAssumption DEF FileRow
  <2> HIDE DEF s
  <2>5. /\ l.at = "insert" /\ l.row = {s} /\ l.call = ps[p].call /\ l.node = ps[p].node
        /\ l.todo = ps[p].todo /\ l.hashes = ps[p].hashes
    BY <1>0 DEF Local
  <2>6. ps[p].call = "CreateFile" /\ ps[p].row = {r} /\ ps[p].node = {}
        /\ ps[p].todo = ps[p].hashes
        /\ \E x \in Replicas : r.repl = Normalized(x)
    BY <1>0, <1>2 DEF AssignVersion, FlowOK
  <2>7. ps'[p] = l BY <1>0, <2>2 DEF Becomes
  <2> HIDE DEF l
  <2>8. FlowOK(l) BY <2>4, <2>5, <2>6 DEF FlowOK
  <2>9. work = db BY <1>0, <1>2 DEF AssignVersion, Progress
  <2>10. Progress(p)'
    <3>1. Numbered(db, s) BY <2>1, <2>4, <2>9 DEF Numbered
    <3>2. (\A q \in ps[p].row : Numbered(db, q))'
      BY <1>2, <2>5, <2>7, <3>1 DEF Numbered, NextVersion, AssignVersion
    <3>3. QED BY <1>2, <2>5, <2>7, <2>9, <3>2 DEF Progress, AssignVersion
  <2>11. QED
    BY <1>2, <2>2, <2>4, <2>5, <2>6, <2>8, <2>10, HeldStep DEF AssignVersion, InTransaction, Creates
<1>3. CASE InsertFile(p)
  <2> DEFINE l == [ps[p] EXCEPT !.at = "insert chunks"]
  <2>1. Becomes(p, l) BY <1>3 DEF InsertFile, GoTo
  <2>2. /\ FlowOK(l) /\ l.at = "insert chunks" /\ l.row = ps[p].row /\ l.call = "CreateFile"
        /\ l.todo = ps[p].todo /\ l.hashes = ps[p].hashes /\ Creates(p)
    <3>1. /\ l.at = "insert chunks" /\ l.row = ps[p].row /\ l.call = ps[p].call
          /\ l.todo = ps[p].todo /\ l.hashes = ps[p].hashes /\ l.node = ps[p].node
      BY <1>0 DEF Local
    <3> HIDE DEF l
    <3>2. QED BY <1>0, <1>3, <3>1 DEF InsertFile, FlowOK, Creates
  <2>3. ps'[p] = l BY <1>0, <2>1 DEF Becomes
  <2>4. work = db /\ \A r \in ps[p].row : Numbered(db, r)
    BY <1>0, <1>3 DEF InsertFile, Progress
  <2>5. work \in Tables /\ db' = db /\ work' = [work EXCEPT !.files = @ \cup ps[p].row]
    BY <1>3 DEF InsertFile, Changes, Linked, TransactionsTypeOK
  <2> HIDE DEF l
  <2>6. ps[p].todo = ps[p].hashes BY <1>0, <1>3 DEF FlowOK, InsertFile
  <2>7. Progress(p)'
    <3>1. CreateProgress(p)'
      <4>1. /\ work'.nodes = db.nodes /\ work'.locs = db.locs /\ work'.chunks = db.chunks
            /\ work'.files = db.files \cup ps[p].row
        BY <2>4, <2>5 DEF Tables
      <4>2. (\A r \in ps[p].row : Numbered(db, r))'
        BY <2>2, <2>3, <2>4, <2>5 DEF Numbered, NextVersion
      <4>3. ps'[p].row = ps[p].row /\ ps'[p].hashes \ ps'[p].todo = {}
        BY <2>2, <2>3, <2>6
      <4>4. QED BY <2>5, <4>1, <4>2, <4>3 DEF CreateProgress
    <3>2. QED BY <2>2, <2>3, <3>1 DEF Progress
  <2>8. QED BY <1>3, <2>1, <2>2, <2>7, HeldStep DEF InsertFile, Changes, InTransaction
<1>4. CASE InsertChunk(p)
  <2>1. PICK h \in ps[p].todo :
          /\ Changes(p, WithChunk(work, ps[p].row, h))
          /\ Becomes(p, [ps[p] EXCEPT !.todo = @ \ {h}])
    BY <1>4 DEF InsertChunk
  <2> DEFINE l == [ps[p] EXCEPT !.todo = @ \ {h}]
  <2>2. Becomes(p, l) BY <2>1
  <2>3. /\ FlowOK(l) /\ l.at = "insert chunks" /\ l.row = ps[p].row /\ l.call = "CreateFile"
        /\ l.todo = ps[p].todo \ {h} /\ l.hashes = ps[p].hashes /\ Creates(p)
    <3>1. /\ l.at = ps[p].at /\ l.row = ps[p].row /\ l.call = ps[p].call
          /\ l.todo = ps[p].todo \ {h} /\ l.hashes = ps[p].hashes /\ l.node = ps[p].node
      BY <1>0 DEF Local
    <3> HIDE DEF l
    <3>2. QED BY <1>0, <1>4, <3>1 DEF InsertChunk, FlowOK, Creates
  <2>4. ps'[p] = l BY <1>0, <2>2 DEF Becomes
  <2>5. CreateProgress(p) /\ ps[p].todo \subseteq ps[p].hashes
    BY <1>0, <1>4 DEF InsertChunk, Progress, FlowOK
  <2>6. /\ work \in Tables /\ db' = db
        /\ work' = [work EXCEPT !.chunks = @ \cup {<<r.id, h>> : r \in ps[p].row}]
    BY <2>1 DEF Changes, WithChunk, Linked, TransactionsTypeOK
  <2> HIDE DEF l
  <2>7. Progress(p)'
    <3>1. CreateProgress(p)'
      <4>1. /\ work'.nodes = db.nodes /\ work'.locs = db.locs
            /\ work'.files = db.files \cup ps[p].row
            /\ work'.chunks = work.chunks \cup {<<r.id, h>> : r \in ps[p].row}
        BY <2>5, <2>6 DEF Tables, CreateProgress
      <4>2. (\A r \in ps[p].row : Numbered(db, r))'
        BY <2>3, <2>4, <2>5, <2>6 DEF Numbered, NextVersion, CreateProgress
      <4>3. ps'[p].row = ps[p].row
            /\ ps'[p].hashes \ ps'[p].todo = (ps[p].hashes \ ps[p].todo) \cup {h}
        BY <2>1, <2>3, <2>4, <2>5
      <4>4. \A c : c \in work'.chunks <=>
              \/ c \in db.chunks
              \/ \E r \in ps'[p].row, g \in ps'[p].hashes \ ps'[p].todo : c = <<r.id, g>>
        <5>1. \A c : c \in work'.chunks <=>
                c \in work.chunks \/ \E r \in ps[p].row : c = <<r.id, h>>
          BY <4>1
        <5>2. QED BY <2>5, <4>3, <5>1 DEF CreateProgress
      <4>5. QED BY <2>6, <4>1, <4>2, <4>3, <4>4 DEF CreateProgress
    <3>2. QED BY <2>3, <2>4, <3>1 DEF Progress
  <2>8. QED BY <1>4, <2>1, <2>2, <2>3, <2>7, HeldStep DEF InsertChunk, Changes, InTransaction
<1>5. CASE ChunksInserted(p)
  <2> DEFINE l == [ps[p] EXCEPT !.at = "commit"]
  <2>1. Becomes(p, l) BY <1>5 DEF ChunksInserted, GoTo
  <2>2. /\ FlowOK(l) /\ l.at = "commit" /\ l.row = ps[p].row /\ l.call = "CreateFile"
        /\ l.todo = ps[p].todo /\ l.hashes = ps[p].hashes /\ Creates(p)
    <3>1. /\ l.at = "commit" /\ l.row = ps[p].row /\ l.call = ps[p].call
          /\ l.todo = ps[p].todo /\ l.hashes = ps[p].hashes /\ l.node = ps[p].node
      BY <1>0 DEF Local
    <3> HIDE DEF l
    <3>2. QED BY <1>0, <1>5, <3>1 DEF ChunksInserted, FlowOK, Creates
  <2>3. ps'[p] = l BY <1>0, <2>1 DEF Becomes
  <2>4. CreateProgress(p) BY <1>0, <1>5 DEF ChunksInserted, Progress
  <2>5. conn = p BY <1>5 DEF ChunksInserted, Linked, Solo, InTransaction
  <2> HIDE DEF l
  <2>6. CreateProgress(p)'
    <3>1. (\A r \in ps[p].row : Numbered(db, r))'
      BY <1>5, <2>2, <2>3, <2>4 DEF Numbered, NextVersion, CreateProgress, ChunksInserted
    <3>2. UNCHANGED <<db, work>> /\ ps'[p].row = ps[p].row
          /\ ps'[p].hashes = ps[p].hashes /\ ps'[p].todo = ps[p].todo
      BY <1>5, <2>2, <2>3 DEF ChunksInserted
    <3>3. QED BY <2>4, <3>1, <3>2 DEF CreateProgress
  <2>7. Progress(p)' BY <2>2, <2>3, <2>6 DEF Progress
  <2>8. QED BY <1>5, <2>1, <2>2, <2>5, <2>7, HeldStep DEF ChunksInserted, InTransaction
<1>6. QED BY <1>1, <1>2, <1>3, <1>4, <1>5 DEF Creating

LEMMA LinkedDeleting ==
  ASSUME Linked, NEW p \in Goroutine, Deleting(p), TransactionsTypeOK'
  PROVE  Linked'
<1> USE DEF Reads, Aside, Take, GiveBack, Holding, At
<1>0. /\ ps[p] \in Local /\ FlowOK(ps[p]) /\ Progress(p)
      /\ ps \in [Goroutine -> Local]
  BY DEF Linked, TransactionsTypeOK, Flow, Progresses
<1>1. CASE SelectExpired(p)
  <2>1. PICK ids \in SUBSET FileId :
          Becomes(p, [ps[p] EXCEPT !.at = "id rows", !.ids = ids, !.left = ids])
    <3>1. \A nm, keep : Expired(db, nm, keep) \in SUBSET FileId BY DEF Expired
    <3>2. QED BY <1>1, <3>1 DEF SelectExpired
  <2> DEFINE l == [ps[p] EXCEPT !.at = "id rows", !.ids = ids, !.left = ids]
  <2>2. Becomes(p, l) BY <2>1
  <2>3. l.at = "id rows" /\ l.call = ps[p].call /\ l.node = ps[p].node
    BY <1>0 DEF Local
  <2> HIDE DEF l
  <2>4. ps[p].call = "ApplyRetention" BY <1>0, <1>1 DEF SelectExpired, FlowOK
  <2>5. FlowOK(l) BY <1>0, <2>3, <2>4 DEF FlowOK
  <2>6. ps[p].at \notin InTransaction /\ l.at \notin InTransaction
    BY <1>1, <2>3 DEF SelectExpired, InTransaction
  <2>7. QED BY <1>1, <2>2, <2>3, <2>4, <2>5, <2>6, QuietStep DEF SelectExpired
<1>2. CASE CloseIds(p)
  <2>0. ps[p].at \notin InTransaction /\ ps[p].at = "id rows"
    BY <1>2 DEF CloseIds, InTransaction
  <2>1. CASE Return(p) BY <1>2, <2>0, <2>1, QuietReturn DEF CloseIds
  <2>2. CASE ~Return(p)
    <3> DEFINE l == [ps[p] EXCEPT !.at = "row"]
    <3>1. Becomes(p, l) BY <1>2, <2>2 DEF CloseIds, GoTo
    <3>2. l.at = "row" /\ l.call = ps[p].call /\ l.node = ps[p].node
      BY <1>0 DEF Local
    <3> HIDE DEF l
    <3>3. ps[p].call = "ApplyRetention" BY <1>0, <2>0 DEF FlowOK
    <3>4. FlowOK(l) BY <1>0, <3>2, <3>3 DEF FlowOK
    <3>5. l.at \notin InTransaction \cup HoldsRows BY <3>2 DEF InTransaction, HoldsRows
    <3>6. QED BY <1>2, <2>0, <3>1, <3>2, <3>3, <3>4, <3>5, QuietStep DEF CloseIds
  <2>3. QED BY <2>1, <2>2
<1>3. CASE BeginDelete(p)
  <2> DEFINE l == [ps[p] EXCEPT !.at = "delete", !.left = ps[p].ids, !.todo = ps[p].hashes]
  <2>1. Becomes(p, l) BY <1>3 DEF BeginDelete
  <2>2. l.at = "delete" /\ l.call = ps[p].call /\ l.node = ps[p].node
        /\ l.ids = ps[p].ids /\ l.left = ps[p].ids
    BY <1>0 DEF Local
  <2> HIDE DEF l
  <2>3. ps[p].call \in {"DeleteFile", "ApplyRetention"} BY <1>0, <1>3 DEF BeginDelete, FlowOK
  <2>4. FlowOK(l) BY <1>0, <2>2, <2>3 DEF FlowOK
  <2>5. work = db
    <3>1. ps[p].at \notin InTransaction BY <1>3 DEF BeginDelete, InTransaction
    <3>2. QED BY <1>3, <3>1, NoTransaction DEF BeginDelete
  <2>6. ps'[p] = l BY <1>0, <2>1 DEF Becomes
  <2>7. Progress(p)'
    <3>1. UNCHANGED <<db, work>> /\ ps'[p].ids \ ps'[p].left = {} BY <1>3, <2>2, <2>6 DEF BeginDelete
    <3>2. DeleteProgress(ps[p].ids \ ps[p].left)' BY <2>5, <3>1 DEF DeleteProgress
    <3>3. QED BY <2>2, <2>6, <3>2 DEF Progress
  <2>8. l.at \in InTransaction /\ l.call # "CreateFile" BY <2>2, <2>3 DEF InTransaction
  <2>9. QED BY <1>3, <2>1, <2>4, <2>7, <2>8, HeldStep DEF BeginDelete
<1>4. CASE DeleteRow(p)
  <2>1. PICK id \in ps[p].left :
          /\ Changes(p, WithoutFile(work, id))
          /\ Becomes(p, [ps[p] EXCEPT !.left = @ \ {id},
                           !.at = IF ps[p].left = {id} THEN "count" ELSE @])
    BY <1>4 DEF DeleteRow
  <2> DEFINE nx == IF ps[p].left = {id} THEN "count" ELSE ps[p].at
             l == [ps[p] EXCEPT !.left = @ \ {id}, !.at = nx]
  <2>2. Becomes(p, l) BY <2>1
  <2>3. ps[p].at = "delete" BY <1>4 DEF DeleteRow
  <2>4. l.at = nx /\ l.call = ps[p].call /\ l.node = ps[p].node
        /\ l.ids = ps[p].ids /\ l.left = ps[p].left \ {id}
    <3> HIDE DEF nx
    <3> QED BY <1>0 DEF Local
  <2> HIDE DEF l
  <2>5. ps[p].call \in {"DeleteFile", "ApplyRetention"} /\ ps[p].left \subseteq ps[p].ids
    BY <1>0, <2>3 DEF FlowOK
  <2>6. FlowOK(l) BY <1>0, <2>3, <2>4, <2>5 DEF FlowOK
  <2>7. ps'[p] = l BY <1>0, <2>2 DEF Becomes
  <2>8. /\ work \in Tables /\ db' = db
        /\ work' = [work EXCEPT !.files = {f \in work.files : f.id # id},
                                !.chunks = {c \in work.chunks : c[1] # id}]
    BY <2>1 DEF Changes, WithoutFile, Linked, TransactionsTypeOK
  <2> DEFINE fs == {f \in work.files : f.id # id}
             cs == {c \in work.chunks : c[1] # id}
  <2>9. /\ work'.nodes = work.nodes /\ work'.locs = work.locs
        /\ work'.files = fs /\ work'.chunks = cs
    <3> HIDE DEF fs, cs
    <3> QED BY <2>8 DEF Tables, fs, cs
  <2>10. DeleteProgress(ps[p].ids \ ps[p].left) BY <1>0, <2>3 DEF Progress
  <2>11. (ps[p].ids \ ps[p].left) \cup {id} = ps'[p].ids \ ps'[p].left
    BY <2>4, <2>5, <2>7
  <2>12. Progress(p)'
    <3> DEFINE old == ps[p].ids \ ps[p].left
    <3>1. DeleteProgress(ps[p].ids \ ps[p].left)'
      <4>1. /\ work'.nodes = db.nodes /\ work'.locs = db.locs
        BY <2>9, <2>10 DEF DeleteProgress
      <4>2. work'.files = {f \in db.files : f.id \notin old \cup {id}}
        BY <2>9, <2>10 DEF DeleteProgress
      <4>3. work'.chunks = {c \in db.chunks : c[1] \notin old \cup {id}}
        BY <2>9, <2>10 DEF DeleteProgress
      <4>4. old \cup {id} = ps'[p].ids \ ps'[p].left BY <2>11
      <4> HIDE DEF old
      <4>5. QED BY <2>8, <4>1, <4>2, <4>3, <4>4 DEF DeleteProgress
    <3>2. QED BY <2>3, <2>4, <2>7, <3>1 DEF Progress
  <2>13. l.at \in InTransaction /\ l.call # "CreateFile" BY <2>3, <2>4, <2>5 DEF InTransaction
  <2>14. QED BY <1>4, <2>1, <2>2, <2>6, <2>12, <2>13, HeldStep DEF DeleteRow, Changes
<1>5. CASE CountUses(p)
  <2>1. PICK h \in ps[p].todo :
          Becomes(p, [ps[p] EXCEPT !.todo = @ \ {h},
                                   !.out = IF Used(work, h) THEN @ ELSE @ \cup {h}])
    BY <1>5 DEF CountUses
  <2> DEFINE o == IF Used(work, h) THEN ps[p].out ELSE ps[p].out \cup {h}
             l == [ps[p] EXCEPT !.todo = @ \ {h}, !.out = o]
  <2>2. Becomes(p, l) BY <2>1
  <2>3. l.at = ps[p].at /\ l.call = ps[p].call /\ l.node = ps[p].node /\ l.ids = ps[p].ids
    <3> HIDE DEF o
    <3> QED BY <1>0 DEF Local
  <2> HIDE DEF l
  <2>4. ps[p].at = "count" BY <1>5 DEF CountUses
  <2>5. ps[p].call \in {"DeleteFile", "ApplyRetention"} BY <1>0, <2>4 DEF FlowOK
  <2>6. FlowOK(l) BY <1>0, <2>3, <2>4, <2>5 DEF FlowOK
  <2>7. ps'[p] = l BY <1>0, <2>2 DEF Becomes
  <2>8. Progress(p)'
    <3>1. DeleteProgress(ps[p].ids) BY <1>0, <2>4 DEF Progress
    <3>2. UNCHANGED <<db, work>> /\ ps'[p].ids = ps[p].ids BY <1>5, <2>3, <2>7 DEF CountUses
    <3>3. DeleteProgress(ps[p].ids)' BY <3>1, <3>2 DEF DeleteProgress
    <3>4. QED BY <2>3, <2>4, <2>7, <3>3 DEF Progress
  <2>9. l.at \in InTransaction /\ l.call # "CreateFile" BY <2>3, <2>4, <2>5 DEF InTransaction
  <2>10. QED BY <1>5, <2>2, <2>6, <2>8, <2>9, HeldStep DEF CountUses
<1>6. CASE UsesCounted(p)
  <2> DEFINE l == [ps[p] EXCEPT !.at = "commit"]
  <2>1. Becomes(p, l) BY <1>6 DEF UsesCounted, GoTo
  <2>2. l.at = "commit" /\ l.call = ps[p].call /\ l.node = ps[p].node /\ l.ids = ps[p].ids
    BY <1>0 DEF Local
  <2> HIDE DEF l
  <2>3. ps[p].at = "count" BY <1>6 DEF UsesCounted
  <2>4. ps[p].call \in {"DeleteFile", "ApplyRetention"} BY <1>0, <2>3 DEF FlowOK
  <2>5. FlowOK(l) BY <1>0, <2>2, <2>4 DEF FlowOK
  <2>6. ps'[p] = l BY <1>0, <2>1 DEF Becomes
  <2>7. Progress(p)'
    <3>1. DeleteProgress(ps[p].ids) BY <1>0, <2>3 DEF Progress
    <3>2. UNCHANGED <<db, work>> /\ ps'[p].ids = ps[p].ids BY <1>6, <2>2, <2>6 DEF UsesCounted
    <3>3. DeleteProgress(ps[p].ids)' BY <3>1, <3>2 DEF DeleteProgress
    <3>4. QED BY <2>2, <2>4, <2>6, <3>3 DEF Progress, Creates
  <2>8. l.at \in InTransaction /\ l.call # "CreateFile" BY <2>2, <2>4 DEF InTransaction
  <2>9. conn = p BY <2>3 DEF Linked, Solo, InTransaction
  <2>10. QED BY <1>6, <2>1, <2>5, <2>7, <2>8, <2>9, HeldStep DEF UsesCounted
<1>7. QED BY <1>1, <1>2, <1>3, <1>4, <1>5, <1>6 DEF Deleting

LEMMA LinkedRemoving ==
  ASSUME Linked, NEW p \in Goroutine, Removing(p), TransactionsTypeOK'
  PROVE  Linked'
<1> USE DEF Reads, Aside, Take, Briefly, Holding, At, GoTo
<1>0. /\ ps[p] \in Local /\ FlowOK(ps[p]) /\ Progress(p)
      /\ ps \in [Goroutine -> Local] /\ work \in Tables
  BY DEF Linked, TransactionsTypeOK, Flow, Progresses
<1>a. ASSUME NEW a PROVE /\ [ps[p] EXCEPT !.at = a].at = a
                         /\ [ps[p] EXCEPT !.at = a].call = ps[p].call
                         /\ [ps[p] EXCEPT !.at = a].node = ps[p].node
  BY <1>0 DEF Local
<1>1. CASE ReadNode(p)
  <2>0. ps[p].at \notin InTransaction /\ ps[p].at = "node"
    BY <1>1 DEF ReadNode, InTransaction
  <2>1. CASE Return(p) BY <1>1, <2>0, <2>1, QuietReturn DEF ReadNode
  <2>2. CASE ~Return(p)
    <3> DEFINE l == [ps[p] EXCEPT !.at = "begin node"]
    <3>1. Becomes(p, l) BY <1>1, <2>2 DEF ReadNode
    <3>2. l.at = "begin node" /\ l.call = ps[p].call /\ l.node = ps[p].node BY <1>a
    <3> HIDE DEF l
    <3>3. ps[p].call = "DeleteNode" BY <1>0, <2>0 DEF FlowOK
    <3>4. FlowOK(l) BY <1>0, <3>2, <3>3 DEF FlowOK
    <3>5. l.at \notin InTransaction \cup HoldsRows BY <3>2 DEF InTransaction, HoldsRows
    <3>6. QED BY <1>1, <2>0, <3>1, <3>2, <3>3, <3>4, <3>5, QuietStep DEF ReadNode
  <2>3. QED BY <2>1, <2>2
<1>2. CASE BeginDeleteNode(p)
  <2> DEFINE l == [ps[p] EXCEPT !.at = "unlist"]
  <2>1. Becomes(p, l) BY <1>2 DEF BeginDeleteNode
  <2>2. l.at = "unlist" /\ l.call = ps[p].call /\ l.node = ps[p].node BY <1>a
  <2> HIDE DEF l
  <2>3. ps[p].call = "DeleteNode" /\ ps[p].at \notin InTransaction
    BY <1>0, <1>2 DEF FlowOK, BeginDeleteNode, InTransaction
  <2>4. FlowOK(l) BY <1>0, <2>2, <2>3 DEF FlowOK
  <2>5. work = db BY <1>2, <2>3, NoTransaction DEF BeginDeleteNode
  <2>6. ps'[p] = l BY <1>0, <2>1 DEF Becomes
  <2>7. Progress(p)' BY <1>2, <2>2, <2>5, <2>6 DEF Progress, BeginDeleteNode
  <2>8. QED BY <1>2, <2>1, <2>2, <2>3, <2>4, <2>7, HeldStep DEF BeginDeleteNode, InTransaction
<1>3. CASE DeleteLocations(p)
  <2> DEFINE l == [ps[p] EXCEPT !.at = "unregister"]
  <2>1. Becomes(p, l) BY <1>3 DEF DeleteLocations
  <2>2. l.at = "unregister" /\ l.call = ps[p].call /\ l.node = ps[p].node BY <1>a
  <2> HIDE DEF l
  <2>3. ps[p].call = "DeleteNode" /\ ps[p].at = "unlist" BY <1>0, <1>3 DEF FlowOK, DeleteLocations
  <2>4. FlowOK(l) BY <1>0, <2>2, <2>3 DEF FlowOK
  <2>5. ps'[p] = l BY <1>0, <2>1 DEF Becomes
  <2>6. Progress(p)'
    <3> DEFINE ls == {x \in work.locs : x[2] \notin ps[p].node}
    <3>1. work' = [work EXCEPT !.locs = ls] /\ db' = db /\ work = db
      BY <1>0, <1>3, <2>3 DEF DeleteLocations, Changes, Progress
    <3>2. /\ work'.files = db.files /\ work'.chunks = db.chunks /\ work'.nodes = db.nodes
          /\ work'.locs = ls
      <4> HIDE DEF ls
      <4> QED BY <1>0, <3>1 DEF Tables
    <3>3. RemoveProgress(p, {})' BY <2>2, <2>5, <3>1, <3>2 DEF RemoveProgress
    <3>4. QED BY <2>2, <2>5, <3>3 DEF Progress
  <2>7. QED BY <1>3, <2>1, <2>2, <2>3, <2>4, <2>6, HeldStep DEF DeleteLocations, Changes, InTransaction
<1>4. CASE DeleteNodeRow(p)
  <2> DEFINE l == [ps[p] EXCEPT !.at = "commit"]
  <2>1. Becomes(p, l) BY <1>4 DEF DeleteNodeRow
  <2>2. l.at = "commit" /\ l.call = ps[p].call /\ l.node = ps[p].node BY <1>a
  <2> HIDE DEF l
  <2>3. ps[p].call = "DeleteNode" /\ ps[p].at = "unregister" BY <1>0, <1>4 DEF FlowOK, DeleteNodeRow
  <2>4. FlowOK(l) BY <1>0, <2>2, <2>3 DEF FlowOK
  <2>5. ps'[p] = l BY <1>0, <2>1 DEF Becomes
  <2>6. Progress(p)'
    <3> DEFINE ls == {x \in work.locs : x[2] \notin ps[p].node}
               ns == work.nodes \ ps[p].node
    <3>1. /\ work' = [work EXCEPT !.nodes = ns, !.locs = ls] /\ db' = db
          /\ RemoveProgress(p, {})
      BY <1>0, <1>4, <2>3 DEF DeleteNodeRow, Changes, Progress
    <3>2. /\ work'.files = work.files /\ work'.chunks = work.chunks /\ work'.nodes = ns
          /\ work'.locs = ls
      <4> HIDE DEF ls, ns
      <4> QED BY <1>0, <3>1 DEF Tables
    <3>3. RemoveProgress(p, ps[p].node)'
      BY <2>2, <2>5, <3>1, <3>2 DEF RemoveProgress
    <3>4. QED BY <2>2, <2>3, <2>5, <3>3 DEF Progress, Creates
  <2>7. QED BY <1>4, <2>1, <2>2, <2>3, <2>4, <2>6, HeldStep DEF DeleteNodeRow, Changes, InTransaction
<1>5. QED BY <1>1, <1>2, <1>3, <1>4 DEF Removing

LEMMA LinkedCommit ==
  ASSUME Linked, NEW p \in Goroutine, Commit(p), TransactionsTypeOK'
  PROVE  Linked'
<1> USE DEF At
<1>0. /\ ps[p] \in Local /\ FlowOK(ps[p]) /\ Progress(p) /\ ps[p].at = "commit"
      /\ db' = work /\ work' = work /\ issued' = issued /\ GiveBack(p)
      /\ age' = [n \in Node |-> IF n \in ps[p].node THEN "stale" ELSE age[n]]
  BY DEF Linked, TransactionsTypeOK, Flow, Progresses, Commit
<1>1. Keys /\ db \in Tables BY DEF Linked, TransactionsTypeOK
<1>2. CASE Creates(p)
  <2>1. CreateProgress(p) /\ ps[p].node = {} /\ \E r \in FileRow : ps[p].row = {r}
    BY <1>0, <1>2 DEF Progress, FlowOK, Creates
  <2>2. Keys'
    <3>1. \A c \in work.chunks : \E f \in work.files : f.id = c[1]
      BY <1>1, <2>1 DEF Keys, CreateProgress
    <3>2. QED BY <1>0, <1>1, <2>1, <3>1 DEF Keys, CreateProgress
  <2>3. \A f \in db'.files :
          \/ \E g \in db.files : g.id = f.id
          \/ Creates(p) /\ \E r \in ps[p].row : r.id = f.id
    <3>1. db'.files = db.files \cup ps[p].row BY <1>0, <2>1 DEF CreateProgress
    <3>2. QED BY <1>2, <3>1
  <2>4. QED BY <1>0, <2>2, <2>3, IdleFlows, CommittedStep DEF Commit, Return, GiveBack
<1>3. CASE ps[p].call \in {"DeleteFile", "ApplyRetention"}
  <2>1. DeleteProgress(ps[p].ids) /\ ps[p].node = {}
    BY <1>0, <1>3 DEF Progress, FlowOK
  <2>2. Keys' BY <1>0, <1>1, <2>1 DEF Keys, DeleteProgress
  <2>3. \A f \in db'.files :
          \/ \E g \in db.files : g.id = f.id
          \/ Creates(p) /\ \E r \in ps[p].row : r.id = f.id
    BY <1>0, <2>1 DEF DeleteProgress
  <2>4. QED BY <1>0, <2>2, <2>3, IdleFlows, CommittedStep DEF Commit, Return, GiveBack
<1>4. CASE ps[p].call = "DeleteNode"
  <2>1. RemoveProgress(p, ps[p].node) BY <1>0, <1>4 DEF Progress
  <2>2. Keys' BY <1>0, <1>1, <2>1 DEF Keys, RemoveProgress
  <2>3. \A f \in db'.files :
          \/ \E g \in db.files : g.id = f.id
          \/ Creates(p) /\ \E r \in ps[p].row : r.id = f.id
    BY <1>0, <2>1 DEF RemoveProgress
  <2>4. QED BY <1>0, <2>2, <2>3, IdleFlows, CommittedStep DEF Commit, Return, GiveBack
<1>5. QED BY <1>0, <1>2, <1>3, <1>4 DEF FlowOK, Creates

LEMMA LinkedFails ==
  ASSUME Linked, NEW p \in Goroutine, TransactionFails(p) \/ FirstFails(p),
         TransactionsTypeOK'
  PROVE  Linked'
<1> USE DEF Aside, Reads
<1>1. CASE TransactionFails(p)
  <2>1. UNCHANGED <<db, age, issued>> /\ work' = db' /\ conn = p /\ conn' = Nobody
    BY <1>1 DEF TransactionFails, GiveBack
  <2>2. Keys' BY <2>1 DEF Linked, Keys
  <2>3. \A f \in db'.files :
          \/ \E g \in db.files : g.id = f.id
          \/ Creates(p) /\ \E r \in ps[p].row : r.id = f.id
    BY <2>1
  <2>4. QED BY <1>1, <2>1, <2>2, <2>3, IdleFlows, CommittedStep DEF TransactionFails, Return
<1>2. CASE FirstFails(p)
  <2>1. ps[p].at \notin InTransaction BY <1>2 DEF FirstFails, InTransaction
  <2>2. QED BY <1>2, <2>1, QuietReturn DEF FirstFails, Briefly
<1>3. QED BY <1>1, <1>2

LEMMA LinkedRest ==
  ASSUME Linked, (\E n \in Node : Elapse(n)) \/ Crash \/ UNCHANGED vars,
         TransactionsTypeOK'
  PROVE  Linked'
<1>1. CASE \E n \in Node : Elapse(n)
  <2>1. PICK n \in Node : Elapse(n) BY <1>1
  <2>2. UNCHANGED <<db, work, conn, issued, ps>> /\ n \in db.nodes BY <2>1 DEF Elapse
  <2>3. \A m \in Node \ db.nodes : age'[m] = age[m]
    BY <2>1, <2>2 DEF Elapse, Linked, TransactionsTypeOK
  <2>4. Progresses'
    <3>1. ASSUME NEW q \in Goroutine PROVE Progress(q)'
      BY <2>2, ProgressKept DEF Linked, Progresses
    <3>2. QED BY <3>1 DEF Progresses
  <2>5. Flow'
    <3>1. ASSUME NEW q \in Goroutine PROVE FlowOK(ps[q])'
      <4>1. ps'[q] = ps[q] /\ FlowOK(ps[q]) BY <2>2 DEF Linked, Flow
      <4>2. QED BY <4>1 DEF FlowOK
    <3>2. QED BY <3>1 DEF Flow
  <2>6. Keys' BY <2>2, <2>3 DEF Linked, Keys
  <2>7. Fresh' /\ Isolated' /\ Solo' BY <2>2 DEF Linked, Fresh, Isolated, Solo, Creates
  <2>8. QED BY <2>4, <2>5, <2>6, <2>7 DEF Linked
<1>2. CASE Crash
  <2>1. \A q \in Goroutine : ps'[q] = Idle BY <1>2 DEF Crash
  <2>2. UNCHANGED <<db, age, issued>> /\ work' = db' BY <1>2 DEF Crash
  <2>3. Solo' BY <2>1, IdleFlows DEF Solo
  <2>4. Flow'
    <3>1. ASSUME NEW q \in Goroutine PROVE FlowOK(ps[q])'
      <4>1. ps'[q] = Idle BY <2>1
      <4>2. QED BY <4>1, IdleFlows DEF FlowOK
    <3>2. QED BY <3>1 DEF Flow
  <2>5. Fresh' BY <2>1, <2>2, IdleFlows DEF Linked, Fresh, Creates
  <2>6. Keys' BY <2>2 DEF Linked, Keys
  <2>7. Progresses' BY <2>1, IdleFlows DEF Progresses, Progress, At, InTransaction
  <2>8. QED BY <2>2, <2>3, <2>4, <2>5, <2>6, <2>7 DEF Linked, Isolated
<1>3. CASE UNCHANGED vars
  <2>2. UNCHANGED <<db, work, conn, age, issued, ps>> BY <1>3 DEF vars
  <2>4. Progresses'
    <3>1. ASSUME NEW q \in Goroutine PROVE Progress(q)'
      BY <2>2, ProgressKept DEF Linked, Progresses
    <3>2. QED BY <3>1 DEF Progresses
  <2>5. Flow'
    <3>1. ASSUME NEW q \in Goroutine PROVE FlowOK(ps[q])'
      <4>1. ps'[q] = ps[q] /\ FlowOK(ps[q]) BY <2>2 DEF Linked, Flow
      <4>2. QED BY <4>1 DEF FlowOK
    <3>2. QED BY <3>1 DEF Flow
  <2>6. Keys' BY <2>2 DEF Linked, Keys
  <2>7. Fresh' /\ Isolated' /\ Solo' BY <2>2 DEF Linked, Fresh, Isolated, Solo, Creates
  <2>8. QED BY <2>4, <2>5, <2>6, <2>7 DEF Linked
<1>4. QED BY <1>1, <1>2, <1>3

LEMMA LinkedSingle ==
  ASSUME Linked, NEW p \in Goroutine, Single(p), TransactionsTypeOK'
  PROVE  Linked'
<1> USE DEF Reads, Aside, Take, Briefly, GiveBack, At, GoTo
<1>0. /\ ps[p] \in Local /\ FlowOK(ps[p]) /\ db \in Tables /\ age \in [Node -> Cat!Age]
      /\ ps \in [Goroutine -> Local] /\ Keys
  BY DEF Linked, TransactionsTypeOK, Flow
<1>a. ASSUME NEW a PROVE /\ [ps[p] EXCEPT !.at = a].at = a
                         /\ [ps[p] EXCEPT !.at = a].call = ps[p].call
                         /\ [ps[p] EXCEPT !.at = a].node = ps[p].node
                         /\ [ps[p] EXCEPT !.at = a].pair = ps[p].pair
                         /\ [ps[p] EXCEPT !.at = a].row = ps[p].row
  BY <1>0 DEF Local
<1>b. ASSUME NEW a \in {"record", "touch", "erase", "credit"}, GoTo(p, a),
             ps[p].at \in {"known", "record", "size", "erase"},
             conn = Nobody, conn' = conn, UNCHANGED <<db, work, issued, age>>
      PROVE  Linked'
  <2> DEFINE l == [ps[p] EXCEPT !.at = a]
  <2>1. Becomes(p, l) BY <1>b
  <2>2. l.at = a /\ l.call = ps[p].call /\ l.node = ps[p].node /\ l.pair = ps[p].pair
        /\ l.row = ps[p].row
    BY <1>a
  <2> HIDE DEF l
  <2>3. FlowOK(l) BY <1>0, <1>b, <2>2 DEF FlowOK
  <2>4. ps[p].at \notin InTransaction /\ l.at \notin InTransaction \cup HoldsRows
    BY <1>b, <2>2 DEF InTransaction, HoldsRows
  <2>5. QED BY <1>b, <2>1, <2>2, <2>3, <2>4, QuietStep DEF Creates
<1>c. ASSUME NEW t, Autocommit(t), GoTo(p, "touch") \/ GoTo(p, "credit") \/ Return(p),
             ps[p].at \in {"record", "erase"}, ps[p].call # "CreateFile",
             conn = Nobody, conn' = conn, UNCHANGED <<issued, age>>,
             t.files = db.files, t.chunks = db.chunks, t.nodes = db.nodes, t \in Tables,
             \A x \in t.locs : x[2] \in db.nodes
      PROVE  Linked'
  <2>1. db' = t /\ work' = db' BY <1>c DEF Autocommit
  <2>2. Keys' BY <1>0, <1>c, <2>1 DEF Keys
  <2>3. PICK l : Becomes(p, l) /\ FlowOK(l) /\ l.at \notin InTransaction \cup HoldsRows
                 /\ l.call # "CreateFile"
    <3>1. CASE Return(p) BY <3>1, IdleFlows DEF Return
    <3>2. CASE ~Return(p)
      <4>1. PICK a \in {"touch", "credit"} : Becomes(p, [ps[p] EXCEPT !.at = a])
        BY <1>c, <3>2
      <4> DEFINE l == [ps[p] EXCEPT !.at = a]
      <4>2. l.at = a /\ l.call = ps[p].call /\ l.node = ps[p].node /\ l.pair = ps[p].pair
        BY <1>a
      <4>3. Becomes(p, l) BY <4>1
      <4> HIDE DEF l
      <4>4. FlowOK(l) BY <1>0, <1>c, <4>2 DEF FlowOK
      <4>5. l.at \notin InTransaction \cup HoldsRows BY <4>2 DEF InTransaction, HoldsRows
      <4>6. QED BY <1>c, <4>2, <4>3, <4>4, <4>5
    <3>3. QED BY <3>1, <3>2
  <2>4. \A f \in db'.files :
          \/ \E g \in db.files : g.id = f.id
          \/ Creates(p) /\ \E r \in ps[p].row : r.id = f.id
    BY <1>c, <2>1
  <2>5. QED BY <1>c, <2>1, <2>2, <2>3, <2>4, CommittedStep
<1>d. ASSUME Return(p), UNCHANGED <<db, work, issued>>, conn \in {Nobody, p},
             ps[p].at \notin InTransaction,
             \A n \in Node \ db.nodes : age'[n] = age[n]
      PROVE  Linked'
  BY <1>d, QuietReturn
<1>1. CASE RegisterNode(p)
  <2>1. PICK n \in Node : ps[p].node = {n} BY <1>0, <1>1 DEF RegisterNode, FlowOK
  <2>2. CASE Reads /\ UNCHANGED age
    BY <1>1, <1>d, <2>2 DEF RegisterNode, InTransaction
  <2>3. CASE ~(Reads /\ UNCHANGED age)
    <3>1. /\ Autocommit([db EXCEPT !.nodes = @ \cup ps[p].node])
          /\ age' = [m \in Node |-> IF m \in ps[p].node THEN "fresh" ELSE age[m]]
      BY <1>1, <2>3 DEF RegisterNode
    <3>2. /\ db'.nodes = db.nodes \cup {n} /\ db'.files = db.files
          /\ db'.chunks = db.chunks /\ db'.locs = db.locs /\ work' = db'
      BY <1>0, <2>1, <3>1 DEF Autocommit, Tables
    <3>3. Keys' BY <1>0, <2>1, <3>1, <3>2 DEF Keys
    <3>4. \A f \in db'.files :
            \/ \E g \in db.files : g.id = f.id
            \/ Creates(p) /\ \E r \in ps[p].row : r.id = f.id
      BY <3>2
    <3>5. Becomes(p, Idle) /\ conn = Nobody /\ conn' = Nobody /\ issued' = issued
      BY <1>1 DEF RegisterNode, Return
    <3>6. QED BY <3>2, <3>3, <3>4, <3>5, IdleFlows, CommittedStep
  <2>4. QED BY <2>2, <2>3
<1>2. CASE UpdateFileReplication(p)
  <2>1. CASE Return(p) /\ Reads
    BY <1>2, <1>d, <2>1 DEF UpdateFileReplication, InTransaction
  <2>2. CASE ~(Return(p) /\ Reads)
    <3>1. PICK r \in Replicas :
            /\ Autocommit([db EXCEPT !.files =
                 {IF g.id \in ps[p].ids THEN [g EXCEPT !.repl = Normalized(r)]
                                        ELSE g : g \in @}])
            /\ Becomes(p, [ps[p] EXCEPT !.at = "row", !.call = "File", !.left = ps[p].ids])
      BY <1>2, <2>2 DEF UpdateFileReplication
    <3> DEFINE fs == {IF g.id \in ps[p].ids THEN [g EXCEPT !.repl = Normalized(r)]
                                            ELSE g : g \in db.files}
               l == [ps[p] EXCEPT !.at = "row", !.call = "File", !.left = ps[p].ids]
    <3>2. Becomes(p, l) /\ Autocommit([db EXCEPT !.files = fs]) BY <3>1
    <3>3. l.at = "row" /\ l.call = "File" BY <1>0 DEF Local
    <3> HIDE DEF l
    <3>4. FlowOK(l) BY <3>3 DEF FlowOK
    <3>5. \A f \in fs : \E g \in db.files : g.id = f.id
      BY <1>0 DEF Tables, FileRow
    <3>6. \A g \in db.files : \E f \in fs : g.id = f.id
      <4>1. ASSUME NEW g \in db.files PROVE \E f \in fs : g.id = f.id
        <5> DEFINE f == IF g.id \in ps[p].ids THEN [g EXCEPT !.repl = Normalized(r)] ELSE g
        <5>1. f.id = g.id BY <1>0 DEF Tables, FileRow
        <5>2. f \in fs OBVIOUS
        <5> HIDE DEF f, fs
        <5>3. QED BY <5>1, <5>2
      <4>2. QED BY <4>1
    <3> HIDE DEF fs
    <3>7. /\ db'.nodes = db.nodes /\ db'.files = fs
          /\ db'.chunks = db.chunks /\ db'.locs = db.locs /\ work' = db'
      BY <1>0, <3>2 DEF Autocommit, Tables
    <3>8. Keys'
      BY <1>0, <1>2, <3>6, <3>7 DEF Keys, UpdateFileReplication
    <3>9. \A f \in db'.files :
            \/ \E g \in db.files : g.id = f.id
            \/ Creates(p) /\ \E q \in ps[p].row : q.id = f.id
      BY <3>5, <3>7
    <3>10. conn = Nobody /\ conn' = Nobody /\ issued' = issued
           /\ l.at \notin InTransaction \cup HoldsRows
      BY <1>2, <3>3 DEF UpdateFileReplication, InTransaction, HoldsRows
    <3>11. QED BY <3>2, <3>3, <3>4, <3>7, <3>8, <3>9, <3>10, CommittedStep
  <2>3. QED BY <2>1, <2>2
<1>3. CASE LookUpNode(p)
  <2>1. CASE Return(p) BY <1>3, <1>d, <2>1 DEF LookUpNode, InTransaction
  <2>2. CASE ~Return(p) BY <1>3, <1>b, <2>2 DEF LookUpNode
  <2>3. QED BY <2>1, <2>2
<1>4. CASE RecordLocation(p)
  <2>1. CASE Return(p) /\ Reads BY <1>4, <1>d, <2>1 DEF RecordLocation, InTransaction
  <2>2. CASE ~(Return(p) /\ Reads)
    <3> DEFINE ls == db.locs \cup ps[p].pair
               t == [db EXCEPT !.locs = ls]
    <3>1. PICK x \in Pairs : ps[p].pair = {x} BY <1>0, <1>4 DEF RecordLocation, FlowOK
    <3>2. /\ Autocommit(t) /\ x[2] \in db.nodes
          /\ (Return(p) \/ GoTo(p, "touch"))
      BY <1>4, <2>2, <3>1 DEF RecordLocation
    <3>3. /\ t.files = db.files /\ t.chunks = db.chunks /\ t.nodes = db.nodes /\ t.locs = ls
          /\ t \in Tables
      <4>1. ls \subseteq Hash \X Node BY <1>0, <3>1, TransactionsAssumption DEF Tables
      <4> HIDE DEF ls
      <4>2. QED BY <1>0, <4>1 DEF Tables
    <3>4. \A y \in t.locs : y[2] \in db.nodes BY <1>0, <3>1, <3>2, <3>3 DEF Keys
    <3> HIDE DEF t
    <3>5. ps[p].at = "record" /\ ps[p].call # "CreateFile" BY <1>4, <1>0, <3>1 DEF RecordLocation, FlowOK
    <3>6. QED BY <1>4, <1>c, <3>2, <3>3, <3>4, <3>5 DEF RecordLocation
  <2>3. QED BY <2>1, <2>2
<1>5. CASE TouchNode(p)
  <2>1. \A n \in Node \ db.nodes : age'[n] = age[n]
    <3>1. PICK x \in ps[p].pair :
            age' \in {age, IF x[2] \in db.nodes THEN [age EXCEPT ![x[2]] = "fresh"] ELSE age}
      BY <1>5 DEF TouchNode
    <3>2. QED BY <1>0, <3>1
  <2>2. QED BY <1>5, <1>d, <2>1 DEF TouchNode, InTransaction
<1>6. CASE ReadSize(p) BY <1>6, <1>b DEF ReadSize
<1>7. CASE EraseLocation(p)
  <2>1. CASE Return(p) /\ Reads BY <1>7, <1>d, <2>1 DEF EraseLocation, InTransaction
  <2>2. CASE ~(Return(p) /\ Reads)
    <3> DEFINE ls == db.locs \ ps[p].pair
               t == [db EXCEPT !.locs = ls]
    <3>1. Autocommit(t) /\ (Return(p) \/ GoTo(p, "credit"))
      BY <1>7, <2>2 DEF EraseLocation
    <3>2. /\ t.files = db.files /\ t.chunks = db.chunks /\ t.nodes = db.nodes /\ t.locs = ls
          /\ t \in Tables
      <4>1. ls \subseteq Hash \X Node BY <1>0 DEF Tables
      <4> HIDE DEF ls
      <4>2. QED BY <1>0, <4>1 DEF Tables
    <3>3. \A y \in t.locs : y[2] \in db.nodes BY <1>0, <3>2 DEF Keys
    <3> HIDE DEF t
    <3>4. ps[p].at = "erase" /\ ps[p].call # "CreateFile" BY <1>7, <1>0 DEF EraseLocation, FlowOK
    <3>5. QED BY <1>7, <1>c, <3>1, <3>2, <3>3, <3>4 DEF EraseLocation
  <2>3. QED BY <2>1, <2>2
<1>8. CASE CreditNode(p) BY <1>8, <1>d DEF CreditNode, InTransaction
<1>9. ASSUME ps[p].at \in {"query", "task rows"}, AfterQuery(p), UNCHANGED <<db, work, age, issued>>,
             conn \in {Nobody, p}
      PROVE  Linked'
  <2>1. ps[p].at \notin InTransaction BY <1>9 DEF InTransaction
  <2>2. CASE Return(p) BY <1>9, <1>d, <2>1, <2>2
  <2>3. CASE ~Return(p)
    <3> DEFINE l == [ps[p] EXCEPT !.at = "query", !.more = @ - 1]
    <3>1. Becomes(p, l) BY <1>9, <2>3 DEF AfterQuery
    <3>2. l.at = "query" /\ l.call = ps[p].call /\ l.node = ps[p].node /\ l.row = ps[p].row
      BY <1>0 DEF Local
    <3> HIDE DEF l
    <3>3. FlowOK(l) BY <1>0, <3>2 DEF FlowOK
    <3>4. l.at \notin InTransaction \cup HoldsRows BY <3>2 DEF InTransaction, HoldsRows
    <3>5. QED BY <1>9, <2>1, <3>1, <3>2, <3>3, <3>4, QuietStep DEF Creates
  <2>4. QED BY <2>2, <2>3
<1>10. CASE Query(p)
  <2>1. CASE AfterQuery(p) BY <1>9, <1>10, <2>1 DEF Query
  <2>2. CASE ~AfterQuery(p)
    <3> DEFINE l == [ps[p] EXCEPT !.at = "task rows"]
    <3>1. Becomes(p, l) /\ conn = Nobody /\ conn' = p BY <1>10, <2>2 DEF Query
    <3>2. l.at = "task rows" /\ l.call = ps[p].call /\ l.node = ps[p].node /\ l.row = ps[p].row
      BY <1>a
    <3> HIDE DEF l
    <3>3. FlowOK(l) BY <1>0, <3>2 DEF FlowOK
    <3>4. l.at \notin InTransaction /\ ps[p].at \notin InTransaction
      BY <1>10, <3>2 DEF InTransaction, Query
    <3>5. QED BY <1>10, <3>1, <3>2, <3>3, <3>4, QuietStep DEF Creates, Query
  <2>3. QED BY <2>1, <2>2
<1>11. CASE CloseRows(p) BY <1>9, <1>11 DEF CloseRows
<1>12. QED BY <1>1, <1>2, <1>3, <1>4, <1>5, <1>6, <1>7, <1>8, <1>10, <1>11 DEF Single

LEMMA LinkedStep == Linked /\ [Next]_vars => Linked'
<1> SUFFICES ASSUME Linked, [Next]_vars PROVE Linked'
  OBVIOUS
<1>1. TransactionsTypeOK' BY TypeStep DEF Linked
<1>2. CASE \E p \in Goroutine : Call(p) \/ Continue(p)
  <2>1. PICK p \in Goroutine : Call(p) \/ Continue(p) BY <1>2
  <2>2. QED
    BY <1>1, <2>1, LinkedCall, LinkedStartCreate, LinkedCreating, LinkedReading, LinkedDeleting,
       LinkedRemoving, LinkedSingle, LinkedCommit, LinkedFails DEF Continue
<1>3. QED BY <1>1, <1>2, LinkedRest DEF Next

LEMMA LinkedCorrect == Spec => []Linked
  BY LinkedInit, LinkedStep, PTL DEF Spec

-----------------------------------------------------------------------------
(* The refinement: which step of Catalog each step is *)

ManifestOf(t, f) ==
  [id |-> f.id, name |-> f.name, version |-> f.version, repl |-> f.repl,
   chunks |-> {h \in Hash : <<f.id, h>> \in t.chunks}]

LEMMA ManifestsAre ==
  ASSUME NEW t PROVE Manifests(t) = {ManifestOf(t, f) : f \in t.files}
  BY DEF Manifests, ManifestOf

LEMMA ManifestFields ==
  ASSUME NEW t, NEW f
  PROVE  LET m == ManifestOf(t, f)
         IN  /\ m.id = f.id /\ m.name = f.name /\ m.version = f.version
             /\ m.repl = f.repl /\ m.chunks = {h \in Hash : <<f.id, h>> \in t.chunks}
  BY DEF ManifestOf

(* The rows and their chunks decide the manifests. *)
LEMMA SameManifests ==
  ASSUME NEW t, NEW u, u.files = t.files, u.chunks = t.chunks
  PROVE  Manifests(u) = Manifests(t)
  BY DEF Manifests

LEMMA CommitCreates ==
  ASSUME Linked, NEW p \in Goroutine, Commit(p), Creates(p)
  PROVE  Cat!CatNext
<1> USE DEF At
<1>1. /\ ps[p] \in Local /\ FlowOK(ps[p]) /\ Progress(p) /\ ps[p].at = "commit"
      /\ db' = work /\ Fresh /\ Keys /\ age \in [Node -> Cat!Age] /\ db \in Tables
      /\ age' = [n \in Node |-> IF n \in ps[p].node THEN "stale" ELSE age[n]]
  BY DEF Linked, TransactionsTypeOK, Flow, Progresses, Commit
<1>2. PICK r \in FileRow, x \in Replicas : ps[p].row = {r} /\ r.repl = Normalized(x)
  BY <1>1 DEF FlowOK, Creates
<1>3. CreateProgress(p) /\ ps[p].node = {} /\ ps[p].todo = {}
  BY <1>1 DEF FlowOK, Creates, Progress
<1>4. age' = age BY <1>1, <1>3
<1>5. db'.nodes = db.nodes /\ db'.locs = db.locs /\ db'.files = db.files \cup {r}
  BY <1>1, <1>2, <1>3 DEF CreateProgress
<1> DEFINE cs == ps[p].hashes
<1>6. cs \in SUBSET Hash BY <1>1 DEF Local
<1>7. \A c : c \in db'.chunks <=> c \in db.chunks \/ \E h \in cs : c = <<r.id, h>>
  BY <1>1, <1>2, <1>3 DEF CreateProgress
<1>8. /\ \A f \in db.files : f.id # r.id
      /\ \A h \in Hash : <<r.id, h>> \notin db.chunks
  BY <1>1, <1>2 DEF Fresh, Keys, Creates
<1> HIDE DEF cs
<1>9. ManifestOf(db', r) = [id |-> r.id, name |-> r.name, version |-> r.version,
                           repl |-> Normalized(x), chunks |-> cs]
  <2>1. {h \in Hash : <<r.id, h>> \in db'.chunks} = cs BY <1>6, <1>7, <1>8
  <2>2. QED BY <1>2, <2>1 DEF ManifestOf
<1>10. \A f \in db.files : ManifestOf(db', f) = ManifestOf(db, f)
  <2>1. ASSUME NEW f \in db.files PROVE ManifestOf(db', f) = ManifestOf(db, f)
    <3>1. {h \in Hash : <<f.id, h>> \in db'.chunks} = {h \in Hash : <<f.id, h>> \in db.chunks}
      BY <1>7, <1>8
    <3>2. QED BY <3>1 DEF ManifestOf
  <2>2. QED BY <2>1
<1>11. Manifests(db') = Manifests(db) \cup
         {[id |-> r.id, name |-> r.name, version |-> r.version,
           repl |-> Normalized(x), chunks |-> cs]}
  <2>1. Manifests(db') = {ManifestOf(db', f) : f \in db'.files} BY ManifestsAre
  <2>2. Manifests(db) = {ManifestOf(db, f) : f \in db.files} BY ManifestsAre
  <2>3. \A m : m \in Manifests(db') <=> m \in Manifests(db) \/ m = ManifestOf(db', r)
    BY <1>5, <1>10, <2>1, <2>2
  <2>4. QED BY <1>9, <2>3
<1>12. Manifests(db)' = Manifests(db') BY DEF Manifests
<1>13. \A m \in Manifests(db) : \E f \in db.files :
         m.id = f.id /\ m.name = f.name /\ m.version = f.version
  BY ManifestsAre, ManifestFields
<1>14. \A f \in db.files : \E m \in Manifests(db) :
         m.id = f.id /\ m.name = f.name /\ m.version = f.version
  BY ManifestsAre, ManifestFields
<1>15. Cat!CreateFile(r.id, r.name, cs, x)
  <2>1. \A m \in Manifests(db) : m.id # r.id BY <1>8, <1>13
  <2>2. r.version \in 1 .. MaxVersion /\ NextVersion(db, r.name, r.version)
    BY <1>2, <1>3 DEF CreateProgress, Numbered
  <2>3. Cat!NextVersion(r.name, r.version)
    BY <1>13, <1>14, <2>2 DEF Cat!NextVersion, NextVersion
  <2>4. Cat!NormalizedReplication(x) = Normalized(x)
    BY DEF Cat!NormalizedReplication, Normalized
  <2>5. QED BY <1>4, <1>5, <1>11, <1>12, <2>1, <2>2, <2>3, <2>4 DEF Cat!CreateFile
<1>16. QED BY <1>2, <1>6, <1>15 DEF Cat!CatNext, FileRow

LEMMA CommitDeletes ==
  ASSUME Linked, NEW p \in Goroutine, Commit(p),
         ps[p].call \in {"DeleteFile", "ApplyRetention"}
  PROVE  Cat!CatNext
<1> USE DEF At
<1>1. /\ ps[p] \in Local /\ FlowOK(ps[p]) /\ Progress(p) /\ ps[p].at = "commit"
      /\ db' = work /\ age \in [Node -> Cat!Age]
      /\ age' = [n \in Node |-> IF n \in ps[p].node THEN "stale" ELSE age[n]]
  BY DEF Linked, TransactionsTypeOK, Flow, Progresses, Commit
<1> DEFINE gone == ps[p].ids
<1>2. DeleteProgress(gone) /\ ps[p].node = {} /\ gone \in SUBSET FileId
  BY <1>1 DEF FlowOK, Progress, Local
<1>3. age' = age BY <1>1, <1>2
<1> HIDE DEF gone
<1>4. /\ db'.nodes = db.nodes /\ db'.locs = db.locs
      /\ db'.files = {f \in db.files : f.id \notin gone}
      /\ db'.chunks = {c \in db.chunks : c[1] \notin gone}
  BY <1>1, <1>2 DEF DeleteProgress
<1>5. \A f \in db'.files : ManifestOf(db', f) = ManifestOf(db, f)
  <2>1. ASSUME NEW f \in db'.files PROVE ManifestOf(db', f) = ManifestOf(db, f)
    <3>1. {h \in Hash : <<f.id, h>> \in db'.chunks} = {h \in Hash : <<f.id, h>> \in db.chunks}
      <4>1. \A h \in Hash : <<f.id, h>>[1] = f.id OBVIOUS
      <4>2. QED BY <1>4, <4>1
    <3>2. QED BY <3>1 DEF ManifestOf
  <2>2. QED BY <2>1
<1>6. Manifests(db') = {m \in Manifests(db) : m.id \notin gone}
  <2>1. Manifests(db') = {ManifestOf(db', f) : f \in db'.files} BY ManifestsAre
  <2>2. Manifests(db) = {ManifestOf(db, f) : f \in db.files} BY ManifestsAre
  <2>3. \A f : ManifestOf(db, f).id = f.id BY ManifestFields
  <2>4. \A m : m \in Manifests(db') <=> m \in Manifests(db) /\ m.id \notin gone
    BY <1>4, <1>5, <2>1, <2>2, <2>3
  <2>5. QED BY <2>4
<1>7. Manifests(db)' = Manifests(db') BY DEF Manifests
<1>8. Cat!DeleteFiles(gone) BY <1>3, <1>4, <1>6, <1>7 DEF Cat!DeleteFiles
<1>9. QED BY <1>2, <1>8 DEF Cat!CatNext

LEMMA CommitRemoves ==
  ASSUME Linked, NEW p \in Goroutine, Commit(p), ps[p].call = "DeleteNode"
  PROVE  Cat!CatNext \/ UNCHANGED Cat!catVars
<1> USE DEF At
<1>1. /\ ps[p] \in Local /\ FlowOK(ps[p]) /\ Progress(p) /\ ps[p].at = "commit"
      /\ db' = work /\ Keys /\ age \in [Node -> Cat!Age] /\ db \in Tables
      /\ age' = [n \in Node |-> IF n \in ps[p].node THEN "stale" ELSE age[n]]
  BY DEF Linked, TransactionsTypeOK, Flow, Progresses, Commit
<1>2. PICK n \in Node : ps[p].node = {n} BY <1>1 DEF FlowOK
<1>3. /\ db'.files = db.files /\ db'.chunks = db.chunks /\ db'.nodes = db.nodes \ {n}
      /\ db'.locs = {l \in db.locs : l[2] # n}
  BY <1>1, <1>2 DEF Progress, RemoveProgress
<1>4. age' = [age EXCEPT ![n] = "stale"] BY <1>1, <1>2
<1>5. Manifests(db)' = Manifests(db)
  <2>1. Manifests(db)' = Manifests(db') BY DEF Manifests
  <2>2. QED BY <1>3, <2>1, SameManifests
<1>6. CASE n \in db.nodes
  <2>1. Cat!DeleteNode(n) BY <1>3, <1>4, <1>5, <1>6 DEF Cat!DeleteNode
  <2>2. QED BY <2>1 DEF Cat!CatNext
<1>7. CASE n \notin db.nodes
  <2>1. age[n] = "stale" /\ \A l \in db.locs : l[2] # n BY <1>1, <1>7 DEF Keys
  <2>2. age' = age /\ db'.locs = db.locs /\ db'.nodes = db.nodes BY <1>1, <1>3, <1>4, <1>7, <2>1
  <2>3. QED BY <1>5, <2>2 DEF Cat!catVars
<1>8. QED BY <1>6, <1>7

(* A step that leaves the tables and the ages alone is a stutter of Catalog. *)
LEMMA Stutters ==
  ASSUME UNCHANGED <<db, age>> PROVE UNCHANGED Cat!catVars
  BY DEF Cat!catVars, Manifests

LEMMA SingleImplements ==
  ASSUME Linked, NEW p \in Goroutine, Single(p)
  PROVE  Cat!CatNext \/ UNCHANGED Cat!catVars
<1> USE DEF Reads, Aside, At
<1>0. /\ ps[p] \in Local /\ FlowOK(ps[p]) /\ db \in Tables /\ age \in [Node -> Cat!Age]
  BY DEF Linked, TransactionsTypeOK, Flow
<1>a. Manifests(db)' = Manifests(db') BY DEF Manifests
<1>1. CASE RegisterNode(p)
  <2>1. CASE Reads /\ UNCHANGED age BY <2>1, Stutters
  <2>2. CASE ~(Reads /\ UNCHANGED age)
    <3>1. PICK n \in Node : ps[p].node = {n} BY <1>0, <1>1 DEF RegisterNode, FlowOK
    <3>2. /\ db' = [db EXCEPT !.nodes = @ \cup {n}]
          /\ age' = [m \in Node |-> IF m \in {n} THEN "fresh" ELSE age[m]]
      BY <1>1, <2>2, <3>1 DEF RegisterNode, Autocommit
    <3>3. /\ db'.nodes = db.nodes \cup {n} /\ db'.files = db.files
          /\ db'.chunks = db.chunks /\ db'.locs = db.locs
      BY <1>0, <3>2 DEF Tables
    <3>4. Manifests(db') = Manifests(db) BY <3>3, SameManifests
    <3>5. age' = [age EXCEPT ![n] = "fresh"] BY <1>0, <3>2
    <3>6. Cat!RegisterNode(n) BY <1>a, <3>3, <3>4, <3>5 DEF Cat!RegisterNode
    <3>7. QED BY <3>6 DEF Cat!CatNext
  <2>3. QED BY <2>1, <2>2
<1>2. CASE UpdateFileReplication(p)
  <2>1. CASE Reads BY <1>2, <2>1, Stutters DEF UpdateFileReplication
  <2>2. CASE ~Reads
    <3>1. PICK id \in FileId : ps[p].ids = {id} BY <1>0, <1>2 DEF UpdateFileReplication, FlowOK
    <3>2. PICK r \in Replicas :
            db' = [db EXCEPT !.files =
                     {IF g.id \in ps[p].ids THEN [g EXCEPT !.repl = Normalized(r)]
                                            ELSE g : g \in @}]
      BY <1>2, <2>2 DEF UpdateFileReplication, Autocommit
    <3> DEFINE Patched(g) == IF g.id = id THEN [g EXCEPT !.repl = Normalized(r)] ELSE g
               fs == {Patched(g) : g \in db.files}
               PatchedManifest(m) ==
                 IF m.id = id THEN [m EXCEPT !.repl = Cat!NormalizedReplication(r)] ELSE m
    <3>3. db' = [db EXCEPT !.files = fs] BY <3>1, <3>2
    <3>4. /\ db'.nodes = db.nodes /\ db'.files = fs /\ db'.chunks = db.chunks
          /\ db'.locs = db.locs
      <4> HIDE DEF fs
      <4>1. QED BY <1>0, <3>3 DEF Tables
    <3>5. \A g \in db.files : ManifestOf(db', Patched(g)) = PatchedManifest(ManifestOf(db, g))
      <4>1. ASSUME NEW g \in db.files
            PROVE ManifestOf(db', Patched(g)) = PatchedManifest(ManifestOf(db, g))
        <5>1. g \in FileRow /\ Cat!NormalizedReplication(r) = Normalized(r)
          BY <1>0 DEF Tables, Cat!NormalizedReplication, Normalized
        <5>2. CASE g.id = id
          <6>1. /\ Patched(g).id = g.id /\ Patched(g).name = g.name
                /\ Patched(g).version = g.version /\ Patched(g).repl = Normalized(r)
            BY <5>1, <5>2 DEF FileRow
          <6>2. ManifestOf(db, g).id = id BY <5>2, ManifestFields
          <6> HIDE DEF Patched
          <6>3. QED BY <3>4, <5>1, <6>1, <6>2 DEF ManifestOf
        <5>3. CASE g.id # id
          <6>1. Patched(g) = g /\ ManifestOf(db, g).id # id BY <5>3, ManifestFields
          <6> HIDE DEF Patched
          <6>2. QED BY <3>4, <6>1 DEF ManifestOf
        <5>4. QED BY <5>2, <5>3
      <4>2. QED BY <4>1
    <3>6. Manifests(db') = {PatchedManifest(m) : m \in Manifests(db)}
      <4>1. Manifests(db') = {ManifestOf(db', f) : f \in fs} BY <3>4, ManifestsAre
      <4>2. Manifests(db) = {ManifestOf(db, f) : f \in db.files} BY ManifestsAre
      <4> HIDE DEF PatchedManifest, Patched
      <4>3. \A m : m \in Manifests(db') <=> \E g \in db.files : m = ManifestOf(db', Patched(g))
        BY <4>1
      <4>4. \A m : m \in {PatchedManifest(o) : o \in Manifests(db)} <=>
                     \E g \in db.files : m = PatchedManifest(ManifestOf(db, g))
        BY <4>2
      <4>5. QED BY <3>5, <4>3, <4>4
    <3>7. age' = age BY <1>2 DEF UpdateFileReplication
    <3>8. Cat!UpdateFileReplication(id, r)
      BY <1>a, <3>4, <3>6, <3>7 DEF Cat!UpdateFileReplication
    <3>9. QED BY <3>8 DEF Cat!CatNext
  <2>3. QED BY <2>1, <2>2
<1>3. CASE RecordLocation(p)
  <2>1. CASE Reads BY <1>3, <2>1, Stutters DEF RecordLocation
  <2>2. CASE ~Reads
    <3>1. PICK x \in Pairs : ps[p].pair = {x} BY <1>0, <1>3 DEF RecordLocation, FlowOK
    <3>2. PICK h \in Hash, n \in Node : x = <<h, n>> BY TransactionsAssumption
    <3>3. /\ n \in db.nodes /\ db' = [db EXCEPT !.locs = @ \cup {<<h, n>>}] /\ age' = age
      BY <1>3, <2>2, <3>1, <3>2 DEF RecordLocation, Autocommit
    <3>4. /\ db'.nodes = db.nodes /\ db'.files = db.files
          /\ db'.chunks = db.chunks /\ db'.locs = db.locs \cup {<<h, n>>}
      BY <1>0, <3>3 DEF Tables
    <3>5. Manifests(db') = Manifests(db) BY <3>4, SameManifests
    <3>6. Cat!ConfirmChunk(h, n) BY <1>a, <3>3, <3>4, <3>5 DEF Cat!ConfirmChunk
    <3>7. QED BY <3>6 DEF Cat!CatNext
  <2>3. QED BY <2>1, <2>2
<1>4. CASE TouchNode(p)
  <2>1. PICK x \in ps[p].pair :
          age' \in {age, IF x[2] \in db.nodes THEN [age EXCEPT ![x[2]] = "fresh"] ELSE age}
    BY <1>4 DEF TouchNode
  <2>2. db' = db BY <1>4 DEF TouchNode
  <2>3. CASE age' = age BY <2>2, <2>3, Stutters
  <2>4. CASE age' # age
    <3>1. x[2] \in db.nodes /\ age' = [age EXCEPT ![x[2]] = "fresh"] /\ x[2] \in Node
      BY <1>0, <2>1, <2>4 DEF Tables
    <3>2. db.nodes \cup {x[2]} = db.nodes BY <3>1
    <3>3. Cat!RegisterNode(x[2]) BY <1>a, <2>2, <3>1, <3>2 DEF Cat!RegisterNode
    <3>4. QED BY <3>1, <3>3 DEF Cat!CatNext
  <2>5. QED BY <2>3, <2>4
<1>5. CASE EraseLocation(p)
  <2>1. CASE Reads BY <1>5, <2>1, Stutters DEF EraseLocation
  <2>2. CASE ~Reads
    <3>1. PICK x \in Pairs : ps[p].pair = {x} BY <1>0, <1>5 DEF EraseLocation, FlowOK
    <3>2. PICK h \in Hash, n \in Node : x = <<h, n>> BY TransactionsAssumption
    <3>3. db' = [db EXCEPT !.locs = @ \ {<<h, n>>}] /\ age' = age
      BY <1>5, <2>2, <3>1, <3>2 DEF EraseLocation, Autocommit
    <3>4. /\ db'.nodes = db.nodes /\ db'.files = db.files
          /\ db'.chunks = db.chunks /\ db'.locs = db.locs \ {<<h, n>>}
      BY <1>0, <3>3 DEF Tables
    <3>5. Manifests(db') = Manifests(db) BY <3>4, SameManifests
    <3>6. Cat!RemoveChunkLocation(h, n)
      BY <1>a, <3>3, <3>4, <3>5 DEF Cat!RemoveChunkLocation
    <3>7. QED BY <3>6 DEF Cat!CatNext
  <2>3. QED BY <2>1, <2>2
<1>6. CASE LookUpNode(p) \/ ReadSize(p) \/ CreditNode(p) \/ Query(p) \/ CloseRows(p)
  BY <1>6, Stutters DEF LookUpNode, ReadSize, CreditNode, Query, CloseRows
<1>7. QED BY <1>1, <1>2, <1>3, <1>4, <1>5, <1>6 DEF Single

LEMMA StepImplements ==
  ASSUME Linked, [Next]_vars
  PROVE  Cat!CatNext \/ UNCHANGED Cat!catVars
<1> USE DEF Reads, Aside
<1>1. ASSUME NEW p \in Goroutine, Call(p) PROVE UNCHANGED <<db, age>>
  BY <1>1 DEF Call, StartCreate, StartFile, StartRetention, StartDeleteNode, StartRegister,
     StartUpdate, StartPair, StartTasks
<1>2. ASSUME NEW p \in Goroutine, Continue(p)
      PROVE  Cat!CatNext \/ UNCHANGED Cat!catVars
  <2>1. CASE Creating(p) \/ Reading(p) \/ Deleting(p) \/ Removing(p)
             \/ TransactionFails(p) \/ FirstFails(p)
    <3>1. CASE Creating(p)
      BY <3>1, Stutters DEF Creating, BeginCreate, AssignVersion, InsertFile, InsertChunk,
         ChunksInserted, Changes
    <3>2. CASE Reading(p)
      BY <3>2, Stutters DEF Reading, ReadRow, RowMissing, QueryChunks, QueryChunksFails, CloseChunks
    <3>3. CASE Deleting(p)
      BY <3>3, Stutters DEF Deleting, SelectExpired, CloseIds, BeginDelete, DeleteRow, CountUses,
         UsesCounted, Changes
    <3>4. CASE Removing(p)
      BY <3>4, Stutters DEF Removing, ReadNode, BeginDeleteNode, DeleteLocations, DeleteNodeRow,
         Changes
    <3>5. CASE TransactionFails(p) \/ FirstFails(p)
      BY <3>5, Stutters DEF TransactionFails, FirstFails
    <3>6. QED BY <2>1, <3>1, <3>2, <3>3, <3>4, <3>5
  <2>2. CASE Single(p) BY <2>2, SingleImplements
  <2>3. CASE Commit(p)
    <3>1. ps[p].call \in {"CreateFile", "DeleteFile", "ApplyRetention", "DeleteNode"}
      BY <2>3 DEF Commit, At, Linked, Flow, FlowOK
    <3>2. QED BY <2>3, <3>1, CommitCreates, CommitDeletes, CommitRemoves DEF Creates
  <2>4. QED BY <1>2, <2>1, <2>2, <2>3 DEF Continue
<1>3. ASSUME NEW n \in Node, Elapse(n) PROVE Cat!CatNext
  <2>1. Cat!Elapse(n)
    <3>1. UNCHANGED <<db.nodes, Manifests(db), db.locs>> BY <1>3 DEF Elapse, Manifests
    <3>2. QED BY <1>3, <3>1 DEF Elapse, Cat!Elapse
  <2>2. QED BY <2>1 DEF Cat!CatNext
<1>4. CASE Crash BY <1>4, Stutters DEF Crash
<1>5. CASE UNCHANGED vars BY <1>5, Stutters DEF vars
<1>6. CASE Next
  <2>1. CASE \E p \in Goroutine : Call(p) \/ Continue(p) BY <2>1, <1>1, <1>2, Stutters
  <2>2. CASE \E n \in Node : Elapse(n) BY <2>2, <1>3
  <2>3. QED BY <1>4, <1>6, <2>1, <2>2 DEF Next
<1>7. QED BY <1>5, <1>6

LEMMA InitImplements == Init => Cat!CatInit
  BY DEF Init, Cat!CatInit, Manifests

(* Whatever overlaps, fails or stops, the methods of State change the tables as
   Catalog says they do: as whole transactions. *)
THEOREM TransactionsImplementCatalog == Spec => ImplementsCatalog
<1>1. Linked /\ [Next]_vars => [Cat!CatNext]_Cat!catVars
  BY StepImplements
<1>2. QED BY <1>1, InitImplements, LinkedCorrect, PTL DEF Spec, ImplementsCatalog, Cat!CatSpec

-----------------------------------------------------------------------------
(* Manifests are found whole *)

(* What a method that reads one manifest, or writes one, has of it. *)
Narrow(l) ==
  /\ l.call \in {"File", "DeleteFile"} =>
       /\ l.at = "row" => l.hashes = {} /\ \E id \in FileId : l.ids = {id} /\ l.left = {id}
       /\ l.at = "chunks" => l.hashes = {} /\ l.left = {}
                             /\ \E i \in issued : l.ids = {i.id} /\ l.file = {i.id}
       /\ l.at = "rows" => l.left = {} /\ \E i \in issued : l.ids = {i.id}
                                                 /\ l.hashes \in {{}, i.chunks}
  /\ l.at = "update" => l.hashes = {}
  /\ l.call = "CreateFile" => \A r \in l.row, i \in issued : i.id = r.id => l.hashes = i.chunks

Unique == \A i, j \in issued : i.id = j.id => i = j

Complete == \A f \in db.files, i \in issued : i.id = f.id =>
              \A h \in Hash : <<i.id, h>> \in db.chunks <=> h \in i.chunks

Narrowed == \A p \in Goroutine : Narrow(ps[p])

Tidy == Unique /\ Complete /\ Narrowed

LEMMA TidyInit == Init => Tidy
  BY DEF Init, Tidy, Unique, Complete, Narrowed, Narrow, Idle

(* A step of p that takes it to l. *)
LEMMA TidyStep ==
  ASSUME Linked, Tidy, NEW p \in Goroutine, NEW l, Becomes(p, l), Narrow(l),
         issued' = issued, Complete'
  PROVE  Tidy'
<1>1. \A q \in Goroutine : ps'[q] = IF q = p THEN l ELSE ps[q]
  BY DEF Becomes, Linked, TransactionsTypeOK
<1>2. \A q \in Goroutine : Narrow(ps'[q]) BY <1>1 DEF Tidy, Narrowed
<1>3. \A q \in Goroutine : Narrow(ps[q])' BY <1>2 DEF Narrow
<1>4. QED BY <1>3 DEF Tidy, Unique, Narrowed

LEMMA IdleNarrow == Narrow(Idle)
  BY DEF Narrow, Idle

(* No manifest changes while file_chunks stays and no row gets another id. *)
LEMMA SameComplete ==
  ASSUME Tidy, issued' = issued, db'.chunks = db.chunks,
         \A f \in db'.files : \E g \in db.files : g.id = f.id
  PROVE  Complete'
  BY DEF Tidy, Complete

LEMMA ReadsComplete ==
  ASSUME Tidy, issued' = issued, db' = db PROVE Complete'
  BY SameComplete

(* Most steps stay away from the places of Narrow. *)
LEMMA ElsewhereNarrow ==
  ASSUME NEW k \in Local, Narrow(k), NEW l, l.call = k.call, l.row = k.row, l.hashes = k.hashes,
         l.at \notin {"row", "chunks", "rows", "update"}
  PROVE  Narrow(l)
  BY DEF Narrow

LEMMA TidyCall ==
  ASSUME Linked, Tidy, NEW p \in Goroutine, Call(p)
  PROVE  Tidy'
<1> USE DEF Enter
<1>1. CASE StartCreate(p)
  <2>1. PICK id \in FileId, nm \in Name, cs \in Contents, r \in Replicas :
          /\ \A i \in issued : i.id # id
          /\ issued' = issued \cup {[id |-> id, chunks |-> cs]}
          /\ Becomes(p, [Idle EXCEPT !.call = "CreateFile", !.at = "create",
                                     !.hashes = cs, !.todo = cs,
                                     !.row = {[id |-> id, name |-> nm, version |-> 0,
                                               repl |-> Normalized(r)]}])
    BY <1>1 DEF StartCreate
  <2> DEFINE new == [id |-> id, chunks |-> cs]
             row == [id |-> id, name |-> nm, version |-> 0, repl |-> Normalized(r)]
             l == [Idle EXCEPT !.call = "CreateFile", !.at = "create",
                               !.hashes = cs, !.todo = cs, !.row = {row}]
  <2>2. new.id = id /\ new.chunks = cs /\ row.id = id OBVIOUS
  <2>3. l.call = "CreateFile" /\ l.at = "create" /\ l.hashes = cs /\ l.row = {row}
    BY DEF Idle
  <2>4. \A q \in Goroutine : ps'[q] = IF q = p THEN l ELSE ps[q]
    BY <2>1 DEF Becomes, Linked, TransactionsTypeOK
  <2>5. issued' = issued \cup {new} /\ (\A i \in issued : i.id # id) /\ db' = db
    BY <1>1, <2>1 DEF StartCreate
  <2> HIDE DEF new, row, l
  <2>6. Unique' BY <2>2, <2>5 DEF Tidy, Unique
  <2>7. Complete'
    <3>1. \A f \in db.files : f.id # id BY <2>5 DEF Linked, Fresh
    <3>2. QED BY <2>2, <2>5, <3>1 DEF Tidy, Complete
  <2>8. ASSUME NEW q \in Goroutine PROVE Narrow(ps[q])'
    <3>1. CASE q = p
      <4>1. \A i \in issued' : i.id = row.id => i.chunks = cs BY <2>2, <2>5
      <4>2. ps'[q] = l BY <2>4, <3>1
      <4>3. QED BY <2>3, <4>1, <4>2 DEF Narrow
    <3>2. CASE q # p
      <4>1. ps'[q] = ps[q] BY <2>4, <3>2
      <4>2. ps[q].call = "CreateFile" => \A s \in ps[q].row : s.id # id
        BY <2>5 DEF Linked, Fresh, Creates
      <4>3. Narrow(ps[q]) BY DEF Tidy, Narrowed
      <4>4. QED BY <2>2, <2>5, <4>1, <4>2, <4>3 DEF Narrow
    <3>3. QED BY <3>1, <3>2
  <2>9. QED BY <2>6, <2>7, <2>8 DEF Tidy, Narrowed
<1>2. CASE ~StartCreate(p)
  <2>1. issued' = issued /\ db' = db
    BY <1>2 DEF Call, StartFile, StartRetention, StartDeleteNode, StartRegister, StartUpdate,
       StartPair, StartTasks
  <2>2. \E l : Becomes(p, l) /\ Narrow(l)
    <3>1. CASE StartFile(p)
      <4>1. PICK id \in FileId, m \in {"File", "DeleteFile"} :
              Becomes(p, [Idle EXCEPT !.call = m, !.at = "row", !.ids = {id}, !.left = {id}])
        BY <3>1 DEF StartFile
      <4>2. Narrow([Idle EXCEPT !.call = m, !.at = "row", !.ids = {id}, !.left = {id}])
        BY DEF Narrow, Idle
      <4>3. QED BY <4>1, <4>2
    <3>2. CASE StartRetention(p)
      <4>1. Narrow([Idle EXCEPT !.call = "ApplyRetention", !.at = "select"])
        BY DEF Narrow, Idle
      <4>2. QED BY <3>2, <4>1 DEF StartRetention
    <3>3. CASE StartDeleteNode(p)
      <4>1. \A n : Narrow([Idle EXCEPT !.call = "DeleteNode", !.at = "node", !.node = {n}])
        BY DEF Narrow, Idle
      <4>2. QED BY <3>3, <4>1 DEF StartDeleteNode
    <3>4. CASE StartRegister(p)
      <4>1. \A n : Narrow([Idle EXCEPT !.call = "RegisterNode", !.at = "register", !.node = {n}])
        BY DEF Narrow, Idle
      <4>2. QED BY <3>4, <4>1 DEF StartRegister
    <3>5. CASE StartUpdate(p)
      <4>1. \A id : Narrow([Idle EXCEPT !.call = "UpdateFileReplication", !.at = "update",
                                        !.ids = {id}])
        BY DEF Narrow, Idle
      <4>2. QED BY <3>5, <4>1 DEF StartUpdate
    <3>6. CASE StartPair(p)
      <4>1. \A x : /\ Narrow([Idle EXCEPT !.call = "ConfirmChunk", !.at = "known", !.pair = {x}])
                   /\ Narrow([Idle EXCEPT !.call = "RemoveChunkLocation", !.at = "size",
                                          !.pair = {x}])
        BY DEF Narrow, Idle
      <4>2. QED BY <3>6, <4>1 DEF StartPair
    <3>7. CASE StartTasks(p)
      <4>1. \A k : Narrow([Idle EXCEPT !.call = "Tasks", !.at = "query", !.more = k])
        BY DEF Narrow, Idle
      <4>2. QED BY <3>7, <4>1 DEF StartTasks
    <3>8. QED BY <1>2, <3>1, <3>2, <3>3, <3>4, <3>5, <3>6, <3>7 DEF Call
  <2>3. QED BY <2>1, <2>2, ReadsComplete, TidyStep
<1>3. QED BY <1>1, <1>2

LEMMA TidyCreating ==
  ASSUME Linked, Tidy, NEW p \in Goroutine, Creating(p)
  PROVE  Tidy'
<1> USE DEF At, GoTo, Reads, Aside, Changes
<1>1. ps[p] \in Local /\ Narrow(ps[p]) /\ ps[p].at # "commit"
  BY DEF Linked, TransactionsTypeOK, Tidy, Narrowed, Creating, BeginCreate, AssignVersion,
     InsertFile, InsertChunk, ChunksInserted
<1>2. issued' = issued /\ db' = db
  BY DEF Creating, BeginCreate, AssignVersion, InsertFile, InsertChunk, ChunksInserted
<1>3. ASSUME NEW a \in {"version", "insert chunks", "commit"}
      PROVE  Narrow([ps[p] EXCEPT !.at = a])
  <2>1. /\ [ps[p] EXCEPT !.at = a].call = ps[p].call /\ [ps[p] EXCEPT !.at = a].at = a
        /\ [ps[p] EXCEPT !.at = a].row = ps[p].row
        /\ [ps[p] EXCEPT !.at = a].hashes = ps[p].hashes
    BY <1>1 DEF Local
  <2>2. QED BY <1>1, <2>1, ElsewhereNarrow
<1>4. \E l : Becomes(p, l) /\ Narrow(l)
  <2>1. CASE BeginCreate(p) BY <1>3, <2>1 DEF BeginCreate
  <2>2. CASE AssignVersion(p)
    <3>1. PICK r \in ps[p].row, v \in 1 .. MaxVersion :
            Becomes(p, [ps[p] EXCEPT !.at = "insert", !.row = {[r EXCEPT !.version = v]}])
      BY <2>2 DEF AssignVersion
    <3> DEFINE s == [r EXCEPT !.version = v]
               l == [ps[p] EXCEPT !.at = "insert", !.row = {s}]
    <3>2. s.id = r.id BY <1>1 DEF Local, FileRow
    <3> HIDE DEF s
    <3>3. l.at = "insert" /\ l.call = ps[p].call /\ l.row = {s} /\ l.hashes = ps[p].hashes
      BY <1>1 DEF Local
    <3> HIDE DEF l
    <3>4. Narrow(l) BY <1>1, <3>2, <3>3 DEF Narrow
    <3>5. QED BY <3>1, <3>4 DEF l, s
  <2>3. CASE InsertFile(p) BY <1>3, <2>3 DEF InsertFile
  <2>4. CASE InsertChunk(p)
    <3>1. PICK h \in ps[p].todo : Becomes(p, [ps[p] EXCEPT !.todo = @ \ {h}])
      BY <2>4 DEF InsertChunk
    <3> DEFINE l == [ps[p] EXCEPT !.todo = @ \ {h}]
    <3>2. l.at = ps[p].at /\ l.call = ps[p].call /\ l.row = ps[p].row /\ l.hashes = ps[p].hashes
      BY <1>1 DEF Local
    <3>3. ps[p].at = "insert chunks" BY <2>4 DEF InsertChunk
    <3> HIDE DEF l
    <3>4. Narrow(l) BY <1>1, <3>2, <3>3, ElsewhereNarrow
    <3>5. QED BY <3>1, <3>4 DEF l
  <2>5. CASE ChunksInserted(p) BY <1>3, <2>5 DEF ChunksInserted
  <2>6. QED BY <2>1, <2>2, <2>3, <2>4, <2>5 DEF Creating
<1>5. QED BY <1>2, <1>4, ReadsComplete, TidyStep

(* A method that returns. *)
LEMMA TidyReturn ==
  ASSUME Linked, Tidy, NEW p \in Goroutine, Return(p), issued' = issued, Complete'
  PROVE  Tidy'
  BY IdleNarrow, TidyStep DEF Return

(* What the rows of file_chunks are for a file that was seen. *)
LEMMA FoundWhole ==
  ASSUME Linked, Tidy, NEW i \in issued
  PROVE  {h \in Hash : \E id \in {i.id} : <<id, h>> \in db.chunks} \in {{}, i.chunks}
<1>1. i.chunks \subseteq Hash BY DEF Linked, TransactionsTypeOK
<1>2. CASE \E f \in db.files : f.id = i.id
  BY <1>1, <1>2 DEF Tidy, Complete
<1>3. CASE ~\E f \in db.files : f.id = i.id
  <2>1. \A h \in Hash : <<i.id, h>> \notin db.chunks
    BY <1>3 DEF Linked, Keys
  <2>2. QED BY <2>1
<1>4. QED BY <1>2, <1>3

LEMMA TidyReading ==
  ASSUME Linked, Tidy, NEW p \in Goroutine, Reading(p)
  PROVE  Tidy'
<1> USE DEF At, Reads, Aside
<1>1. /\ ps[p] \in Local /\ Narrow(ps[p])
      /\ ps[p].call \in {"File", "DeleteFile", "ApplyRetention"}
  BY DEF Linked, TransactionsTypeOK, Flow, FlowOK, Tidy, Narrowed, Reading, ReadRow, RowMissing,
     QueryChunks, QueryChunksFails, CloseChunks
<1>2. issued' = issued /\ Complete'
  BY ReadsComplete DEF Reading, ReadRow, RowMissing, QueryChunks, QueryChunksFails, CloseChunks
<1>3. CASE ps[p].call = "ApplyRetention"
  <2>1. CASE Return(p) BY <1>2, <2>1, TidyReturn
  <2>2. CASE ~Return(p)
    <3>a. ASSUME NEW l, Becomes(p, l), l.call = ps[p].call, l.at # "update"
          PROVE  Tidy'
      <4>1. Narrow(l) BY <1>3, <3>a DEF Narrow
      <4>2. QED BY <1>2, <3>a, <4>1, TidyStep
    <3>b. \A left : AfterFile(p, left) # "update" BY DEF AfterFile
    <3>1. CASE ReadRow(p)
      <4>1. PICK f \in db.files :
              Becomes(p, [ps[p] EXCEPT !.at = "chunks", !.file = {f.id}, !.left = @ \ {f.id}])
        BY <3>1 DEF ReadRow
      <4> DEFINE l == [ps[p] EXCEPT !.at = "chunks", !.file = {f.id}, !.left = @ \ {f.id}]
      <4>2. Becomes(p, l) BY <4>1
      <4>3. l.at = "chunks" /\ l.call = ps[p].call BY <1>1 DEF Local
      <4> HIDE DEF l
      <4>4. QED BY <3>a, <4>2, <4>3
    <3>2. CASE RowMissing(p)
      <4>1. PICK id \in ps[p].left :
              Becomes(p, [ps[p] EXCEPT
                          !.left = @ \ {id},
                          !.blind = IF \E f \in db.files : f.id = id
                                    THEN TRUE ELSE @,
                          !.at = AfterFile(p, ps[p].left \ {id})])
        BY <1>3, <3>2 DEF RowMissing
      <4> DEFINE b == IF \E f \in db.files : f.id = id THEN TRUE ELSE ps[p].blind
                 nx == AfterFile(p, ps[p].left \ {id})
                 l == [ps[p] EXCEPT !.left = @ \ {id}, !.blind = b, !.at = nx]
      <4>2. Becomes(p, l) BY <4>1
      <4>3. nx # "update" BY <3>b
      <4> HIDE DEF b, nx
      <4>4. l.at = nx /\ l.call = ps[p].call BY <1>1 DEF Local
      <4> HIDE DEF l
      <4>5. QED BY <3>a, <4>2, <4>3, <4>4
    <3>3. CASE QueryChunks(p)
      <4> DEFINE found == {h \in Hash : \E id \in ps[p].file : <<id, h>> \in db.chunks}
                 l == [ps[p] EXCEPT !.at = "rows", !.hashes = @ \cup found]
      <4>1. Becomes(p, l) BY <3>3 DEF QueryChunks
      <4> HIDE DEF found
      <4>2. l.at = "rows" /\ l.call = ps[p].call BY <1>1 DEF Local
      <4> HIDE DEF l
      <4>3. QED BY <3>a, <4>1, <4>2
    <3>4. CASE QueryChunksFails(p) \/ CloseChunks(p)
      <4> DEFINE nx == AfterFile(p, ps[p].left)
                 l == [ps[p] EXCEPT !.at = nx, !.file = {}, !.blind = TRUE]
                 m == [ps[p] EXCEPT !.at = nx, !.file = {}]
      <4>1. Becomes(p, l) \/ Becomes(p, m)
        BY <2>2, <3>4 DEF QueryChunksFails, CloseChunks, FileRead
      <4>2. nx # "update" BY <3>b
      <4> HIDE DEF nx
      <4>3. l.at = nx /\ l.call = ps[p].call /\ m.at = nx /\ m.call = ps[p].call
        BY <1>1 DEF Local
      <4> HIDE DEF l, m
      <4>4. QED BY <3>a, <4>1, <4>2, <4>3
    <3>5. QED BY <3>1, <3>2, <3>3, <3>4 DEF Reading
  <2>3. QED BY <2>1, <2>2
<1>4. CASE ps[p].call \in {"File", "DeleteFile"}
  <2>1. CASE ReadRow(p)
    <3>1. PICK f \in db.files :
            /\ f.id \in ps[p].left
            /\ Becomes(p, [ps[p] EXCEPT !.at = "chunks", !.file = {f.id}, !.left = @ \ {f.id}])
      BY <2>1 DEF ReadRow
    <3>2. PICK id \in FileId : ps[p].ids = {id} /\ ps[p].left = {id} /\ ps[p].hashes = {}
      BY <1>1, <1>4, <2>1 DEF ReadRow, Narrow
    <3>3. PICK i \in issued : i.id = f.id BY DEF Linked, Fresh
    <3> DEFINE l == [ps[p] EXCEPT !.at = "chunks", !.file = {f.id}, !.left = @ \ {f.id}]
    <3>4. /\ l.at = "chunks" /\ l.call = ps[p].call /\ l.file = {f.id}
          /\ l.left = ps[p].left \ {f.id} /\ l.ids = ps[p].ids /\ l.hashes = ps[p].hashes
      BY <1>1 DEF Local
    <3> HIDE DEF l
    <3>5. Narrow(l) BY <1>4, <3>1, <3>2, <3>3, <3>4 DEF Narrow
    <3>6. Becomes(p, l) BY <3>1 DEF l
    <3>7. QED BY <1>2, <3>5, <3>6, TidyStep
  <2>2. CASE RowMissing(p)
    <3>1. Return(p) BY <1>4, <2>2 DEF RowMissing
    <3>2. QED BY <1>2, <3>1, TidyReturn
  <2>3. CASE QueryChunks(p)
    <3>1. PICK i \in issued : ps[p].ids = {i.id} /\ ps[p].file = {i.id}
                              /\ ps[p].hashes = {} /\ ps[p].left = {}
      BY <1>1, <1>4, <2>3 DEF QueryChunks, Narrow
    <3> DEFINE found == {h \in Hash : \E id \in ps[p].file : <<id, h>> \in db.chunks}
               l == [ps[p] EXCEPT !.at = "rows", !.hashes = @ \cup found]
    <3>2. Becomes(p, l) BY <2>3 DEF QueryChunks
    <3>3. found \in {{}, i.chunks} BY <3>1, FoundWhole
    <3> HIDE DEF found
    <3>4. /\ l.at = "rows" /\ l.call = ps[p].call /\ l.left = ps[p].left
          /\ l.ids = ps[p].ids /\ l.hashes = found
      BY <1>1, <3>1 DEF Local
    <3> HIDE DEF l
    <3>5. Narrow(l) BY <1>4, <3>1, <3>3, <3>4 DEF Narrow
    <3>6. QED BY <1>2, <3>2, <3>5, TidyStep
  <2>4. CASE QueryChunksFails(p) \/ CloseChunks(p)
    <3>1. ps[p].left = {} BY <1>1, <1>4, <2>4 DEF QueryChunksFails, CloseChunks, Narrow
    <3>2. CASE Return(p) BY <1>2, <3>2, TidyReturn
    <3>3. CASE ~Return(p)
      <4>1. AfterFile(p, ps[p].left) = "begin"
        BY <1>4, <2>4, <3>1, <3>3 DEF AfterFile, QueryChunksFails, CloseChunks, FileRead
      <4>2. \E b \in BOOLEAN :
              Becomes(p, [ps[p] EXCEPT !.at = "begin", !.file = {}, !.blind = b])
        <5>1. CASE QueryChunksFails(p) BY <3>3, <4>1, <5>1 DEF QueryChunksFails
        <5>2. CASE CloseChunks(p)
          <6>1. Becomes(p, [ps[p] EXCEPT !.at = "begin", !.file = {}])
            BY <3>3, <4>1, <5>2 DEF CloseChunks, FileRead
          <6>2. [ps[p] EXCEPT !.at = "begin", !.file = {}]
                  = [ps[p] EXCEPT !.at = "begin", !.file = {}, !.blind = ps[p].blind]
            BY <1>1 DEF Local
          <6>3. QED BY <1>1, <6>1, <6>2 DEF Local
        <5>3. QED BY <2>4, <5>1, <5>2
      <4>3. PICK b \in BOOLEAN :
              Becomes(p, [ps[p] EXCEPT !.at = "begin", !.file = {}, !.blind = b])
        BY <4>2
      <4> DEFINE l == [ps[p] EXCEPT !.at = "begin", !.file = {}, !.blind = b]
      <4>4. l.at = "begin" /\ l.call = ps[p].call /\ l.row = ps[p].row /\ l.hashes = ps[p].hashes
        BY <1>1 DEF Local
      <4>5. Becomes(p, l) BY <4>3
      <4> HIDE DEF l
      <4>6. Narrow(l) BY <1>1, <4>4, ElsewhereNarrow
      <4>7. QED BY <1>2, <4>5, <4>6, TidyStep
    <3>4. QED BY <3>2, <3>3
  <2>5. QED BY <2>1, <2>2, <2>3, <2>4 DEF Reading
<1>5. QED BY <1>1, <1>3, <1>4

LEMMA TidyDeleting ==
  ASSUME Linked, Tidy, NEW p \in Goroutine, Deleting(p)
  PROVE  Tidy'
<1> USE DEF At, GoTo, Reads, Aside, Changes
<1>1. /\ ps[p] \in Local
      /\ ps[p].call \in {"DeleteFile", "ApplyRetention"} \/ At(p, "commit")
      /\ At(p, "id rows") \/ At(p, "select") => ps[p].call = "ApplyRetention"
  BY DEF Linked, TransactionsTypeOK, Flow, FlowOK, Deleting, SelectExpired, CloseIds, BeginDelete,
     DeleteRow, CountUses, UsesCounted
<1>2. issued' = issued /\ Complete'
  BY ReadsComplete DEF Deleting, SelectExpired, CloseIds, BeginDelete, DeleteRow, CountUses,
     UsesCounted
<1>3. ASSUME NEW l, Becomes(p, l), l.call = ps[p].call, ps[p].call # "CreateFile",
             \/ l.at \notin {"row", "chunks", "rows", "update"}
             \/ l.at = "row" /\ l.call = "ApplyRetention"
      PROVE  Tidy'
  <2>1. Narrow(l) BY <1>3 DEF Narrow
  <2>2. QED BY <1>2, <1>3, <2>1, TidyStep
<1>4. CASE SelectExpired(p)
  <2>1. PICK ids : Becomes(p, [ps[p] EXCEPT !.at = "id rows", !.ids = ids, !.left = ids])
    BY <1>4 DEF SelectExpired
  <2> DEFINE l == [ps[p] EXCEPT !.at = "id rows", !.ids = ids, !.left = ids]
  <2>2. l.at = "id rows" /\ l.call = ps[p].call BY <1>1 DEF Local
  <2>3. Becomes(p, l) BY <2>1
  <2> HIDE DEF l
  <2>4. QED BY <1>1, <1>3, <1>4, <2>2, <2>3 DEF SelectExpired
<1>5. CASE CloseIds(p)
  <2>1. CASE Return(p) BY <1>2, <2>1, TidyReturn
  <2>2. CASE ~Return(p)
    <3>1. Becomes(p, [ps[p] EXCEPT !.at = "row"]) BY <1>5, <2>2 DEF CloseIds
    <3>2. [ps[p] EXCEPT !.at = "row"].at = "row" /\ [ps[p] EXCEPT !.at = "row"].call = ps[p].call
      BY <1>1 DEF Local
    <3>3. QED BY <1>1, <1>3, <1>5, <3>1, <3>2 DEF CloseIds
  <2>3. QED BY <2>1, <2>2
<1>6. CASE BeginDelete(p)
  <2> DEFINE l == [ps[p] EXCEPT !.at = "delete", !.left = ps[p].ids, !.todo = ps[p].hashes]
  <2>1. l.at = "delete" /\ l.call = ps[p].call BY <1>1 DEF Local
  <2>2. Becomes(p, l) /\ At(p, "begin") BY <1>6 DEF BeginDelete
  <2> HIDE DEF l
  <2>3. QED BY <1>1, <1>3, <2>1, <2>2
<1>7. CASE DeleteRow(p)
  <2>1. PICK id \in ps[p].left :
          Becomes(p, [ps[p] EXCEPT !.left = @ \ {id},
                        !.at = IF ps[p].left = {id} THEN "count" ELSE @])
    BY <1>7 DEF DeleteRow
  <2> DEFINE nx == IF ps[p].left = {id} THEN "count" ELSE ps[p].at
             l == [ps[p] EXCEPT !.left = @ \ {id}, !.at = nx]
  <2>2. Becomes(p, l) BY <2>1
  <2>3. At(p, "delete") /\ nx \in {"count", "delete"} BY <1>7 DEF DeleteRow
  <2> HIDE DEF nx
  <2>4. l.at = nx /\ l.call = ps[p].call BY <1>1 DEF Local
  <2> HIDE DEF l
  <2>5. QED BY <1>1, <1>3, <2>2, <2>3, <2>4
<1>8. CASE CountUses(p)
  <2>1. PICK h \in ps[p].todo :
          Becomes(p, [ps[p] EXCEPT !.todo = @ \ {h},
                                   !.out = IF Used(work, h) THEN @ ELSE @ \cup {h}])
    BY <1>8 DEF CountUses
  <2> DEFINE o == IF Used(work, h) THEN ps[p].out ELSE ps[p].out \cup {h}
             l == [ps[p] EXCEPT !.todo = @ \ {h}, !.out = o]
  <2>2. Becomes(p, l) /\ At(p, "count") BY <1>8, <2>1 DEF CountUses
  <2> HIDE DEF o
  <2>3. l.at = ps[p].at /\ l.call = ps[p].call BY <1>1 DEF Local
  <2> HIDE DEF l
  <2>4. QED BY <1>1, <1>3, <2>2, <2>3
<1>9. CASE UsesCounted(p)
  <2>1. Becomes(p, [ps[p] EXCEPT !.at = "commit"]) /\ At(p, "count")
    BY <1>9 DEF UsesCounted
  <2>2. /\ [ps[p] EXCEPT !.at = "commit"].at = "commit"
        /\ [ps[p] EXCEPT !.at = "commit"].call = ps[p].call
    BY <1>1 DEF Local
  <2>3. QED BY <1>1, <1>3, <2>1, <2>2
<1>10. QED BY <1>4, <1>5, <1>6, <1>7, <1>8, <1>9 DEF Deleting

LEMMA TidyRemoving ==
  ASSUME Linked, Tidy, NEW p \in Goroutine, Removing(p)
  PROVE  Tidy'
<1> USE DEF At, GoTo, Reads, Aside, Changes
<1>1. ps[p] \in Local /\ Narrow(ps[p])
  BY DEF Linked, TransactionsTypeOK, Tidy, Narrowed
<1>2. issued' = issued /\ Complete'
  BY ReadsComplete DEF Removing, ReadNode, BeginDeleteNode, DeleteLocations, DeleteNodeRow
<1>3. CASE Return(p) BY <1>2, <1>3, TidyReturn
<1>4. ASSUME NEW a \in {"begin node", "unlist", "unregister", "commit"},
             Becomes(p, [ps[p] EXCEPT !.at = a])
      PROVE  Tidy'
  <2>1. /\ [ps[p] EXCEPT !.at = a].call = ps[p].call /\ [ps[p] EXCEPT !.at = a].at = a
        /\ [ps[p] EXCEPT !.at = a].row = ps[p].row
        /\ [ps[p] EXCEPT !.at = a].hashes = ps[p].hashes
    BY <1>1 DEF Local
  <2>2. Narrow([ps[p] EXCEPT !.at = a]) BY <1>1, <2>1, ElsewhereNarrow
  <2>3. QED BY <1>2, <1>4, <2>2, TidyStep
<1>5. QED
  BY <1>3, <1>4 DEF Removing, ReadNode, BeginDeleteNode, DeleteLocations, DeleteNodeRow

LEMMA TidySingle ==
  ASSUME Linked, Tidy, NEW p \in Goroutine, Single(p)
  PROVE  Tidy'
<1> USE DEF At, GoTo, Reads, Aside, Autocommit
<1>1. ps[p] \in Local /\ Narrow(ps[p]) /\ FlowOK(ps[p]) /\ db \in Tables
  BY DEF Linked, TransactionsTypeOK, Tidy, Narrowed, Flow
<1>2. issued' = issued
  BY DEF Single, RegisterNode, UpdateFileReplication, LookUpNode, RecordLocation, TouchNode,
     ReadSize, EraseLocation, CreditNode, Query, CloseRows
<1>3. CASE ~UpdateFileReplication(p)
  <2>1. Complete'
    <3>1. CASE db' = db BY <1>2, <3>1, ReadsComplete
    <3>2. CASE \E ns, ls : db' = [db EXCEPT !.nodes = ns] \/ db' = [db EXCEPT !.locs = ls]
      <4>1. db'.files = db.files /\ db'.chunks = db.chunks BY <1>1, <3>2 DEF Tables
      <4>2. QED BY <1>2, <4>1, SameComplete
    <3>3. QED
      BY <1>3, <3>1, <3>2 DEF Single, RegisterNode, LookUpNode, RecordLocation, TouchNode,
         ReadSize, EraseLocation, CreditNode, Query, CloseRows
  <2>2. CASE Return(p) BY <1>2, <2>1, <2>2, TidyReturn
  <2>3. ASSUME NEW a \in {"record", "touch", "erase", "credit", "task rows"},
               Becomes(p, [ps[p] EXCEPT !.at = a])
        PROVE  Tidy'
    <3>1. /\ [ps[p] EXCEPT !.at = a].call = ps[p].call /\ [ps[p] EXCEPT !.at = a].at = a
          /\ [ps[p] EXCEPT !.at = a].row = ps[p].row
          /\ [ps[p] EXCEPT !.at = a].hashes = ps[p].hashes
      BY <1>1 DEF Local
    <3>2. Narrow([ps[p] EXCEPT !.at = a]) BY <1>1, <3>1, ElsewhereNarrow
    <3>3. QED BY <1>2, <2>1, <2>3, <3>2, TidyStep
  <2>4. CASE Becomes(p, [ps[p] EXCEPT !.at = "query", !.more = @ - 1])
    <3> DEFINE l == [ps[p] EXCEPT !.at = "query", !.more = @ - 1]
    <3>1. l.at = "query" /\ l.call = ps[p].call /\ l.row = ps[p].row /\ l.hashes = ps[p].hashes
      BY <1>1 DEF Local
    <3>2. Becomes(p, l) BY <2>4
    <3> HIDE DEF l
    <3>3. Narrow(l) BY <1>1, <3>1, ElsewhereNarrow
    <3>4. QED BY <1>2, <2>1, <3>2, <3>3, TidyStep
  <2>5. QED
    BY <1>3, <2>2, <2>3, <2>4 DEF Single, RegisterNode, LookUpNode, RecordLocation, TouchNode,
       ReadSize, EraseLocation, CreditNode, Query, CloseRows, AfterQuery
<1>4. CASE UpdateFileReplication(p)
  <2>1. CASE Return(p) /\ Reads
    <3>1. Complete' BY <1>2, <2>1, ReadsComplete
    <3>2. QED BY <1>2, <2>1, <3>1, TidyReturn
  <2>2. CASE ~(Return(p) /\ Reads)
    <3>1. PICK r \in Replicas :
            /\ db' = [db EXCEPT !.files =
                  {IF g.id \in ps[p].ids THEN [g EXCEPT !.repl = Normalized(r)] ELSE g : g \in @}]
            /\ Becomes(p, [ps[p] EXCEPT !.at = "row", !.call = "File", !.left = ps[p].ids])
      BY <1>4, <2>2 DEF UpdateFileReplication
    <3> DEFINE Patched(g) == IF g.id \in ps[p].ids THEN [g EXCEPT !.repl = Normalized(r)] ELSE g
               fs == {Patched(g) : g \in db.files}
               l == [ps[p] EXCEPT !.at = "row", !.call = "File", !.left = ps[p].ids]
    <3>2. db' = [db EXCEPT !.files = fs] /\ Becomes(p, l) BY <3>1
    <3>3. \A g \in db.files : Patched(g).id = g.id BY <1>1 DEF Tables, FileRow
    <3>4. \A f \in fs : \E g \in db.files : g.id = f.id
      <4>1. ASSUME NEW f \in fs PROVE \E g \in db.files : g.id = f.id
        <5>1. PICK g \in db.files : f = Patched(g) OBVIOUS
        <5>2. g.id = f.id BY <3>3, <5>1
        <5>3. QED BY <5>2
      <4>2. QED BY <4>1
    <3> HIDE DEF Patched, fs
    <3>5. db'.files = fs /\ db'.chunks = db.chunks BY <1>1, <3>2 DEF Tables
    <3>6. Complete' BY <1>2, <3>4, <3>5, SameComplete
    <3>7. l.at = "row" /\ l.call = "File" /\ l.left = ps[p].ids /\ l.ids = ps[p].ids
          /\ l.hashes = ps[p].hashes
      BY <1>1 DEF Local
    <3>8. ps[p].hashes = {} /\ \E id \in FileId : ps[p].ids = {id}
      BY <1>1, <1>4 DEF UpdateFileReplication, Narrow, FlowOK
    <3> HIDE DEF l
    <3>9. Narrow(l) BY <3>7, <3>8 DEF Narrow
    <3>10. QED BY <1>2, <3>2, <3>6, <3>9, TidyStep
  <2>3. QED BY <2>1, <2>2
<1>5. QED BY <1>3, <1>4

(* A transaction adds whole manifests and takes whole ones away. *)
LEMMA TidyCommit ==
  ASSUME Linked, Tidy, NEW p \in Goroutine, Commit(p)
  PROVE  Tidy'
<1> USE DEF At, Aside
<1>1. /\ ps[p] \in Local /\ Narrow(ps[p]) /\ FlowOK(ps[p]) /\ Progress(p)
      /\ ps[p].at = "commit" /\ db' = work /\ issued' = issued /\ Return(p)
  BY DEF Linked, TransactionsTypeOK, Tidy, Narrowed, Flow, Progresses, Commit
<1>2. CASE Creates(p)
  <2>1. CreateProgress(p) /\ ps[p].todo = {} BY <1>1, <1>2 DEF Progress, Creates, FlowOK
  <2>2. PICK r \in FileRow : ps[p].row = {r} BY <1>1, <1>2 DEF Creates, FlowOK
  <2>3. /\ work.files = db.files \cup {r}
        /\ \A c : c \in work.chunks <=>
             c \in db.chunks \/ \E h \in ps[p].hashes : c = <<r.id, h>>
    BY <2>1, <2>2 DEF CreateProgress
  <2>4. \A f \in db.files : f.id # r.id BY <1>2, <2>2 DEF Linked, Fresh
  <2>5. ASSUME NEW f \in work.files, NEW i \in issued, i.id = f.id, NEW h \in Hash
        PROVE  <<i.id, h>> \in work.chunks <=> h \in i.chunks
    <3>1. CASE f = r
      <4>1. ps[p].hashes = i.chunks BY <1>1, <1>2, <2>2, <2>5, <3>1 DEF Narrow, Creates
      <4>2. <<i.id, h>> \notin db.chunks
        <5>1. \A c \in db.chunks : \E g \in db.files : g.id = c[1] BY DEF Linked, Keys
        <5>2. QED BY <2>4, <2>5, <3>1, <5>1
      <4>3. QED BY <2>3, <2>5, <3>1, <4>1, <4>2
    <3>2. CASE f # r
      <4>1. f \in db.files /\ i.id # r.id BY <2>3, <2>4, <2>5, <3>2
      <4>2. <<i.id, h>> \in work.chunks <=> <<i.id, h>> \in db.chunks BY <2>3, <4>1
      <4>3. QED BY <2>5, <4>1, <4>2 DEF Tidy, Complete
    <3>3. QED BY <3>1, <3>2
  <2>6. Complete' BY <1>1, <2>5 DEF Complete
  <2>7. QED BY <1>1, <2>6, TidyReturn
<1>3. CASE ps[p].call \in {"DeleteFile", "ApplyRetention"}
  <2>1. DeleteProgress(ps[p].ids) BY <1>1, <1>3 DEF Progress
  <2>2. Complete' BY <1>1, <2>1 DEF DeleteProgress, Tidy, Complete
  <2>3. QED BY <1>1, <2>2, TidyReturn
<1>4. CASE ps[p].call = "DeleteNode"
  <2>1. work.files = db.files /\ work.chunks = db.chunks
    BY <1>1, <1>4 DEF Progress, RemoveProgress
  <2>2. Complete' BY <1>1, <2>1, SameComplete
  <2>3. QED BY <1>1, <2>2, TidyReturn
<1>5. QED BY <1>1, <1>2, <1>3, <1>4 DEF FlowOK, Creates

LEMMA TidyNext == Linked /\ Tidy /\ [Next]_vars => Tidy'
<1> SUFFICES ASSUME Linked, Tidy, [Next]_vars PROVE Tidy'
  OBVIOUS
<1>1. ASSUME NEW p \in Goroutine, TransactionFails(p) \/ FirstFails(p) PROVE Tidy'
  <2>1. Return(p) /\ issued' = issued /\ db' = db
    BY <1>1 DEF TransactionFails, FirstFails, Reads, Aside
  <2>2. QED BY <2>1, ReadsComplete, TidyReturn
<1>2. ASSUME NEW p \in Goroutine, Call(p) \/ Continue(p) PROVE Tidy'
  BY <1>1, <1>2, TidyCall, TidyCreating, TidyReading, TidyDeleting, TidyRemoving, TidySingle,
     TidyCommit DEF Continue
<1>3. CASE (\E n \in Node : Elapse(n)) \/ UNCHANGED vars
  <2>1. UNCHANGED <<db, issued, ps>> BY <1>3 DEF Elapse, vars
  <2>2. QED BY <2>1 DEF Tidy, Unique, Complete, Narrowed, Narrow
<1>4. CASE Crash
  <2>1. UNCHANGED <<db, issued>> /\ \A q \in Goroutine : ps'[q] = Idle BY <1>4 DEF Crash
  <2>2. \A q \in Goroutine : Narrow(ps[q])' BY <2>1 DEF Narrow, Idle
  <2>3. QED BY <2>1, <2>2 DEF Tidy, Unique, Complete, Narrowed
<1>5. QED BY <1>2, <1>3, <1>4 DEF Next

(* File finds a manifest whole or without chunks, although it reads the row and
   the chunks in two statements and rows come and go between them
   (state.go:338-405, 788-803). *)
THEOREM TransactionsReadWhole == Spec => []ManifestWholeOrEmpty
<1>1. Linked /\ Tidy => ManifestWholeOrEmpty
  <2>1. SUFFICES ASSUME Linked, Tidy, NEW p \in Goroutine, At(p, "rows"),
                        ps[p].call # "ApplyRetention",
                        NEW i \in issued, i.id \in ps[p].ids
                 PROVE  ps[p].hashes \in {{}, i.chunks}
    BY DEF ManifestWholeOrEmpty
  <2>2. ps[p].call \in {"File", "DeleteFile"} BY <2>1 DEF Linked, Flow, FlowOK, At
  <2>3. PICK j \in issued : ps[p].ids = {j.id} /\ ps[p].hashes \in {{}, j.chunks}
    BY <2>1, <2>2 DEF Tidy, Narrowed, Narrow, At
  <2>4. i = j BY <2>1, <2>3 DEF Tidy, Unique
  <2>5. QED BY <2>3, <2>4
<1>2. QED BY <1>1, TidyInit, TidyNext, LinkedCorrect, PTL DEF Spec

-----------------------------------------------------------------------------
(* What deletions report as unused *)

Deletes(p) == ps[p].call \in {"DeleteFile", "ApplyRetention"}

(* An id that was given out, to a CreateFile that is over. *)
Old(id) == /\ \E i \in issued : i.id = id
           /\ \A q \in Goroutine : Creates(q) => \A r \in ps[q].row : r.id # id

(* The ids whose manifests are still to be read. *)
Unread(l) == IF l.at \in {"begin", "delete", "count", "commit"} THEN {}
             ELSE IF l.at = "chunks" THEN l.left \cup l.file ELSE l.left

(* What a deletion knows of the manifests it takes away. *)
Knows(p) ==
  Deletes(p) =>
    /\ ps[p].at \in {"row", "chunks", "rows", "select", "id rows", "begin", "delete",
                     "count", "commit"}
    /\ ps[p].call = "ApplyRetention" \/ ~At(p, "row") => \A id \in ps[p].ids : Old(id)
    /\ ~ps[p].blind => \A id \in ps[p].ids \ Unread(ps[p]), h \in Hash :
                         <<id, h>> \in db.chunks => h \in ps[p].hashes

(* What it has found unused in its transaction. *)
Reports(p) ==
  /\ ps[p].out # {} => Deletes(p) /\ ps[p].at \in {"count", "commit"}
  /\ \A h \in ps[p].out : ~Used(work, h)
  /\ Deletes(p) =>
       /\ At(p, "delete") => ps[p].todo = ps[p].hashes
       /\ At(p, "commit") => ps[p].todo = {}
       /\ ps[p].at \in {"count", "commit"} =>
            \A h \in ps[p].hashes \ ps[p].todo : Used(work, h) \/ h \in ps[p].out

Accounted == \A p \in Goroutine : Knows(p) /\ Reports(p)

LEMMA AccountedInit == Init => Accounted
<1>1. ASSUME Init, NEW p \in Goroutine PROVE ps[p] = Idle
  BY <1>1 DEF Init
<1>2. Idle.call = "none" /\ Idle.out = {} BY DEF Idle
<1>3. ASSUME Init, NEW p \in Goroutine PROVE Knows(p) /\ Reports(p)
  <2>1. ~Deletes(p) /\ ps[p].out = {} BY <1>1, <1>2, <1>3 DEF Deletes
  <2>2. QED BY <2>1 DEF Knows, Reports
<1>4. QED BY <1>3 DEF Accounted

(* Where the step of q leaves it. *)
LEMMA StepMoves ==
  ASSUME Linked, NEW q \in Goroutine, Call(q) \/ Continue(q)
  PROVE  \E l : Becomes(q, l)
<1> USE DEF Enter, Return, GoTo
<1>1. CASE Call(q)
  BY <1>1 DEF Call, StartCreate, StartFile, StartRetention, StartDeleteNode, StartRegister,
     StartUpdate, StartPair, StartTasks
<1>2. CASE Creating(q)
  BY <1>2 DEF Creating, BeginCreate, AssignVersion, InsertFile, InsertChunk, ChunksInserted
<1>3. CASE Reading(q)
  BY <1>3 DEF Reading, ReadRow, RowMissing, QueryChunks, QueryChunksFails, CloseChunks, FileRead
<1>4. CASE Deleting(q)
  BY <1>4 DEF Deleting, SelectExpired, CloseIds, BeginDelete, DeleteRow, CountUses, UsesCounted
<1>5. CASE Removing(q)
  BY <1>5 DEF Removing, ReadNode, BeginDeleteNode, DeleteLocations, DeleteNodeRow
<1>6. CASE Single(q)
  BY <1>6 DEF Single, RegisterNode, UpdateFileReplication, LookUpNode, RecordLocation, TouchNode,
     ReadSize, EraseLocation, CreditNode, Query, CloseRows, AfterQuery
<1>7. CASE Commit(q) \/ TransactionFails(q) \/ FirstFails(q)
  BY <1>7 DEF Commit, TransactionFails, FirstFails
<1>8. QED BY <1>1, <1>2, <1>3, <1>4, <1>5, <1>6, <1>7 DEF Continue

(* The step of q leaves the others where they are, and the transaction of
   another one alone. *)
LEMMA OthersRest ==
  ASSUME Linked, NEW q \in Goroutine, Call(q) \/ Continue(q), NEW p \in Goroutine, p # q
  PROVE  /\ ps'[p] = ps[p]
         /\ ps[p].at \in InTransaction => UNCHANGED <<db, work>>
<1> USE DEF Reads, Aside
<1>1. ps'[p] = ps[p]
  BY StepMoves DEF Becomes, Linked, TransactionsTypeOK
<1>2. ASSUME ps[p].at \in InTransaction PROVE UNCHANGED <<db, work>>
  <2>1. conn = p /\ conn # q /\ conn # Nobody
    BY <1>2, TransactionsAssumption DEF Linked, Solo
  <2>2. CASE Call(q)
    BY <2>2 DEF Call, StartCreate, StartFile, StartRetention, StartDeleteNode, StartRegister,
       StartUpdate, StartPair, StartTasks
  <2>3. CASE Creating(q)
    BY <2>1, <2>3 DEF Creating, BeginCreate, AssignVersion, InsertFile, InsertChunk,
       ChunksInserted, Changes, Holding
  <2>4. CASE Reading(q)
    BY <2>4 DEF Reading, ReadRow, RowMissing, QueryChunks, QueryChunksFails, CloseChunks
  <2>5. CASE Deleting(q)
    BY <2>1, <2>5 DEF Deleting, SelectExpired, CloseIds, BeginDelete, DeleteRow, CountUses,
       UsesCounted, Changes, Holding
  <2>6. CASE Removing(q)
    BY <2>1, <2>6 DEF Removing, ReadNode, BeginDeleteNode, DeleteLocations, DeleteNodeRow,
       Changes, Holding
  <2>7. CASE Single(q)
    BY <2>1, <2>7 DEF Single, RegisterNode, UpdateFileReplication, LookUpNode, RecordLocation,
       TouchNode, ReadSize, EraseLocation, CreditNode, Query, CloseRows, Briefly
  <2>8. CASE Commit(q) \/ TransactionFails(q) \/ FirstFails(q)
    BY <2>1, <2>8 DEF Commit, TransactionFails, FirstFails, GiveBack
  <2>9. QED BY <2>2, <2>3, <2>4, <2>5, <2>6, <2>7, <2>8 DEF Continue
<1>3. QED BY <1>1, <1>2

(* The chunks of a file change by the commit of its CreateFile and that of its
   deletion. *)
LEMMA ChunksStep ==
  ASSUME Linked, NEW q \in Goroutine, Call(q) \/ Continue(q), NEW c \in db'.chunks
  PROVE  c \in db.chunks \/ (Creates(q) /\ \E r \in ps[q].row : c[1] = r.id)
<1> USE DEF Reads, Aside
<1>0. db \in Tables /\ FlowOK(ps[q]) /\ Progress(q)
  BY DEF Linked, TransactionsTypeOK, Flow, Progresses
<1>1. CASE db' = db BY <1>1
<1>2. CASE \E x : db' = [db EXCEPT !.nodes = x] \/ db' = [db EXCEPT !.locs = x]
                  \/ db' = [db EXCEPT !.files = x]
  BY <1>0, <1>2 DEF Tables
<1>3. CASE Call(q)
  BY <1>1, <1>3 DEF Call, StartCreate, StartFile, StartRetention, StartDeleteNode, StartRegister,
     StartUpdate, StartPair, StartTasks
<1>4. CASE Creating(q) \/ Reading(q)
  BY <1>1, <1>4 DEF Creating, BeginCreate, AssignVersion, InsertFile, InsertChunk,
     ChunksInserted, Changes, Reading, ReadRow, RowMissing, QueryChunks, QueryChunksFails,
     CloseChunks
<1>5. CASE Deleting(q) \/ Removing(q)
  BY <1>1, <1>5 DEF Deleting, SelectExpired, CloseIds, BeginDelete, DeleteRow, CountUses,
     UsesCounted, Changes, Removing, ReadNode, BeginDeleteNode, DeleteLocations, DeleteNodeRow
<1>6. CASE Single(q)
  BY <1>1, <1>2, <1>6 DEF Single, RegisterNode, UpdateFileReplication, LookUpNode, RecordLocation,
     TouchNode, ReadSize, EraseLocation, CreditNode, Query, CloseRows, Autocommit
<1>7. CASE Commit(q)
  <2>1. At(q, "commit") /\ db' = work BY <1>7 DEF Commit
  <2>2. CASE Creates(q)
    <3>1. CreateProgress(q) BY <1>0, <2>1, <2>2 DEF Progress
    <3>2. QED BY <2>1, <2>2, <3>1 DEF CreateProgress
  <2>3. CASE ps[q].call \in {"DeleteFile", "ApplyRetention"}
    BY <1>0, <2>1, <2>3 DEF Progress, DeleteProgress
  <2>4. CASE ps[q].call = "DeleteNode"
    BY <1>0, <2>1, <2>4 DEF Progress, RemoveProgress
  <2>5. QED BY <1>0, <2>1, <2>2, <2>3, <2>4 DEF FlowOK, At, Creates
<1>8. CASE TransactionFails(q) \/ FirstFails(q)
  BY <1>1, <1>8 DEF TransactionFails, FirstFails
<1>9. QED BY <1>3, <1>4, <1>5, <1>6, <1>7, <1>8 DEF Continue

(* A reader or a deletion stays one until it returns. *)
LEMMA ReaderStays ==
  ASSUME Linked, NEW q \in Goroutine, Reading(q) \/ Deleting(q)
  PROVE  /\ ps[q].call \in {"File", "DeleteFile", "ApplyRetention"}
         /\ ps'[q].call \in {ps[q].call, "none"}
<1> USE DEF At, GoTo
<1>0. ps[q] \in Local /\ FlowOK(ps[q]) /\ ps \in [Goroutine -> Local]
  BY DEF Linked, TransactionsTypeOK, Flow
<1>1. ps[q].call \in {"File", "DeleteFile", "ApplyRetention"}
  BY <1>0 DEF FlowOK, Reading, ReadRow, RowMissing, QueryChunks, QueryChunksFails, CloseChunks,
     Deleting, SelectExpired, CloseIds, BeginDelete, DeleteRow, CountUses, UsesCounted
<1>a. ASSUME NEW l, Becomes(q, l), l.call = ps[q].call PROVE ps'[q].call = ps[q].call
  BY <1>0, <1>a DEF Becomes
<1>2. CASE Return(q)
  <2>1. ps'[q] = Idle BY <1>0, <1>2 DEF Return, Becomes
  <2>2. QED BY <1>1, <2>1 DEF Idle
<1>3. CASE Reading(q)
  <2> DEFINE nx == AfterFile(q, ps[q].left)
  <2>1. CASE ReadRow(q)
    <3>1. PICK f \in db.files :
            Becomes(q, [ps[q] EXCEPT !.at = "chunks", !.file = {f.id}, !.left = @ \ {f.id}])
      BY <2>1 DEF ReadRow
    <3> DEFINE l == [ps[q] EXCEPT !.at = "chunks", !.file = {f.id}, !.left = @ \ {f.id}]
    <3>2. l.call = ps[q].call BY <1>0 DEF Local
    <3>3. Becomes(q, l) BY <3>1
    <3> HIDE DEF l
    <3>4. QED BY <1>1, <1>a, <3>2, <3>3
  <2>2. CASE RowMissing(q) /\ ~Return(q)
    <3>1. PICK id \in ps[q].left :
            Becomes(q, [ps[q] EXCEPT
                          !.left = @ \ {id},
                          !.blind = IF \E f \in db.files : f.id = id
                                    THEN TRUE ELSE @,
                          !.at = AfterFile(q, ps[q].left \ {id})])
      BY <2>2 DEF RowMissing
    <3> DEFINE b == IF \E f \in db.files : f.id = id THEN TRUE ELSE ps[q].blind
               to == AfterFile(q, ps[q].left \ {id})
               l == [ps[q] EXCEPT !.left = @ \ {id}, !.blind = b, !.at = to]
    <3>2. Becomes(q, l) BY <3>1
    <3> HIDE DEF b, to
    <3>3. l.call = ps[q].call BY <1>0 DEF Local
    <3> HIDE DEF l
    <3>4. QED BY <1>1, <1>a, <3>2, <3>3
  <2>3. CASE QueryChunks(q)
    <3> DEFINE found == {h \in Hash : \E id \in ps[q].file : <<id, h>> \in db.chunks}
               l == [ps[q] EXCEPT !.at = "rows", !.hashes = @ \cup found]
    <3>1. Becomes(q, l) BY <2>3 DEF QueryChunks
    <3> HIDE DEF found
    <3>2. l.call = ps[q].call BY <1>0 DEF Local
    <3> HIDE DEF l
    <3>3. QED BY <1>1, <1>a, <3>1, <3>2
  <2>4. CASE (QueryChunksFails(q) \/ CloseChunks(q)) /\ ~Return(q)
    <3> DEFINE l == [ps[q] EXCEPT !.at = nx, !.file = {}, !.blind = TRUE]
               m == [ps[q] EXCEPT !.at = nx, !.file = {}]
    <3>1. Becomes(q, l) \/ Becomes(q, m)
      BY <2>4 DEF QueryChunksFails, CloseChunks, FileRead
    <3> HIDE DEF nx
    <3>2. l.call = ps[q].call /\ m.call = ps[q].call BY <1>0 DEF Local
    <3> HIDE DEF l, m
    <3>3. QED BY <1>1, <1>a, <3>1, <3>2
  <2>5. QED BY <1>2, <1>3, <2>1, <2>2, <2>3, <2>4 DEF Reading
<1>4. CASE Deleting(q)
  <2>1. CASE SelectExpired(q)
    <3>1. PICK ids : Becomes(q, [ps[q] EXCEPT !.at = "id rows", !.ids = ids, !.left = ids])
      BY <2>1 DEF SelectExpired
    <3> DEFINE l == [ps[q] EXCEPT !.at = "id rows", !.ids = ids, !.left = ids]
    <3>2. l.call = ps[q].call BY <1>0 DEF Local
    <3>3. Becomes(q, l) BY <3>1
    <3> HIDE DEF l
    <3>4. QED BY <1>1, <1>a, <3>2, <3>3
  <2>2. CASE (CloseIds(q) \/ BeginDelete(q) \/ UsesCounted(q)) /\ ~Return(q)
    <3> DEFINE k == [ps[q] EXCEPT !.at = "row"]
               l == [ps[q] EXCEPT !.at = "delete", !.left = ps[q].ids, !.todo = ps[q].hashes]
               m == [ps[q] EXCEPT !.at = "commit"]
    <3>1. Becomes(q, k) \/ Becomes(q, l) \/ Becomes(q, m)
      BY <2>2 DEF CloseIds, BeginDelete, UsesCounted
    <3>2. k.call = ps[q].call /\ l.call = ps[q].call /\ m.call = ps[q].call
      BY <1>0 DEF Local
    <3> HIDE DEF k, l, m
    <3>3. QED BY <1>1, <1>a, <3>1, <3>2
  <2>3. CASE DeleteRow(q)
    <3>1. PICK id \in ps[q].left :
            Becomes(q, [ps[q] EXCEPT !.left = @ \ {id},
                          !.at = IF ps[q].left = {id} THEN "count" ELSE @])
      BY <2>3 DEF DeleteRow
    <3> DEFINE to == IF ps[q].left = {id} THEN "count" ELSE ps[q].at
               l == [ps[q] EXCEPT !.left = @ \ {id}, !.at = to]
    <3>2. Becomes(q, l) BY <3>1
    <3> HIDE DEF to
    <3>3. l.call = ps[q].call BY <1>0 DEF Local
    <3> HIDE DEF l
    <3>4. QED BY <1>1, <1>a, <3>2, <3>3
  <2>4. CASE CountUses(q)
    <3>1. PICK h \in ps[q].todo :
            Becomes(q, [ps[q] EXCEPT !.todo = @ \ {h},
                                     !.out = IF Used(work, h) THEN @ ELSE @ \cup {h}])
      BY <2>4 DEF CountUses
    <3> DEFINE o == IF Used(work, h) THEN ps[q].out ELSE ps[q].out \cup {h}
               l == [ps[q] EXCEPT !.todo = @ \ {h}, !.out = o]
    <3>2. Becomes(q, l) BY <3>1
    <3> HIDE DEF o
    <3>3. l.call = ps[q].call BY <1>0 DEF Local
    <3> HIDE DEF l
    <3>4. QED BY <1>1, <1>a, <3>2, <3>3
  <2>5. QED BY <1>2, <1>4, <2>1, <2>2, <2>3, <2>4 DEF Deleting
<1>5. QED BY <1>1, <1>2, <1>3, <1>4

(* A CreateFile that goes on keeps its id. *)
LEMMA RowStays ==
  ASSUME Linked, NEW q \in Goroutine, Call(q) \/ Continue(q), ~StartCreate(q),
         Creates(q)', NEW r \in ps'[q].row
  PROVE  Creates(q) /\ \E f \in ps[q].row : f.id = r.id
<1> USE DEF At, GoTo, Enter
<1>0. ps[q] \in Local /\ FlowOK(ps[q]) /\ ps \in [Goroutine -> Local]
  BY DEF Linked, TransactionsTypeOK, Flow
<1>1. ASSUME NEW l, Becomes(q, l), l.call \in {ps[q].call, "none", "File"}, l.row = ps[q].row
      PROVE  Creates(q) /\ r \in ps[q].row
  <2>1. ps'[q] = l BY <1>0, <1>1 DEF Becomes
  <2>2. QED BY <1>1, <2>1 DEF Creates
<1>2. ASSUME NEW l, Becomes(q, l), l.call # "CreateFile" PROVE FALSE
  <2>1. ps'[q] = l BY <1>0, <1>2 DEF Becomes
  <2>2. QED BY <1>2, <2>1 DEF Creates
<1>3. CASE Call(q)
  BY <1>2, <1>3 DEF Call, StartFile, StartRetention, StartDeleteNode, StartRegister, StartUpdate,
     StartPair, StartTasks, Idle
<1>4. CASE Return(q) BY <1>2, <1>4 DEF Return, Idle
<1>5. CASE \E a : Becomes(q, [ps[q] EXCEPT !.at = a])
  <2>1. PICK a : Becomes(q, [ps[q] EXCEPT !.at = a]) BY <1>5
  <2>2. /\ [ps[q] EXCEPT !.at = a].call = ps[q].call
        /\ [ps[q] EXCEPT !.at = a].row = ps[q].row
    BY <1>0 DEF Local
  <2>3. QED BY <1>1, <2>1, <2>2
<1>6. CASE Creating(q)
  <2>1. CASE AssignVersion(q)
    <3>1. PICK s \in ps[q].row, v \in 1 .. MaxVersion :
            Becomes(q, [ps[q] EXCEPT !.at = "insert", !.row = {[s EXCEPT !.version = v]}])
      BY <2>1 DEF AssignVersion
    <3> DEFINE t == [s EXCEPT !.version = v]
    <3>2. t.id = s.id BY <1>0 DEF Local, FileRow
    <3> HIDE DEF t
    <3>3. ps'[q] = [ps[q] EXCEPT !.at = "insert", !.row = {t}]
      BY <1>0, <3>1 DEF Becomes, t
    <3>4. ps'[q].row = {t} /\ ps'[q].call = ps[q].call BY <1>0, <3>3 DEF Local
    <3>5. QED BY <3>2, <3>4 DEF Creates
  <2>2. CASE InsertChunk(q)
    <3>1. PICK h \in ps[q].todo : Becomes(q, [ps[q] EXCEPT !.todo = @ \ {h}])
      BY <2>2 DEF InsertChunk
    <3> DEFINE l == [ps[q] EXCEPT !.todo = @ \ {h}]
    <3>2. l.call = ps[q].call /\ l.row = ps[q].row BY <1>0 DEF Local
    <3> HIDE DEF l
    <3>3. QED BY <1>1, <3>1, <3>2 DEF l
  <2>3. QED BY <1>5, <1>6, <2>1, <2>2 DEF Creating, BeginCreate, InsertFile, ChunksInserted
<1>7. CASE Reading(q) \/ Deleting(q)
  BY <1>7, ReaderStays DEF Creates
<1>8. CASE Single(q)
  <2>1. CASE UpdateFileReplication(q)
    <3> DEFINE l == [ps[q] EXCEPT !.at = "row", !.call = "File", !.left = ps[q].ids]
    <3>1. Becomes(q, l) \/ Return(q) BY <2>1 DEF UpdateFileReplication
    <3>2. l.call = "File" BY <1>0 DEF Local
    <3> HIDE DEF l
    <3>3. QED BY <1>2, <1>4, <3>1, <3>2
  <2>2. CASE Becomes(q, [ps[q] EXCEPT !.at = "query", !.more = @ - 1])
    <3> DEFINE l == [ps[q] EXCEPT !.at = "query", !.more = @ - 1]
    <3>1. l.call = ps[q].call /\ l.row = ps[q].row BY <1>0 DEF Local
    <3> HIDE DEF l
    <3>2. QED BY <1>1, <2>2, <3>1 DEF l
  <2>3. QED
    BY <1>4, <1>5, <1>8, <2>1, <2>2 DEF Single, RegisterNode, LookUpNode, RecordLocation, TouchNode,
       ReadSize, EraseLocation, CreditNode, Query, CloseRows, AfterQuery
<1>9. CASE Removing(q)
  BY <1>4, <1>5, <1>9 DEF Removing, ReadNode, BeginDeleteNode, DeleteLocations, DeleteNodeRow
<1>10. CASE Commit(q) \/ TransactionFails(q) \/ FirstFails(q)
  BY <1>4, <1>10 DEF Commit, TransactionFails, FirstFails
<1>11. QED BY <1>3, <1>6, <1>7, <1>8, <1>9, <1>10 DEF Continue

(* A new CreateFile gets a new id, and a CreateFile that goes on keeps its. *)
LEMMA OldStays ==
  ASSUME Linked, NEW q \in Goroutine, Call(q) \/ Continue(q), NEW id, Old(id)
  PROVE  Old(id)'
<1> USE DEF At, GoTo, Reads, Aside
<1>1. issued \subseteq issued' /\ (~StartCreate(q) => issued' = issued)
  BY DEF Call, StartCreate, StartFile, StartRetention, StartDeleteNode, StartRegister, StartUpdate,
     StartPair, StartTasks, Continue, Creating, BeginCreate, AssignVersion, InsertFile,
     InsertChunk, ChunksInserted, Reading, ReadRow, RowMissing, QueryChunks, QueryChunksFails,
     CloseChunks, Deleting, SelectExpired, CloseIds, BeginDelete, DeleteRow, CountUses,
     UsesCounted, Removing, ReadNode, BeginDeleteNode, DeleteLocations, DeleteNodeRow, Single,
     RegisterNode, UpdateFileReplication, LookUpNode, RecordLocation, TouchNode, ReadSize,
     EraseLocation, CreditNode, Query, CloseRows, Commit, TransactionFails, FirstFails
<1>2. ASSUME Creates(q)', NEW r \in ps'[q].row PROVE r.id # id
  <2>1. CASE StartCreate(q)
    <3>1. PICK new \in FileId, nm \in Name, cs \in Contents, n \in Replicas :
            /\ \A i \in issued : i.id # new
            /\ Becomes(q, [Idle EXCEPT !.call = "CreateFile", !.at = "create",
                                       !.hashes = cs, !.todo = cs,
                                       !.row = {[id |-> new, name |-> nm, version |-> 0,
                                                 repl |-> Normalized(n)]}])
      BY <2>1 DEF StartCreate, Enter
    <3>2. ps'[q].row = {[id |-> new, name |-> nm, version |-> 0, repl |-> Normalized(n)]}
      BY <3>1 DEF Becomes, Idle, Linked, TransactionsTypeOK
    <3>3. r.id = new BY <1>2, <3>2
    <3>4. QED BY <3>1, <3>3 DEF Old
  <2>2. CASE ~StartCreate(q)
    <3>1. \E f \in ps[q].row : Creates(q) /\ f.id = r.id BY <1>2, <2>2, RowStays
    <3>2. QED BY <3>1 DEF Old
  <2>3. QED BY <2>1, <2>2
<1>3. QED
  <2>1. \A p \in Goroutine : p # q => ps'[p] = ps[p] BY OthersRest
  <2>2. QED BY <1>1, <1>2, <2>1 DEF Old, Creates

(* Whoever is not the one that moves. *)
LEMMA AccountedOthers ==
  ASSUME Linked, Tidy, Accounted, NEW q \in Goroutine, Call(q) \/ Continue(q),
         NEW p \in Goroutine, p # q
  PROVE  Knows(p)' /\ Reports(p)'
<1>1. /\ ps'[p] = ps[p]
      /\ ps[p].at \in InTransaction => UNCHANGED <<db, work>>
  BY OthersRest
<1>2. Knows(p) /\ Reports(p) BY DEF Accounted
<1>3. Knows(p)'
  <2>1. SUFFICES ASSUME Deletes(p)
                 PROVE  /\ ps[p].call = "ApplyRetention" \/ ~At(p, "row") =>
                             \A id \in ps[p].ids : Old(id)'
                        /\ ~ps[p].blind => \A id \in ps[p].ids \ Unread(ps[p]), h \in Hash :
                             <<id, h>> \in db'.chunks => h \in ps[p].hashes
    BY <1>1, <1>2 DEF Knows, Deletes, At, Unread
  <2>2. ps[p].call = "ApplyRetention" \/ ~At(p, "row") =>
          \A id \in ps[p].ids : Old(id) /\ Old(id)'
    BY <1>2, <2>1, OldStays DEF Knows
  <2>3. ASSUME ~ps[p].blind, NEW id \in ps[p].ids \ Unread(ps[p]), NEW h \in Hash,
               <<id, h>> \in db'.chunks
        PROVE  h \in ps[p].hashes
    <3>1. ps[p].call = "ApplyRetention" \/ ~At(p, "row")
      BY <2>1, <2>3 DEF Tidy, Narrowed, Narrow, Deletes, At, Unread
    <3>2. ~(Creates(q) /\ \E r \in ps[q].row : id = r.id) BY <2>2, <3>1 DEF Old
    <3>3. <<id, h>> \in db.chunks
      <4> DEFINE c == <<id, h>>
      <4>1. c \in db'.chunks /\ c[1] = id BY <2>3
      <4> HIDE DEF c
      <4>2. c \in db.chunks BY <3>2, <4>1, ChunksStep
      <4>3. QED BY <4>2 DEF c
    <3>4. QED BY <1>2, <2>1, <2>3, <3>3 DEF Knows
  <2>4. QED BY <2>2, <2>3
<1>4. Reports(p)'
  <2>1. CASE ps[p].at \in InTransaction
    BY <1>1, <1>2, <2>1 DEF Reports, Deletes, At
  <2>2. CASE ps[p].at \notin InTransaction
    <3>1. ps[p].at \notin {"delete", "count", "commit"} BY <2>2 DEF InTransaction
    <3>2. ps[p].out = {} BY <1>2, <3>1 DEF Reports
    <3>3. QED BY <1>1, <3>1, <3>2 DEF Reports, Deletes, At
  <2>3. QED BY <2>1, <2>2
<1>5. QED BY <1>3, <1>4

LEMMA NoDeletion ==
  ASSUME NEW q \in Goroutine, ps'[q].call \notin {"DeleteFile", "ApplyRetention"},
         ps'[q].out = {}
  PROVE  Knows(q)' /\ Reports(q)'
  BY DEF Knows, Reports, Deletes

LEMMA ReturnAccounted ==
  ASSUME Linked, NEW q \in Goroutine, Return(q) PROVE Knows(q)' /\ Reports(q)'
<1>1. ps'[q] = Idle BY DEF Return, Becomes, Linked, TransactionsTypeOK
<1>2. ps'[q].call = "none" /\ ps'[q].out = {} BY <1>1 DEF Idle
<1>3. QED BY <1>2, NoDeletion

LEMMA CallAccounted ==
  ASSUME Linked, NEW q \in Goroutine, Call(q)
  PROVE  Knows(q)' /\ Reports(q)'
<1> USE DEF Enter
<1>0. ps \in [Goroutine -> Local] BY DEF Linked, TransactionsTypeOK
<1>1. ASSUME NEW l, Becomes(q, l), l.out = {}, l.call \notin {"DeleteFile", "ApplyRetention"}
      PROVE  Knows(q)' /\ Reports(q)'
  <2>1. ps'[q] = l BY <1>0, <1>1 DEF Becomes
  <2>2. QED BY <1>1, <2>1, NoDeletion
<1>2. CASE StartFile(q)
  <2>1. PICK id \in FileId, m \in {"File", "DeleteFile"} :
          Becomes(q, [Idle EXCEPT !.call = m, !.at = "row", !.ids = {id}, !.left = {id}])
    BY <1>2 DEF StartFile
  <2> DEFINE l == [Idle EXCEPT !.call = m, !.at = "row", !.ids = {id}, !.left = {id}]
  <2>2. l.call = m /\ l.at = "row" /\ l.ids = {id} /\ l.left = {id} /\ l.out = {}
    BY DEF Idle
  <2>3. ps'[q] = l BY <1>0, <2>1 DEF Becomes
  <2> HIDE DEF l
  <2>4. QED BY <2>2, <2>3 DEF Knows, Reports, Deletes, At, Unread
<1>3. CASE StartRetention(q)
  <2> DEFINE l == [Idle EXCEPT !.call = "ApplyRetention", !.at = "select"]
  <2>1. l.call = "ApplyRetention" /\ l.at = "select" /\ l.ids = {} /\ l.left = {} /\ l.out = {}
    BY DEF Idle
  <2>2. ps'[q] = l BY <1>0, <1>3 DEF Becomes, StartRetention
  <2> HIDE DEF l
  <2>3. QED BY <2>1, <2>2 DEF Knows, Reports, Deletes, At, Unread
<1>4. CASE StartCreate(q)
  <2>1. PICK id \in FileId, nm \in Name, cs \in Contents, r \in Replicas :
          Becomes(q, [Idle EXCEPT !.call = "CreateFile", !.at = "create",
                                  !.hashes = cs, !.todo = cs,
                                  !.row = {[id |-> id, name |-> nm, version |-> 0,
                                            repl |-> Normalized(r)]}])
    BY <1>4 DEF StartCreate
  <2> DEFINE row == [id |-> id, name |-> nm, version |-> 0, repl |-> Normalized(r)]
             l == [Idle EXCEPT !.call = "CreateFile", !.at = "create",
                               !.hashes = cs, !.todo = cs, !.row = {row}]
  <2>2. l.call = "CreateFile" /\ l.out = {} BY DEF Idle
  <2>3. Becomes(q, l) BY <2>1
  <2> HIDE DEF l
  <2>4. QED BY <1>1, <2>2, <2>3
<1>5. CASE StartDeleteNode(q) \/ StartRegister(q)
  <2>1. PICK n \in Node :
          \/ Becomes(q, [Idle EXCEPT !.call = "DeleteNode", !.at = "node", !.node = {n}])
          \/ Becomes(q, [Idle EXCEPT !.call = "RegisterNode", !.at = "register", !.node = {n}])
    BY <1>5 DEF StartDeleteNode, StartRegister
  <2> DEFINE l == [Idle EXCEPT !.call = "DeleteNode", !.at = "node", !.node = {n}]
             m == [Idle EXCEPT !.call = "RegisterNode", !.at = "register", !.node = {n}]
  <2>2. l.call = "DeleteNode" /\ l.out = {} /\ m.call = "RegisterNode" /\ m.out = {}
    BY DEF Idle
  <2>3. Becomes(q, l) \/ Becomes(q, m) BY <2>1
  <2> HIDE DEF l, m
  <2>4. QED BY <1>1, <2>2, <2>3
<1>6. CASE StartUpdate(q)
  <2>1. PICK id \in FileId :
          Becomes(q, [Idle EXCEPT !.call = "UpdateFileReplication", !.at = "update", !.ids = {id}])
    BY <1>6 DEF StartUpdate
  <2> DEFINE l == [Idle EXCEPT !.call = "UpdateFileReplication", !.at = "update", !.ids = {id}]
  <2>2. l.call = "UpdateFileReplication" /\ l.out = {} BY DEF Idle
  <2>3. Becomes(q, l) BY <2>1
  <2> HIDE DEF l
  <2>4. QED BY <1>1, <2>2, <2>3
<1>7. CASE StartPair(q)
  <2>1. PICK x \in Pairs :
          \/ Becomes(q, [Idle EXCEPT !.call = "ConfirmChunk", !.at = "known", !.pair = {x}])
          \/ Becomes(q, [Idle EXCEPT !.call = "RemoveChunkLocation", !.at = "size", !.pair = {x}])
    BY <1>7 DEF StartPair
  <2> DEFINE l == [Idle EXCEPT !.call = "ConfirmChunk", !.at = "known", !.pair = {x}]
             m == [Idle EXCEPT !.call = "RemoveChunkLocation", !.at = "size", !.pair = {x}]
  <2>2. l.call = "ConfirmChunk" /\ l.out = {} /\ m.call = "RemoveChunkLocation" /\ m.out = {}
    BY DEF Idle
  <2>3. Becomes(q, l) \/ Becomes(q, m) BY <2>1
  <2> HIDE DEF l, m
  <2>4. QED BY <1>1, <2>2, <2>3
<1>8. CASE StartTasks(q)
  <2>1. PICK k \in 0 .. MaxSeries :
          Becomes(q, [Idle EXCEPT !.call = "Tasks", !.at = "query", !.more = k])
    BY <1>8 DEF StartTasks
  <2> DEFINE l == [Idle EXCEPT !.call = "Tasks", !.at = "query", !.more = k]
  <2>2. l.call = "Tasks" /\ l.out = {} BY DEF Idle
  <2>3. Becomes(q, l) BY <2>1
  <2> HIDE DEF l
  <2>4. QED BY <1>1, <2>2, <2>3
<1>9. QED BY <1>2, <1>3, <1>4, <1>5, <1>6, <1>7, <1>8 DEF Call

LEMMA PlainAccounted ==
  ASSUME Linked, Accounted, NEW q \in Goroutine, Creating(q) \/ Removing(q) \/ Single(q)
  PROVE  Knows(q)' /\ Reports(q)'
<1> USE DEF At, GoTo
<1>0. /\ ps[q] \in Local /\ FlowOK(ps[q]) /\ ps \in [Goroutine -> Local]
      /\ Knows(q) /\ Reports(q)
  BY DEF Linked, TransactionsTypeOK, Flow, Accounted
<1>1. ~Deletes(q) /\ ps[q].out = {}
  <2>1. ~Deletes(q)
    <3>1. CASE Creating(q) \/ Removing(q)
      BY <1>0, <3>1 DEF FlowOK, Deletes, Creating, BeginCreate, AssignVersion, InsertFile,
         InsertChunk, ChunksInserted, Removing, ReadNode, BeginDeleteNode, DeleteLocations,
         DeleteNodeRow
    <3>2. CASE Single(q)
      BY <1>0, <3>2 DEF Knows, Single, RegisterNode, UpdateFileReplication, LookUpNode,
         RecordLocation, TouchNode, ReadSize, EraseLocation, CreditNode, Query, CloseRows
    <3>3. QED BY <3>1, <3>2
  <2>2. QED BY <1>0, <2>1 DEF Reports
<1>2. ASSUME NEW l, Becomes(q, l), l.call \in {ps[q].call, "File"}, l.out = ps[q].out
      PROVE  Knows(q)' /\ Reports(q)'
  <2>1. ps'[q] = l BY <1>0, <1>2 DEF Becomes
  <2>2. QED BY <1>1, <1>2, <2>1, NoDeletion DEF Deletes
<1>3. CASE Return(q) BY <1>3, ReturnAccounted
<1>4. CASE \E a : Becomes(q, [ps[q] EXCEPT !.at = a])
  <2>1. PICK a : Becomes(q, [ps[q] EXCEPT !.at = a]) BY <1>4
  <2>2. /\ [ps[q] EXCEPT !.at = a].call = ps[q].call
        /\ [ps[q] EXCEPT !.at = a].out = ps[q].out
    BY <1>0 DEF Local
  <2>3. QED BY <1>2, <2>1, <2>2
<1>5. CASE AssignVersion(q)
  <2>1. PICK s \in ps[q].row, v \in 1 .. MaxVersion :
          Becomes(q, [ps[q] EXCEPT !.at = "insert", !.row = {[s EXCEPT !.version = v]}])
    BY <1>5 DEF AssignVersion
  <2> DEFINE t == [s EXCEPT !.version = v]
             l == [ps[q] EXCEPT !.at = "insert", !.row = {t}]
  <2>2. Becomes(q, l) BY <2>1
  <2> HIDE DEF t
  <2>3. l.call = ps[q].call /\ l.out = ps[q].out BY <1>0 DEF Local
  <2> HIDE DEF l
  <2>4. QED BY <1>2, <2>2, <2>3
<1>6. CASE InsertChunk(q)
  <2>1. PICK h \in ps[q].todo : Becomes(q, [ps[q] EXCEPT !.todo = @ \ {h}])
    BY <1>6 DEF InsertChunk
  <2> DEFINE l == [ps[q] EXCEPT !.todo = @ \ {h}]
  <2>2. l.call = ps[q].call /\ l.out = ps[q].out BY <1>0 DEF Local
  <2>3. Becomes(q, l) BY <2>1
  <2> HIDE DEF l
  <2>4. QED BY <1>2, <2>2, <2>3
<1>7. CASE UpdateFileReplication(q)
  <2> DEFINE l == [ps[q] EXCEPT !.at = "row", !.call = "File", !.left = ps[q].ids]
  <2>1. Becomes(q, l) \/ Return(q) BY <1>7 DEF UpdateFileReplication
  <2>2. l.call = "File" /\ l.out = ps[q].out BY <1>0 DEF Local
  <2> HIDE DEF l
  <2>3. QED BY <1>2, <1>3, <2>1, <2>2
<1>8. CASE Becomes(q, [ps[q] EXCEPT !.at = "query", !.more = @ - 1])
  <2> DEFINE l == [ps[q] EXCEPT !.at = "query", !.more = @ - 1]
  <2>1. l.call = ps[q].call /\ l.out = ps[q].out BY <1>0 DEF Local
  <2>2. Becomes(q, l) BY <1>8
  <2> HIDE DEF l
  <2>3. QED BY <1>2, <2>1, <2>2
<1>9. CASE Creating(q)
  BY <1>4, <1>5, <1>6, <1>9 DEF Creating, BeginCreate, InsertFile, ChunksInserted
<1>10. CASE Removing(q)
  BY <1>3, <1>4, <1>10 DEF Removing, ReadNode, BeginDeleteNode, DeleteLocations, DeleteNodeRow
<1>11. CASE Single(q)
  BY <1>3, <1>4, <1>7, <1>8, <1>11 DEF Single, RegisterNode, LookUpNode, RecordLocation,
     TouchNode, ReadSize, EraseLocation, CreditNode, Query, CloseRows, AfterQuery
<1>12. QED BY <1>9, <1>10, <1>11

LEMMA ReadingAccounted ==
  ASSUME Linked, Tidy, Accounted, NEW q \in Goroutine, Reading(q)
  PROVE  Knows(q)' /\ Reports(q)'
<1> USE DEF At
<1>0. /\ ps[q] \in Local /\ ps \in [Goroutine -> Local]
      /\ Knows(q) /\ Reports(q) /\ Narrow(ps[q])
      /\ ps[q].call \in {"File", "DeleteFile", "ApplyRetention"}
  BY ReaderStays DEF Linked, TransactionsTypeOK, Accounted, Tidy, Narrowed
<1>1. db' = db /\ ps[q].at \in {"row", "chunks", "rows"}
  BY DEF Reading, ReadRow, RowMissing, QueryChunks, QueryChunksFails, CloseChunks, Reads
<1>2. ps[q].out = {} BY <1>0, <1>1 DEF Reports
<1>3. Call(q) \/ Continue(q) BY DEF Continue
<1>4. ASSUME NEW l, Becomes(q, l), l.call = ps[q].call, l.out = ps[q].out, l.ids = ps[q].ids,
             l.at \in {"row", "chunks", "rows", "begin"},
             Deletes(q) =>
               /\ l.call = "ApplyRetention" \/ l.at # "row" => \A id \in l.ids : Old(id)
               /\ ~l.blind => \A id \in l.ids \ Unread(l), h \in Hash :
                                <<id, h>> \in db.chunks => h \in l.hashes
      PROVE  Knows(q)' /\ Reports(q)'
  <2>1. ps'[q] = l BY <1>0, <1>4 DEF Becomes
  <2>2. CASE Deletes(q)
    <3>1. l.call = "ApplyRetention" \/ l.at # "row" => \A id \in l.ids : Old(id)'
      BY <1>3, <1>4, <2>2, OldStays
    <3>2. Knows(q)' BY <1>1, <1>4, <2>1, <2>2, <3>1 DEF Knows, Unread, Deletes
    <3>3. Reports(q)' BY <1>2, <1>4, <2>1 DEF Reports
    <3>4. QED BY <3>2, <3>3
  <2>3. CASE ~Deletes(q)
    BY <1>2, <1>4, <2>1, <2>3, NoDeletion DEF Deletes
  <2>4. QED BY <2>2, <2>3
<1>5. Deletes(q) /\ (ps[q].call = "ApplyRetention" \/ ps[q].at # "row") =>
        \A id \in ps[q].ids : Old(id)
  BY <1>0 DEF Knows
<1>6. Deletes(q) /\ ~ps[q].blind =>
        \A id \in ps[q].ids \ Unread(ps[q]), h \in Hash :
          <<id, h>> \in db.chunks => h \in ps[q].hashes
  BY <1>0 DEF Knows
<1>7. CASE ReadRow(q)
  <2>1. PICK f \in db.files :
          /\ f.id \in ps[q].left
          /\ Becomes(q, [ps[q] EXCEPT !.at = "chunks", !.file = {f.id}, !.left = @ \ {f.id}])
    BY <1>7 DEF ReadRow
  <2> DEFINE l == [ps[q] EXCEPT !.at = "chunks", !.file = {f.id}, !.left = @ \ {f.id}]
  <2>2. /\ l.at = "chunks" /\ l.call = ps[q].call /\ l.out = ps[q].out /\ l.ids = ps[q].ids
        /\ l.file = {f.id} /\ l.left = ps[q].left \ {f.id} /\ l.hashes = ps[q].hashes
        /\ l.blind = ps[q].blind
    BY <1>0 DEF Local
  <2>3. Becomes(q, l) BY <2>1
  <2> HIDE DEF l
  <2>4. ps[q].at = "row" BY <1>7 DEF ReadRow
  <2>5. Unread(l) = Unread(ps[q]) BY <2>1, <2>2, <2>4 DEF Unread
  <2>6. Old(f.id) BY DEF Linked, Fresh, Old
  <2>7. Deletes(q) => \A id \in l.ids : Old(id)
    <3>1. CASE ps[q].call = "ApplyRetention" BY <1>5, <2>2, <3>1
    <3>2. CASE ps[q].call = "DeleteFile"
      <4>1. ps[q].ids = {f.id} BY <1>0, <2>1, <2>4, <3>2 DEF Narrow
      <4>2. QED BY <2>2, <2>6, <4>1
    <3>3. QED BY <3>1, <3>2 DEF Deletes
  <2>8. QED BY <1>4, <1>6, <2>2, <2>3, <2>5, <2>7
<1>8. CASE RowMissing(q) /\ ~Return(q)
  <2>0. ps[q].call = "ApplyRetention" /\ ps[q].at = "row" BY <1>8 DEF RowMissing
  <2>1. PICK id \in ps[q].left :
          Becomes(q, [ps[q] EXCEPT
                        !.left = @ \ {id},
                        !.blind = IF \E f \in db.files : f.id = id
                                  THEN TRUE ELSE @,
                        !.at = AfterFile(q, ps[q].left \ {id})])
    BY <1>8 DEF RowMissing
  <2> DEFINE b == IF \E f \in db.files : f.id = id THEN TRUE ELSE ps[q].blind
             to == AfterFile(q, ps[q].left \ {id})
             l == [ps[q] EXCEPT !.left = @ \ {id}, !.blind = b, !.at = to]
  <2>2. Becomes(q, l) BY <2>1
  <2>3. to = IF ps[q].left \ {id} # {} THEN "row" ELSE "begin" BY <2>0 DEF AfterFile
  <2>4. (\E f \in db.files : f.id = id) => b = TRUE OBVIOUS
  <2>5. (~\E f \in db.files : f.id = id) => b = ps[q].blind OBVIOUS
  <2> HIDE DEF b, to
  <2>6. /\ l.at = to /\ l.call = ps[q].call /\ l.out = ps[q].out /\ l.ids = ps[q].ids
        /\ l.left = ps[q].left \ {id} /\ l.hashes = ps[q].hashes /\ l.blind = b
    BY <1>0 DEF Local
  <2> HIDE DEF l
  <2>7. Unread(l) = ps[q].left \ {id} BY <2>3, <2>6 DEF Unread
  <2>8. ASSUME Deletes(q), ~l.blind, NEW d \in l.ids \ Unread(l), NEW h \in Hash,
               <<d, h>> \in db.chunks
        PROVE  h \in l.hashes
    <3>1. ~(\E f \in db.files : f.id = id) /\ ~ps[q].blind BY <2>4, <2>5, <2>6, <2>8
    <3>2. d # id BY <2>8, <3>1 DEF Linked, Keys
    <3>3. d \in ps[q].ids \ Unread(ps[q]) BY <2>0, <2>6, <2>7, <2>8, <3>2 DEF Unread
    <3>4. QED BY <1>6, <2>6, <2>8, <3>1, <3>3
  <2>9. QED BY <1>4, <1>5, <2>0, <2>2, <2>3, <2>6, <2>8
<1>9. CASE QueryChunks(q)
  <2> DEFINE found == {h \in Hash : \E id \in ps[q].file : <<id, h>> \in db.chunks}
             l == [ps[q] EXCEPT !.at = "rows", !.hashes = @ \cup found]
  <2>1. Becomes(q, l) /\ ps[q].at = "chunks" BY <1>9 DEF QueryChunks
  <2>2. \A id \in ps[q].file, h \in Hash : <<id, h>> \in db.chunks => h \in found
    OBVIOUS
  <2> HIDE DEF found
  <2>3. /\ l.at = "rows" /\ l.call = ps[q].call /\ l.out = ps[q].out /\ l.ids = ps[q].ids
        /\ l.left = ps[q].left /\ l.hashes = ps[q].hashes \cup found /\ l.blind = ps[q].blind
    BY <1>0 DEF Local
  <2> HIDE DEF l
  <2>4. Unread(ps[q]) = Unread(l) \cup ps[q].file BY <2>1, <2>3 DEF Unread
  <2>5. ASSUME Deletes(q), ~l.blind, NEW d \in l.ids \ Unread(l), NEW h \in Hash,
               <<d, h>> \in db.chunks
        PROVE  h \in l.hashes
    <3>1. CASE d \in ps[q].file BY <2>2, <2>3, <2>5, <3>1
    <3>2. CASE d \notin ps[q].file
      <4>1. d \in ps[q].ids \ Unread(ps[q]) BY <2>3, <2>4, <2>5, <3>2
      <4>2. QED BY <1>6, <2>3, <2>5, <4>1
    <3>3. QED BY <3>1, <3>2
  <2>6. Deletes(q) => \A id \in l.ids : Old(id) BY <1>5, <2>1, <2>3
  <2>7. QED BY <1>4, <2>1, <2>3, <2>5, <2>6
<1>10. CASE (QueryChunksFails(q) \/ CloseChunks(q)) /\ ~Return(q)
  <2> DEFINE to == AfterFile(q, ps[q].left)
             l == [ps[q] EXCEPT !.at = to, !.file = {}, !.blind = TRUE]
             m == [ps[q] EXCEPT !.at = to, !.file = {}]
  <2>1. (QueryChunksFails(q) /\ Becomes(q, l)) \/ (CloseChunks(q) /\ Becomes(q, m))
    BY <1>10 DEF QueryChunksFails, CloseChunks, FileRead
  <2>2. ps[q].at \in {"chunks", "rows"} /\ to # "idle"
    BY <1>10 DEF QueryChunksFails, CloseChunks, FileRead
  <2>3. to \in {"row", "begin"} /\ (to = "begin" => ps[q].left = {})
    BY <2>2 DEF AfterFile
  <2> HIDE DEF to
  <2>4. /\ l.at = to /\ l.call = ps[q].call /\ l.out = ps[q].out /\ l.ids = ps[q].ids
        /\ l.blind = TRUE
    BY <1>0 DEF Local
  <2>5. /\ m.at = to /\ m.call = ps[q].call /\ m.out = ps[q].out /\ m.ids = ps[q].ids
        /\ m.left = ps[q].left /\ m.hashes = ps[q].hashes /\ m.blind = ps[q].blind
    BY <1>0 DEF Local
  <2> HIDE DEF l, m
  <2>6. Deletes(q) => \A id \in ps[q].ids : Old(id) BY <1>5, <2>2
  <2>7. CASE Becomes(q, l) BY <1>4, <2>3, <2>4, <2>6, <2>7
  <2>8. CASE CloseChunks(q) /\ Becomes(q, m)
    <3>1. Unread(m) = Unread(ps[q]) BY <2>3, <2>5, <2>8 DEF Unread, CloseChunks
    <3>2. QED BY <1>4, <1>6, <2>3, <2>5, <2>6, <2>8, <3>1
  <2>9. QED BY <2>1, <2>7, <2>8
<1>11. CASE Return(q) BY <1>11, ReturnAccounted
<1>12. QED BY <1>7, <1>8, <1>9, <1>10, <1>11 DEF Reading

LEMMA DeletingAccounted ==
  ASSUME Linked, Tidy, Accounted, NEW q \in Goroutine, Deleting(q)
  PROVE  Knows(q)' /\ Reports(q)'
<1> USE DEF At, GoTo
<1>0. /\ ps[q] \in Local /\ ps \in [Goroutine -> Local] /\ FlowOK(ps[q])
      /\ Knows(q) /\ Reports(q)
      /\ ps[q].call \in {"File", "DeleteFile", "ApplyRetention"}
  BY ReaderStays DEF Linked, TransactionsTypeOK, Accounted, Flow
<1>1. /\ db' = db
      /\ ps[q].at \in {"select", "id rows", "begin", "delete", "count"} /\ Deletes(q)
  BY <1>0 DEF Deleting, SelectExpired, CloseIds, BeginDelete, DeleteRow, CountUses, UsesCounted,
     Reads, Changes, FlowOK, Deletes
<1>2. Call(q) \/ Continue(q) BY DEF Continue
<1>3. ASSUME NEW l, Becomes(q, l), l.call = ps[q].call,
             l.at \in {"row", "id rows", "delete", "count", "commit"},
             \A id \in l.ids : Old(id),
             ~l.blind => \A id \in l.ids \ Unread(l), h \in Hash :
                           <<id, h>> \in db.chunks => h \in l.hashes
      PROVE  ps'[q] = l /\ Knows(q)'
  <2>1. ps'[q] = l BY <1>0, <1>3 DEF Becomes
  <2>2. \A id \in l.ids : Old(id)' BY <1>2, <1>3, OldStays
  <2>3. Knows(q)' BY <1>1, <1>3, <2>1, <2>2 DEF Knows, Unread, Deletes
  <2>4. QED BY <2>1, <2>3
<1>4. /\ \A id \in ps[q].ids : Old(id)
      /\ ~ps[q].blind => \A id \in ps[q].ids \ Unread(ps[q]), h \in Hash :
                           <<id, h>> \in db.chunks => h \in ps[q].hashes
  BY <1>0, <1>1 DEF Knows
<1>5. CASE SelectExpired(q)
  <2>1. PICK nm \in Name, keep \in Keeps :
          Becomes(q, [ps[q] EXCEPT !.at = "id rows", !.ids = Expired(db, nm, keep),
                                   !.left = Expired(db, nm, keep)])
    BY <1>5 DEF SelectExpired
  <2> DEFINE ids == Expired(db, nm, keep)
             l == [ps[q] EXCEPT !.at = "id rows", !.ids = ids, !.left = ids]
  <2>2. Becomes(q, l) BY <2>1
  <2>3. \A id \in ids : Old(id)
    <3>1. \A id \in ids : \E f \in db.files : f.id = id BY DEF Expired
    <3>2. QED BY <3>1 DEF Linked, Fresh, Old
  <2> HIDE DEF ids
  <2>4. l.at = "id rows" /\ l.call = ps[q].call /\ l.ids = ids /\ l.left = ids
        /\ l.out = ps[q].out
    BY <1>0 DEF Local
  <2> HIDE DEF l
  <2>5. ps'[q] = l /\ Knows(q)' BY <1>3, <2>2, <2>3, <2>4 DEF Unread
  <2>6. ps[q].out = {} BY <1>0, <1>5 DEF Reports, SelectExpired
  <2>7. QED BY <2>4, <2>5, <2>6 DEF Reports
<1>6. CASE CloseIds(q) /\ ~Return(q)
  <2> DEFINE l == [ps[q] EXCEPT !.at = "row"]
  <2>1. Becomes(q, l) /\ ps[q].at = "id rows" BY <1>6 DEF CloseIds
  <2>2. /\ l.at = "row" /\ l.call = ps[q].call /\ l.ids = ps[q].ids /\ l.left = ps[q].left
        /\ l.out = ps[q].out /\ l.hashes = ps[q].hashes /\ l.blind = ps[q].blind
    BY <1>0 DEF Local
  <2> HIDE DEF l
  <2>3. Unread(l) = Unread(ps[q]) BY <2>1, <2>2 DEF Unread
  <2>4. ps'[q] = l /\ Knows(q)' BY <1>3, <1>4, <2>1, <2>2, <2>3
  <2>5. ps[q].out = {} BY <1>0, <2>1 DEF Reports
  <2>6. QED BY <2>2, <2>4, <2>5 DEF Reports
<1>7. CASE BeginDelete(q)
  <2> DEFINE l == [ps[q] EXCEPT !.at = "delete", !.left = ps[q].ids, !.todo = ps[q].hashes]
  <2>1. Becomes(q, l) /\ ps[q].at = "begin" BY <1>7 DEF BeginDelete
  <2>2. /\ l.at = "delete" /\ l.call = ps[q].call /\ l.ids = ps[q].ids
        /\ l.todo = ps[q].hashes /\ l.hashes = ps[q].hashes
        /\ l.out = ps[q].out /\ l.blind = ps[q].blind
    BY <1>0 DEF Local
  <2> HIDE DEF l
  <2>3. Unread(l) = Unread(ps[q]) BY <2>1, <2>2 DEF Unread
  <2>4. ps'[q] = l /\ Knows(q)' BY <1>3, <1>4, <2>1, <2>2, <2>3
  <2>5. ps[q].out = {} BY <1>0, <2>1 DEF Reports
  <2>6. QED BY <2>2, <2>4, <2>5 DEF Reports
<1>8. CASE DeleteRow(q)
  <2>1. PICK id \in ps[q].left :
          Becomes(q, [ps[q] EXCEPT !.left = @ \ {id},
                        !.at = IF ps[q].left = {id} THEN "count" ELSE @])
    BY <1>8 DEF DeleteRow
  <2> DEFINE to == IF ps[q].left = {id} THEN "count" ELSE ps[q].at
             l == [ps[q] EXCEPT !.left = @ \ {id}, !.at = to]
  <2>2. Becomes(q, l) /\ ps[q].at = "delete" BY <1>8, <2>1 DEF DeleteRow
  <2>3. to \in {"delete", "count"} BY <2>2
  <2> HIDE DEF to
  <2>4. /\ l.at = to /\ l.call = ps[q].call /\ l.ids = ps[q].ids
        /\ l.todo = ps[q].todo /\ l.hashes = ps[q].hashes
        /\ l.out = ps[q].out /\ l.blind = ps[q].blind
    BY <1>0 DEF Local
  <2> HIDE DEF l
  <2>5. Unread(l) = Unread(ps[q]) BY <2>2, <2>3, <2>4 DEF Unread
  <2>6. ps'[q] = l /\ Knows(q)' BY <1>3, <1>4, <2>2, <2>3, <2>4, <2>5
  <2>7. ps[q].out = {} /\ ps[q].todo = ps[q].hashes BY <1>0, <1>1, <2>2 DEF Reports
  <2>8. QED BY <2>3, <2>4, <2>6, <2>7 DEF Reports
<1>9. CASE CountUses(q)
  <2>1. PICK h \in ps[q].todo :
          Becomes(q, [ps[q] EXCEPT !.todo = @ \ {h},
                                   !.out = IF Used(work, h) THEN @ ELSE @ \cup {h}])
    BY <1>9 DEF CountUses
  <2> DEFINE o == IF Used(work, h) THEN ps[q].out ELSE ps[q].out \cup {h}
             l == [ps[q] EXCEPT !.todo = @ \ {h}, !.out = o]
  <2>2. Becomes(q, l) /\ ps[q].at = "count" /\ work' = work
    BY <1>9, <2>1 DEF CountUses, Reads
  <2>3. /\ \A g \in o : ~Used(work, g)
        /\ \A g \in ps[q].hashes \ (ps[q].todo \ {h}) : Used(work, g) \/ g \in o
    BY <1>0, <1>1, <2>2 DEF Reports
  <2> HIDE DEF o
  <2>4. /\ l.at = "count" /\ l.call = ps[q].call /\ l.ids = ps[q].ids
        /\ l.todo = ps[q].todo \ {h} /\ l.hashes = ps[q].hashes
        /\ l.out = o /\ l.blind = ps[q].blind
    BY <1>0, <2>2 DEF Local
  <2> HIDE DEF l
  <2>5. Unread(l) = Unread(ps[q]) BY <2>2, <2>4 DEF Unread
  <2>6. ps'[q] = l /\ Knows(q)' BY <1>3, <1>4, <2>2, <2>4, <2>5
  <2>7. Deletes(q)' BY <1>1, <2>4, <2>6 DEF Deletes
  <2>8. QED BY <2>2, <2>3, <2>4, <2>6, <2>7 DEF Reports
<1>10. CASE UsesCounted(q)
  <2> DEFINE l == [ps[q] EXCEPT !.at = "commit"]
  <2>1. /\ Becomes(q, l) /\ ps[q].at = "count" /\ ps[q].todo = {} /\ work' = work
    BY <1>10 DEF UsesCounted, Reads
  <2>2. /\ l.at = "commit" /\ l.call = ps[q].call /\ l.ids = ps[q].ids
        /\ l.todo = ps[q].todo /\ l.hashes = ps[q].hashes
        /\ l.out = ps[q].out /\ l.blind = ps[q].blind
    BY <1>0 DEF Local
  <2> HIDE DEF l
  <2>3. Unread(l) = Unread(ps[q]) BY <2>1, <2>2 DEF Unread
  <2>4. ps'[q] = l /\ Knows(q)' BY <1>3, <1>4, <2>1, <2>2, <2>3
  <2>5. Deletes(q)' BY <1>1, <2>2, <2>4 DEF Deletes
  <2>6. QED BY <1>0, <1>1, <2>1, <2>2, <2>4, <2>5 DEF Reports
<1>11. CASE Return(q) BY <1>11, ReturnAccounted
<1>12. QED BY <1>5, <1>6, <1>7, <1>8, <1>9, <1>10, <1>11 DEF Deleting

LEMMA AccountedStep == Linked /\ Tidy /\ Accounted /\ [Next]_vars => Accounted'
<1> SUFFICES ASSUME Linked, Tidy, Accounted, [Next]_vars PROVE Accounted'
  OBVIOUS
<1>1. ASSUME NEW q \in Goroutine, Call(q) \/ Continue(q) PROVE Accounted'
  <2>1. ASSUME Commit(q) \/ TransactionFails(q) \/ FirstFails(q) PROVE Return(q)
    BY <2>1 DEF Commit, TransactionFails, FirstFails
  <2>2. Knows(q)' /\ Reports(q)'
    BY <1>1, <2>1, ReturnAccounted, CallAccounted, PlainAccounted, ReadingAccounted,
       DeletingAccounted DEF Continue
  <2>3. ASSUME NEW p \in Goroutine PROVE Knows(p)' /\ Reports(p)'
    BY <1>1, <2>2, AccountedOthers
  <2>4. QED BY <2>3 DEF Accounted
<1>2. CASE (\E n \in Node : Elapse(n)) \/ UNCHANGED vars
  <2>1. UNCHANGED <<db, work, issued, ps>> BY <1>2 DEF Elapse, vars
  <2>2. \A id : Old(id) => Old(id)' BY <2>1 DEF Old, Creates
  <2>3. ASSUME NEW p \in Goroutine PROVE Knows(p)' /\ Reports(p)'
    <3>1. Knows(p) /\ Reports(p) BY DEF Accounted
    <3>2. Knows(p)' BY <2>1, <2>2, <3>1 DEF Knows, Deletes, At, Unread
    <3>3. Reports(p)' BY <2>1, <3>1 DEF Reports, Deletes, At, Used
    <3>4. QED BY <3>2, <3>3
  <2>4. QED BY <2>3 DEF Accounted
<1>3. CASE Crash
  <2>1. \A q \in Goroutine : ps'[q].call = "none" /\ ps'[q].out = {}
    BY <1>3 DEF Crash, Idle
  <2>2. QED BY <2>1, NoDeletion DEF Accounted
<1>4. QED BY <1>1, <1>2, <1>3 DEF Next

LEMMA AccountedCorrect == Spec => [](Linked /\ Tidy /\ Accounted)
  BY TidyInit, TidyNext, AccountedInit, AccountedStep, LinkedCorrect, PTL DEF Spec

(* A hash that no backup has after the step of q, and one had before it. *)
LEMMA LossReported ==
  ASSUME Linked, Tidy, Accounted, NEW q \in Goroutine, Call(q) \/ Continue(q),
         NEW h \in Hash, Owned(db, h), ~Owned(db', h)
  PROVE  At(q, "commit") /\ (h \in ps[q].out \/ ps[q].blind)
<1>0. /\ ps[q] \in Local /\ FlowOK(ps[q]) /\ Progress(q) /\ Knows(q) /\ Reports(q)
      /\ db \in Tables
  BY DEF Linked, TransactionsTypeOK, Flow, Progresses, Accounted
<1>1. PICK f \in db.files : <<f.id, h>> \in db.chunks BY DEF Owned
<1>2. CASE db'.chunks = db.chunks /\ \A g \in db.files : \E k \in db'.files : k.id = g.id
  BY <1>1, <1>2 DEF Owned
<1>3. CASE Commit(q)
  <2>1. At(q, "commit") /\ db' = work BY <1>3 DEF Commit
  <2>2. CASE Creates(q)
    <3>1. db.files \subseteq work.files /\ db.chunks \subseteq work.chunks
      BY <1>0, <2>1, <2>2 DEF Progress, CreateProgress
    <3>2. QED BY <1>1, <2>1, <3>1 DEF Owned
  <2>3. CASE ps[q].call = "DeleteNode"
    BY <1>0, <1>2, <2>1, <2>3 DEF Progress, RemoveProgress
  <2>4. CASE Deletes(q)
    <3>1. DeleteProgress(ps[q].ids) BY <1>0, <2>1, <2>4 DEF Progress, Deletes
    <3>2. f.id \in ps[q].ids
      <4>1. SUFFICES ASSUME f.id \notin ps[q].ids PROVE FALSE
        OBVIOUS
      <4>2. f \in work.files BY <3>1, <4>1 DEF DeleteProgress
      <4>3. <<f.id, h>> \in work.chunks
        <5> DEFINE c == <<f.id, h>>
        <5>1. c \in db.chunks /\ c[1] = f.id BY <1>1
        <5> HIDE DEF c
        <5>2. c \in work.chunks BY <3>1, <4>1, <5>1 DEF DeleteProgress
        <5>3. QED BY <5>2 DEF c
      <4>4. QED BY <2>1, <4>2, <4>3 DEF Owned
    <3>3. ~Used(work, h)
      <4>1. SUFFICES ASSUME NEW c \in work.chunks, c[2] = h PROVE FALSE
        BY DEF Used
      <4>2. c \in db.chunks /\ c[1] \notin ps[q].ids BY <3>1 DEF DeleteProgress
      <4>3. PICK g \in db.files : g.id = c[1] BY <4>2 DEF Linked, Keys
      <4>4. g \in work.files BY <3>1, <4>2, <4>3 DEF DeleteProgress
      <4>5. c = <<g.id, h>> BY <1>0, <4>1, <4>2, <4>3 DEF Tables
      <4>6. QED BY <2>1, <4>4, <4>5 DEF Owned
    <3>4. ~ps[q].blind => h \in ps[q].hashes
      BY <1>0, <1>1, <2>1, <2>4, <3>2 DEF Knows, Unread, At
    <3>5. QED BY <1>0, <2>1, <2>4, <3>3, <3>4 DEF Reports, At
  <2>5. QED BY <1>0, <2>1, <2>2, <2>3, <2>4 DEF FlowOK, At, Creates, Deletes
<1>4. CASE db' = db BY <1>2, <1>4
<1>5. CASE Single(q)
  <2>1. CASE UpdateFileReplication(q)
    <3>1. CASE db' # db
      <4>1. PICK r \in Replicas :
              db' = [db EXCEPT !.files =
                  {IF g.id \in ps[q].ids THEN [g EXCEPT !.repl = Normalized(r)] ELSE g : g \in @}]
        BY <2>1, <3>1 DEF UpdateFileReplication, Autocommit, Reads
      <4> DEFINE Patched(g) == IF g.id \in ps[q].ids THEN [g EXCEPT !.repl = Normalized(r)] ELSE g
                 fs == {Patched(g) : g \in db.files}
      <4>2. db' = [db EXCEPT !.files = fs] BY <4>1
      <4>3. \A g \in db.files : Patched(g) \in fs /\ Patched(g).id = g.id
        BY <1>0 DEF Tables, FileRow
      <4> HIDE DEF Patched, fs
      <4>4. db'.files = fs /\ db'.chunks = db.chunks BY <1>0, <4>2 DEF Tables
      <4>5. QED BY <1>2, <4>3, <4>4
    <3>2. QED BY <1>4, <3>1
  <2>2. CASE \E x : db' = [db EXCEPT !.nodes = x] \/ db' = [db EXCEPT !.locs = x]
    <3>1. db'.files = db.files /\ db'.chunks = db.chunks BY <1>0, <2>2 DEF Tables
    <3>2. QED BY <1>2, <3>1
  <2>3. QED
    BY <1>4, <1>5, <2>1, <2>2 DEF Single, RegisterNode, LookUpNode, RecordLocation, TouchNode,
       ReadSize, EraseLocation, CreditNode, Query, CloseRows, Autocommit, Reads
<1>6. CASE Call(q)
  BY <1>4, <1>6 DEF Call, StartCreate, StartFile, StartRetention, StartDeleteNode, StartRegister,
     StartUpdate, StartPair, StartTasks
<1>7. CASE Creating(q) \/ Reading(q)
  BY <1>4, <1>7 DEF Creating, BeginCreate, AssignVersion, InsertFile, InsertChunk,
     ChunksInserted, Changes, Reads, Reading, ReadRow, RowMissing, QueryChunks, QueryChunksFails,
     CloseChunks
<1>8. CASE Deleting(q) \/ Removing(q)
  BY <1>4, <1>8 DEF Deleting, SelectExpired, CloseIds, BeginDelete, DeleteRow, CountUses,
     UsesCounted, Changes, Reads, Removing, ReadNode, BeginDeleteNode, DeleteLocations,
     DeleteNodeRow
<1>9. CASE TransactionFails(q) \/ FirstFails(q)
  BY <1>4, <1>9 DEF TransactionFails, FirstFails, Reads
<1>10. QED BY <1>3, <1>5, <1>6, <1>7, <1>8, <1>9 DEF Continue

(* A deletion or a retention run returns exactly the hashes that lost their last
   backup, although it reads the manifests outside its transaction; it misses
   only those of a manifest that could not be read (state.go:513-621). *)
THEOREM TransactionsGarbageExact == Spec => GarbageExact
<1> DEFINE Missing == \A h \in Hash : Owned(db, h) /\ ~Owned(db', h) =>
             \E p \in Goroutine : At(p, "commit") /\ (h \in ps[p].out \/ ps[p].blind)
           Kept == \A p \in Goroutine : At(p, "commit") /\ conn' # conn /\ db' = work =>
             \A h \in ps[p].out : ~Owned(db', h)
<1>1. ASSUME Linked, Tidy, Accounted, [Next]_vars PROVE Missing
  <2>1. SUFFICES ASSUME NEW h \in Hash, Owned(db, h), ~Owned(db', h)
                 PROVE  \E p \in Goroutine : At(p, "commit") /\ (h \in ps[p].out \/ ps[p].blind)
    OBVIOUS
  <2>2. db' # db BY <2>1
  <2>3. PICK q \in Goroutine : Call(q) \/ Continue(q)
    BY <1>1, <2>2 DEF Next, Elapse, Crash, vars
  <2>4. QED BY <1>1, <2>1, <2>3, LossReported
<1>2. ASSUME Accounted PROVE Kept
  <2>1. \A h : Owned(work, h) => Used(work, h)
    <3>1. ASSUME NEW h, NEW f \in work.files, <<f.id, h>> \in work.chunks PROVE Used(work, h)
      <4> DEFINE c == <<f.id, h>>
      <4>1. c \in work.chunks /\ c[2] = h BY <3>1
      <4> HIDE DEF c
      <4>2. QED BY <4>1 DEF Used
    <3>2. QED BY <3>1 DEF Owned
  <2>2. QED BY <1>2, <2>1 DEF Accounted, Reports
<1>3. Linked /\ Tidy /\ Accounted /\ [Next]_vars => [Missing /\ Kept]_vars
  BY <1>1, <1>2
<1>4. QED BY <1>3, AccountedCorrect, PTL DEF Spec, GarbageExact
=============================================================================
