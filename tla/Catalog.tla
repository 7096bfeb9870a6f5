------------------------------- MODULE Catalog -------------------------------
(***************************************************************************)
(* The server's metadata: the SQLite tables of internal/server/state.go,   *)
(* at the grain of the statements and transactions that change them.       *)
(*                                                                         *)
(* The pool holds one connection (state.go:58), so a statement or a        *)
(* transaction is atomic and two of them never overlap; everything between *)
(* two of them interleaves.  A State method that issues several statements *)
(* is therefore several steps, and the module Cluster composes them.       *)
(*                                                                         *)
(* What is abstracted: a chunk is its hash; a node row keeps the age of    *)
(* last_seen only (capacity and free decide which nodes a plan prefers and *)
(* the plan is left open here); a file row keeps the columns that decide   *)
(* sharing, versions and replication.                                      *)
(***************************************************************************)
EXTENDS Integers, FiniteSetsExt

CONSTANTS
  Node,        \* storage nodes
  Hash,        \* chunk hashes
  Name,        \* logical backup names
  FileId,      \* ids a CreateFile may use (a uuid each)
  Replicas,    \* replication factors a request carries; 0 stands for <= 0
  DefaultReplicas,  \* what normalizedReplication makes of it (3 in the code)
  MaxVersion   \* bound: no CreateFile once a name would need a higher version

ASSUME CatalogAssumption ==
  /\ Replicas \subseteq Nat
  /\ DefaultReplicas \in Nat \ {0}
  /\ MaxVersion \in Nat
  /\ IsFiniteSet(Node)

VARIABLES
  registered,  \* ids of the rows of nodes
  age,         \* age of last_seen, as the two liveness tests tell it apart
  files,       \* rows of files joined with their file_chunks
  locs         \* rows of chunk_locations, as <<hash, node>>

catVars == <<registered, age, files, locs>>

(* last_seen and the cutoff are cut to whole seconds, withDerivedStatus
   compares with the exact clock.  So a row last seen d seconds ago is
     "fresh"   d <= 45        recent for the SQL test and online in Go
     "edge"    45 < d < 46    recent for the SQL test, offline in Go
     "stale"   46 <= d        neither                                      *)
Age == {"fresh", "edge", "stale"}

FileRow == [id: FileId, name: Name, version: Nat \ {0},
            repl: Nat \ {0}, chunks: SUBSET Hash]

TypeOK ==
  /\ registered \subseteq Node
  /\ age \in [Node -> Age]
  /\ files \subseteq FileRow
  /\ locs \subseteq Hash \X Node

-----------------------------------------------------------------------------
(* Queries *)

(* n.last_seen >= cutoff, as every SQL statement tests it. *)
Recent(n) == n \in registered /\ age[n] # "stale"

(* node.Status = "online" after withDerivedStatus. *)
Online(n) == n \in registered /\ age[n] = "fresh"

(* chunk_locations JOIN nodes for one hash. *)
ChunkLocations(h) == {n \in registered : <<h, n>> \in locs}

OnlineLocations(h) == {n \in ChunkLocations(h) : Online(n)}

(* COUNT(DISTINCT CASE WHEN n.last_seen >= cutoff THEN cl.node_id END). *)
Active(h) == {n \in ChunkLocations(h) : Recent(n)}

Owners(h) == {f \in files : h \in f.chunks}

ChunkInUse(h) == Owners(h) # {}

(* The nodes PlanChunkSpread may offer for a chunk.  Its order and its test
   of free space only choose among them. *)
Plannable(h) == {n \in registered : Recent(n) /\ <<h, n>> \notin locs}

(* Rows OrphanChunkTasks returns: a location whose hash no file has. *)
OrphanChunks == {l \in locs : ~ChunkInUse(l[1]) /\ Recent(l[2])}

(* MAX(f.replication) over the files that own h. *)
Desired(h) == IF ChunkInUse(h) THEN Max({f.repl : f \in Owners(h)}) ELSE 0

Newer(f) == {g \in files : g.name = f.name /\ g.version > f.version}

(* ORDER BY version DESC ... LIMIT -1 OFFSET keep: every version that has at
   least keep newer ones.  keep <= 0 disables retention. *)
ExpiredExtra(nm, keep) ==
  {f \in files : f.name = nm /\ keep > 0 /\ Cardinality(Newer(f)) >= keep - 1}
Expired(nm, keep) ==
  {f \in files : f.name = nm /\ keep > 0 /\ Cardinality(Newer(f)) >= keep}

(* COALESCE(MAX(version), 0) + 1 over the rows of one name. *)
NextVersionCount(nm, v) == v = Cardinality({f \in files : f.name = nm}) + 1
NextVersion(nm, v) ==
  /\ \A f \in files : f.name = nm => f.version < v
  /\ v = 1 \/ \E f \in files : f.name = nm /\ f.version = v - 1

NormalizedReplicationRaw(r) == r
NormalizedReplication(r) == IF r <= 0 THEN DefaultReplicas ELSE r

-----------------------------------------------------------------------------
(* Statements and transactions *)

CatInit ==
  /\ registered = {}
  /\ age = [n \in Node |-> "stale"]
  /\ files = {}
  /\ locs = {}

(* INSERT INTO nodes ... ON CONFLICT(id) DO UPDATE: register and heartbeat. *)
RegisterNode(n) ==
  /\ registered' = registered \cup {n}
  /\ age' = [age EXCEPT ![n] = "fresh"]
  /\ UNCHANGED <<files, locs>>

(* The clock runs and no heartbeat of n arrives. *)
Elapse(n) ==
  /\ n \in registered
  /\ \/ age[n] = "fresh" /\ age' = [age EXCEPT ![n] = "edge"]
     \/ age[n] # "stale" /\ age' = [age EXCEPT ![n] = "stale"]
  /\ UNCHANGED <<registered, files, locs>>

(* The transaction of DeleteNode. *)
DeleteNode(n) ==
  /\ n \in registered
  /\ registered' = registered \ {n}
  /\ age' = [age EXCEPT ![n] = "stale"]
  /\ locs' = {l \in locs : l[2] # n}
  /\ UNCHANGED files

(* The foreign key of chunk_locations refuses a row for a node that was
   deleted after the COUNT of ConfirmChunk, so COUNT and INSERT OR IGNORE
   succeed together or not at all.  A row that was inserted also refreshes
   last_seen, in a statement of its own that may fail or come later; then it
   is a RegisterNode. *)
ConfirmChunkUnchecked(h, n) ==
  /\ locs' = locs \cup {<<h, n>>}
  /\ age' \in {age, [age EXCEPT ![n] = IF <<h, n>> \in locs THEN @ ELSE "fresh"]}
  /\ UNCHANGED <<registered, files>>
ConfirmChunk(h, n) ==
  /\ n \in registered
  /\ locs' = locs \cup {<<h, n>>}
  /\ age' \in {age, [age EXCEPT ![n] = IF <<h, n>> \in locs THEN @ ELSE "fresh"]}
  /\ UNCHANGED <<registered, files>>

(* The transaction of CreateFile. *)
CreateFile(id, nm, cs, r) ==
  /\ \A f \in files : f.id # id
  /\ \E v \in 1 .. MaxVersion :
       /\ NextVersion(nm, v)
       /\ files' = files \cup {[id |-> id, name |-> nm, version |-> v,
                                repl |-> NormalizedReplication(r),
                                chunks |-> cs]}
  /\ UNCHANGED <<registered, age, locs>>

(* DELETE FROM files WHERE id = ?, for each id; file_chunks cascades. *)
DeleteFiles(ids) ==
  /\ files' = {f \in files : f.id \notin ids}
  /\ UNCHANGED <<registered, age, locs>>

UpdateFileReplication(id, r) ==
  /\ files' = {IF f.id = id THEN [f EXCEPT !.repl = NormalizedReplication(r)]
                            ELSE f : f \in files}
  /\ UNCHANGED <<registered, age, locs>>

RemoveChunkLocation(h, n) ==
  /\ locs' = locs \ {<<h, n>>}
  /\ UNCHANGED <<registered, age, files>>

CatNext ==
  \/ \E n \in Node : RegisterNode(n) \/ Elapse(n) \/ DeleteNode(n)
  \/ \E h \in Hash, n \in Node : ConfirmChunk(h, n) \/ RemoveChunkLocation(h, n)
  \/ \E id \in FileId, nm \in Name, cs \in SUBSET Hash, r \in Replicas :
       CreateFile(id, nm, cs, r)
  \/ \E ids \in SUBSET FileId : DeleteFiles(ids)
  \/ \E id \in FileId, r \in Replicas : UpdateFileReplication(id, r)

CatSpec == CatInit /\ [][CatNext]_catVars

-----------------------------------------------------------------------------
(* Properties *)

(* A location always names a node that still has a row: the foreign key and
   DeleteNode's transaction keep it so although ConfirmChunk tests the node
   in one statement and inserts in another (state.go:276-292, 202-219). *)
LocationsRegistered == \A l \in locs : l[2] \in registered

(* Two live backups of one name never share a version, and no two rows share
   an id (state.go:375, the primary key of files). *)
VersionsDistinct ==
  \A f, g \in files : (f.name = g.name /\ f.version = g.version) \/ f.id = g.id
                        => f = g

(* A row that appears is newer than every live version of its name, and a row
   that stays keeps its name, version and chunks: a committed manifest is
   never rewritten (state.go:373-391, 409). *)
ManifestsImmutable ==
  [][\A f \in files' :
       \/ /\ \A g \in files : g.id # f.id
          /\ \A g \in files : g.name = f.name => g.version < f.version
       \/ \E g \in files : /\ g.id = f.id /\ g.name = f.name
                           /\ g.version = f.version /\ g.chunks = f.chunks]_catVars
=============================================================================
