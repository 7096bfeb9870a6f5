---------------------------- MODULE ClusterProofs ----------------------------
(***************************************************************************)
(* The processes of Cluster change the tables by Catalog's statements only *)
(* and keep their types, for every number of nodes, hashes, uploads and    *)
(* deletions, with every fault.  On every hash that no fault and no        *)
(* overlap has touched, a recorded location has its file, a garbage        *)
(* collection deletes only what no backup owns, a saved manifest has the   *)
(* copies its request asked for, none of its chunks loses the last one,    *)
(* and pruning leaves as many as the most demanding backup wants.  Without *)
(* deletions by hand, retention runs that overlap keep the newest versions *)
(* of a name.  First come the tables by themselves (Catalog).              *)
(***************************************************************************)
EXTENDS Cluster, FiniteSetTheorems, TLAPS

-----------------------------------------------------------------------------
(* The tables, whatever the order of their statements: Catalog by itself *)

(* The factor that reaches the table is positive. *)
LEMMA NormalizedPositive ==
  ASSUME NEW r \in Replicas
  PROVE  NormalizedReplication(r) \in Nat \ {0}
  BY CatalogAssumption DEF NormalizedReplication

-----------------------------------------------------------------------------
(* No statement stores a replication factor, a version or a location outside
   its domain. *)
LEMMA TypeStep ==
  ASSUME TypeOK, [CatNext]_catVars
  PROVE  TypeOK'
<1> USE DEF TypeOK, Age
<1>1. ASSUME NEW n \in Node, RegisterNode(n)
      PROVE  TypeOK'
  BY <1>1 DEF RegisterNode
<1>2. ASSUME NEW n \in Node, Elapse(n)
      PROVE  TypeOK'
  BY <1>2 DEF Elapse
<1>3. ASSUME NEW n \in Node, DeleteNode(n)
      PROVE  TypeOK'
  BY <1>3 DEF DeleteNode
<1>4. ASSUME NEW h \in Hash, NEW n \in Node, ConfirmChunk(h, n)
      PROVE  TypeOK'
  BY <1>4 DEF ConfirmChunk
<1>5. ASSUME NEW h \in Hash, NEW n \in Node, RemoveChunkLocation(h, n)
      PROVE  TypeOK'
  BY <1>5 DEF RemoveChunkLocation
<1>6. ASSUME NEW id \in FileId, NEW nm \in Name, NEW cs \in SUBSET Hash,
             NEW r \in Replicas, CreateFile(id, nm, cs, r)
      PROVE  TypeOK'
  <2>1. PICK v \in 1 .. MaxVersion :
          files' = files \cup {[id |-> id, name |-> nm, version |-> v,
                                repl |-> NormalizedReplication(r),
                                chunks |-> cs]}
    BY <1>6 DEF CreateFile
  <2>2. v \in Nat \ {0}
    BY CatalogAssumption
  <2>3. files' \subseteq FileRow
    BY <2>1, <2>2, NormalizedPositive DEF FileRow
  <2> QED
    BY <1>6, <2>3 DEF CreateFile
<1>7. ASSUME NEW ids \in SUBSET FileId, DeleteFiles(ids)
      PROVE  TypeOK'
  BY <1>7 DEF DeleteFiles
<1>8. ASSUME NEW id \in FileId, NEW r \in Replicas,
             UpdateFileReplication(id, r)
      PROVE  TypeOK'
  <2>1. ASSUME NEW f \in files
        PROVE  /\ f \in FileRow
               /\ [f EXCEPT !.repl = NormalizedReplication(r)] \in FileRow
    BY NormalizedPositive DEF FileRow
  <2>2. files' \subseteq FileRow
    BY <1>8, <2>1 DEF UpdateFileReplication
  <2> QED
    BY <1>8, <2>2 DEF UpdateFileReplication
<1>9. CASE UNCHANGED catVars
  BY <1>9 DEF catVars
<1> QED
  BY <1>1, <1>2, <1>3, <1>4, <1>5, <1>6, <1>7, <1>8, <1>9 DEF CatNext

(* Every table keeps its type, whatever the order of the statements. *)
THEOREM CatTypeCorrect == CatSpec => []TypeOK
<1>1. CatInit => TypeOK
  BY DEF CatInit, TypeOK, Age
<1>2. TypeOK /\ [CatNext]_catVars => TypeOK'
  BY TypeStep
<1> QED
  BY <1>1, <1>2, PTL DEF CatSpec

-----------------------------------------------------------------------------
(* No location outlives its node, although ConfirmChunk tests the node in one
   statement and inserts the location in another. *)
THEOREM CatLocationsRegistered == CatSpec => []LocationsRegistered
<1>1. CatInit => LocationsRegistered
  BY DEF CatInit, LocationsRegistered
<1>2. LocationsRegistered /\ [CatNext]_catVars => LocationsRegistered'
  <2> SUFFICES ASSUME LocationsRegistered, [CatNext]_catVars
               PROVE  LocationsRegistered'
    OBVIOUS
  <2> USE DEF LocationsRegistered
  <2>1. CASE \E n \in Node : RegisterNode(n)
    BY <2>1 DEF RegisterNode
  <2>2. CASE \E n \in Node : DeleteNode(n)
    BY <2>2 DEF DeleteNode
  <2>3. CASE \E h \in Hash, n \in Node : ConfirmChunk(h, n)
    BY <2>3 DEF ConfirmChunk
  <2>4. CASE \E h \in Hash, n \in Node : RemoveChunkLocation(h, n)
    BY <2>4 DEF RemoveChunkLocation
  <2>5. CASE UNCHANGED <<registered, locs>>
    BY <2>5
  <2> QED
    BY <2>1, <2>2, <2>3, <2>4, <2>5
    DEF CatNext, catVars, Elapse, CreateFile, DeleteFiles, UpdateFileReplication
<1> QED
  BY <1>1, <1>2, PTL DEF CatSpec

-----------------------------------------------------------------------------
(* The three ways a statement changes the rows of files. *)
Appends(id, nm, cs, r, v) ==
  /\ \A f \in files : f.id # id
  /\ \A f \in files : f.name = nm => f.version < v
  /\ files' = files \cup {[id |-> id, name |-> nm, version |-> v,
                           repl |-> r, chunks |-> cs]}
Rewrites(id, r) ==
  files' = {IF f.id = id THEN [f EXCEPT !.repl = r] ELSE f : f \in files}

(* Every statement adds one row newer than every version of its name, removes
   rows, or changes a replication factor. *)
LEMMA FilesStep ==
  ASSUME TypeOK, [CatNext]_catVars
  PROVE  \/ \E id \in FileId, nm \in Name, cs \in SUBSET Hash, r \in Nat,
               v \in Nat \ {0} : Appends(id, nm, cs, r, v)
         \/ files' \subseteq files
         \/ \E id \in FileId, r \in Nat : Rewrites(id, r)
<1>1. CASE \E id \in FileId, nm \in Name, cs \in SUBSET Hash, r \in Replicas :
             CreateFile(id, nm, cs, r)
  <2>1. PICK id \in FileId, nm \in Name, cs \in SUBSET Hash, r \in Replicas :
          CreateFile(id, nm, cs, r)
    BY <1>1
  <2>2. PICK v \in 1 .. MaxVersion :
          /\ NextVersion(nm, v)
          /\ files' = files \cup {[id |-> id, name |-> nm, version |-> v,
                                   repl |-> NormalizedReplication(r),
                                   chunks |-> cs]}
    BY <2>1 DEF CreateFile
  <2>3. v \in Nat \ {0} /\ NormalizedReplication(r) \in Nat
    BY CatalogAssumption, NormalizedPositive
  <2>4. Appends(id, nm, cs, NormalizedReplication(r), v)
    BY <2>1, <2>2 DEF CreateFile, NextVersion, Appends
  <2> QED
    BY <2>3, <2>4
<1>2. CASE \E ids \in SUBSET FileId : DeleteFiles(ids)
  BY <1>2 DEF DeleteFiles
<1>3. CASE \E id \in FileId, r \in Replicas : UpdateFileReplication(id, r)
  BY <1>3, NormalizedPositive DEF UpdateFileReplication, Rewrites
<1>4. CASE UNCHANGED files
  BY <1>4
<1> QED
  BY <1>1, <1>2, <1>3, <1>4
  DEF CatNext, catVars, RegisterNode, Elapse, DeleteNode, ConfirmChunk,
      RemoveChunkLocation

(* A rewritten row keeps its id, name, version and chunks, and every row comes
   from one that was there. *)
LEMMA RewritesKeep ==
  ASSUME TypeOK, NEW id \in FileId, NEW r \in Nat, Rewrites(id, r),
         NEW f \in files'
  PROVE  \E g \in files : /\ g.id = f.id /\ g.name = f.name
                          /\ g.version = f.version /\ g.chunks = f.chunks
                          /\ f = IF g.id = id THEN [g EXCEPT !.repl = r] ELSE g
<1>1. PICK g \in files : f = IF g.id = id THEN [g EXCEPT !.repl = r] ELSE g
  BY DEF Rewrites
<1>2. g \in FileRow
  BY DEF TypeOK
<1>3. /\ g.id = f.id /\ g.name = f.name
      /\ g.version = f.version /\ g.chunks = f.chunks
  BY <1>1, <1>2 DEF FileRow
<1> QED
  BY <1>1, <1>3

(* Two live backups of one name never carry the same version, whichever
   uploads, deletions and retention runs overlap. *)
THEOREM CatVersionsDistinct == CatSpec => []VersionsDistinct
<1>1. CatInit => VersionsDistinct
  BY DEF CatInit, VersionsDistinct
<1>2. TypeOK /\ VersionsDistinct /\ [CatNext]_catVars => VersionsDistinct'
  <2> SUFFICES ASSUME TypeOK, VersionsDistinct, [CatNext]_catVars
               PROVE  VersionsDistinct'
    OBVIOUS
  <2>0. \A f \in files : f \in FileRow
    BY DEF TypeOK
  <2>1. CASE \E id \in FileId, nm \in Name, cs \in SUBSET Hash, r \in Nat,
                v \in Nat \ {0} : Appends(id, nm, cs, r, v)
    <3>1. PICK id \in FileId, nm \in Name, cs \in SUBSET Hash, r \in Nat,
               v \in Nat \ {0} : Appends(id, nm, cs, r, v)
      BY <2>1
    <3> DEFINE new == [id |-> id, name |-> nm, version |-> v,
                       repl |-> r, chunks |-> cs]
    <3>2. ASSUME NEW f \in files
          PROVE  f.id # new.id /\ ~(f.name = new.name /\ f.version = new.version)
      BY <2>0, <3>1 DEF FileRow, Appends
    <3>3. files' = files \cup {new}
      BY <3>1 DEF Appends
    <3> HIDE DEF new
    <3> QED
      BY <3>2, <3>3 DEF VersionsDistinct
  <2>2. CASE files' \subseteq files
    BY <2>2 DEF VersionsDistinct
  <2>3. CASE \E id \in FileId, r \in Nat : Rewrites(id, r)
    <3>1. PICK id \in FileId, r \in Nat : Rewrites(id, r)
      BY <2>3
    <3> SUFFICES ASSUME NEW f \in files', NEW g \in files',
                        (f.name = g.name /\ f.version = g.version) \/ f.id = g.id
                 PROVE  f = g
      BY DEF VersionsDistinct
    <3>2. PICK f0 \in files :
            /\ f0.id = f.id /\ f0.name = f.name /\ f0.version = f.version
            /\ f = IF f0.id = id THEN [f0 EXCEPT !.repl = r] ELSE f0
      BY <3>1, RewritesKeep
    <3>3. PICK g0 \in files :
            /\ g0.id = g.id /\ g0.name = g.name /\ g0.version = g.version
            /\ g = IF g0.id = id THEN [g0 EXCEPT !.repl = r] ELSE g0
      BY <3>1, RewritesKeep
    <3>4. f0 = g0
      BY <3>2, <3>3 DEF VersionsDistinct
    <3> QED
      BY <3>2, <3>3, <3>4
  <2> QED
    BY <2>1, <2>2, <2>3, FilesStep
<1> QED
  BY <1>1, <1>2, CatTypeCorrect, PTL DEF CatSpec

-----------------------------------------------------------------------------
(* A committed manifest is never rewritten and a new one is the newest of its
   name. *)
THEOREM CatManifestsImmutable == CatSpec => ManifestsImmutable
<1> DEFINE Kept(f) ==
      \/ /\ \A g \in files : g.id # f.id
         /\ \A g \in files : g.name = f.name => g.version < f.version
      \/ \E g \in files : /\ g.id = f.id /\ g.name = f.name
                          /\ g.version = f.version /\ g.chunks = f.chunks
<1>1. TypeOK /\ [CatNext]_catVars => \A f \in files' : Kept(f)
  <2> SUFFICES ASSUME TypeOK, [CatNext]_catVars, NEW f \in files'
               PROVE  Kept(f)
    OBVIOUS
  <2>1. CASE \E id \in FileId, nm \in Name, cs \in SUBSET Hash, r \in Nat,
                v \in Nat \ {0} : Appends(id, nm, cs, r, v)
    BY <2>1 DEF Appends
  <2>2. CASE files' \subseteq files
    BY <2>2
  <2>3. CASE \E id \in FileId, r \in Nat : Rewrites(id, r)
    BY <2>3, RewritesKeep
  <2> QED
    BY <2>1, <2>2, <2>3, FilesStep
<1>2. TypeOK /\ [CatNext]_catVars => [\A f \in files' : Kept(f)]_catVars
  BY <1>1
<1> QED
  BY <1>2, CatTypeCorrect, PTL DEF CatSpec, ManifestsImmutable

-----------------------------------------------------------------------------
(* Sets of numbers *)

(* A finite set of naturals that is not empty has a greatest element: by a
   counterexample of least cardinality. *)
LEMMA GreatestExists ==
  ASSUME NEW S \in SUBSET Nat, IsFiniteSet(S), S # {}
  PROVE  \E m \in S : \A x \in S : m >= x
<1> DEFINE Bounded(A) == \E m \in A : \A x \in A : m >= x
           Open(c) == \E A \in SUBSET Nat :
                        /\ IsFiniteSet(A) /\ A # {} /\ Cardinality(A) = c
                        /\ ~Bounded(A)
           T == {c \in Nat : Open(c)}
<1>1. SUFFICES ASSUME T # {} PROVE FALSE
  <2>1. Cardinality(S) \in Nat
    BY FS_CardinalityType
  <2> QED
    BY <2>1
<1> HIDE DEF T
<1>2. PICK c \in T : \A d \in T : ~(<<d, c>> \in OpToRel(<, Nat))
  <2>1. T \subseteq Nat
    BY DEF T
  <2> QED
    BY <1>1, <2>1, NatLessThanWellFounded, WFMin
<1>3. \A d \in T : ~(d < c)
  BY <1>2 DEF OpToRel, T
<1>4. PICK A \in SUBSET Nat : /\ IsFiniteSet(A) /\ A # {}
                              /\ Cardinality(A) = c /\ ~Bounded(A)
  BY DEF T
<1>5. PICK x \in A : TRUE
  BY <1>4
<1> DEFINE B == A \ {x}
<1>6. IsFiniteSet(B) /\ Cardinality(B) = c - 1 /\ Cardinality(B) \in Nat
  BY <1>4, <1>5, FS_RemoveElement, FS_CardinalityType
<1>7. c - 1 < c
  BY DEF T
<1>8. B = {} \/ Bounded(B)
  <2>1. B \in SUBSET Nat
    OBVIOUS
  <2> QED
    BY <1>3, <1>6, <1>7, <2>1 DEF T
<1>9. CASE B = {}
  BY <1>4, <1>5, <1>9
<1>10. CASE Bounded(B)
  <2>1. PICK m \in B : \A y \in B : m >= y
    BY <1>10
  <2>2. (\A y \in A : m >= y) \/ (\A y \in A : x >= y)
    BY <2>1
  <2> QED
    BY <1>4, <2>1, <2>2
<1> QED
  BY <1>8, <1>9, <1>10

(* So MAX over the factors of some rows is the factor of one of them. *)
LEMMA MaxIsMember ==
  ASSUME NEW S \in SUBSET Nat, IsFiniteSet(S), S # {}
  PROVE  Max(S) \in S
  BY GreatestExists DEF Max

(* The image of a finite set. *)
LEMMA FiniteReplications ==
  ASSUME NEW F, IsFiniteSet(F)
  PROVE  IsFiniteSet({f.repl : f \in F})
<1> DEFINE T == {f.repl : f \in F}
           g == [f \in F |-> f.repl]
<1>1. g \in Surjection(F, T)
  BY DEF Surjection
<1> HIDE DEF g, T
<1>2. IsFiniteSet(T)
  BY <1>1, FS_Surjection
<1> QED
  BY <1>2 DEF T

(* The factor a hash is held to is a number. *)
LEMMA DesiredIsNat ==
  ASSUME TypeOK, IsFiniteSet(files), NEW h \in Hash
  PROVE  Desired(h) \in Nat
<1>1. IsFiniteSet(Owners(h))
  BY FS_Subset DEF Owners
<1>2. {f.repl : f \in Owners(h)} \subseteq Nat
  BY DEF TypeOK, FileRow, Owners
<1>3. ChunkInUse(h) => {f.repl : f \in Owners(h)} # {}
  BY DEF ChunkInUse
<1> QED
  BY <1>1, <1>2, <1>3, FiniteReplications, MaxIsMember DEF Desired

(* So are the numbers of copies. *)
LEMMA CopiesAreNat ==
  ASSUME TypeOK, NEW h
  PROVE  /\ Cardinality(OnlineLocations(h)) \in Nat
         /\ Cardinality(Active(h)) \in Nat
<1>1. OnlineLocations(h) \subseteq Node /\ Active(h) \subseteq Node
  BY DEF TypeOK, OnlineLocations, Active, ChunkLocations
<1> QED
  BY <1>1, FS_Subset, FS_CardinalityType, CatalogAssumption

-----------------------------------------------------------------------------
(* The tables stay finite: a statement adds one row at most. *)
LEMMA FilesFinite ==
  ASSUME TypeOK, IsFiniteSet(files), [CatNext]_catVars
  PROVE  IsFiniteSet(files')
<1>1. CASE \E id \in FileId, nm \in Name, cs \in SUBSET Hash, r \in Nat,
              v \in Nat \ {0} : Appends(id, nm, cs, r, v)
  <2>1. PICK row : files' = files \cup {row}
    BY <1>1 DEF Appends
  <2> QED
    BY <2>1, FS_AddElement
<1>2. CASE files' \subseteq files
  BY <1>2, FS_Subset
<1>3. CASE \E id \in FileId, r \in Nat : Rewrites(id, r)
  <2>1. PICK id \in FileId, r \in Nat : Rewrites(id, r)
    BY <1>3
  <2> DEFINE New(f) == IF f.id = id THEN [f EXCEPT !.repl = r] ELSE f
             g == [f \in files |-> New(f)]
  <2>2. files' = {New(f) : f \in files}
    BY <2>1 DEF Rewrites
  <2> HIDE DEF New
  <2>3. g \in Surjection(files, files')
    BY <2>2 DEF Surjection
  <2> HIDE DEF g
  <2> QED
    BY <2>3, FS_Surjection
<1> QED
  BY <1>1, <1>2, <1>3, FilesStep

-----------------------------------------------------------------------------
(* The processes use the tables through Catalog's statements only *)

(* What a process has listed is made of hashes and nodes, and the manifests it
   has read have ids. *)
LEMMA Listed ==
  ASSUME ClusterTypeOK, NEW p \in Proc
  PROVE  /\ ps[p] \in Local
         /\ ps[p].todo \in Seq(Hash) /\ ps[p].unread \subseteq Hash
         /\ \A t \in ps[p].work \cup ps[p].call :
              t[1] \in Hash /\ t[2] \in Node /\ t = <<t[1], t[2]>>
         /\ {m.id : m \in ps[p].doomed} \subseteq FileId
         /\ \A m \in ps[p].doomed : m.chunks \subseteq Hash
<1>1. ps[p] \in Local
  BY DEF ClusterTypeOK
<1> QED
  BY <1>1 DEF Local, Pair

(* What an upload asks for. *)
LEMMA Asked ==
  ASSUME ClusterTypeOK, NEW u \in Upload
  PROVE  /\ req[u].name \in Name /\ req[u].repl \in Replicas
         /\ req[u].keep \in Nat /\ req[u].chunks \in Seq(Hash)
         /\ Chunks(u) \subseteq Hash
<1>1. req[u] \in [name: Name, repl: Replicas, keep: Nat, chunks: Seq(Hash)]
  BY ClusterAssumption DEF ClusterTypeOK
<1> QED
  BY <1>1 DEF Chunks, Range

(* A step of a process, of the clock or of an operator is a statement of
   Catalog, or leaves the tables alone. *)
LEMMA CatalogStep ==
  ASSUME ClusterTypeOK, [Next]_vars
  PROVE  [CatNext]_catVars
<1>1. ASSUME NEW u \in Upload, UploadStep(u)
      PROVE  [CatNext]_catVars
  <2>1. CASE Commit(u)
    <3>1. CreateFile(u, req[u].name, Chunks(u), req[u].repl)
      BY <2>1 DEF Commit
    <3> QED
      BY <3>1, Asked, ClusterAssumption DEF CatNext
  <2> QED
    BY <1>1, <2>1 DEF UploadStep, Start, CountCopies, Plan, Abort, Expire
<1>2. ASSUME NEW p \in Proc, Transfer(p)
      PROVE  [CatNext]_catVars
  <2>1. CASE Confirm(p)
    <3>1. PICK t \in ps[p].call : ConfirmChunk(t[1], t[2])
      BY <2>1 DEF Confirm
    <3> QED
      BY <3>1, Listed DEF CatNext
  <2> QED
    BY <1>2, <2>1 DEF Transfer, Put, PutFails, ConfirmFails
<1>3. ASSUME NEW d \in Deleter, Request(d)
      PROVE  [CatNext]_catVars
  BY <1>3 DEF Request
<1>4. ASSUME NEW p \in Proc, Collect(p)
      PROVE  [CatNext]_catVars
  <2>1. CASE Purge(p)
    <3>1. DeleteFiles({m.id : m \in ps[p].doomed})
      BY <2>1 DEF Purge
    <3> QED
      BY <3>1, Listed DEF CatNext
  <2>2. CASE Drop(p)
    <3>1. PICK t \in ps[p].call : RemoveChunkLocation(t[1], t[2])
      BY <2>2 DEF Drop
    <3> QED
      BY <3>1, Listed DEF CatNext
  <2> QED
    BY <1>4, <2>1, <2>2
    DEF Collect, PurgeFails, Snapshot, Reap, ReapFails, Reaped
<1>5. CASE Schedule
  BY <1>5 DEF Schedule, Sweep, CountSurplus, Trimmed, CountMissing, Aim, Fetch,
              FetchFails, Rest
<1>6. ASSUME NEW n \in Node, Heartbeat(n) \/ MissHeartbeat(n)
      PROVE  [CatNext]_catVars
  BY <1>6 DEF Heartbeat, MissHeartbeat, CatNext
<1>7. ASSUME NEW x \in Updates, PatchReplication(x[1], x[2])
      PROVE  [CatNext]_catVars
  <2>1. x[1] \in FileId /\ x[2] \in Replicas
    BY ClusterAssumption
  <2> QED
    BY <1>7, <2>1 DEF PatchReplication, CatNext
<1>8. CASE Disturbance
  <2>1. ASSUME NEW p \in Proc, ReapReplyLost(p)
        PROVE  [CatNext]_catVars
    BY <2>1 DEF ReapReplyLost
  <2>2. ASSUME NEW n \in Node, RemoveNode(n)
        PROVE  [CatNext]_catVars
    BY <2>2 DEF RemoveNode, CatNext
  <2>3. ASSUME NEW n \in Node, ClearNode(n) \/ ClearNodeFails(n)
        PROVE  [CatNext]_catVars
    BY <2>3 DEF ClearNode, ClearNodeFails
  <2>4. ASSUME NEW n \in Node, FinishRemoval(n)
        PROVE  [CatNext]_catVars
    BY <2>4 DEF FinishRemoval, CatNext
  <2>5. CASE Crash
    BY <2>5 DEF Crash
  <2> QED
    BY <1>8, <2>1, <2>2, <2>3, <2>4, <2>5 DEF Disturbance
<1>9. CASE UNCHANGED vars
  BY <1>9 DEF vars
<1> QED
  BY <1>1, <1>2, <1>3, <1>4, <1>5, <1>6, <1>7, <1>8, <1>9 DEF Next, Quiet, Proc

-----------------------------------------------------------------------------
(* The types of Cluster.  They are not inductive as they stand: the tail of
   the chunks to place is taken only where some are left, and the surplus is
   reduced only where it is positive. *)

SchedulerOnly == {"prune", "locate", "trim", "untrim", "survey", "aim", "fetch"}

(* r may be the local state of p. *)
Fits(p, r) ==
  /\ r \in Local
  /\ r.pc \in {"plan", "send", "confirm"} => r.todo # <<>>
  /\ r.pc \in SchedulerOnly => p = sched

(* A copy is being pruned only while its hash has a surplus. *)
Armed == pc(sched) = "untrim" => \A t \in ps[sched].call : quota[t[1]] > 0

ProcessesOK == ps \in [Proc -> Local] /\ \A p \in Proc : Fits(p, ps[p])

TypeInv == ClusterTypeOK /\ ProcessesOK /\ Armed /\ IsFiniteSet(files)

(* One process moves to a state that fits. *)
LEMMA OneMoves ==
  ASSUME ProcessesOK, NEW p \in Proc, NEW r, Fits(p, r),
         ps' = [ps EXCEPT ![p] = r]
  PROVE  ProcessesOK'
  BY DEF ProcessesOK, Fits

(* A process that comes to rest fits. *)
LEMMA AtFits ==
  ASSUME NEW p, NEW l \in Location, l \notin {"plan", "send", "confirm"},
         l \in SchedulerOnly => p = sched
  PROVE  Fits(p, At(l))
<1>1. <<>> \in Seq(Hash)
  OBVIOUS
<1> QED
  BY <1>1 DEF Fits, At, Local

(* The local states a transfer moves to. *)
LEMMA PlacedFits ==
  ASSUME ClusterTypeOK, ProcessesOK, NEW p \in Proc, pc(p) \in {"send", "confirm"},
         NEW w \in SUBSET ps[p].work
  PROVE  Fits(p, Placed(p, w))
<1>1. ps[p] \in Local /\ ps[p].todo # <<>>
  BY DEF ProcessesOK, Fits, pc
<1>2. Tail(ps[p].todo) \in Seq(Hash)
  BY <1>1 DEF Local
<1> QED
  BY <1>1, <1>2 DEF Fits, Placed, Local, Location, Placing, SchedulerOnly

(* An upload takes the tail of the chunks to place only where some are left
   (the loop of backupFile, handlers.go:320-368). *)
LEMMA UploadFits ==
  ASSUME ClusterTypeOK, ProcessesOK, NEW u \in Upload, UploadStep(u)
  PROVE  ProcessesOK'
<1>1. u \in Proc /\ u # sched
  BY ClusterAssumption DEF Proc
<1>2. ps[u] \in Local /\ Fits(u, ps[u])
  BY <1>1 DEF ProcessesOK
<1> USE DEF Fits, SchedulerOnly, Location, Placing, Reaping, pc
<1>3. CASE Start(u)
  <2>1. Fits(u, [ps[u] EXCEPT !.pc = "count", !.todo = req[u].chunks])
    BY <1>2, Asked DEF Local
  <2> QED
    BY <1>1, <1>3, <2>1, OneMoves DEF Start
<1>4. CASE CountCopies(u)
  <2> DEFINE missing == req[u].repl - Cardinality(OnlineLocations(Head(ps[u].todo)))
  <2>1. missing \in Int
    <3>1. req[u].repl \in Nat
      BY Asked, CatalogAssumption
    <3>2. Cardinality(OnlineLocations(Head(ps[u].todo))) \in Nat
      BY CopiesAreNat DEF ClusterTypeOK
    <3> QED
      BY <3>1, <3>2
  <2>2. /\ ps[u].todo # <<>>
        /\ ps' = IF missing > 0
                 THEN [ps EXCEPT ![u] = [ps[u] EXCEPT !.pc = "plan", !.need = missing]]
                 ELSE [ps EXCEPT ![u] = [ps[u] EXCEPT !.todo = Tail(@)]]
    BY <1>4 DEF CountCopies
  <2> HIDE DEF missing
  <2>3. CASE missing > 0
    <3>0. missing \in Nat /\ ps[u].todo # <<>>
      BY <2>1, <2>2, <2>3
    <3>1. Fits(u, [ps[u] EXCEPT !.pc = "plan", !.need = missing])
      BY <1>2, <3>0 DEF Local
    <3> QED
      BY <1>1, <2>2, <2>3, <3>1, OneMoves
  <2>4. CASE ~(missing > 0)
    <3> DEFINE rest == Tail(ps[u].todo)
    <3>0. ps[u].pc = "count"
      BY <1>4 DEF CountCopies
    <3>1. rest \in Seq(Hash)
      <4>1. ps[u].todo \in Seq(Hash)
        BY <1>2 DEF Local
      <4> QED
        BY <4>1, <2>2
    <3> HIDE DEF rest
    <3>2. Fits(u, [ps[u] EXCEPT !.todo = rest])
      BY <1>2, <3>0, <3>1 DEF Local
    <3> USE DEF rest
    <3> QED
      BY <1>1, <2>2, <2>4, <3>2, OneMoves
  <2> QED
    BY <2>3, <2>4
<1>5. CASE Plan(u)
  <2> DEFINE h == Head(ps[u].todo)
  <2>1. h \in Hash
    BY <1>2, <1>5 DEF Local, Plan
  <2>2. PICK targets \in SUBSET Plannable(h) :
          ps' = [ps EXCEPT ![u] = [ps[u] EXCEPT !.pc = "send", !.need = 0,
                                                !.work = {h} \X targets]]
    BY <1>5 DEF Plan
  <2> HIDE DEF h
  <2>3. {h} \X targets \subseteq Pair
    BY <2>1, <2>2 DEF Plannable, ClusterTypeOK, TypeOK, Pair
  <2> DEFINE w == {h} \X targets
  <2> HIDE DEF w
  <2>4. w \subseteq Pair /\ ps[u].todo # <<>>
    BY <1>2, <1>5, <2>3 DEF w, Plan
  <2>5. Fits(u, [ps[u] EXCEPT !.pc = "send", !.need = 0, !.work = w])
    BY <1>2, <2>4 DEF Local
  <2> QED
    BY <1>1, <2>2, <2>5, OneMoves DEF w
<1>6. CASE Abort(u)
  <2>1. Fits(u, At("failed"))
    BY AtFits
  <2> QED
    BY <1>1, <1>6, <2>1, OneMoves DEF Abort
<1>7. CASE Commit(u)
  <2>1. Fits(u, [ps[u] EXCEPT !.pc = "expire"])
    BY <1>2 DEF Local
  <2> QED
    BY <1>1, <1>7, <2>1, OneMoves DEF Commit
<1>8. CASE Expire(u)
  <2> DEFINE old == Expired(req[u].name, req[u].keep)
             doomed == {Manifest(f) : f \in old}
  <2>1. doomed \subseteq [id: FileId, chunks: SUBSET Hash]
    BY DEF Expired, Manifest, ClusterTypeOK, TypeOK, FileRow
  <2>2. Fits(u, At("done"))
    BY AtFits
  <2> HIDE DEF doomed
  <2>3. Fits(u, [ps[u] EXCEPT !.pc = "purge", !.doomed = doomed])
    BY <1>2, <2>1 DEF Local
  <2>4. CASE old = {}
    BY <1>1, <1>8, <2>2, <2>4, OneMoves DEF Expire
  <2>5. CASE old # {}
    <3>1. ps' = [ps EXCEPT ![u] = [ps[u] EXCEPT !.pc = "purge", !.doomed = doomed]]
      BY <1>8, <2>5 DEF Expire, doomed
    <3> QED
      BY <1>1, <2>3, <3>1, OneMoves
  <2> QED
    BY <2>4, <2>5
<1> QED
  BY <1>3, <1>4, <1>5, <1>6, <1>7, <1>8 DEF UploadStep

(* putChunk and ConfirmChunk, for an upload and for the scheduler. *)
LEMMA TransferFits ==
  ASSUME ClusterTypeOK, ProcessesOK, NEW p \in Proc, Transfer(p)
  PROVE  ProcessesOK'
<1>1. ps[p] \in Local /\ Fits(p, ps[p])
  BY DEF ProcessesOK
<1>2. CASE Put(p)
  <2>1. PICK t \in Targets(p) :
          ps' = [ps EXCEPT ![p] = [ps[p] EXCEPT !.pc = "confirm", !.call = {t}]]
    BY <1>2 DEF Put
  <2>2. {t} \subseteq Pair /\ pc(p) = "send"
    BY <1>1, <1>2, <2>1 DEF Targets, Local, Put
  <2>3. Fits(p, [ps[p] EXCEPT !.pc = "confirm", !.call = {t}])
    BY <1>1, <2>2 DEF Fits, Local, Location, Placing, SchedulerOnly, pc
  <2> QED
    BY <2>1, <2>3, OneMoves
<1>3. ASSUME NEW t, PlaceFailed(p, t), pc(p) \in {"send", "confirm"}
      PROVE  ProcessesOK'
  <2>1. Fits(p, Placed(p, ps[p].work \ {t}))
    BY <1>3, PlacedFits
  <2>2. Fits(p, At("failed"))
    BY AtFits DEF Location, SchedulerOnly
  <2> QED
    BY <1>3, <2>1, <2>2, OneMoves DEF PlaceFailed
<1>4. CASE Confirm(p)
  <2>1. PICK t \in ps[p].call : ps' = [ps EXCEPT ![p] = Placed(p, ps[p].work \ {t})]
    BY <1>4 DEF Confirm
  <2>2. Fits(p, Placed(p, ps[p].work \ {t}))
    BY <1>4, PlacedFits DEF Confirm
  <2> QED
    BY <2>1, <2>2, OneMoves
<1> QED
  BY <1>2, <1>3, <1>4 DEF Transfer, PutFails, ConfirmFails

(* Only the scheduler goes on to pruning when its deletions are over. *)
LEMMA AfterReapFits ==
  ASSUME NEW p \in Proc
  PROVE  Fits(p, AfterReap(p))
<1>1. CASE p = sched
  BY <1>1, AtFits DEF AfterReap, Location, SchedulerOnly
<1>2. CASE p # sched
  BY <1>2, AtFits DEF AfterReap, Location, SchedulerOnly
<1> QED
  BY <1>1, <1>2

(* The selection of manifests, the purge and the deletes that follow it. *)
LEMMA CollectFits ==
  ASSUME ClusterTypeOK, ProcessesOK, NEW p \in Proc, Collect(p) \/ ReapReplyLost(p)
  PROVE  ProcessesOK'
<1>1. ps[p] \in Local /\ Fits(p, ps[p])
  BY DEF ProcessesOK
<1> USE DEF Location, Reaping, SchedulerOnly
<1>2. CASE Purge(p)
  <2>1. PICK read \in SUBSET ps[p].doomed :
          LET ids == {m.id : m \in ps[p].doomed}
              left == {h \in UNION {m.chunks : m \in read} :
                         \A f \in files : h \in f.chunks => f.id \in ids}
          IN  ps' = [ps EXCEPT ![p] = IF left = {} THEN AfterReap(p)
                                      ELSE [At("snap") EXCEPT !.unread = left]]
    BY <1>2 DEF Purge
  <2>2. UNION {m.chunks : m \in read} \subseteq Hash
    BY Listed
  <2>3. PICK left \in SUBSET Hash :
          ps' = [ps EXCEPT ![p] = IF left = {} THEN AfterReap(p)
                                  ELSE [At("snap") EXCEPT !.unread = left]]
    BY <2>1, <2>2
  <2>4. Fits(p, At("snap"))
    BY AtFits
  <2>5. Fits(p, [At("snap") EXCEPT !.unread = left])
    BY <2>4 DEF Fits, Local, At
  <2> QED
    BY <2>3, <2>5, AfterReapFits, OneMoves
<1>3. CASE PurgeFails(p)
  BY <1>3, AfterReapFits, OneMoves DEF PurgeFails
<1>4. CASE Snapshot(p)
  <2>1. PICK h \in ps[p].unread, at \in SUBSET Node, l \in {"snap", "locate", "reap", "trim"} :
          /\ ps' = [ps EXCEPT ![p] = [ps[p] EXCEPT !.work = @ \cup ({h} \X at),
                                                  !.unread = @ \ {h}, !.pc = l]]
          /\ l \in {"locate", "trim"} => pc(p) = "locate"
    <3>1. PICK h \in ps[p].unread :
            LET at == IF pc(p) = "snap" THEN ChunkLocations(h) ELSE OnlineLocations(h)
                left == ps[p].unread \ {h}
            IN  ps' = [ps EXCEPT ![p].work = @ \cup ({h} \X at), ![p].unread = left,
                                 ![p].pc = IF left # {} THEN @
                                           ELSE IF @ = "snap" THEN "reap" ELSE "trim"]
      BY <1>4 DEF Snapshot
    <3> DEFINE at == IF pc(p) = "snap" THEN ChunkLocations(h) ELSE OnlineLocations(h)
               l == IF ps[p].unread \ {h} # {} THEN ps[p].pc
                    ELSE IF ps[p].pc = "snap" THEN "reap" ELSE "trim"
    <3>2. at \subseteq Node
      BY DEF ChunkLocations, OnlineLocations, ClusterTypeOK, TypeOK
    <3>3. /\ l \in {"snap", "locate", "reap", "trim"}
          /\ l \in {"locate", "trim"} => pc(p) = "locate"
      BY <1>4 DEF Snapshot, pc
    <3>4. ps' = [ps EXCEPT ![p] = [ps[p] EXCEPT !.work = @ \cup ({h} \X at),
                                               !.unread = @ \ {h}, !.pc = l]]
      BY <3>1
    <3> QED
      BY <3>2, <3>3, <3>4
  <2> DEFINE w == ps[p].work \cup ({h} \X at)
             left == ps[p].unread \ {h}
  <2>2. w \subseteq Pair /\ left \subseteq Hash
    BY <1>1 DEF Local, Pair
  <2>3. ps' = [ps EXCEPT ![p] = [ps[p] EXCEPT !.work = w, !.unread = left, !.pc = l]]
    BY <2>1
  <2> HIDE DEF w, left
  <2>4. pc(p) = "locate" => p = sched
    BY <1>1 DEF Fits, pc
  <2>5. Fits(p, [ps[p] EXCEPT !.work = w, !.unread = left, !.pc = l])
    BY <1>1, <2>1, <2>2, <2>4 DEF Fits, Local
  <2> QED
    BY <2>3, <2>5, OneMoves
<1>5. CASE Reap(p)
  <2>1. PICK t \in Due(p) :
          ps' = [ps EXCEPT ![p] = [ps[p] EXCEPT !.call = {t},
                             !.pc = IF @ = "reap" THEN "drop" ELSE "untrim"]]
    BY <1>5 DEF Reap
  <2>2. {t} \subseteq Pair /\ pc(p) \in {"reap", "trim"}
    BY <1>1, <1>5 DEF Due, Local, Reap
  <2>3. Fits(p, [ps[p] EXCEPT !.call = {t},
                              !.pc = IF @ = "reap" THEN "drop" ELSE "untrim"])
    BY <1>1, <2>2 DEF Fits, Local, pc
  <2> QED
    BY <2>1, <2>3, OneMoves
<1>6. ASSUME NEW t, ps' = [ps EXCEPT ![p].work = @ \ {t}]
      PROVE  ProcessesOK'
  <2>1. Fits(p, [ps[p] EXCEPT !.work = @ \ {t}])
    BY <1>1 DEF Fits, Local
  <2> QED
    BY <1>6, <2>1, OneMoves
<1>7. CASE Drop(p)
  <2>1. PICK t \in ps[p].call :
          ps' = [ps EXCEPT ![p] = [ps[p] EXCEPT !.call = {}, !.work = @ \ {t},
                             !.pc = IF @ = "drop" THEN "reap" ELSE "trim"]]
    BY <1>7 DEF Drop
  <2>2. Fits(p, [ps[p] EXCEPT !.call = {}, !.work = @ \ {t},
                              !.pc = IF @ = "drop" THEN "reap" ELSE "trim"])
    BY <1>1, <1>7 DEF Fits, Local, pc, Drop
  <2> QED
    BY <2>1, <2>2, OneMoves
<1>8. CASE Reaped(p)
  BY <1>8, AfterReapFits, OneMoves DEF Reaped
<1> QED
  BY <1>2, <1>3, <1>4, <1>5, <1>6, <1>7, <1>8
  DEF Collect, ReapFails, ReapReplyLost

(* A run of the scheduler counts its tasks as they are when it asks, and each
   hash it has no task for has none to prune and none to copy. *)
LEMMA TasksFit ==
  ASSUME ProcessesOK, NEW m \in [Hash -> Nat], NEW next \in {"locate", "aim"},
         NEW otherwise \in {"survey", "idle"}, Tasks(m, next, otherwise)
  PROVE  ProcessesOK' /\ quota' \in [Hash -> Nat] /\ pc(sched)' # "untrim"
<1>1. sched \in Proc
  BY DEF Proc
<1>2. PICK hs \in SUBSET Hash :
        ps' = [ps EXCEPT ![sched] = IF hs = {} THEN At(otherwise)
                                    ELSE [At(next) EXCEPT !.unread = hs]]
  BY DEF Tasks
<1>3. Fits(sched, At(otherwise)) /\ Fits(sched, At(next))
  BY AtFits DEF Location, Placing, Reaping
<1>4. Fits(sched, [At(next) EXCEPT !.unread = hs])
  BY <1>3 DEF Fits, Local, At
<1>5. ProcessesOK'
  BY <1>1, <1>2, <1>3, <1>4, OneMoves
<1>6. pc(sched)' # "untrim"
  BY <1>1, <1>2 DEF ProcessesOK, pc, At
<1> QED
  BY <1>5, <1>6 DEF Tasks

(* The stages of runReplicationOnce; the numbers of copies to prune and to
   make are never negative. *)
LEMMA ScheduleFits ==
  ASSUME ClusterTypeOK, ProcessesOK, IsFiniteSet(files), Schedule
  PROVE  ProcessesOK' /\ quota' \in [Hash -> Nat] /\ pc(sched)' # "untrim"
<1>1. /\ sched \in Proc /\ quota \in [Hash -> Nat]
      /\ ps[sched] \in Local /\ Fits(sched, ps[sched])
  BY DEF ClusterTypeOK, ProcessesOK, Proc
<1>2. \A h \in Hash : /\ Cardinality(Active(h)) \in Nat /\ Desired(h) \in Nat
  BY CopiesAreNat, DesiredIsNat DEF ClusterTypeOK
<1>3. NoQuota \in [Hash -> Nat]
  BY DEF NoQuota
<1>4. ASSUME NEW r, Fits(sched, r), ps' = [ps EXCEPT ![sched] = r], r.pc # "untrim"
      PROVE  ProcessesOK' /\ pc(sched)' # "untrim"
  BY <1>1, <1>4, OneMoves DEF ProcessesOK, pc
<1> USE DEF Location, Placing, Reaping, SchedulerOnly
<1>5. CASE Sweep
  <2> DEFINE w == OrphanChunks
  <2>1. ps' = [ps EXCEPT ![sched] = [ps[sched] EXCEPT !.pc = "reap", !.work = w]]
    BY <1>5 DEF Sweep
  <2>2. w \subseteq Pair
    BY DEF OrphanChunks, ClusterTypeOK, TypeOK, Pair
  <2> HIDE DEF w
  <2>3. /\ Fits(sched, [ps[sched] EXCEPT !.pc = "reap", !.work = w])
        /\ [ps[sched] EXCEPT !.pc = "reap", !.work = w].pc # "untrim"
    BY <1>1, <2>2 DEF Fits, Local
  <2> QED
    BY <1>1, <1>4, <1>5, <2>1, <2>3 DEF Sweep
<1>6. CASE CountSurplus
  <2> DEFINE m == [h \in Hash |-> IF ChunkInUse(h)
                                  THEN Monus(Cardinality(Active(h)), Desired(h))
                                  ELSE 0]
  <2>1. m \in [Hash -> Nat]
    BY <1>2 DEF Monus
  <2>2. Tasks(m, "locate", "survey")
    BY <1>6 DEF CountSurplus
  <2> HIDE DEF m
  <2> QED
    BY <2>1, <2>2, TasksFit
<1>7. CASE Trimmed
  <2>1. Fits(sched, At("survey")) /\ At("survey").pc # "untrim"
    BY AtFits DEF At
  <2> QED
    BY <1>1, <1>3, <1>4, <1>7, <2>1 DEF Trimmed
<1>8. CASE CountMissing
  <2> DEFINE m == [h \in Hash |-> Monus(Desired(h), Cardinality(Active(h)))]
  <2>1. m \in [Hash -> Nat]
    BY <1>2 DEF Monus
  <2>2. Tasks(m, "aim", "idle")
    BY <1>8 DEF CountMissing
  <2> HIDE DEF m
  <2> QED
    BY <2>1, <2>2, TasksFit
<1>9. CASE Aim
  <2>1. PICK h \in ps[sched].unread : \E targets \in SUBSET Plannable(h) :
          /\ ps' = [ps EXCEPT ![sched].work = @ \cup ({h} \X targets),
                              ![sched].unread = @ \ {h},
                              ![sched].pc = IF ps[sched].unread \ {h} = {}
                                            THEN "fetch" ELSE @]
          /\ quota' = [quota EXCEPT ![h] = 0]
    BY <1>9 DEF Aim
  <2>2. PICK targets \in SUBSET Plannable(h), l \in {"aim", "fetch"} :
          /\ ps' = [ps EXCEPT ![sched] = [ps[sched] EXCEPT
                      !.work = @ \cup ({h} \X targets), !.unread = @ \ {h}, !.pc = l]]
          /\ quota' = [quota EXCEPT ![h] = 0]
    <3>1. PICK targets \in SUBSET Plannable(h) :
            /\ ps' = [ps EXCEPT ![sched].work = @ \cup ({h} \X targets),
                                ![sched].unread = @ \ {h},
                                ![sched].pc = IF ps[sched].unread \ {h} = {}
                                              THEN "fetch" ELSE @]
            /\ quota' = [quota EXCEPT ![h] = 0]
      BY <2>1
    <3> DEFINE w == ps[sched].work \cup ({h} \X targets)
               l == IF ps[sched].unread \ {h} = {} THEN "fetch" ELSE ps[sched].pc
    <3>2. l \in {"aim", "fetch"}
      BY <1>9 DEF Aim, pc
    <3>3. ps' = [ps EXCEPT ![sched] = [ps[sched] EXCEPT
                   !.work = w, !.unread = @ \ {h}, !.pc = l]]
      BY <3>1
    <3> QED
      BY <3>1, <3>2, <3>3
  <2> DEFINE w == ps[sched].work \cup ({h} \X targets)
             left == ps[sched].unread \ {h}
  <2>3. w \subseteq Pair /\ left \subseteq Hash
    BY <1>1, <2>1, <2>2 DEF Local, Pair, Plannable, ClusterTypeOK, TypeOK
  <2>4. ps' = [ps EXCEPT ![sched] = [ps[sched] EXCEPT
                 !.work = w, !.unread = left, !.pc = l]]
    BY <2>2
  <2> HIDE DEF w, left
  <2>5. /\ Fits(sched, [ps[sched] EXCEPT !.work = w, !.unread = left, !.pc = l])
        /\ [ps[sched] EXCEPT !.work = w, !.unread = left, !.pc = l].pc # "untrim"
    BY <1>1, <2>2, <2>3 DEF Fits, Local
  <2> QED
    BY <1>1, <1>4, <2>2, <2>4, <2>5
<1>10. CASE Fetch
  <2>1. PICK t \in ps[sched].work :
          ps' = [ps EXCEPT ![sched] = [ps[sched] EXCEPT
                   !.pc = "send", !.todo = <<t[1]>>]]
    BY <1>10 DEF Fetch
  <2> DEFINE one == <<t[1]>>
  <2>2. one \in Seq(Hash) /\ one # <<>>
    BY <1>1, <2>1, Listed
  <2> HIDE DEF one
  <2>3. /\ Fits(sched, [ps[sched] EXCEPT !.pc = "send", !.todo = one])
        /\ [ps[sched] EXCEPT !.pc = "send", !.todo = one].pc # "untrim"
    BY <1>1, <2>2 DEF Fits, Local
  <2> USE DEF one
  <2> QED
    BY <1>1, <1>4, <1>10, <2>1, <2>3 DEF Fetch
<1>11. CASE FetchFails
  <2>1. PICK t \in ps[sched].work :
          ps' = [ps EXCEPT ![sched] = [ps[sched] EXCEPT
                   !.work = {x \in @ : x[1] # t[1]}]]
    BY <1>11 DEF FetchFails
  <2> DEFINE w == {x \in ps[sched].work : x[1] # t[1]}
  <2>2. w \subseteq Pair
    BY <1>1 DEF Local
  <2>3. ps' = [ps EXCEPT ![sched] = [ps[sched] EXCEPT !.work = w]]
    BY <2>1
  <2> HIDE DEF w
  <2>4. /\ Fits(sched, [ps[sched] EXCEPT !.work = w])
        /\ [ps[sched] EXCEPT !.work = w].pc # "untrim"
    BY <1>1, <1>11, <2>2 DEF Fits, Local, FetchFails, pc
  <2> QED
    BY <1>1, <1>4, <1>11, <2>3, <2>4 DEF FetchFails
<1>12. CASE Rest
  <2>1. Fits(sched, At("idle")) /\ At("idle").pc # "untrim"
    BY AtFits DEF At
  <2> QED
    BY <1>1, <1>4, <1>12, <2>1 DEF Rest
<1> QED
  BY <1>5, <1>6, <1>7, <1>8, <1>9, <1>10, <1>11, <1>12 DEF Schedule

-----------------------------------------------------------------------------
(* The surplus of a hash never goes below zero: it is reduced only after a
   copy was pruned, and a copy is pruned only while there is a surplus. *)
LEMMA ArmedKept ==
  ASSUME Armed, quota' = quota, ps'[sched] = ps[sched] \/ pc(sched)' # "untrim"
  PROVE  Armed'
  BY DEF Armed, pc

(* A delete counts against the surplus only where it was counted as surplus
   (pruneExtraCopies, replicator.go:100-115). *)
LEMMA CollectArmed ==
  ASSUME ClusterTypeOK, ProcessesOK, Armed,
         NEW p \in Proc, Collect(p) \/ ReapReplyLost(p)
  PROVE  quota' \in [Hash -> Nat] /\ Armed'
<1>1. /\ quota \in [Hash -> Nat] /\ sched \in Proc
      /\ ps[p] \in Local /\ Fits(p, ps[p]) /\ ps \in [Proc -> Local]
  BY DEF ClusterTypeOK, ProcessesOK, Proc
<1>2. AfterReap(p).pc # "untrim" /\ At("snap").pc # "untrim"
  BY DEF AfterReap, At
<1>3. CASE Purge(p)
  <2>1. PICK r : /\ ps' = [ps EXCEPT ![p] = r] /\ r.pc # "untrim"
                 /\ quota' = quota
    <3>1. PICK left : ps' = [ps EXCEPT ![p] =
                               IF left = {} THEN AfterReap(p)
                               ELSE [At("snap") EXCEPT !.unread = left]]
      BY <1>3 DEF Purge
    <3>2. [At("snap") EXCEPT !.unread = left].pc # "untrim"
      BY DEF At
    <3> QED
      BY <1>2, <1>3, <3>1, <3>2 DEF Purge
  <2> QED
    BY <1>1, <2>1, ArmedKept DEF pc
<1>4. CASE PurgeFails(p) \/ Reaped(p)
  BY <1>1, <1>2, <1>4, ArmedKept DEF PurgeFails, Reaped, pc
<1>5. CASE Snapshot(p)
  <2>1. ps'[sched] = ps[sched] \/ ps'[sched].pc # "untrim"
    BY <1>1, <1>5 DEF Snapshot, pc, Local
  <2> QED
    BY <1>1, <1>5, <2>1, ArmedKept DEF Snapshot, pc
<1>6. CASE Reap(p)
  <2>1. PICK t \in Due(p) :
          ps' = [ps EXCEPT ![p] = [ps[p] EXCEPT !.call = {t},
                             !.pc = IF @ = "reap" THEN "drop" ELSE "untrim"]]
    BY <1>6 DEF Reap
  <2>2. CASE p # sched
    BY <1>1, <1>6, <2>1, <2>2, ArmedKept DEF Reap
  <2>3. CASE p = sched
    <3>1. ps'[sched].call = {t} /\ quota' = quota
      BY <1>1, <1>6, <2>1, <2>3 DEF Reap, Local
    <3>2. ps'[sched].pc = "untrim" => ps[sched].pc = "trim"
      BY <1>1, <1>6, <2>1, <2>3 DEF Reap, Local, pc
    <3>3. ps[sched].pc = "trim" => quota[t[1]] > 0
      BY <2>1, <2>3 DEF Due, pc
    <3> QED
      BY <1>1, <3>1, <3>2, <3>3 DEF Armed, pc
  <2> QED
    BY <2>2, <2>3
<1>7. CASE ReapFails(p) \/ ReapReplyLost(p)
  <2>1. PICK t : ps' = [ps EXCEPT ![p] = [ps[p] EXCEPT !.work = @ \ {t}]]
    BY <1>7 DEF ReapFails, ReapReplyLost
  <2>2. ps[p].pc \in {"reap", "trim"} /\ quota' = quota
    BY <1>7 DEF ReapFails, ReapReplyLost, pc
  <2>3. ps'[sched] = ps[sched] \/ ps'[sched].pc # "untrim"
    BY <1>1, <2>1, <2>2 DEF Local
  <2> QED
    BY <1>1, <2>2, <2>3, ArmedKept DEF pc
<1>8. CASE Drop(p)
  <2>1. PICK t \in ps[p].call :
          /\ quota' = IF pc(p) = "drop" THEN quota
                      ELSE [quota EXCEPT ![t[1]] = @ - 1]
          /\ ps' = [ps EXCEPT ![p] = [ps[p] EXCEPT !.call = {}, !.work = @ \ {t},
                                !.pc = IF @ = "drop" THEN "reap" ELSE "trim"]]
    BY <1>8 DEF Drop
  <2>2. CASE pc(p) = "drop"
    <3>1. ps'[sched] = ps[sched] \/ ps'[sched].pc # "untrim"
      BY <1>1, <2>1 DEF Local
    <3> QED
      BY <1>1, <2>1, <2>2, <3>1, ArmedKept DEF pc
  <2>3. CASE pc(p) = "untrim"
    <3>1. p = sched
      BY <1>1, <2>3 DEF Fits, SchedulerOnly, pc
    <3>2. t[1] \in Hash /\ quota[t[1]] > 0
      BY <2>1, <2>3, <3>1, Listed DEF Armed, pc
    <3>3. quota' \in [Hash -> Nat]
      BY <1>1, <2>1, <2>3, <3>2
    <3>4. ps'[sched].pc # "untrim"
      BY <1>1, <2>1, <3>1 DEF Local
    <3> QED
      BY <3>3, <3>4 DEF Armed, pc
  <2> QED
    BY <1>8, <2>2, <2>3 DEF Drop
<1> QED
  BY <1>3, <1>4, <1>5, <1>6, <1>7, <1>8 DEF Collect

(* A transfer leaves the surplus alone. *)
LEMMA TransferArmed ==
  ASSUME ClusterTypeOK, ProcessesOK, Armed, NEW p \in Proc, Transfer(p)
  PROVE  quota' \in [Hash -> Nat] /\ Armed'
<1>1. /\ quota \in [Hash -> Nat] /\ sched \in Proc
      /\ ps[p] \in Local /\ ps \in [Proc -> Local]
  BY DEF ClusterTypeOK, ProcessesOK, Proc
<1>2. \A w : Placed(p, w).pc # "untrim"
  BY <1>1 DEF Placed, Local
<1>3. At("failed").pc # "untrim"
  BY DEF At
<1>4. quota' = quota
  BY DEF Transfer, Put, PutFails, Confirm, ConfirmFails
<1>5. CASE Put(p)
  <2>1. ps'[sched] = ps[sched] \/ ps'[sched].pc # "untrim"
    BY <1>1, <1>5 DEF Put, Local
  <2> QED
    BY <1>1, <1>4, <2>1, ArmedKept DEF pc
<1>6. CASE PutFails(p) \/ Confirm(p) \/ ConfirmFails(p)
  <2>1. PICK r : ps' = [ps EXCEPT ![p] = r] /\ r.pc # "untrim"
    BY <1>2, <1>3, <1>6 DEF PutFails, Confirm, ConfirmFails, PlaceFailed
  <2> QED
    BY <1>1, <1>4, <2>1, ArmedKept DEF pc
<1> QED
  BY <1>5, <1>6 DEF Transfer

-----------------------------------------------------------------------------
(* Every step keeps the processes and the surplus in their types.  A crash
   leaves the processes at rest and forgets the surplus. *)
LEMMA ProcessesStep ==
  ASSUME TypeInv, [Next]_vars
  PROVE  ProcessesOK' /\ quota' \in [Hash -> Nat] /\ Armed'
<1> USE DEF TypeInv
<1>1. /\ quota \in [Hash -> Nat] /\ sched \in Proc
      /\ ps \in [Proc -> Local] /\ \A p \in Proc : Fits(p, ps[p])
  BY DEF ClusterTypeOK, ProcessesOK, Proc
<1>2. ASSUME NEW u \in Upload, UploadStep(u)
      PROVE  ProcessesOK' /\ quota' \in [Hash -> Nat] /\ Armed'
  <2>1. quota' = quota /\ ps'[sched] = ps[sched]
    BY <1>1, <1>2, ClusterAssumption
    DEF UploadStep, Start, CountCopies, Plan, Abort, Commit, Expire
  <2> QED
    BY <1>1, <1>2, <2>1, UploadFits, ArmedKept
<1>3. ASSUME NEW p \in Proc, Transfer(p)
      PROVE  ProcessesOK' /\ quota' \in [Hash -> Nat] /\ Armed'
  BY <1>3, TransferFits, TransferArmed
<1>4. ASSUME NEW d \in Deleter, Request(d)
      PROVE  ProcessesOK' /\ quota' \in [Hash -> Nat] /\ Armed'
  <2>1. d \in Proc /\ d # sched
    BY ClusterAssumption DEF Proc
  <2>2. PICK f \in files :
          ps' = [ps EXCEPT ![d] = [ps[d] EXCEPT !.pc = "purge",
                                                !.doomed = {Manifest(f)}]]
    BY <1>4 DEF Request
  <2> DEFINE doomed == {Manifest(f)}
  <2>3. doomed \subseteq [id: FileId, chunks: SUBSET Hash]
    BY DEF Manifest, ClusterTypeOK, TypeOK, FileRow
  <2> HIDE DEF doomed
  <2>4. Fits(d, [ps[d] EXCEPT !.pc = "purge", !.doomed = doomed])
    BY <1>1, <2>1, <2>3 DEF Fits, Local, Location, SchedulerOnly
  <2>5. ProcessesOK'
    BY <2>1, <2>2, <2>4, OneMoves DEF doomed
  <2>6. quota' = quota /\ ps'[sched] = ps[sched]
    BY <1>1, <1>4, <2>1, <2>2 DEF Request
  <2> QED
    BY <1>1, <2>5, <2>6, ArmedKept
<1>5. ASSUME NEW p \in Proc, Collect(p) \/ ReapReplyLost(p)
      PROVE  ProcessesOK' /\ quota' \in [Hash -> Nat] /\ Armed'
  BY <1>5, CollectFits, CollectArmed
<1>6. CASE Schedule
  BY <1>6, ScheduleFits DEF Armed, pc
<1>7. CASE ps' = ps /\ quota' = quota
  BY <1>1, <1>7 DEF ProcessesOK, Armed, pc
<1>8. CASE Crash
  <2>1. PICK l \in [Proc -> {"idle", "failed", "done"}] :
          ps' = [p \in Proc |-> At(l[p])]
    <3> DEFINE l == [p \in Proc |-> IF p \in Upload /\ pc(p) # "idle"
                                    THEN IF pc(p) \in Placing \cup {"failed"}
                                         THEN "failed" ELSE "done"
                                    ELSE "idle"]
    <3>1. l \in [Proc -> {"idle", "failed", "done"}]
      OBVIOUS
    <3>2. ps' = [p \in Proc |-> At(l[p])]
      BY <1>8 DEF Crash
    <3> QED
      BY <3>1, <3>2
  <2>2. \A p \in Proc : Fits(p, At(l[p]))
    BY <2>1, AtFits DEF Location, SchedulerOnly
  <2>3. ProcessesOK'
    BY <2>1, <2>2 DEF ProcessesOK, Fits
  <2>4. ps'[sched].pc # "untrim"
    BY <1>1, <2>1 DEF At
  <2>5. quota' \in [Hash -> Nat]
    BY <1>8 DEF Crash, NoQuota
  <2> QED
    BY <2>3, <2>4, <2>5 DEF Armed, pc
<1> QED
  BY <1>2, <1>3, <1>4, <1>5, <1>6, <1>7, <1>8
  DEF Next, Quiet, Disturbance, Proc, vars, Heartbeat, MissHeartbeat,
      PatchReplication, RemoveNode, ClearNode, ClearNodeFails, FinishRemoval

(* The files on the nodes, the sources of the copies, the nodes being removed
   and the two histories are made of hashes and nodes. *)
LEMMA SetsStep ==
  ASSUME TypeInv, [Next]_vars
  PROVE  /\ disk' \subseteq Pair /\ src' \subseteq Pair /\ req' = req
         /\ retiring' \subseteq Node /\ raced' \subseteq Hash /\ struck' \subseteq Hash
<1> USE DEF TypeInv
<1>1. /\ disk \subseteq Pair /\ src \subseteq Pair /\ retiring \subseteq Node
      /\ raced \subseteq Hash /\ struck \subseteq Hash
      /\ locs \subseteq Pair
  BY DEF ClusterTypeOK, TypeOK, Pair
<1>2. req' = req
  BY DEF Next, vars
<1>3. ASSUME NEW S \in SUBSET Hash, Note(S)
      PROVE  raced' \subseteq Hash /\ struck' \subseteq Hash
  BY <1>1, <1>3 DEF Note
<1>4. ASSUME Quiet, Note({})
      PROVE  disk' \subseteq Pair /\ src' \subseteq Pair /\ retiring' \subseteq Node
  <2>1. CASE \E u \in Upload : UploadStep(u)
    BY <1>1, <2>1 DEF UploadStep, Start, CountCopies, Plan, Abort, Commit, Expire
  <2>2. ASSUME NEW p \in Proc, Transfer(p)
        PROVE  disk' \subseteq Pair /\ src' \subseteq Pair /\ retiring' \subseteq Node
    <3>1. Targets(p) \subseteq Pair
      BY <2>2 DEF ClusterTypeOK, Local, Targets
    <3> QED
      BY <1>1, <2>2, <3>1 DEF Transfer, Put, PutFails, Confirm, ConfirmFails
  <2>3. CASE \E d \in Deleter : Request(d)
    BY <1>1, <2>3 DEF Request
  <2>4. CASE \E p \in Proc : Collect(p)
    BY <1>1, <2>4
    DEF Collect, Purge, PurgeFails, Snapshot, Reap, ReapFails, Drop, Reaped
  <2>5. CASE Schedule
    <3>1. CASE Aim
      <4>1. PICK h \in ps[sched].unread : src' = src \cup ({h} \X OnlineLocations(h))
        BY <3>1 DEF Aim
      <4>2. h \in Hash
        BY Listed DEF Proc
      <4>3. OnlineLocations(h) \subseteq Node
        BY DEF OnlineLocations, ChunkLocations, ClusterTypeOK, TypeOK
      <4> QED
        BY <1>1, <3>1, <4>1, <4>2, <4>3 DEF Aim, Pair
    <3> QED
      BY <1>1, <2>5, <3>1 DEF Schedule, Sweep, CountSurplus, Trimmed,
        CountMissing, Fetch, FetchFails, Rest
  <2>6. CASE \/ \E n \in Node : Heartbeat(n) \/ MissHeartbeat(n)
             \/ \E x \in Updates : PatchReplication(x[1], x[2])
    BY <1>1, <2>6 DEF Heartbeat, MissHeartbeat, PatchReplication
  <2> QED
    BY <1>4, <2>1, <2>2, <2>3, <2>4, <2>5, <2>6 DEF Quiet, Proc
<1>5. CASE Disturbance
  <2>1. ASSUME NEW p \in Proc, ReapReplyLost(p)
        PROVE  /\ disk' \subseteq Pair /\ src' \subseteq Pair
               /\ retiring' \subseteq Node /\ \E S \in SUBSET Hash : Note(S)
    <3>1. PICK t \in ps[p].work : disk' = disk \ {t} /\ Note({t[1]})
      BY <2>1 DEF ReapReplyLost, Due
    <3>2. t[1] \in Hash
      BY <3>1, Listed
    <3> QED
      BY <1>1, <2>1, <3>1, <3>2 DEF ReapReplyLost
  <2>2. ASSUME NEW n \in Node, RemoveNode(n) \/ ClearNode(n) \/ FinishRemoval(n)
        PROVE  /\ disk' \subseteq Pair /\ src' \subseteq Pair
               /\ retiring' \subseteq Node /\ \E S \in SUBSET Hash : Note(S)
    <3>1. Note(AtRisk(n)) /\ AtRisk(n) \subseteq Hash
      BY <2>2 DEF RemoveNode, ClearNode, FinishRemoval, AtRisk
    <3> QED
      BY <1>1, <2>2, <3>1 DEF RemoveNode, ClearNode, FinishRemoval
  <2>3. ASSUME NEW n \in Node, ClearNodeFails(n)
        PROVE  /\ disk' \subseteq Pair /\ src' \subseteq Pair
               /\ retiring' \subseteq Node /\ \E S \in SUBSET Hash : Note(S)
    <3>1. PICK gone \in SUBSET disk : disk' = disk \ gone /\ Note({t[1] : t \in gone})
      BY <2>3 DEF ClearNodeFails
    <3>2. {t[1] : t \in gone} \subseteq Hash
      BY <1>1 DEF Pair
    <3> QED
      BY <1>1, <2>3, <3>1, <3>2 DEF ClearNodeFails
  <2>4. CASE Crash
    <3>1. \E S \in SUBSET Hash : Note(S)
      BY <2>4 DEF Crash
    <3>2. src' = {} /\ retiring' = {} /\ disk' = disk
      BY <2>4 DEF Crash
    <3> QED
      BY <1>1, <1>2, <1>3, <3>1, <3>2
  <2> QED
    BY <1>2, <1>3, <1>5, <2>1, <2>2, <2>3, <2>4 DEF Disturbance
<1>6. CASE UNCHANGED vars
  BY <1>1, <1>6 DEF vars
<1> QED
  BY <1>2, <1>3, <1>4, <1>5, <1>6 DEF Next

-----------------------------------------------------------------------------
(* The types of Cluster with what makes them inductive. *)
LEMMA TypeInvariant == Spec => []TypeInv
<1>1. Init => TypeInv
  <2> SUFFICES ASSUME Init PROVE TypeInv
    OBVIOUS
  <2>1. TypeOK /\ IsFiniteSet(files)
    BY FS_EmptySet DEF Init, CatInit, TypeOK, Age
  <2>2. \A p \in Proc : Fits(p, At("idle"))
    BY AtFits DEF Location, SchedulerOnly
  <2>3. ProcessesOK /\ pc(sched) # "untrim"
    <3>1. At("idle").pc # "untrim" /\ sched \in Proc
      BY DEF At, Proc
    <3> QED
      BY <2>2, <3>1 DEF Init, ProcessesOK, Fits, pc
  <2> QED
    BY <2>1, <2>3 DEF Init, TypeInv, ClusterTypeOK, ProcessesOK, Armed
<1>2. TypeInv /\ [Next]_vars => TypeInv'
  <2> SUFFICES ASSUME TypeInv, [Next]_vars PROVE TypeInv'
    OBVIOUS
  <2>1. [CatNext]_catVars /\ TypeOK
    BY CatalogStep DEF TypeInv, ClusterTypeOK
  <2>2. TypeOK' /\ IsFiniteSet(files')
    BY <2>1, TypeStep, FilesFinite DEF TypeInv
  <2> QED
    BY <2>2, ProcessesStep, SetsStep DEF TypeInv, ClusterTypeOK, ProcessesOK
<1> QED
  BY <1>1, <1>2, PTL DEF Spec

(* Every variable keeps its type; in particular what the scheduler may still
   prune of a hash never goes below zero (replicator.go:100-115). *)
THEOREM ClusterTypeCorrect == Spec => []ClusterTypeOK
  BY TypeInvariant, PTL DEF TypeInv

(* Uploads, deletions, retention, node removals and the scheduler, with every
   fault, change the tables only as Catalog's statements do: what is
   proved of the tables above holds while they all run. *)
THEOREM ClusterImplementsCatalog == Spec => CatSpec
<1>1. Init => CatInit
  BY DEF Init
<1>2. TypeInv /\ [Next]_vars => [CatNext]_catVars
  BY CatalogStep DEF TypeInv
<1> QED
  BY <1>1, <1>2, TypeInvariant, PTL DEF Spec, CatSpec
-----------------------------------------------------------------------------
(* The inductive invariant *)

(* p has h on a list. *)
Lists(p, h) == h \in ps[p].unread \/ \E n \in Node : <<h, n>> \in ps[p].work

(* An overlap is recorded by the step that brings it about. *)
RacedCurrent == \A h \in Hash : Overlap(h) => h \in raced

(* r may be the local state of p: an upload places chunks of its request, a
   call is of the pairs listed, and a process has one delete under way. *)
Shape(p, r) ==
  /\ r.pc = "idle" => r.unread = {}
  /\ r.pc \in Placing => p \in Upload \cup {sched}
  /\ r.pc \in Placing /\ p \in Upload => Range(r.todo) \subseteq Chunks(p)
  /\ r.pc = "confirm" => r.call \subseteq r.work
  /\ r.pc = "confirm" /\ p \in Upload => \A t \in r.call : t[1] \in Chunks(p)
  /\ r.pc \in {"drop", "untrim"} => \A t, x \in r.call : t = x

Shapes == \A p \in Proc : Shape(p, ps[p])

(* What is about to be recorded was stored. *)
Confirmable ==
  \A p \in Proc : pc(p) = "confirm" =>
    \A t \in ps[p].call : t \in disk \/ t[1] \in Excused

(* What a garbage collection has listed is still without an owner. *)
Unowned ==
  \A p \in Proc : pc(p) \in {"snap", "reap", "drop"} =>
    \A h \in Hash : Lists(p, h) => h \in raced \/ ~ChunkInUse(h)

SafeInv ==
  /\ TypeInv /\ LocationsRegistered
  /\ RacedCurrent /\ Shapes /\ Confirmable /\ LocationsBacked /\ Unowned

-----------------------------------------------------------------------------
(* The steps, by what they do to the processes. *)
LEMMA Steps ==
  ASSUME [Next]_vars
  PROVE  \/ \E u \in Upload : UploadStep(u)
         \/ \E p \in Upload \cup {sched} : Transfer(p)
         \/ \E d \in Deleter : Request(d)
         \/ \E p \in Proc : Collect(p) \/ ReapReplyLost(p)
         \/ Schedule
         \/ Crash
         \/ ps' = ps
  BY DEF Next, Quiet, Disturbance, vars, Heartbeat, MissHeartbeat,
         PatchReplication, RemoveNode, ClearNode, ClearNodeFails, FinishRemoval

(* A call is made by the step that sends it, and only by that one. *)
LEMMA Arrivals ==
  ASSUME TypeInv, [Next]_vars, NEW p \in Proc,
         pc(p)' \in {"confirm", "drop", "untrim"}
  PROVE  ps'[p] = ps[p] \/ Put(p) \/ Reap(p)
<1>1. /\ ps \in [Proc -> Local] /\ ps[p] \in Local /\ sched \in Proc
      /\ Upload \subseteq Proc /\ Deleter \subseteq Proc
  BY DEF TypeInv, ProcessesOK, Proc
<1>2. \A l : At(l).pc = l
  BY DEF At
<1>3. AfterReap(p).pc \in {"prune", "idle", "done"}
  BY <1>2 DEF AfterReap
<1>4. \A w : Placed(p, w).pc \in {"send", "fetch", "count"}
  BY <1>1 DEF Placed, Local
<1> USE DEF pc
<1>5. ASSUME NEW u \in Upload, UploadStep(u)
      PROVE  ps'[p] = ps[p]
  <2>1. CASE u # p
    BY <1>1, <1>5, <2>1
    DEF UploadStep, Start, CountCopies, Plan, Abort, Commit, Expire
  <2>2. CASE u = p
    <3>1. CASE Start(u) \/ CountCopies(u) \/ Plan(u)
      BY <1>1, <2>2, <3>1 DEF Start, CountCopies, Plan, Local
    <3>2. CASE Abort(u) \/ Commit(u)
      BY <1>1, <1>2, <2>2, <3>2 DEF Abort, Commit, Local
    <3>3. CASE Expire(u)
      BY <1>1, <1>2, <2>2, <3>3 DEF Expire, Local
    <3> QED
      BY <1>5, <3>1, <3>2, <3>3 DEF UploadStep
  <2> QED
    BY <2>1, <2>2
<1>6. ASSUME NEW q \in Proc, Transfer(q), ~Put(p)
      PROVE  ps'[p] = ps[p]
  <2>1. \E r : ps' = [ps EXCEPT ![q] = r]
    BY <1>6 DEF Transfer, Put, PutFails, Confirm, ConfirmFails, PlaceFailed
  <2>2. CASE q = p
    <3>1. PICK w, r : /\ ps' = [ps EXCEPT ![p] = r]
                      /\ r = At("failed") \/ r = Placed(p, w)
      BY <1>6, <2>2 DEF Transfer, PutFails, Confirm, ConfirmFails, PlaceFailed
    <3> QED
      BY <1>1, <1>2, <1>4, <3>1
  <2> QED
    BY <1>1, <2>1, <2>2
<1>7. ASSUME NEW d \in Deleter, Request(d)
      PROVE  ps'[p] = ps[p]
  BY <1>1, <1>7 DEF Request, Local
<1>8. ASSUME NEW q \in Proc, Collect(q) \/ ReapReplyLost(q), ~Reap(p)
      PROVE  ps'[p] = ps[p]
  <2>1. CASE q # p
    BY <1>1, <1>8, <2>1
    DEF Collect, ReapReplyLost, Purge, PurgeFails, Snapshot, Reap, ReapFails,
        Drop, Reaped
  <2>2. CASE q = p
    <3>1. CASE Purge(p)
      <4>1. PICK left : ps' = [ps EXCEPT ![p] =
                                 IF left = {} THEN AfterReap(p)
                                 ELSE [At("snap") EXCEPT !.unread = left]]
        BY <3>1 DEF Purge
      <4>2. [At("snap") EXCEPT !.unread = left].pc = "snap"
        BY DEF At
      <4> QED
        BY <1>1, <1>3, <4>1, <4>2
    <3>2. CASE PurgeFails(p) \/ Reaped(p)
      BY <1>1, <1>3, <3>2 DEF PurgeFails, Reaped
    <3>3. CASE Snapshot(p)
      BY <1>1, <3>3 DEF Snapshot, Local
    <3>4. CASE ReapFails(p) \/ ReapReplyLost(p)
      BY <1>1, <3>4 DEF ReapFails, ReapReplyLost, Local
    <3>5. CASE Drop(p)
      BY <1>1, <3>5 DEF Drop, Local
    <3> QED
      BY <1>8, <2>2, <3>1, <3>2, <3>3, <3>4, <3>5 DEF Collect
  <2> QED
    BY <2>1, <2>2
<1>9. CASE Schedule
  <2>1. \E r : ps' = [ps EXCEPT ![sched] = r]
    BY <1>9 DEF Schedule, Sweep, CountSurplus, Trimmed, CountMissing, Tasks, Aim,
                Fetch, FetchFails, Rest
  <2>2. CASE p = sched
    <3>1. CASE Sweep \/ Fetch \/ FetchFails
      BY <1>1, <2>2, <3>1, ZenonT(60) DEF Sweep, Fetch, FetchFails, Local
    <3>2. CASE Aim
      BY <1>1, <2>2, <3>2 DEF Aim, Local
    <3>3. CASE Trimmed \/ Rest
      BY <1>1, <1>2, <2>2, <3>3 DEF Trimmed, Rest
    <3>4. ASSUME NEW m, NEW next \in {"locate", "aim"},
                 NEW otherwise \in {"survey", "idle"}, Tasks(m, next, otherwise)
          PROVE  ps'[p] = ps[p]
      BY <1>1, <2>2, <3>4 DEF Tasks, At
    <3> QED
      BY <1>9, <3>1, <3>2, <3>3, <3>4 DEF Schedule, CountSurplus, CountMissing
  <2> QED
    BY <1>1, <2>1, <2>2
<1>10. CASE Crash
  BY <1>1, <1>2, <1>10 DEF Crash
<1> QED
  BY <1>5, <1>6, <1>7, <1>8, <1>9, <1>10, Steps DEF Proc

(* It is over when its statement has run, or in a crash. *)
LEMMA Departures ==
  ASSUME TypeInv, [Next]_vars, NEW p \in Proc, pc(p) \in {"drop", "untrim"}
  PROVE  ps'[p] = ps[p] \/ Drop(p) \/ Crash
<1>1. /\ ps \in [Proc -> Local] /\ sched \in Proc
      /\ Upload \subseteq Proc /\ Deleter \subseteq Proc
  BY DEF TypeInv, ProcessesOK, Proc
<1> USE DEF pc
<1>2. ASSUME NEW u \in Upload, UploadStep(u)
      PROVE  ps'[p] = ps[p]
  BY <1>1, <1>2
  DEF UploadStep, Start, CountCopies, Plan, Abort, Commit, Expire
<1>3. ASSUME NEW q \in Proc, Transfer(q)
      PROVE  ps'[p] = ps[p]
  BY <1>1, <1>3
  DEF Transfer, Put, PutFails, Confirm, ConfirmFails, PlaceFailed
<1>4. ASSUME NEW d \in Deleter, Request(d)
      PROVE  ps'[p] = ps[p]
  BY <1>1, <1>4 DEF Request
<1>5. ASSUME NEW q \in Proc, Collect(q) \/ ReapReplyLost(q)
      PROVE  ps'[p] = ps[p] \/ Drop(p)
  BY <1>1, <1>5
  DEF Collect, ReapReplyLost, Purge, PurgeFails, Snapshot, Reap, ReapFails,
      Drop, Reaped
<1>6. CASE Schedule
  BY <1>1, <1>6
  DEF Schedule, Sweep, CountSurplus, Trimmed, CountMissing, Tasks, Aim, Fetch,
      FetchFails, Rest
<1> QED
  BY <1>1, <1>2, <1>3, <1>4, <1>5, <1>6, Steps

-----------------------------------------------------------------------------
(* The histories only grow, and an overlap is recorded at once. *)
LEMMA NoteStep ==
  ASSUME RacedCurrent, [Next]_vars
  PROVE  RacedCurrent' /\ raced \subseteq raced' /\ struck \subseteq struck'
<1>1. CASE \E S : Note(S)
  BY <1>1 DEF Note, RacedCurrent
<1>2. CASE UNCHANGED vars
  BY <1>2
  DEF vars, catVars, RacedCurrent, Overlap, Wanted, Threatened, Vacated, Chunks, pc
<1> QED
  BY <1>1, <1>2
  DEF Next, Disturbance, ReapReplyLost, RemoveNode, ClearNode, ClearNodeFails,
      FinishRemoval, Crash

(* How a file can leave a node: by a delete that is under way from then on, or
   by one whose reply is lost, or with its node. *)
LEMMA FileLoss ==
  ASSUME TypeInv, [Next]_vars, NEW t \in disk, t \notin disk'
  PROVE  \/ /\ \E q \in Proc : /\ pc(q) \in {"reap", "trim"} /\ t \in ps[q].work
                               /\ pc(q)' \in {"drop", "untrim"} /\ ps'[q].call = {t}
            /\ retiring' = retiring
         \/ t[1] \in struck'
         \/ ClearNode(t[2])
<1>1. ps \in [Proc -> Local]
  BY DEF TypeInv, ProcessesOK
<1>2. ASSUME NEW p \in Proc, Reap(p)
      PROVE  /\ \E q \in Proc : /\ pc(q) \in {"reap", "trim"} /\ t \in ps[q].work
                                /\ pc(q)' \in {"drop", "untrim"} /\ ps'[q].call = {t}
             /\ retiring' = retiring
  <2>1. /\ pc(p) \in {"reap", "trim"} /\ t \in ps[p].work
        /\ ps' = [ps EXCEPT ![p] = [ps[p] EXCEPT !.call = {t},
                              !.pc = IF @ = "reap" THEN "drop" ELSE "untrim"]]
    BY <1>2 DEF Reap, Due
  <2>2. ps'[p].pc \in {"drop", "untrim"} /\ ps'[p].call = {t}
    BY <1>1, <2>1 DEF Local
  <2> QED
    BY <1>2, <2>1, <2>2 DEF Reap, pc
<1>3. CASE Quiet
  <2>1. CASE \E u \in Upload : UploadStep(u)
    BY <2>1 DEF UploadStep, Start, CountCopies, Plan, Abort, Commit, Expire
  <2>2. CASE \E p \in Upload \cup {sched} : Transfer(p)
    BY <2>2 DEF Transfer, Put, PutFails, Confirm, ConfirmFails
  <2>3. CASE \E p \in Proc : Collect(p)
    BY <1>2, <2>3
    DEF Collect, Purge, PurgeFails, Snapshot, ReapFails, Drop, Reaped
  <2>4. CASE Schedule
    BY <2>4 DEF Schedule, Sweep, CountSurplus, Trimmed, CountMissing, Aim, Fetch,
                FetchFails, Rest
  <2> QED
    BY <1>3, <2>1, <2>2, <2>3, <2>4
    DEF Quiet, Request, Heartbeat, MissHeartbeat, PatchReplication
<1>4. CASE \E p \in Proc : ReapReplyLost(p)
  BY <1>4 DEF ReapReplyLost, Note
<1>5. CASE \E n \in Node : ClearNode(n)
  BY <1>5 DEF ClearNode
<1>6. CASE \E n \in Node : ClearNodeFails(n)
  <2>1. PICK gone : disk' = disk \ gone /\ Note({x[1] : x \in gone})
    BY <1>6 DEF ClearNodeFails
  <2> QED
    BY <2>1 DEF Note
<1> QED
  BY <1>3, <1>4, <1>5, <1>6
  DEF Next, Disturbance, RemoveNode, FinishRemoval, Crash, vars

-----------------------------------------------------------------------------
(* Shapes *)

(* One process moves to a state of the right shape. *)
LEMMA OneShape ==
  ASSUME TypeInv, Shapes, req' = req, NEW p \in Proc, NEW r, Shape(p, r),
         ps' = [ps EXCEPT ![p] = r]
  PROVE  Shapes'
  BY DEF TypeInv, ProcessesOK, Shapes, Shape, Chunks

(* A process that comes to rest has no list. *)
LEMMA AtShape ==
  ASSUME NEW p \in Proc, NEW l \in {"failed", "done", "idle", "prune", "survey"}
  PROVE  Shape(p, At(l))
  BY DEF Shape, At, Placing

(* The chunks a process has still to place are those it had, or fewer. *)
LEMMA HeadAndTail ==
  ASSUME NEW s \in Seq(Hash), s # <<>>
  PROVE  Head(s) \in Range(s) /\ Range(Tail(s)) \subseteq Range(s)
  BY DEF Range

(* A chunk that is done with leaves the list of those to place. *)
LEMMA PlacedShape ==
  ASSUME TypeInv, Shapes, NEW p \in Proc, pc(p) \in {"send", "confirm"}, NEW w
  PROVE  Shape(p, Placed(p, w))
<1>1. /\ ps[p] \in Local /\ ps[p].todo \in Seq(Hash) /\ ps[p].todo # <<>>
      /\ Shape(p, ps[p])
  BY DEF TypeInv, ProcessesOK, Fits, Shapes, Local, pc
<1> QED
  BY <1>1, HeadAndTail DEF Shape, Placed, Placing, Local, pc

(* An upload places chunks of its request. *)
LEMMA UploadShape ==
  ASSUME TypeInv, Shapes, req' = req, NEW u \in Upload, UploadStep(u)
  PROVE  Shapes'
<1>1. /\ u \in Proc /\ ps[u] \in Local /\ ps[u].todo \in Seq(Hash)
      /\ Shape(u, ps[u])
  BY DEF TypeInv, ProcessesOK, Shapes, Proc, Local
<1> USE DEF Shape, Placing, pc
<1>2. CASE Start(u)
  <2>1. Shape(u, [ps[u] EXCEPT !.pc = "count", !.todo = req[u].chunks])
    BY <1>1 DEF Chunks, Local
  <2> QED
    BY <1>1, <1>2, <2>1, OneShape, ZenonT(60) DEF Start
<1>3. CASE CountCopies(u)
  <2>1. ps[u].pc = "count" /\ ps[u].todo # <<>>
    BY <1>3 DEF CountCopies
  <2>2. PICK k : \/ ps' = [ps EXCEPT ![u] = [ps[u] EXCEPT !.pc = "plan", !.need = k]]
                 \/ ps' = [ps EXCEPT ![u] = [ps[u] EXCEPT !.todo = Tail(@)]]
    BY <1>3 DEF CountCopies
  <2>3. Shape(u, [ps[u] EXCEPT !.pc = "plan", !.need = k])
    BY <1>1, <2>1 DEF Local
  <2>4. Shape(u, [ps[u] EXCEPT !.todo = Tail(@)])
    BY <1>1, <2>1, HeadAndTail DEF Local
  <2> QED
    BY <1>1, <2>2, <2>3, <2>4, OneShape
<1>4. CASE Plan(u)
  <2>1. PICK w : ps' = [ps EXCEPT ![u] = [ps[u] EXCEPT !.pc = "send", !.need = 0,
                                                        !.work = w]]
    BY <1>4 DEF Plan
  <2>2. Shape(u, [ps[u] EXCEPT !.pc = "send", !.need = 0, !.work = w])
    BY <1>1, <1>4 DEF Plan, Local
  <2> QED
    BY <1>1, <2>1, <2>2, OneShape
<1>5. CASE Abort(u)
  BY <1>1, <1>5, AtShape, OneShape DEF Abort
<1>6. CASE Commit(u)
  <2>1. Shape(u, [ps[u] EXCEPT !.pc = "expire"])
    BY <1>1 DEF Local
  <2> QED
    BY <1>1, <1>6, <2>1, OneShape DEF Commit
<1>7. CASE Expire(u)
  <2>1. PICK m : \/ ps' = [ps EXCEPT ![u] = At("done")]
                 \/ ps' = [ps EXCEPT ![u] = [ps[u] EXCEPT !.pc = "purge", !.doomed = m]]
    BY <1>7 DEF Expire
  <2>2. Shape(u, [ps[u] EXCEPT !.pc = "purge", !.doomed = m])
    BY <1>1 DEF Local
  <2> QED
    BY <1>1, <2>1, <2>2, AtShape, OneShape
<1> QED
  BY <1>2, <1>3, <1>4, <1>5, <1>6, <1>7 DEF UploadStep

(* A put or a confirmation is of a pair that was planned. *)
LEMMA TransferShape ==
  ASSUME TypeInv, Shapes, req' = req, NEW p \in Proc, Transfer(p)
  PROVE  Shapes'
<1>1. /\ ps[p] \in Local /\ Fits(p, ps[p]) /\ Shape(p, ps[p])
  BY DEF TypeInv, ProcessesOK, Shapes
<1>2. CASE Put(p)
  <2>1. PICK t \in Targets(p) :
          ps' = [ps EXCEPT ![p] = [ps[p] EXCEPT !.pc = "confirm", !.call = {t}]]
    BY <1>2 DEF Put
  <2>2. ps[p].todo \in Seq(Hash) /\ ps[p].todo # <<>> /\ ps[p].pc = "send"
    BY <1>1, <1>2 DEF Put, Fits, Local, pc
  <2>3. t \in ps[p].work /\ t[1] \in Range(ps[p].todo)
    BY <2>1, <2>2, HeadAndTail DEF Targets
  <2>4. Shape(p, [ps[p] EXCEPT !.pc = "confirm", !.call = {t}])
    BY <1>1, <2>2, <2>3 DEF Shape, Placing, Local
  <2> QED
    BY <2>1, <2>4, OneShape
<1>3. CASE PutFails(p) \/ Confirm(p) \/ ConfirmFails(p)
  <2>1. PICK w, r : /\ ps' = [ps EXCEPT ![p] = r]
                    /\ r = At("failed") \/ r = Placed(p, w)
    BY <1>3 DEF PutFails, Confirm, ConfirmFails, PlaceFailed
  <2>2. pc(p) \in {"send", "confirm"}
    BY <1>3 DEF PutFails, Confirm, ConfirmFails
  <2>3. Shape(p, r)
    BY <2>1, <2>2, PlacedShape, AtShape
  <2> QED
    BY <2>1, <2>3, OneShape
<1> QED
  BY <1>2, <1>3 DEF Transfer

(* A process deletes one pair at a time. *)
LEMMA CollectShape ==
  ASSUME TypeInv, Shapes, req' = req, NEW p \in Proc, Collect(p) \/ ReapReplyLost(p)
  PROVE  Shapes'
<1>1. ps[p] \in Local /\ Shape(p, ps[p])
  BY DEF TypeInv, ProcessesOK, Shapes
<1>2. Shape(p, AfterReap(p))
  BY AtShape DEF AfterReap
<1> USE DEF Shape, Placing, pc
<1>3. CASE Purge(p)
  <2>1. PICK left : ps' = [ps EXCEPT ![p] =
                             IF left = {} THEN AfterReap(p)
                             ELSE [At("snap") EXCEPT !.unread = left]]
    BY <1>3 DEF Purge
  <2>2. Shape(p, [At("snap") EXCEPT !.unread = left])
    BY DEF At
  <2> HIDE DEF Shape
  <2> QED
    BY <1>2, <2>1, <2>2, OneShape
<1>4. CASE PurgeFails(p) \/ Reaped(p)
  BY <1>2, <1>4, OneShape DEF PurgeFails, Reaped
<1>5. CASE Snapshot(p)
  <2>1. PICK w, left, l :
          /\ l \in {"snap", "locate", "reap", "trim"}
          /\ ps' = [ps EXCEPT ![p] = [ps[p] EXCEPT !.work = w, !.unread = left, !.pc = l]]
    <3>1. PICK h \in ps[p].unread :
            LET at == IF pc(p) = "snap" THEN ChunkLocations(h) ELSE OnlineLocations(h)
                left == ps[p].unread \ {h}
            IN  ps' = [ps EXCEPT ![p].work = @ \cup ({h} \X at), ![p].unread = left,
                                 ![p].pc = IF left # {} THEN @
                                           ELSE IF @ = "snap" THEN "reap" ELSE "trim"]
      BY <1>5 DEF Snapshot
    <3> DEFINE at == IF pc(p) = "snap" THEN ChunkLocations(h) ELSE OnlineLocations(h)
               w == ps[p].work \cup ({h} \X at)
               left == ps[p].unread \ {h}
               l == IF left # {} THEN ps[p].pc
                    ELSE IF ps[p].pc = "snap" THEN "reap" ELSE "trim"
    <3>2. l \in {"snap", "locate", "reap", "trim"}
      BY <1>5 DEF Snapshot
    <3>3. ps' = [ps EXCEPT ![p] = [ps[p] EXCEPT !.work = w, !.unread = left, !.pc = l]]
      BY <3>1
    <3> QED
      BY <3>2, <3>3
  <2>2. Shape(p, [ps[p] EXCEPT !.work = w, !.unread = left, !.pc = l])
    BY <1>1, <2>1 DEF Local
  <2> QED
    BY <2>1, <2>2, OneShape
<1>6. CASE Reap(p)
  <2>1. PICK t :
          ps' = [ps EXCEPT ![p] = [ps[p] EXCEPT !.call = {t},
                             !.pc = IF @ = "reap" THEN "drop" ELSE "untrim"]]
    BY <1>6 DEF Reap
  <2>2. \A l \in {"drop", "untrim"} :
          Shape(p, [ps[p] EXCEPT !.call = {t}, !.pc = l])
    BY <1>1 DEF Local
  <2> HIDE DEF Shape
  <2> QED
    BY <2>1, <2>2, OneShape
<1>7. CASE ReapFails(p) \/ ReapReplyLost(p)
  <2>1. PICK t : ps' = [ps EXCEPT ![p] = [ps[p] EXCEPT !.work = @ \ {t}]]
    BY <1>7 DEF ReapFails, ReapReplyLost
  <2>2. ps[p].pc \in {"reap", "trim"}
    BY <1>7 DEF ReapFails, ReapReplyLost
  <2>3. Shape(p, [ps[p] EXCEPT !.work = @ \ {t}])
    BY <1>1, <2>2 DEF Local
  <2> QED
    BY <2>1, <2>3, OneShape
<1>8. CASE Drop(p)
  <2>1. PICK t :
          ps' = [ps EXCEPT ![p] = [ps[p] EXCEPT !.call = {}, !.work = @ \ {t},
                             !.pc = IF @ = "drop" THEN "reap" ELSE "trim"]]
    BY <1>8 DEF Drop
  <2>2. \A l \in {"reap", "trim"} :
          Shape(p, [ps[p] EXCEPT !.call = {}, !.work = @ \ {t}, !.pc = l])
    BY <1>1 DEF Local
  <2> HIDE DEF Shape
  <2> QED
    BY <2>1, <2>2, OneShape
<1> QED
  BY <1>3, <1>4, <1>5, <1>6, <1>7, <1>8 DEF Collect

(* The scheduler starts each run with empty lists. *)
LEMMA ScheduleShape ==
  ASSUME TypeInv, Shapes, req' = req, Schedule
  PROVE  Shapes'
<1>1. /\ sched \in Proc /\ sched \notin Upload
      /\ ps[sched] \in Local /\ Shape(sched, ps[sched])
  BY ClusterAssumption DEF TypeInv, ProcessesOK, Shapes, Proc
<1> USE DEF Shape, Placing, pc
<1>2. CASE Sweep
  <2>1. PICK w : ps' = [ps EXCEPT ![sched] = [ps[sched] EXCEPT !.pc = "reap", !.work = w]]
    BY <1>2 DEF Sweep
  <2>2. Shape(sched, [ps[sched] EXCEPT !.pc = "reap", !.work = w])
    BY <1>1 DEF Local
  <2> QED
    BY <1>1, <2>1, <2>2, OneShape
<1>3. ASSUME NEW m, NEW next \in {"locate", "aim"},
             NEW otherwise \in {"survey", "idle"}, Tasks(m, next, otherwise)
      PROVE  Shapes'
  <2>1. PICK hs : ps' = [ps EXCEPT ![sched] =
                           IF hs = {} THEN At(otherwise)
                           ELSE [At(next) EXCEPT !.unread = hs]]
    BY <1>3 DEF Tasks
  <2>2. Shape(sched, [At(next) EXCEPT !.unread = hs])
    BY DEF At
  <2>3. Shape(sched, At(otherwise))
    BY <1>1, AtShape
  <2> HIDE DEF Shape
  <2> QED
    BY <1>1, <2>1, <2>2, <2>3, OneShape
<1>4. CASE Trimmed \/ Rest
  BY <1>1, <1>4, AtShape, OneShape DEF Trimmed, Rest
<1>5. CASE Aim
  <2>1. PICK w, left, l :
          /\ l \in {"aim", "fetch"}
          /\ ps' = [ps EXCEPT ![sched] = [ps[sched] EXCEPT
                      !.work = w, !.unread = left, !.pc = l]]
    <3>1. PICK h \in ps[sched].unread : \E targets \in SUBSET Plannable(h) :
            ps' = [ps EXCEPT ![sched].work = @ \cup ({h} \X targets),
                             ![sched].unread = @ \ {h},
                             ![sched].pc = IF ps[sched].unread \ {h} = {}
                                           THEN "fetch" ELSE @]
      BY <1>5 DEF Aim
    <3>2. PICK targets \in SUBSET Plannable(h) :
            ps' = [ps EXCEPT ![sched].work = @ \cup ({h} \X targets),
                             ![sched].unread = @ \ {h},
                             ![sched].pc = IF ps[sched].unread \ {h} = {}
                                           THEN "fetch" ELSE @]
      BY <3>1
    <3> DEFINE w == ps[sched].work \cup ({h} \X targets)
               left == ps[sched].unread \ {h}
               l == IF left = {} THEN "fetch" ELSE ps[sched].pc
    <3>3. l \in {"aim", "fetch"}
      BY <1>5 DEF Aim
    <3>4. ps' = [ps EXCEPT ![sched] = [ps[sched] EXCEPT
                   !.work = w, !.unread = left, !.pc = l]]
      BY <3>2
    <3> QED
      BY <3>3, <3>4
  <2>2. Shape(sched, [ps[sched] EXCEPT !.work = w, !.unread = left, !.pc = l])
    BY <1>1, <2>1 DEF Local
  <2> QED
    BY <1>1, <2>1, <2>2, OneShape
<1>6. CASE Fetch
  <2>1. PICK s : ps' = [ps EXCEPT ![sched] = [ps[sched] EXCEPT !.pc = "send", !.todo = s]]
    BY <1>6 DEF Fetch
  <2>2. Shape(sched, [ps[sched] EXCEPT !.pc = "send", !.todo = s])
    BY <1>1 DEF Local
  <2> QED
    BY <1>1, <2>1, <2>2, OneShape
<1>7. CASE FetchFails
  <2>1. PICK t : ps' = [ps EXCEPT ![sched] = [ps[sched] EXCEPT
                          !.work = {x \in @ : x[1] # t[1]}]]
    BY <1>7 DEF FetchFails
  <2> DEFINE w == {x \in ps[sched].work : x[1] # t[1]}
  <2>2. ps' = [ps EXCEPT ![sched] = [ps[sched] EXCEPT !.work = w]]
    BY <2>1
  <2> HIDE DEF w
  <2>3. Shape(sched, [ps[sched] EXCEPT !.work = w])
    BY <1>1, <1>7 DEF FetchFails, Local
  <2> QED
    BY <1>1, <2>2, <2>3, OneShape
<1> QED
  BY <1>2, <1>3, <1>4, <1>5, <1>6, <1>7 DEF Schedule, CountSurplus, CountMissing

(* Every step keeps the shapes. *)
LEMMA ShapesStep ==
  ASSUME TypeInv, Shapes, [Next]_vars
  PROVE  Shapes'
<1>1. req' = req
  BY SetsStep
<1>2. /\ Upload \subseteq Proc /\ Deleter \subseteq Proc /\ sched \in Proc
      /\ Deleter \cap Upload = {} /\ sched \notin Deleter
  BY ClusterAssumption DEF Proc
<1>3. ASSUME NEW d \in Deleter, Request(d)
      PROVE  Shapes'
  <2>1. PICK m : ps' = [ps EXCEPT ![d] = [ps[d] EXCEPT !.pc = "purge", !.doomed = m]]
    BY <1>3 DEF Request
  <2>2. ps[d] \in Local
    BY <1>2 DEF TypeInv, ProcessesOK
  <2>3. Shape(d, [ps[d] EXCEPT !.pc = "purge", !.doomed = m])
    BY <2>2 DEF Shape, Placing, Local
  <2> QED
    BY <1>1, <1>2, <2>1, <2>3, OneShape
<1>4. CASE Crash
  <2>1. \A p \in Proc : ps'[p] \in {At("idle"), At("failed"), At("done")}
    BY <1>4 DEF Crash
  <2>2. \A p \in Proc : Shape(p, At("idle")) /\ Shape(p, At("failed"))
                          /\ Shape(p, At("done"))
    BY AtShape
  <2> QED
    BY <1>1, <2>1, <2>2 DEF Shapes, Shape, Chunks
<1>5. CASE ps' = ps
  BY <1>1, <1>5 DEF Shapes, Shape, Chunks
<1> QED
  BY <1>1, <1>2, <1>3, <1>4, <1>5, Steps, UploadShape, TransferShape,
     CollectShape, ScheduleShape

-----------------------------------------------------------------------------
(* Recorded locations and their files *)

(* Who is about to record a copy of a hash wants the hash. *)
LEMMA CallWanted ==
  ASSUME TypeInv, Shapes, NEW p \in Proc, pc(p) = "confirm", NEW t \in ps[p].call
  PROVE  t[1] \in Hash /\ t[2] \in Node /\ t = <<t[1], t[2]>> /\ Wanted(t[1])
<1>1. t[1] \in Hash /\ t[2] \in Node /\ t = <<t[1], t[2]>>
  BY Listed DEF TypeInv
<1>2. /\ p \in Upload \cup {sched} /\ t \in ps[p].work
      /\ p \in Upload => t[1] \in Chunks(p)
  BY DEF Shapes, Shape, Placing, pc
<1>3. CASE p \in Upload
  BY <1>1, <1>2, <1>3 DEF Wanted, Placing
<1>4. CASE p = sched
  BY <1>1, <1>2, <1>4 DEF Wanted
<1> QED
  BY <1>1, <1>2, <1>3, <1>4

(* A copy that was stored is still there when its location is recorded, unless
   somebody had it on an older list. *)
LEMMA ConfirmableStep ==
  ASSUME SafeInv, [Next]_vars
  PROVE  Confirmable'
<1> USE DEF SafeInv
<1>1. SUFFICES ASSUME NEW p \in Proc, pc(p)' = "confirm", NEW t \in ps'[p].call
               PROVE  t \in disk' \/ t[1] \in Excused'
  BY DEF Confirmable, pc
<1>2. raced \subseteq raced' /\ struck \subseteq struck'
  BY NoteStep
<1>3. /\ ps[p] \in Local /\ ps \in [Proc -> Local]
  BY DEF TypeInv, ProcessesOK
<1>4. CASE Put(p)
  <2>1. PICK x : /\ ps' = [ps EXCEPT ![p] = [ps[p] EXCEPT !.pc = "confirm",
                                                          !.call = {x}]]
                 /\ disk' = disk \cup {x}
    BY <1>4 DEF Put
  <2>2. ps'[p].call = {x}
    BY <1>3, <2>1 DEF Local
  <2> QED
    BY <1>1, <2>1, <2>2
<1>5. ~Reap(p)
  <2>1. ASSUME Reap(p)
        PROVE  pc(p)' \in {"drop", "untrim"}
    BY <1>3, <2>1 DEF Reap, Local, pc
  <2> QED
    BY <1>1, <2>1
<1>6. CASE ps'[p] = ps[p]
  <2>1. pc(p) = "confirm" /\ t \in ps[p].call
    BY <1>1, <1>6 DEF pc
  <2>2. t \in disk \/ t[1] \in Excused
    BY <2>1 DEF Confirmable
  <2>3. t[1] \in Hash /\ t[2] \in Node /\ t = <<t[1], t[2]>> /\ Wanted(t[1])
    BY <2>1, CallWanted
  <2>4. CASE t[1] \in Excused
    BY <1>2, <2>4 DEF Excused
  <2>5. CASE t \in disk /\ t \notin disk'
    <3>1. CASE \E q \in Proc : pc(q) \in {"reap", "trim"} /\ t \in ps[q].work
      <4>1. Threatened(t[1])
        BY <2>3, <3>1 DEF Threatened, Reaping
      <4>2. t[1] \in raced
        BY <2>3, <4>1 DEF RacedCurrent, Overlap
      <4> QED
        BY <1>2, <4>2 DEF Excused
    <3>2. CASE t[1] \in struck'
      BY <3>2 DEF Excused
    <3>3. CASE ClearNode(t[2])
      <4>1. t[1] \in AtRisk(t[2])
        BY <2>3, <2>5 DEF AtRisk
      <4> QED
        BY <3>3, <4>1 DEF ClearNode, Note, Excused
    <3> QED
      BY <2>5, <3>1, <3>2, <3>3, FileLoss
  <2> QED
    BY <2>2, <2>4, <2>5
<1> QED
  BY <1>1, <1>4, <1>5, <1>6, Arrivals DEF SafeInv

(* A location appears where one is confirmed. *)
LEMMA NewLocation ==
  ASSUME TypeInv, [Next]_vars, NEW t \in locs', t \notin locs
  PROVE  \E p \in Proc : /\ pc(p) = "confirm" /\ t \in ps[p].call
                         /\ disk' = disk
<1>1. CASE Quiet
  <2>1. CASE \E u \in Upload : UploadStep(u)
    BY <2>1 DEF UploadStep, Start, CountCopies, Plan, Abort, Commit, Expire,
                catVars, CreateFile
  <2>2. ASSUME NEW p \in Proc, Confirm(p)
        PROVE  /\ pc(p) = "confirm" /\ t \in ps[p].call /\ disk' = disk
    <3>1. PICK x \in ps[p].call : ConfirmChunk(x[1], x[2])
      BY <2>2 DEF Confirm
    <3>2. x = <<x[1], x[2]>>
      BY Listed DEF TypeInv
    <3> QED
      BY <2>2, <3>1, <3>2 DEF Confirm, ConfirmChunk
  <2>3. CASE \E p \in Upload \cup {sched} : Transfer(p)
    BY <2>2, <2>3 DEF Transfer, Put, PutFails, ConfirmFails, catVars, Proc
  <2>4. CASE \E p \in Proc : Collect(p)
    BY <2>4
    DEF Collect, Purge, PurgeFails, Snapshot, Reap, ReapFails, Drop, Reaped,
        catVars, DeleteFiles, RemoveChunkLocation
  <2>5. CASE Schedule
    BY <2>5 DEF Schedule, Sweep, CountSurplus, Trimmed, CountMissing, Aim, Fetch,
                FetchFails, Rest, catVars
  <2> QED
    BY <1>1, <2>1, <2>3, <2>4, <2>5
    DEF Quiet, Request, Heartbeat, MissHeartbeat, PatchReplication, catVars,
        RegisterNode, Elapse, UpdateFileReplication
<1> QED
  BY <1>1
  DEF Next, Disturbance, ReapReplyLost, RemoveNode, ClearNode, ClearNodeFails,
      FinishRemoval, Crash, DeleteNode, vars, catVars

(* A node that was wiped keeps its mark until its row goes, or the server
   forgets what it was doing. *)
LEMMA Retires ==
  ASSUME [Next]_vars, NEW n \in retiring, n \notin retiring'
  PROVE  FinishRemoval(n) \/ Crash
  BY DEF Next, Quiet, Disturbance, vars, UploadStep, Start, CountCopies, Plan,
         Abort, Commit, Expire, Transfer, Put, PutFails, Confirm, ConfirmFails,
         Request, Collect, Purge, PurgeFails, Snapshot, Reap, ReapFails, Drop,
         Reaped, Schedule, Sweep, CountSurplus, Trimmed, CountMissing, Aim, Fetch,
         FetchFails, Rest, Heartbeat, MissHeartbeat, PatchReplication,
         ReapReplyLost, RemoveNode, ClearNode, ClearNodeFails, FinishRemoval

(* Every step keeps recorded locations backed: a file leaves with its call or
   its node, a location comes where the file was stored, and the overlaps in
   which that fails are recorded before they can do harm. *)
LEMMA BackedStep ==
  ASSUME SafeInv, [Next]_vars
  PROVE  LocationsBacked'
<1> USE DEF SafeInv
<1>1. SUFFICES ASSUME NEW t \in locs', t[1] \notin Excused', t \notin disk',
                      t[2] \notin retiring'
               PROVE  \E p \in Proc : /\ pc(p)' \in {"drop", "untrim"}
                                      /\ t \in ps'[p].call
  BY DEF LocationsBacked, pc
<1>2. raced \subseteq raced' /\ struck \subseteq struck'
  BY NoteStep
<1>3. t[1] \notin Excused
  BY <1>1, <1>2 DEF Excused
<1>4. t \in locs
  <2>1. SUFFICES ASSUME t \notin locs PROVE FALSE
    OBVIOUS
  <2>2. PICK p \in Proc : pc(p) = "confirm" /\ t \in ps[p].call /\ disk' = disk
    BY <2>1, NewLocation
  <2> QED
    BY <1>1, <1>3, <2>2 DEF Confirmable
<1>5. t[1] \in Hash /\ t[2] \in Node /\ t = <<t[1], t[2]>>
  BY <1>4 DEF TypeInv, ClusterTypeOK, TypeOK
<1>6. CASE t \in disk
  <2>1. ~ClearNode(t[2])
    BY <1>1 DEF ClearNode
  <2>2. t[1] \notin struck'
    BY <1>1 DEF Excused
  <2> QED
    BY <1>1, <1>6, <2>1, <2>2, FileLoss
<1>7. CASE t[2] \in retiring
  <2>1. ~Crash
    <3>1. Vacated(t[1])
      BY <1>4, <1>5, <1>7 DEF Vacated
    <3> QED
      BY <1>1, <1>5, <3>1 DEF Crash, Note, Excused
  <2>2. ~FinishRemoval(t[2])
    <3>1. t[2] \in registered
      BY <1>4 DEF LocationsRegistered
    <3> QED
      BY <1>1, <3>1 DEF FinishRemoval, DeleteNode
  <2> QED
    BY <1>1, <1>7, <2>1, <2>2, Retires
<1>8. ASSUME NEW p \in Proc, pc(p) \in {"drop", "untrim"}, t \in ps[p].call
      PROVE  pc(p)' \in {"drop", "untrim"} /\ t \in ps'[p].call
  <2>1. ~Crash
    BY <1>1, <1>5, <1>8 DEF Crash, Note, Excused
  <2>2. ~Drop(p)
    <3>1. \A x \in ps[p].call : x = t
      BY <1>8 DEF Shapes, Shape, pc
    <3> QED
      BY <1>1, <1>5, <3>1 DEF Drop, RemoveChunkLocation
  <2> QED
    BY <1>8, <2>1, <2>2, Departures DEF pc
<1> QED
  BY <1>3, <1>4, <1>6, <1>7, <1>8 DEF LocationsBacked

-----------------------------------------------------------------------------
(* Garbage collection and owners *)

(* A hash gets its first owner from a commit that was counting its chunks. *)
LEMMA NewOwner ==
  ASSUME TypeInv, [Next]_vars, NEW h, ChunkInUse(h)', ~ChunkInUse(h)
  PROVE  /\ Wanted(h) /\ ps' # ps
         /\ \E u \in Upload : Commit(u) /\ h \in Chunks(u)
<1>1. ASSUME NEW u \in Upload, Commit(u)
      PROVE  Wanted(h) /\ ps' # ps /\ h \in Chunks(u)
  <2>1. ps[u] \in Local /\ ps \in [Proc -> Local] /\ u \in Proc
    BY DEF TypeInv, ProcessesOK, Proc
  <2>2. h \in Chunks(u)
    BY <1>1 DEF Commit, CreateFile, ChunkInUse, Owners
  <2>3. pc(u) = "count" /\ ps'[u].pc = "expire"
    BY <1>1, <2>1 DEF Commit, Local
  <2> QED
    BY <2>2, <2>3 DEF Wanted, Placing, pc
<1>2. CASE files' \subseteq files
  BY <1>2 DEF ChunkInUse, Owners
<1>3. CASE \E id, r : UpdateFileReplication(id, r)
  <2>1. PICK id, r : files' = {IF f.id = id THEN [f EXCEPT !.repl = r] ELSE f : f \in files}
    BY <1>3 DEF UpdateFileReplication
  <2>2. PICK g \in files' : h \in g.chunks
    BY DEF ChunkInUse, Owners
  <2>3. PICK f \in files : g = IF f.id = id THEN [f EXCEPT !.repl = r] ELSE f
    BY <2>1, <2>2
  <2>4. f.chunks = g.chunks
    BY <2>3 DEF TypeInv, ClusterTypeOK, TypeOK, FileRow
  <2> QED
    BY <2>2, <2>4 DEF ChunkInUse, Owners
<1>4. CASE Quiet
  <2>1. CASE \E u \in Upload : UploadStep(u)
    BY <1>1, <1>2, <2>1 DEF UploadStep, Start, CountCopies, Plan, Abort, Expire, catVars
  <2>2. CASE \E p \in Upload \cup {sched} : Transfer(p)
    BY <1>2, <2>2
    DEF Transfer, Put, PutFails, Confirm, ConfirmFails, ConfirmChunk, catVars
  <2>3. CASE \E p \in Proc : Collect(p)
    BY <1>2, <2>3
    DEF Collect, Purge, PurgeFails, Snapshot, Reap, ReapFails, Drop, Reaped,
        catVars, DeleteFiles, RemoveChunkLocation
  <2>4. CASE Schedule
    BY <1>2, <2>4 DEF Schedule, Sweep, CountSurplus, Trimmed, CountMissing, Aim,
                      Fetch, FetchFails, Rest, catVars
  <2> QED
    BY <1>2, <1>3, <1>4, <2>1, <2>2, <2>3, <2>4
    DEF Quiet, Request, Heartbeat, MissHeartbeat, PatchReplication, catVars,
        RegisterNode, Elapse
<1> QED
  BY <1>2, <1>4
  DEF Next, Disturbance, ReapReplyLost, RemoveNode, ClearNode, ClearNodeFails,
      FinishRemoval, Crash, DeleteNode, vars, catVars

(* How a process comes to list a hash for garbage collection: it had it on the
   list, or nobody owns the hash when the list is made. *)
LEMMA NewlyListed ==
  ASSUME TypeInv, Shapes, [Next]_vars, NEW p \in Proc, ps'[p] # ps[p],
         pc(p)' \in {"snap", "reap", "drop"}, NEW h \in Hash, Lists(p, h)'
  PROVE  \/ ~ChunkInUse(h)'
         \/ /\ pc(p) \in {"snap", "reap", "drop"} /\ Lists(p, h)
            /\ files' = files
<1>1. /\ ps \in [Proc -> Local] /\ ps[p] \in Local /\ sched \in Proc
      /\ Upload \subseteq Proc /\ Deleter \subseteq Proc /\ Fits(p, ps[p])
      /\ Shape(p, ps[p])
  BY DEF TypeInv, ProcessesOK, Proc, Shapes
<1>2. \A l : At(l).pc = l /\ At(l).unread = {} /\ At(l).work = {}
  BY DEF At
<1>3. AfterReap(p).pc \in {"prune", "idle", "done"}
  BY <1>2 DEF AfterReap
<1>4. \A w : Placed(p, w).pc \in {"send", "fetch", "count"}
  BY <1>1 DEF Placed, Local
<1> USE DEF pc
<1>5. ASSUME NEW u \in Upload, UploadStep(u)
      PROVE  FALSE
  <2>1. u = p
    BY <1>1, <1>5
    DEF UploadStep, Start, CountCopies, Plan, Abort, Commit, Expire
  <2>2. CASE Start(u) \/ CountCopies(u) \/ Plan(u)
    BY <1>1, <2>1, <2>2 DEF Start, CountCopies, Plan, Local
  <2>3. CASE Abort(u) \/ Commit(u)
    BY <1>1, <1>2, <2>1, <2>3 DEF Abort, Commit, Local
  <2>4. CASE Expire(u)
    BY <1>1, <1>2, <2>1, <2>4 DEF Expire, Local
  <2> QED
    BY <1>5, <2>2, <2>3, <2>4 DEF UploadStep
<1>6. ASSUME NEW q \in Proc, Transfer(q)
      PROVE  FALSE
  <2>1. \E r : ps' = [ps EXCEPT ![q] = r]
    BY <1>6 DEF Transfer, Put, PutFails, Confirm, ConfirmFails, PlaceFailed
  <2>2. q = p
    BY <1>1, <2>1
  <2>3. CASE Put(p)
    BY <1>1, <2>3 DEF Put, Local
  <2>4. CASE PutFails(p) \/ Confirm(p) \/ ConfirmFails(p)
    <3>1. PICK w, r : /\ ps' = [ps EXCEPT ![p] = r]
                      /\ r = At("failed") \/ r = Placed(p, w)
      BY <2>4 DEF PutFails, Confirm, ConfirmFails, PlaceFailed
    <3> QED
      BY <1>1, <1>2, <1>4, <3>1
  <2> QED
    BY <1>6, <2>2, <2>3, <2>4 DEF Transfer
<1>7. ASSUME NEW d \in Deleter, Request(d)
      PROVE  FALSE
  BY <1>1, <1>7 DEF Request, Local
<1>8. ASSUME NEW q \in Proc, Collect(q) \/ ReapReplyLost(q)
      PROVE  \/ ~ChunkInUse(h)'
             \/ /\ pc(p) \in {"snap", "reap", "drop"} /\ Lists(p, h)
                /\ files' = files
  <2>1. q = p
    BY <1>1, <1>8
    DEF Collect, ReapReplyLost, Purge, PurgeFails, Snapshot, Reap, ReapFails,
        Drop, Reaped
  <2>2. CASE Purge(p)
    <3>1. PICK left :
            /\ ps' = [ps EXCEPT ![p] = IF left = {} THEN AfterReap(p)
                                       ELSE [At("snap") EXCEPT !.unread = left]]
            /\ \A x \in left : ~ChunkInUse(x)'
      <4> DEFINE ids == {m.id : m \in ps[p].doomed}
      <4>1. DeleteFiles(ids)
        BY <2>2 DEF Purge
      <4>2. PICK read \in SUBSET ps[p].doomed :
              LET left == {x \in UNION {m.chunks : m \in read} :
                             \A f \in files : x \in f.chunks => f.id \in ids}
              IN  ps' = [ps EXCEPT ![p] = IF left = {} THEN AfterReap(p)
                                          ELSE [At("snap") EXCEPT !.unread = left]]
        BY <2>2 DEF Purge
      <4> DEFINE left == {x \in UNION {m.chunks : m \in read} :
                            \A f \in files : x \in f.chunks => f.id \in ids}
      <4>3. \A x \in left : ~ChunkInUse(x)'
        BY <4>1 DEF DeleteFiles, ChunkInUse, Owners
      <4> QED
        BY <4>2, <4>3
    <3>2. ps'[p] = [At("snap") EXCEPT !.unread = left]
      BY <1>1, <1>3, <3>1
    <3>3. ps'[p].unread = left /\ ps'[p].work = {}
      BY <3>2 DEF At
    <3> QED
      BY <3>1, <3>3 DEF Lists
  <2>3. CASE PurgeFails(p) \/ Reaped(p)
    BY <1>1, <1>3, <2>3 DEF PurgeFails, Reaped
  <2>4. CASE Snapshot(p)
    <3>1. PICK x \in ps[p].unread :
            LET at == IF pc(p) = "snap" THEN ChunkLocations(x) ELSE OnlineLocations(x)
                left == ps[p].unread \ {x}
            IN  ps' = [ps EXCEPT ![p].work = @ \cup ({x} \X at), ![p].unread = left,
                                 ![p].pc = IF left # {} THEN @
                                           ELSE IF @ = "snap" THEN "reap" ELSE "trim"]
      BY <2>4 DEF Snapshot
    <3> DEFINE at == IF pc(p) = "snap" THEN ChunkLocations(x) ELSE OnlineLocations(x)
    <3>2. /\ ps'[p].work = ps[p].work \cup ({x} \X at)
          /\ ps'[p].unread = ps[p].unread \ {x}
      BY <1>1, <3>1 DEF Local
    <3>3. ps'[p].pc \in {"snap", "reap"} => ps[p].pc = "snap"
      BY <1>1, <2>4, <3>1 DEF Local, Snapshot
    <3>4. ps'[p].pc # "drop"
      BY <1>1, <2>4, <3>1 DEF Local, Snapshot
    <3> HIDE DEF at
    <3>5. Lists(p, h)
      BY <3>2 DEF Lists
    <3> QED
      BY <2>4, <3>3, <3>4, <3>5 DEF Snapshot, catVars
  <2>5. CASE Reap(p)
    <3>1. /\ ps'[p].work = ps[p].work /\ ps'[p].unread = ps[p].unread
          /\ ps'[p].pc = "drop" => ps[p].pc = "reap"
          /\ ps'[p].pc \in {"drop", "untrim"}
      BY <1>1, <2>5 DEF Reap, Local
    <3> QED
      BY <2>5, <3>1 DEF Reap, Lists, catVars
  <2>6. CASE ReapFails(p) \/ ReapReplyLost(p)
    <3>1. /\ ps'[p].work \subseteq ps[p].work /\ ps'[p].unread = ps[p].unread
          /\ ps'[p].pc = ps[p].pc
      <4>1. PICK t : ps' = [ps EXCEPT ![p] = [ps[p] EXCEPT !.work = @ \ {t}]]
        BY <2>6 DEF ReapFails, ReapReplyLost
      <4> QED
        BY <1>1, <4>1 DEF Local
    <3> QED
      BY <2>6, <3>1 DEF ReapFails, ReapReplyLost, Lists, catVars
  <2>7. CASE Drop(p)
    <3>1. /\ ps'[p].work \subseteq ps[p].work /\ ps'[p].unread = ps[p].unread
          /\ ps'[p].pc = "reap" => ps[p].pc = "drop"
          /\ ps'[p].pc \in {"reap", "trim"}
      BY <1>1, <2>7 DEF Drop, Local
    <3> QED
      BY <2>7, <3>1 DEF Drop, Lists, RemoveChunkLocation
  <2> QED
    BY <1>8, <2>1, <2>2, <2>3, <2>4, <2>5, <2>6, <2>7 DEF Collect
<1>9. CASE Schedule
  <2>1. \E r : ps' = [ps EXCEPT ![sched] = r]
    BY <1>9 DEF Schedule, Sweep, CountSurplus, Trimmed, CountMissing, Tasks, Aim,
                Fetch, FetchFails, Rest
  <2>2. p = sched
    BY <1>1, <2>1
  <2>3. CASE Sweep
    <3>1. ps'[sched].work = OrphanChunks /\ ps'[sched].unread = {}
      BY <1>1, <2>2, <2>3 DEF Sweep, Local, Shape
    <3>2. PICK n \in Node : <<h, n>> \in OrphanChunks
      BY <2>2, <3>1 DEF Lists
    <3>3. ~ChunkInUse(h)
      BY <3>2 DEF OrphanChunks
    <3>4. files' = files
      BY <2>3 DEF Sweep, catVars
    <3> QED
      BY <3>3, <3>4 DEF ChunkInUse, Owners
  <2>4. CASE Fetch \/ FetchFails
    BY <1>1, <2>2, <2>4 DEF Fetch, FetchFails, Local
  <2>5. CASE Aim
    BY <1>1, <2>2, <2>5 DEF Aim, Local
  <2>6. CASE Trimmed \/ Rest
    BY <1>1, <1>2, <2>2, <2>6 DEF Trimmed, Rest
  <2>7. ASSUME NEW m, NEW next \in {"locate", "aim"},
               NEW otherwise \in {"survey", "idle"}, Tasks(m, next, otherwise)
        PROVE  FALSE
    BY <1>1, <2>2, <2>7 DEF Tasks, At
  <2> QED
    BY <1>9, <2>3, <2>4, <2>5, <2>6, <2>7 DEF Schedule, CountSurplus, CountMissing
<1>10. CASE Crash
  BY <1>1, <1>2, <1>10 DEF Crash
<1> QED
  BY <1>1, <1>5, <1>6, <1>7, <1>8, <1>9, <1>10, Steps

(* A listed hash gets no owner unnoticed: the upload that would own it wants
   it while the list threatens it, which is an overlap. *)
LEMMA UnownedStep ==
  ASSUME SafeInv, [Next]_vars
  PROVE  Unowned'
<1> USE DEF SafeInv
<1>1. SUFFICES ASSUME NEW p \in Proc, pc(p)' \in {"snap", "reap", "drop"},
                      NEW h \in Hash, Lists(p, h)', h \notin raced'
               PROVE  ~ChunkInUse(h)'
  BY DEF Unowned
<1>2. h \notin raced
  BY <1>1, NoteStep
<1>3. CASE ps'[p] = ps[p]
  <2>1. pc(p) \in {"snap", "reap", "drop"} /\ Lists(p, h)
    BY <1>1, <1>3 DEF Lists, pc
  <2>2. ~ChunkInUse(h) /\ Threatened(h)
    BY <1>2, <2>1 DEF Unowned, Threatened, Lists, Reaping
  <2>3. ~Wanted(h)
    BY <1>2, <2>2 DEF RacedCurrent, Overlap
  <2> QED
    BY <2>2, <2>3, NewOwner
<1>4. CASE ps'[p] # ps[p]
  <2>1. CASE pc(p) \in {"snap", "reap", "drop"} /\ Lists(p, h) /\ files' = files
    <3>1. ~ChunkInUse(h)
      BY <1>2, <2>1 DEF Unowned
    <3> QED
      BY <2>1, <3>1 DEF ChunkInUse, Owners
  <2> QED
    BY <1>1, <1>4, <2>1, NewlyListed
<1> QED
  BY <1>3, <1>4

-----------------------------------------------------------------------------
(* Copies that are left *)

(* A delete under way is of a pair that was listed. *)
Underway == \A p \in Proc : pc(p) \in {"drop", "untrim"} => ps[p].call \subseteq ps[p].work

(* Its file is gone. *)
Gone == \A p \in Proc : pc(p) \in {"drop", "untrim"} =>
          \A t \in ps[p].call : t \notin disk \/ t[1] \in raced

(* An upload confirms the chunk at hand. *)
AtHand == \A u \in Upload : pc(u) = "confirm" => \A t \in ps[u].call : t[1] = Head(ps[u].todo)

(* A delete by p ends with a statement on the pair of its call. *)
LEMMA ReapIs ==
  ASSUME TypeInv, NEW p \in Proc, Reap(p)
  PROVE  \E t \in Due(p) :
           /\ t \in ps[p].work /\ disk' = disk \ {t}
           /\ ps'[p].call = {t} /\ ps'[p].work = ps[p].work /\ ps'[p].unread = ps[p].unread
           /\ pc(p)' = IF pc(p) = "reap" THEN "drop" ELSE "untrim"
           /\ \A q \in Proc \ {p} : ps'[q] = ps[q]
           /\ UNCHANGED <<catVars, quota, retiring>>
<1>1. ps \in [Proc -> Local] /\ ps[p] \in Local
  BY DEF TypeInv, ProcessesOK
<1>2. PICK t \in Due(p) :
        /\ disk' = disk \ {t}
        /\ ps' = [ps EXCEPT ![p] = [ps[p] EXCEPT !.call = {t},
                           !.pc = IF @ = "reap" THEN "drop" ELSE "untrim"]]
  BY DEF Reap
<1>3. t \in ps[p].work
  BY DEF Due
<1>4. /\ ps'[p].call = {t} /\ ps'[p].work = ps[p].work /\ ps'[p].unread = ps[p].unread
      /\ ps'[p].pc = IF ps[p].pc = "reap" THEN "drop" ELSE "untrim"
      /\ \A q \in Proc \ {p} : ps'[q] = ps[q]
  BY <1>1, <1>2 DEF Local
<1> QED
  BY <1>2, <1>3, <1>4 DEF Reap, pc

LEMMA UnderwayStep ==
  ASSUME TypeInv, Underway, [Next]_vars
  PROVE  Underway'
<1>1. SUFFICES ASSUME NEW p \in Proc, pc(p)' \in {"drop", "untrim"}
               PROVE  ps'[p].call \subseteq ps'[p].work
  BY DEF Underway, pc
<1>2. CASE ps'[p] = ps[p]
  BY <1>1, <1>2 DEF Underway, pc
<1>3. CASE Put(p)
  <2>1. ps \in [Proc -> Local] /\ ps[p] \in Local
    BY DEF TypeInv, ProcessesOK
  <2> QED
    BY <1>1, <1>3, <2>1 DEF Put, Local, pc
<1>4. CASE Reap(p)
  BY <1>4, ReapIs
<1> QED
  BY <1>1, <1>2, <1>3, <1>4, Arrivals

(* A file comes to a node by a put, of a chunk somebody wants. *)
LEMMA FileGain ==
  ASSUME TypeInv, Shapes, [Next]_vars, NEW t \in disk', t \notin disk
  PROVE  t[1] \in Hash /\ t[2] \in Node /\ t = <<t[1], t[2]>> /\ Wanted(t[1])
<1>1. ASSUME NEW p \in Upload \cup {sched}, Put(p) \/ PutFails(p)
      PROVE  t[1] \in Hash /\ t[2] \in Node /\ t = <<t[1], t[2]>> /\ Wanted(t[1])
  <2>1. p \in Proc
    BY <1>1 DEF Proc
  <2>2. t \in Targets(p) /\ pc(p) = "send"
    BY <1>1 DEF Put, PutFails
  <2>3. t \in ps[p].work /\ t[1] = Head(ps[p].todo)
    BY <2>2 DEF Targets
  <2>4. t[1] \in Hash /\ t[2] \in Node /\ t = <<t[1], t[2]>>
    BY <2>1, <2>3, Listed DEF TypeInv
  <2>5. CASE p \in Upload
    <3>1. ps[p].todo \in Seq(Hash) /\ ps[p].todo # <<>>
      BY <2>1, <2>2 DEF TypeInv, ProcessesOK, Fits, Local, pc
    <3>2. Range(ps[p].todo) \subseteq Chunks(p)
      BY <2>1, <2>2, <2>5 DEF Shapes, Shape, Placing, pc
    <3>3. t[1] \in Chunks(p)
      BY <2>3, <3>1, <3>2, HeadAndTail
    <3> QED
      BY <2>2, <2>4, <2>5, <3>3 DEF Wanted, Placing
  <2>6. CASE p = sched
    BY <2>2, <2>3, <2>4, <2>6 DEF Wanted
  <2> QED
    BY <2>4, <2>5, <2>6
<1>2. CASE Quiet
  <2>1. CASE \E u \in Upload : UploadStep(u)
    BY <2>1 DEF UploadStep, Start, CountCopies, Plan, Abort, Commit, Expire
  <2>2. CASE \E p \in Upload \cup {sched} : Transfer(p)
    BY <1>1, <2>2 DEF Transfer, Confirm, ConfirmFails
  <2>3. CASE \E p \in Proc : Collect(p)
    BY <2>3
    DEF Collect, Purge, PurgeFails, Snapshot, Reap, ReapFails, Drop, Reaped
  <2>4. CASE Schedule
    BY <2>4 DEF Schedule, Sweep, CountSurplus, Trimmed, CountMissing, Aim, Fetch,
                FetchFails, Rest
  <2> QED
    BY <1>2, <2>1, <2>2, <2>3, <2>4
    DEF Quiet, Request, Heartbeat, MissHeartbeat, PatchReplication
<1> QED
  BY <1>2
  DEF Next, Disturbance, ReapReplyLost, RemoveNode, ClearNode, ClearNodeFails,
      FinishRemoval, Crash, vars

(* The file stays away until the statement, unless somebody stores it again,
   which is an overlap. *)
LEMMA GoneStep ==
  ASSUME SafeInv, Underway, Gone, [Next]_vars
  PROVE  Gone'
<1> USE DEF SafeInv
<1>1. SUFFICES ASSUME NEW p \in Proc, pc(p)' \in {"drop", "untrim"},
                      NEW t \in ps'[p].call, t \in disk'
               PROVE  t[1] \in raced'
  BY DEF Gone, pc
<1>2. CASE ps'[p] = ps[p]
  <2>1. pc(p) \in {"drop", "untrim"} /\ t \in ps[p].call /\ t \in ps[p].work
    BY <1>1, <1>2 DEF Underway, pc
  <2>2. CASE t[1] \in raced
    BY <2>2, NoteStep
  <2>3. CASE t \notin disk
    <3>1. t[1] \in Hash /\ t[2] \in Node /\ t = <<t[1], t[2]>> /\ Wanted(t[1])
      BY <1>1, <2>3, FileGain
    <3>2. Threatened(t[1])
      BY <2>1, <3>1 DEF Threatened, Reaping
    <3>3. t[1] \in raced
      BY <3>1, <3>2 DEF RacedCurrent, Overlap
    <3> QED
      BY <3>3, NoteStep
  <2> QED
    BY <2>1, <2>2, <2>3 DEF Gone
<1>3. CASE Put(p)
  <2>1. ps \in [Proc -> Local] /\ ps[p] \in Local
    BY DEF TypeInv, ProcessesOK
  <2> QED
    BY <1>1, <1>3, <2>1 DEF Put, Local, pc
<1>4. CASE Reap(p)
  BY <1>1, <1>4, ReapIs
<1> QED
  BY <1>1, <1>2, <1>3, <1>4, Arrivals

(* A put is of the chunk at hand. *)
LEMMA AtHandStep ==
  ASSUME TypeInv, AtHand, [Next]_vars
  PROVE  AtHand'
<1>1. SUFFICES ASSUME NEW u \in Upload, pc(u)' = "confirm", NEW t \in ps'[u].call
               PROVE  t[1] = Head(ps'[u].todo)
  BY DEF AtHand, pc
<1>2. u \in Proc /\ ps \in [Proc -> Local] /\ ps[u] \in Local
  BY DEF TypeInv, ProcessesOK, Proc
<1>3. CASE ps'[u] = ps[u]
  BY <1>1, <1>3 DEF AtHand, pc
<1>4. CASE Put(u)
  <2>1. PICK x \in Targets(u) :
          ps' = [ps EXCEPT ![u] = [ps[u] EXCEPT !.pc = "confirm", !.call = {x}]]
    BY <1>4 DEF Put
  <2>2. ps'[u].call = {x} /\ ps'[u].todo = ps[u].todo
    BY <1>2, <2>1 DEF Local
  <2> QED
    BY <1>1, <2>1, <2>2 DEF Targets
<1>5. CASE Reap(u)
  BY <1>1, <1>2, <1>5, ReapIs
<1> QED
  BY <1>1, <1>2, <1>3, <1>4, <1>5, Arrivals

(* How a location goes: by the statement after a delete, or with its node. *)
LEMMA LocationLoss ==
  ASSUME TypeInv, [Next]_vars, NEW t \in locs, t \notin locs'
  PROVE  \/ \E p \in Proc : pc(p) \in {"drop", "untrim"} /\ t \in ps[p].call
                            /\ disk' = disk
         \/ RemoveNode(t[2]) \/ FinishRemoval(t[2])
<1>1. ASSUME NEW p \in Proc, Drop(p)
      PROVE  pc(p) \in {"drop", "untrim"} /\ t \in ps[p].call /\ disk' = disk
  <2>1. PICK x \in ps[p].call : RemoveChunkLocation(x[1], x[2])
    BY <1>1 DEF Drop
  <2>2. x = <<x[1], x[2]>>
    BY Listed DEF TypeInv
  <2> QED
    BY <1>1, <2>1, <2>2 DEF Drop, RemoveChunkLocation
<1>2. CASE Quiet
  <2>1. CASE \E u \in Upload : UploadStep(u)
    BY <2>1 DEF UploadStep, Start, CountCopies, Plan, Abort, Commit, Expire,
                catVars, CreateFile
  <2>2. CASE \E p \in Upload \cup {sched} : Transfer(p)
    BY <2>2 DEF Transfer, Put, PutFails, Confirm, ConfirmFails, ConfirmChunk, catVars
  <2>3. CASE \E p \in Proc : Collect(p)
    BY <1>1, <2>3
    DEF Collect, Purge, PurgeFails, Snapshot, Reap, ReapFails, Reaped,
        catVars, DeleteFiles
  <2>4. CASE Schedule
    BY <2>4 DEF Schedule, Sweep, CountSurplus, Trimmed, CountMissing, Aim, Fetch,
                FetchFails, Rest, catVars
  <2> QED
    BY <1>2, <2>1, <2>2, <2>3, <2>4
    DEF Quiet, Request, Heartbeat, MissHeartbeat, PatchReplication, catVars,
        RegisterNode, Elapse, UpdateFileReplication
<1>3. CASE \E n \in Node : RemoveNode(n)
  BY <1>3 DEF RemoveNode, DeleteNode
<1>4. CASE \E n \in Node : FinishRemoval(n)
  BY <1>4 DEF FinishRemoval, DeleteNode, catVars
<1> QED
  BY <1>2, <1>3, <1>4
  DEF Next, Disturbance, ReapReplyLost, ClearNode, ClearNodeFails, Crash, vars, catVars

(* An operator who takes a node away leaves a copy of a hash that is not
   excused, and nobody is at work on it. *)
LEMMA OperatorSpares ==
  ASSUME TypeInv, NEW h \in Hash, h \notin struck', NEW n \in Node, n \in Good(h),
         RemoveNode(n) \/ ClearNode(n) \/ FinishRemoval(n)
  PROVE  ~Wanted(h) /\ ~Threatened(h) /\ Good(h)' # {}
<1>1. h \notin AtRisk(n)
  BY DEF RemoveNode, ClearNode, FinishRemoval, Note
<1>2. ~Wanted(h) /\ ~Threatened(h) /\ ~(Good(h) \subseteq {n})
  BY <1>1 DEF AtRisk, Good
<1>3. PICK m \in Good(h) : m # n
  BY <1>2
<1>4. <<h, m>> \in locs' /\ <<h, m>> \in disk'
  BY <1>3 DEF Good, RemoveNode, ClearNode, FinishRemoval, DeleteNode, catVars
<1> QED
  BY <1>2, <1>3, <1>4 DEF Good

(* How a hash that is not excused loses a usable copy: to a delete of p, which
   takes that one, or to an operator. *)
LEMMA GoodLoss ==
  ASSUME SafeInv, Underway, Gone, [Next]_vars,
         NEW h \in Hash, h \notin Excused', ~(Good(h) \subseteq Good(h)')
  PROVE  \/ \E p \in Proc, n \in Node :
              /\ Reap(p) /\ <<h, n>> \in Due(p) /\ Good(h)' = Good(h) \ {n}
         \/ ~Wanted(h) /\ ~Threatened(h) /\ Good(h)' # {}
<1> USE DEF SafeInv
<1>1. PICK n \in Good(h) : n \notin Good(h)'
  OBVIOUS
<1>2. n \in Node /\ <<h, n>> \in locs /\ <<h, n>> \in disk
  BY DEF Good
<1>3. h \notin raced' /\ h \notin struck' /\ h \notin raced
  BY NoteStep DEF Excused
<1>4. ASSUME RemoveNode(n) \/ ClearNode(n) \/ FinishRemoval(n)
      PROVE  ~Wanted(h) /\ ~Threatened(h) /\ Good(h)' # {}
  BY <1>2, <1>3, <1>4, OperatorSpares
<1>5. ASSUME NEW p \in Proc, Reap(p), pc(p) \in {"reap", "trim"}, ps'[p].call = {<<h, n>>}
      PROVE  <<h, n>> \in Due(p) /\ Good(h)' = Good(h) \ {n}
  <2>1. PICK t \in Due(p) : disk' = disk \ {t} /\ ps'[p].call = {t} /\ UNCHANGED catVars
    BY <1>5, ReapIs
  <2>2. t = <<h, n>>
    BY <1>5, <2>1
  <2>3. Good(h)' = {m \in Node : <<h, m>> \in locs \cap (disk \ {<<h, n>>})}
    BY <2>1, <2>2 DEF Good, catVars
  <2> QED
    BY <2>1, <2>2, <2>3 DEF Good
<1>6. CASE <<h, n>> \notin disk'
  <2>1. CASE \E q \in Proc : /\ pc(q) \in {"reap", "trim"} /\ <<h, n>> \in ps[q].work
                             /\ pc(q)' \in {"drop", "untrim"} /\ ps'[q].call = {<<h, n>>}
    <3>1. PICK q \in Proc : /\ pc(q) \in {"reap", "trim"}
                            /\ pc(q)' \in {"drop", "untrim"} /\ ps'[q].call = {<<h, n>>}
      BY <2>1
    <3>2. ps'[q] # ps[q] /\ ~Put(q)
      BY <3>1 DEF Put, pc
    <3>3. Reap(q)
      BY <3>1, <3>2, Arrivals
    <3> QED
      BY <1>2, <1>5, <3>1, <3>3
  <2>2. <<h, n>>[1] = h /\ <<h, n>>[2] = n
    OBVIOUS
  <2>3. \/ \E q \in Proc : /\ pc(q) \in {"reap", "trim"} /\ <<h, n>> \in ps[q].work
                           /\ pc(q)' \in {"drop", "untrim"} /\ ps'[q].call = {<<h, n>>}
        \/ ClearNode(n)
    BY <1>2, <1>3, <1>6, <2>2, FileLoss
  <2> QED
    BY <1>4, <2>1, <2>3
<1>7. CASE <<h, n>> \notin locs'
  <2>1. <<h, n>>[1] = h /\ <<h, n>>[2] = n
    OBVIOUS
  <2>2. \/ \E p \in Proc : pc(p) \in {"drop", "untrim"} /\ <<h, n>> \in ps[p].call
        \/ RemoveNode(n) \/ FinishRemoval(n)
    BY <1>2, <1>7, <2>1, LocationLoss
  <2>3. ~\E p \in Proc : pc(p) \in {"drop", "untrim"} /\ <<h, n>> \in ps[p].call
    BY <1>2, <1>3, <2>1 DEF Gone
  <2> QED
    BY <1>4, <2>2, <2>3
<1> QED
  BY <1>1, <1>2, <1>6, <1>7 DEF Good

(* What somebody wants is not taken away. *)
LEMMA WantedStays ==
  ASSUME SafeInv, Underway, Gone, [Next]_vars,
         NEW h \in Hash, h \notin Excused', Wanted(h)
  PROVE  Good(h) \subseteq Good(h)'
<1>1. SUFFICES ASSUME ~(Good(h) \subseteq Good(h)') PROVE FALSE
  OBVIOUS
<1>2. PICK p \in Proc, n \in Node : Reap(p) /\ <<h, n>> \in Due(p)
  BY <1>1, GoodLoss
<1>3. Threatened(h)
  BY <1>2 DEF Reap, Due, Threatened, Reaping
<1>4. h \in raced
  BY <1>3 DEF SafeInv, RacedCurrent, Overlap
<1> QED
  BY <1>4, NoteStep DEF SafeInv, Excused

(* The chunks an upload has dealt with have the copies it asks for. *)
Sent == \A u \in Upload : pc(u) \in Placing =>
          \A h \in Chunks(u) \ Range(ps[u].todo) :
            h \in Excused \/ Cardinality(Good(h)) >= req[u].repl

(* The nodes on which an upload has still to put h. *)
Planned(u, h) == {n \in Node : <<h, n>> \in ps[u].work}

(* The chunk at hand will have them, with the copies the plan is to add and with
   the planned ones, which are no copies yet. *)
Suffices ==
  \A u \in Upload : pc(u) \in {"plan", "send", "confirm"} =>
    \A h \in Hash : h = Head(ps[u].todo) /\ h \notin Excused =>
      /\ pc(u) = "plan" => Cardinality(Good(h)) + ps[u].need >= req[u].repl
      /\ pc(u) # "plan" => Cardinality(Good(h) \cup Planned(u, h)) >= req[u].repl

(* How an upload moves while it places chunks. *)
LEMMA UploadMoves ==
  ASSUME TypeInv, Shapes, [Next]_vars, NEW u \in Upload, pc(u)' \in Placing, ps'[u] # ps[u]
  PROVE  \/ Start(u) /\ ps'[u].todo = req[u].chunks /\ pc(u)' = "count"
         \/ CountCopies(u) \/ Plan(u) \/ Put(u) \/ Confirm(u)
<1>1. /\ ps \in [Proc -> Local] /\ ps[u] \in Local /\ u \in Proc /\ sched \in Proc
      /\ u # sched /\ u \notin Deleter /\ Deleter \subseteq Proc
  BY ClusterAssumption DEF TypeInv, ProcessesOK, Proc
<1>2. \A l : At(l).pc = l
  BY DEF At
<1> USE DEF pc
<1>3. CASE UploadStep(u)
  <2>1. CASE Start(u)
    BY <1>1, <2>1 DEF Start, Local
  <2>2. CASE Abort(u) \/ Commit(u)
    BY <1>1, <1>2, <2>2 DEF Abort, Commit, Local, Placing
  <2>3. CASE Expire(u)
    BY <1>1, <1>2, <2>3 DEF Expire, Local, Placing
  <2> QED
    BY <1>3, <2>1, <2>2, <2>3 DEF UploadStep
<1>4. ASSUME NEW v \in Upload, v # u, UploadStep(v)
      PROVE  FALSE
  BY <1>1, <1>4 DEF UploadStep, Start, CountCopies, Plan, Abort, Commit, Expire
<1>5. ASSUME NEW p \in Upload \cup {sched}, Transfer(p)
      PROVE  p = u
  BY <1>1, <1>5 DEF Transfer, Put, PutFails, Confirm, ConfirmFails, PlaceFailed
<1>6. CASE Transfer(u)
  <2>1. CASE Put(u)
    BY <1>1, <2>1 DEF Put, Local, Placing
  <2>2. CASE PutFails(u) \/ ConfirmFails(u)
    BY <1>1, <1>2, <2>2 DEF PutFails, ConfirmFails, PlaceFailed, Placing
  <2> QED
    BY <1>6, <2>1, <2>2 DEF Transfer
<1>7. ASSUME NEW d \in Deleter, Request(d)
      PROVE  FALSE
  BY <1>1, <1>7 DEF Request
<1>8. ASSUME NEW p \in Proc, Collect(p) \/ ReapReplyLost(p)
      PROVE  FALSE
  <2>1. p = u
    BY <1>1, <1>8
    DEF Collect, ReapReplyLost, Purge, PurgeFails, Snapshot, Reap, ReapFails,
        Drop, Reaped
  <2>2. pc(u) \notin Placing
    BY <1>8, <2>1
    DEF Collect, ReapReplyLost, Purge, PurgeFails, Snapshot, Reap, ReapFails,
        Drop, Reaped, Placing
  <2>3. AfterReap(u).pc = "done"
    BY <1>1, <1>2 DEF AfterReap
  <2>4. CASE Purge(u)
    <3>1. PICK left : ps' = [ps EXCEPT ![u] =
                               IF left = {} THEN AfterReap(u)
                               ELSE [At("snap") EXCEPT !.unread = left]]
      BY <2>4 DEF Purge
    <3>2. [At("snap") EXCEPT !.unread = left].pc = "snap"
      BY DEF At
    <3> QED
      BY <1>1, <2>3, <3>1, <3>2 DEF Placing
  <2>5. CASE PurgeFails(u) \/ Reaped(u)
    BY <1>1, <2>3, <2>5 DEF PurgeFails, Reaped, Placing
  <2>6. CASE Snapshot(u)
    BY <1>1, <2>6 DEF Snapshot, Local, Placing
  <2>7. CASE Reap(u)
    BY <1>1, <2>7, ReapIs DEF Placing
  <2>8. CASE ReapFails(u) \/ ReapReplyLost(u)
    <3>1. PICK t : ps' = [ps EXCEPT ![u] = [ps[u] EXCEPT !.work = @ \ {t}]]
      BY <2>8 DEF ReapFails, ReapReplyLost
    <3> QED
      BY <1>1, <2>2, <3>1 DEF Local
  <2>9. CASE Drop(u)
    BY <1>1, <2>9 DEF Drop, Local, Placing
  <2> QED
    BY <1>8, <2>1, <2>4, <2>5, <2>6, <2>7, <2>8, <2>9 DEF Collect
<1>9. CASE Schedule
  <2>1. \E r : ps' = [ps EXCEPT ![sched] = r]
    BY <1>9 DEF Schedule, Sweep, CountSurplus, Trimmed, CountMissing, Tasks, Aim,
                Fetch, FetchFails, Rest
  <2> QED
    BY <1>1, <2>1
<1>10. CASE Crash
  BY <1>1, <1>2, <1>10 DEF Crash, Placing
<1> QED
  BY <1>3, <1>4, <1>5, <1>6, <1>7, <1>8, <1>9, <1>10, Steps DEF Proc

(* A copy that was counted is usable while somebody wants the hash. *)
LEMMA CountedIsGood ==
  ASSUME SafeInv, Underway, NEW h \in Hash, h \notin Excused, Wanted(h),
         NEW n \in ChunkLocations(h)
  PROVE  n \in Good(h)
<1> USE DEF SafeInv
<1>1. n \in Node /\ <<h, n>> \in locs
  BY DEF ChunkLocations, TypeInv, ClusterTypeOK, TypeOK
<1>2. h \notin raced /\ ~Threatened(h) /\ ~Vacated(h)
  BY DEF Excused, RacedCurrent, Overlap
<1>3. n \notin retiring
  BY <1>1, <1>2 DEF Vacated
<1>4. ASSUME NEW p \in Proc, pc(p) \in {"drop", "untrim"}, <<h, n>> \in ps[p].call
      PROVE  FALSE
  BY <1>1, <1>2, <1>4 DEF Underway, Threatened, Reaping
<1>5. <<h, n>>[1] = h /\ <<h, n>>[2] = n
  OBVIOUS
<1>6. <<h, n>> \in disk
  BY <1>1, <1>3, <1>4, <1>5 DEF LocationsBacked
<1> QED
  BY <1>1, <1>6 DEF Good

(* A chunk that is left is the one at hand or one of the rest. *)
LEMMA HeadOrTail ==
  ASSUME NEW s \in Seq(Hash), NEW x \in Range(s)
  PROVE  x = Head(s) \/ x \in Range(Tail(s))
<1>1. PICK i \in 1 .. Len(s) : x = s[i]
  BY DEF Range
<1>2. s # <<>>
  BY <1>1
<1>3. CASE i # 1
  <2>1. i - 1 \in 1 .. Len(Tail(s)) /\ Tail(s)[i - 1] = x
    BY <1>1, <1>2, <1>3
  <2>2. Tail(s) \in Seq(Hash)
    BY <1>2
  <2>3. DOMAIN Tail(s) = 1 .. Len(Tail(s))
    BY <2>2
  <2> QED
    BY <2>1, <2>3 DEF Range
<1> QED
  BY <1>1, <1>2, <1>3

(* The loop over the chunks at one chunk: what CountCopies does. *)
LEMMA CountIs ==
  ASSUME TypeInv, NEW u \in Upload, CountCopies(u)
  PROVE  LET missing == req[u].repl - Cardinality(OnlineLocations(Head(ps[u].todo)))
         IN  /\ pc(u) = "count" /\ ps[u].todo # <<>> /\ missing \in Int
             /\ \/ /\ missing > 0 /\ pc(u)' = "plan" /\ ps'[u].need = missing
                   /\ ps'[u].todo = ps[u].todo
                \/ missing <= 0 /\ pc(u)' = "count" /\ ps'[u].todo = Tail(ps[u].todo)
<1> DEFINE missing == req[u].repl - Cardinality(OnlineLocations(Head(ps[u].todo)))
<1>1. ps \in [Proc -> Local] /\ ps[u] \in Local /\ u \in Proc
  BY DEF TypeInv, ProcessesOK, Proc
<1>2. missing \in Int
  <2>1. req[u].repl \in Nat
    BY Asked, CatalogAssumption DEF TypeInv
  <2>2. Cardinality(OnlineLocations(Head(ps[u].todo))) \in Nat
    BY CopiesAreNat DEF TypeInv, ClusterTypeOK
  <2> QED
    BY <2>1, <2>2
<1>3. /\ ps[u].pc = "count" /\ ps[u].todo # <<>>
      /\ ps' = IF missing > 0
               THEN [ps EXCEPT ![u] = [ps[u] EXCEPT !.pc = "plan", !.need = missing]]
               ELSE [ps EXCEPT ![u] = [ps[u] EXCEPT !.todo = Tail(@)]]
  BY DEF CountCopies, pc
<1> HIDE DEF missing
<1>4. CASE missing > 0
  <2>1. ps'[u].pc = "plan" /\ ps'[u].need = missing /\ ps'[u].todo = ps[u].todo
    BY <1>1, <1>3, <1>4 DEF Local
  <2> QED
    BY <1>2, <1>3, <1>4, <2>1 DEF pc, missing
<1>5. CASE ~(missing > 0)
  <2>1. ps'[u].pc = "count" /\ ps'[u].todo = Tail(ps[u].todo)
    BY <1>1, <1>3, <1>5 DEF Local
  <2>2. missing <= 0
    BY <1>2, <1>5
  <2> QED
    BY <1>2, <1>3, <2>1, <2>2 DEF pc, missing
<1> QED
  BY <1>4, <1>5

(* What a confirmation does for the chunk at hand. *)
LEMMA ConfirmIs ==
  ASSUME SafeInv, AtHand, NEW u \in Upload, Confirm(u)
  PROVE  \E n \in Node, h \in Hash :
           /\ h = Head(ps[u].todo) /\ n \in Planned(u, h)
           /\ h \notin Excused => n \in Good(h)'
           /\ ps'[u].work = ps[u].work \ {<<h, n>>}
           /\ \/ pc(u)' = "send" /\ ps'[u].todo = ps[u].todo
              \/ /\ pc(u)' = "count" /\ ps'[u].todo = Tail(ps[u].todo)
                 /\ Planned(u, h) \subseteq {n}
<1> USE DEF SafeInv
<1>1. /\ ps \in [Proc -> Local] /\ ps[u] \in Local /\ u \in Proc /\ u # sched
  BY ClusterAssumption DEF TypeInv, ProcessesOK, Proc
<1>2. PICK t \in ps[u].call : /\ ConfirmChunk(t[1], t[2])
                              /\ ps' = [ps EXCEPT ![u] = Placed(u, ps[u].work \ {t})]
  BY DEF Confirm
<1>3. pc(u) = "confirm" /\ disk' = disk
  BY DEF Confirm
<1>4. t[1] = Head(ps[u].todo) /\ t[1] \in Hash /\ t[2] \in Node /\ t = <<t[1], t[2]>>
  BY <1>1, <1>3, Listed DEF AtHand, TypeInv
<1>5. t \in ps[u].work
  BY <1>1, <1>3 DEF Shapes, Shape, pc
<1>6. ps'[u] = Placed(u, ps[u].work \ {t})
  BY <1>1, <1>2
<1>7. /\ ps'[u].work = ps[u].work \ {t}
      /\ \/ ps'[u].pc = "send" /\ ps'[u].todo = ps[u].todo
         \/ /\ ps'[u].pc = "count" /\ ps'[u].todo = Tail(ps[u].todo)
            /\ ~\E x \in ps[u].work \ {t} : x[1] = Head(ps[u].todo)
  BY <1>1, <1>6 DEF Placed, Local
<1>8. t \in disk \/ t[1] \in Excused
  BY <1>1, <1>3 DEF Confirmable
<1>9. t \in locs'
  BY <1>2, <1>4 DEF ConfirmChunk
<1>10. t[1] \notin Excused => t[2] \in Good(t[1])'
  BY <1>3, <1>4, <1>8, <1>9 DEF Good
<1>11. t[2] \in Planned(u, t[1])
  BY <1>4, <1>5 DEF Planned
<1>12. CASE pc(u)' = "send"
  BY <1>4, <1>7, <1>10, <1>11, <1>12 DEF pc
<1>13. CASE pc(u)' = "count"
  <2>1. Planned(u, t[1]) \subseteq {t[2]}
    <3>1. SUFFICES ASSUME NEW m \in Planned(u, t[1]), m # t[2] PROVE FALSE
      OBVIOUS
    <3>2. <<t[1], m>> \in ps[u].work \ {t} /\ <<t[1], m>>[1] = Head(ps[u].todo)
      BY <1>4, <3>1 DEF Planned
    <3> QED
      BY <1>7, <1>13, <3>2 DEF pc
  <2> QED
    BY <1>4, <1>7, <1>10, <1>11, <1>13, <2>1 DEF pc
<1> QED
  BY <1>7, <1>12, <1>13 DEF pc

(* An upload goes from placing its chunks to the retention by Commit. *)
LEMMA CommitEnds ==
  ASSUME TypeInv, [Next]_vars, NEW u \in Upload, pc(u) = "count", pc(u)' = "expire"
  PROVE  Commit(u)
<1>1. /\ ps \in [Proc -> Local] /\ ps[u] \in Local /\ u \in Proc /\ sched \in Proc
      /\ u # sched /\ u \notin Deleter /\ Deleter \subseteq Proc
  BY ClusterAssumption DEF TypeInv, ProcessesOK, Proc
<1>2. \A l : At(l).pc = l
  BY DEF At
<1> USE DEF pc
<1>3. ASSUME NEW v \in Upload, UploadStep(v)
      PROVE  Commit(u)
  <2>1. CASE v # u
    BY <1>1, <1>3, <2>1 DEF UploadStep, Start, CountCopies, Plan, Abort, Commit, Expire
  <2>2. CASE v = u
    <3>1. ~CountCopies(u)
      <4>1. SUFFICES ASSUME CountCopies(u) PROVE FALSE
        OBVIOUS
      <4>2. pc(u)' \in {"plan", "count"}
        BY <4>1, CountIs
      <4> QED
        BY <4>2
    <3>2. ~Start(u) /\ ~Plan(u) /\ ~Expire(u)
      BY DEF Start, Plan, PlanShort, Expire
    <3>3. ~Abort(u)
      BY <1>1, <1>2 DEF Abort
    <3> QED
      BY <1>3, <2>2, <3>1, <3>2, <3>3 DEF UploadStep
  <2> QED
    BY <2>1, <2>2
<1>4. ASSUME NEW p \in Upload \cup {sched}, Transfer(p)
      PROVE  FALSE
  BY <1>1, <1>4 DEF Transfer, Put, PutFails, Confirm, ConfirmFails, PlaceFailed
<1>5. ASSUME NEW d \in Deleter, Request(d)
      PROVE  FALSE
  BY <1>1, <1>5 DEF Request
<1>6. ASSUME NEW p \in Proc, Collect(p) \/ ReapReplyLost(p)
      PROVE  FALSE
  <2>1. p = u
    BY <1>1, <1>6
    DEF Collect, ReapReplyLost, Purge, PurgeFails, Snapshot, Reap, ReapFails,
        Drop, Reaped
  <2> QED
    BY <1>6, <2>1
    DEF Collect, ReapReplyLost, Purge, PurgeFails, Snapshot, Reap, ReapFails,
        Drop, Reaped
<1>7. CASE Schedule
  <2>1. \E r : ps' = [ps EXCEPT ![sched] = r]
    BY <1>7 DEF Schedule, Sweep, CountSurplus, Trimmed, CountMissing, Tasks, Aim,
                Fetch, FetchFails, Rest
  <2> QED
    BY <1>1, <2>1
<1>8. CASE Crash
  BY <1>1, <1>2, <1>8 DEF Crash
<1> QED
  BY <1>3, <1>4, <1>5, <1>6, <1>7, <1>8, Steps DEF Proc

(* A greater set of nodes has no fewer members. *)
LEMMA MoreNodes ==
  ASSUME NEW A \in SUBSET Node, NEW B \in SUBSET Node, A \subseteq B
  PROVE  /\ Cardinality(A) \in Nat /\ Cardinality(B) \in Nat
         /\ Cardinality(A) <= Cardinality(B)
<1>1. IsFiniteSet(B) /\ IsFiniteSet(A)
  BY CatalogAssumption, FS_Subset
<1> QED
  BY <1>1, FS_Subset, FS_CardinalityType

(* What an upload has counted stays, what it plans is no copy yet, and what it
   confirms is one. *)
LEMMA SufficesStep ==
  ASSUME SafeInv, Underway, Gone, AtHand, Suffices, [Next]_vars
  PROVE  Suffices'
<1> USE DEF SafeInv
<1>1. SUFFICES ASSUME NEW u \in Upload, pc(u)' \in {"plan", "send", "confirm"},
                      NEW h \in Hash, h = Head(ps'[u].todo), h \notin Excused'
               PROVE  /\ pc(u)' = "plan" =>
                           Cardinality(Good(h)') + ps'[u].need >= req[u].repl
                      /\ pc(u)' # "plan" =>
                           Cardinality(Good(h)' \cup Planned(u, h)') >= req[u].repl
  BY SetsStep DEF Suffices, pc
<1>2. /\ ps \in [Proc -> Local] /\ ps[u] \in Local /\ u \in Proc
      /\ req[u].repl \in Nat /\ ps[u].need \in Nat
  BY Asked, CatalogAssumption DEF TypeInv, ProcessesOK, Proc, Local
<1>3. h \notin Excused
  BY <1>1, NoteStep DEF Excused
<1>4. \A x : Good(x) \subseteq Node /\ Good(x)' \subseteq Node /\ Planned(u, x) \subseteq Node
             /\ Planned(u, x)' \subseteq Node
  BY DEF Good, Planned
<1>5. ASSUME pc(u) \in Placing, ps[u].todo # <<>>, h = Head(ps[u].todo)
      PROVE  Wanted(h) /\ Good(h) \subseteq Good(h)'
  <2>1. ps[u].todo \in Seq(Hash) /\ Range(ps[u].todo) \subseteq Chunks(u)
    BY <1>2, <1>5 DEF Local, Shapes, Shape, pc
  <2>2. h \in Chunks(u)
    BY <1>5, <2>1, HeadAndTail
  <2>3. Wanted(h)
    BY <1>5, <2>2 DEF Wanted
  <2> QED
    BY <1>1, <2>3, WantedStays
<1>6. ASSUME pc(u) \in {"plan", "send", "confirm"}
      PROVE  ps[u].todo # <<>> /\ pc(u) \in Placing
  BY <1>2, <1>6 DEF TypeInv, ProcessesOK, Fits, Placing, pc
<1>7. CASE ps'[u] = ps[u]
  <2>1. pc(u) \in {"plan", "send", "confirm"} /\ h = Head(ps[u].todo) /\ pc(u)' = pc(u)
    BY <1>1, <1>7 DEF pc
  <2>2. Good(h) \subseteq Good(h)'
    BY <1>5, <1>6, <2>1
  <2>3. Planned(u, h)' = Planned(u, h) /\ ps'[u].need = ps[u].need
    BY <1>7 DEF Planned
  <2>4. Cardinality(Good(h)) <= Cardinality(Good(h)')
        /\ Cardinality(Good(h)) \in Nat /\ Cardinality(Good(h)') \in Nat
    BY <1>4, <2>2, MoreNodes
  <2>5. /\ Cardinality(Good(h) \cup Planned(u, h)) \in Nat
        /\ Cardinality(Good(h)' \cup Planned(u, h)) \in Nat
        /\ Cardinality(Good(h) \cup Planned(u, h))
             <= Cardinality(Good(h)' \cup Planned(u, h))
    <3>1. Good(h) \cup Planned(u, h) \subseteq Good(h)' \cup Planned(u, h)
      BY <2>2
    <3>2. Good(h) \cup Planned(u, h) \in SUBSET Node /\ Good(h)' \cup Planned(u, h) \in SUBSET Node
      BY <1>4
    <3> QED
      BY <3>1, <3>2, MoreNodes
  <2>6. /\ pc(u) = "plan" => Cardinality(Good(h)) + ps[u].need >= req[u].repl
        /\ pc(u) # "plan" => Cardinality(Good(h) \cup Planned(u, h)) >= req[u].repl
    BY <1>3, <2>1 DEF Suffices
  <2>7. CASE pc(u) = "plan"
    BY <1>2, <2>1, <2>3, <2>4, <2>6, <2>7
  <2>8. CASE pc(u) # "plan"
    BY <1>2, <2>1, <2>3, <2>5, <2>6, <2>8
  <2> QED
    BY <2>7, <2>8
<1>8. CASE CountCopies(u)
  <2> DEFINE online == OnlineLocations(Head(ps[u].todo))
             missing == req[u].repl - Cardinality(online)
  <2>1. /\ pc(u) = "count" /\ ps[u].todo # <<>> /\ pc(u)' = "plan"
        /\ ps'[u].need = missing /\ ps'[u].todo = ps[u].todo
    BY <1>1, <1>8, CountIs DEF TypeInv
  <2>2. h = Head(ps[u].todo) /\ Wanted(h) /\ Good(h) \subseteq Good(h)'
    BY <1>1, <1>5, <2>1 DEF Placing
  <2>3. online \subseteq Good(h)'
    BY <1>3, <2>2, CountedIsGood DEF OnlineLocations
  <2> HIDE DEF online
  <2>4. Cardinality(online) <= Cardinality(Good(h)')
        /\ Cardinality(online) \in Nat /\ Cardinality(Good(h)') \in Nat
    BY <1>4, <2>3, MoreNodes
  <2> QED
    BY <1>2, <2>1, <2>4
<1>9. CASE Plan(u)
  <2>1. PICK targets \in SUBSET Plannable(Head(ps[u].todo)) :
          /\ Cardinality(targets) = ps[u].need
          /\ ps' = [ps EXCEPT ![u] = [ps[u] EXCEPT !.pc = "send", !.need = 0,
                                        !.work = {Head(ps[u].todo)} \X targets]]
    BY <1>9 DEF Plan
  <2>2. pc(u) = "plan" /\ UNCHANGED <<catVars, disk>>
    BY <1>9 DEF Plan
  <2>3. ps'[u].pc = "send" /\ ps'[u].todo = ps[u].todo
        /\ ps'[u].work = {Head(ps[u].todo)} \X targets
    BY <1>2, <2>1 DEF Local
  <2>4. h = Head(ps[u].todo)
    BY <1>1, <2>3
  <2>5. targets \subseteq Node /\ targets \cap Good(h) = {}
    BY <2>1, <2>4 DEF Plannable, Good, TypeInv, ClusterTypeOK, TypeOK
  <2>6. Planned(u, h)' = targets
    BY <2>3, <2>4, <2>5 DEF Planned
  <2>7. Good(h)' = Good(h)
    BY <2>2 DEF Good, catVars
  <2>8. Cardinality(Good(h)) + ps[u].need >= req[u].repl
    BY <1>3, <2>2, <2>4 DEF Suffices
  <2>9. Cardinality(Good(h) \cup targets) = Cardinality(Good(h)) + Cardinality(targets)
    <3>1. IsFiniteSet(Good(h)) /\ IsFiniteSet(targets)
      BY <1>4, <2>5, CatalogAssumption, FS_Subset
    <3>2. Good(h) \cap targets = {}
      BY <2>5
    <3>3. Cardinality(Good(h) \cup targets)
            = Cardinality(Good(h)) + Cardinality(targets) - Cardinality({})
      BY <3>1, <3>2, FS_Union
    <3>4. Cardinality(Good(h)) \in Nat /\ Cardinality(targets) \in Nat /\ Cardinality({}) = 0
      BY <3>1, FS_EmptySet, FS_CardinalityType
    <3> QED
      BY <3>3, <3>4
  <2> QED
    BY <1>2, <2>1, <2>3, <2>6, <2>7, <2>8, <2>9 DEF pc
<1>10. CASE Put(u)
  <2>1. pc(u) = "send"
    BY <1>10 DEF Put
  <2>2. PICK t : ps' = [ps EXCEPT ![u] = [ps[u] EXCEPT !.pc = "confirm", !.call = {t}]]
    BY <1>10 DEF Put
  <2>3. ps'[u].pc = "confirm" /\ ps'[u].todo = ps[u].todo /\ ps'[u].work = ps[u].work
    BY <1>2, <2>2 DEF Local
  <2>4. h = Head(ps[u].todo) /\ Planned(u, h)' = Planned(u, h)
    BY <1>1, <2>3 DEF Planned
  <2>5. Good(h) \subseteq Good(h)'
    BY <1>5, <1>6, <2>1, <2>4
  <2>6. Cardinality(Good(h) \cup Planned(u, h)) >= req[u].repl
    BY <1>3, <2>1, <2>4 DEF Suffices
  <2>7. /\ Cardinality(Good(h) \cup Planned(u, h)) \in Nat
        /\ Cardinality(Good(h)' \cup Planned(u, h)) \in Nat
        /\ Cardinality(Good(h) \cup Planned(u, h))
             <= Cardinality(Good(h)' \cup Planned(u, h))
    <3>1. Good(h) \cup Planned(u, h) \subseteq Good(h)' \cup Planned(u, h)
      BY <2>5
    <3>2. Good(h) \cup Planned(u, h) \in SUBSET Node /\ Good(h)' \cup Planned(u, h) \in SUBSET Node
      BY <1>4
    <3> QED
      BY <3>1, <3>2, MoreNodes
  <2> QED
    BY <1>2, <2>3, <2>4, <2>6, <2>7, SMTT(30) DEF pc
<1>11. CASE Confirm(u)
  <2>1. PICK n \in Node, x \in Hash :
          /\ x = Head(ps[u].todo) /\ n \in Planned(u, x)
          /\ x \notin Excused => n \in Good(x)'
          /\ ps'[u].work = ps[u].work \ {<<x, n>>}
          /\ pc(u)' = "send" /\ ps'[u].todo = ps[u].todo
    BY <1>1, <1>11, ConfirmIs
  <2>2. pc(u) = "confirm" /\ h = x
    BY <1>1, <1>11, <2>1 DEF Confirm
  <2>3. Good(h) \subseteq Good(h)'
    BY <1>5, <1>6, <2>1, <2>2
  <2>4. Good(h) \cup Planned(u, h) \subseteq Good(h)' \cup Planned(u, h)'
    BY <1>3, <2>1, <2>2, <2>3 DEF Planned
  <2>5. Cardinality(Good(h) \cup Planned(u, h)) >= req[u].repl
    BY <1>3, <2>1, <2>2 DEF Suffices
  <2>6. /\ Cardinality(Good(h) \cup Planned(u, h)) \in Nat
        /\ Cardinality(Good(h)' \cup Planned(u, h)') \in Nat
        /\ Cardinality(Good(h) \cup Planned(u, h))
             <= Cardinality(Good(h)' \cup Planned(u, h)')
    <3>1. Good(h) \cup Planned(u, h) \in SUBSET Node /\ Good(h)' \cup Planned(u, h)' \in SUBSET Node
      BY <1>4
    <3> QED
      BY <2>4, <3>1, MoreNodes
  <2> QED
    BY <1>2, <2>1, <2>5, <2>6
<1> QED
  BY <1>1, <1>7, <1>8, <1>9, <1>10, <1>11, UploadMoves DEF Placing

(* What an upload has dealt with keeps its copies until the manifest is saved. *)
LEMMA SentStep ==
  ASSUME SafeInv, Underway, Gone, AtHand, Suffices, Sent, [Next]_vars
  PROVE  Sent'
<1> USE DEF SafeInv
<1>1. SUFFICES ASSUME NEW u \in Upload, pc(u)' \in Placing, NEW h \in Hash,
                      h \in Chunks(u), h \notin Range(ps'[u].todo), h \notin Excused'
               PROVE  Cardinality(Good(h)') >= req[u].repl
  <2>1. \A u \in Upload : Chunks(u)' = Chunks(u) /\ Chunks(u) \subseteq Hash
    BY SetsStep, Asked DEF TypeInv, Chunks
  <2> QED
    BY <2>1, SetsStep DEF Sent, pc
<1>2. /\ ps \in [Proc -> Local] /\ ps[u] \in Local /\ u \in Proc /\ u # sched
      /\ ps[u].todo \in Seq(Hash) /\ req[u].repl \in Nat
  BY ClusterAssumption, Asked, CatalogAssumption DEF TypeInv, ProcessesOK, Proc, Local
<1>3. h \notin Excused
  BY <1>1, NoteStep DEF Excused
<1>4. Good(h) \subseteq Node /\ Good(h)' \subseteq Node
  BY DEF Good
<1>5. CASE pc(u) \in Placing
  <2>1. Wanted(h)
    BY <1>1, <1>5 DEF Wanted
  <2>2. Good(h) \subseteq Good(h)'
    BY <1>1, <2>1, WantedStays
  <2>3. /\ Cardinality(Good(h)) \in Nat /\ Cardinality(Good(h)') \in Nat
        /\ Cardinality(Good(h)) <= Cardinality(Good(h)')
    BY <1>4, <2>2, MoreNodes
  <2>4. CASE h \notin Range(ps[u].todo)
    <3>1. Cardinality(Good(h)) >= req[u].repl
      BY <1>1, <1>3, <1>5, <2>4 DEF Sent
    <3> QED
      BY <1>2, <2>3, <3>1
  <2>5. CASE h \in Range(ps[u].todo)
    <3>1. h = Head(ps[u].todo) \/ h \in Range(Tail(ps[u].todo))
      BY <1>2, <2>5, HeadOrTail
    <3>2. ps'[u] # ps[u] /\ ps'[u].todo # ps[u].todo
      BY <1>1, <2>5
    <3>3. CASE CountCopies(u)
      <4> DEFINE online == OnlineLocations(Head(ps[u].todo))
                 missing == req[u].repl - Cardinality(online)
      <4>1. missing <= 0 /\ ps'[u].todo = Tail(ps[u].todo)
        BY <3>2, <3>3, CountIs
      <4>2. h = Head(ps[u].todo)
        BY <1>1, <3>1, <4>1
      <4>3. online \subseteq Good(h)'
        BY <1>3, <2>1, <2>2, <4>2, CountedIsGood DEF OnlineLocations
      <4> HIDE DEF online
      <4>4. /\ Cardinality(online) <= Cardinality(Good(h)')
            /\ Cardinality(online) \in Nat /\ Cardinality(Good(h)') \in Nat
        BY <1>4, <4>3, MoreNodes
      <4> QED
        BY <1>2, <4>1, <4>4
    <3>4. CASE Confirm(u)
      <4>1. PICK n \in Node, x \in Hash :
              /\ x = Head(ps[u].todo) /\ n \in Planned(u, x)
              /\ x \notin Excused => n \in Good(x)'
              /\ ps'[u].todo = Tail(ps[u].todo) /\ Planned(u, x) \subseteq {n}
        BY <3>2, <3>4, ConfirmIs
      <4>2. h = x /\ pc(u) = "confirm"
        BY <1>1, <3>1, <3>4, <4>1 DEF Confirm
      <4>3. Good(h) \cup Planned(u, h) \subseteq Good(h)'
        BY <1>3, <2>2, <4>1, <4>2
      <4>4. Cardinality(Good(h) \cup Planned(u, h)) >= req[u].repl
        BY <1>3, <4>1, <4>2 DEF Suffices
      <4>5. /\ Cardinality(Good(h) \cup Planned(u, h)) <= Cardinality(Good(h)')
            /\ Cardinality(Good(h) \cup Planned(u, h)) \in Nat
        <5>1. Good(h) \cup Planned(u, h) \in SUBSET Node
          BY <1>4 DEF Planned
        <5> QED
          BY <1>4, <4>3, <5>1, MoreNodes
      <4> QED
        BY <1>2, <2>3, <4>4, <4>5
    <3>5. ~Start(u)
      BY <1>5 DEF Start, Placing
    <3>6. ~Plan(u) /\ ~Put(u)
      <4>1. Plan(u) \/ Put(u) => ps'[u].todo = ps[u].todo
        BY <1>2 DEF Plan, Put, Local
      <4> QED
        BY <3>2, <4>1
    <3> QED
      BY <1>1, <3>2, <3>3, <3>4, <3>5, <3>6, UploadMoves
  <2> QED
    BY <2>4, <2>5
<1>6. CASE pc(u) \notin Placing
  <2>1. ps'[u] # ps[u]
    BY <1>1, <1>6 DEF pc
  <2>2. ~CountCopies(u) /\ ~Confirm(u) /\ ~Plan(u) /\ ~Put(u)
    BY <1>6 DEF CountCopies, Confirm, Plan, Put, Placing
  <2>3. ps'[u].todo = req[u].chunks
    BY <1>1, <2>1, <2>2, UploadMoves
  <2> QED
    BY <1>1, <2>3 DEF Chunks
<1> QED
  BY <1>5, <1>6

(* Every request asks for a copy at least. *)
AsksForCopies == \A r \in Requests : r.repl > 0

(* PATCH asks for one copy, the least it accepts, so it only lowers a number. *)
UpdatesLower == \A x \in Updates : x[2] = 1

(* What pruning owes to a backup: the copies it asks for, or one at least
   where PATCH may ask for more meanwhile. *)
Floor(f) == IF UpdatesLower THEN f.repl ELSE 1

(* The scheduler has h on its pruning list. *)
Pruning(h) == pc(sched) \in {"locate", "trim", "untrim"} /\ Lists(sched, h)

(* A copy of h is gone that is still counted as surplus. *)
Pending(h) == IF pc(sched) = "untrim" /\ \E t \in ps[sched].call : t[1] = h THEN 1 ELSE 0

(* The surplus that is left to prune is a surplus. *)
Surplus == \A h \in Hash : Pruning(h) /\ h \notin Excused =>
             \A f \in Owners(h) : Floor(f) + quota[h] <= Cardinality(Good(h)) + Pending(h)

(* The pruning list changes by the steps of the scheduler's pruning. *)
LEMMA PruneMoves ==
  ASSUME TypeInv, [Next]_vars, pc(sched)' \in {"locate", "trim", "untrim"}
  PROVE  \/ ps'[sched] = ps[sched] /\ quota' = quota
         \/ Snapshot(sched) /\ pc(sched) = "locate"
         \/ Reap(sched) \/ ReapFails(sched) \/ ReapReplyLost(sched) \/ Drop(sched)
         \/ CountSurplus
<1>1. /\ ps \in [Proc -> Local] /\ sched \in Proc /\ ps[sched] \in Local
      /\ Upload \subseteq Proc /\ Deleter \subseteq Proc
      /\ sched \notin Upload /\ sched \notin Deleter
  BY ClusterAssumption DEF TypeInv, ProcessesOK, Proc
<1>2. \A l : At(l).pc = l
  BY DEF At
<1>3. AfterReap(sched).pc = "prune"
  BY <1>2 DEF AfterReap
<1>4. \A w : Placed(sched, w).pc \in {"send", "fetch"}
  BY <1>1 DEF Placed, Local
<1> USE DEF pc
<1>5. ASSUME NEW u \in Upload, UploadStep(u)
      PROVE  ps'[sched] = ps[sched] /\ quota' = quota
  BY <1>1, <1>5
  DEF UploadStep, Start, CountCopies, Plan, Abort, Commit, Expire
<1>6. ASSUME NEW p \in Upload \cup {sched}, Transfer(p)
      PROVE  ps'[sched] = ps[sched] /\ quota' = quota
  <2>1. CASE p # sched
    BY <1>1, <1>6, <2>1
    DEF Transfer, Put, PutFails, Confirm, ConfirmFails, PlaceFailed
  <2>2. CASE p = sched
    <3>1. CASE Put(sched)
      BY <1>1, <3>1 DEF Put, Local
    <3>2. CASE PutFails(sched) \/ Confirm(sched) \/ ConfirmFails(sched)
      <4>1. PICK w : ps' = [ps EXCEPT ![sched] = Placed(sched, w)]
        BY <3>2 DEF PutFails, Confirm, ConfirmFails, PlaceFailed
      <4> QED
        BY <1>1, <1>4, <4>1
    <3> QED
      BY <1>6, <2>2, <3>1, <3>2 DEF Transfer
  <2> QED
    BY <2>1, <2>2
<1>7. ASSUME NEW d \in Deleter, Request(d)
      PROVE  ps'[sched] = ps[sched] /\ quota' = quota
  BY <1>1, <1>7 DEF Request
<1>8. ASSUME NEW p \in Proc, Collect(p) \/ ReapReplyLost(p), p # sched
      PROVE  ps'[sched] = ps[sched] /\ quota' = quota
  <2>1. pc(p) # "untrim"
    BY <1>8 DEF TypeInv, ProcessesOK, Fits, SchedulerOnly
  <2> QED
    BY <1>1, <1>8, <2>1
    DEF Collect, ReapReplyLost, Purge, PurgeFails, Snapshot, Reap, ReapFails,
        Drop, Reaped
<1>9. CASE Collect(sched)
  <2>1. ~PurgeFails(sched) /\ ~Reaped(sched)
    BY <1>1, <1>3 DEF PurgeFails, Reaped
  <2>2. ~Purge(sched)
    <3>1. ASSUME Purge(sched)
          PROVE  FALSE
      <4>1. PICK left : ps' = [ps EXCEPT ![sched] =
                                 IF left = {} THEN AfterReap(sched)
                                 ELSE [At("snap") EXCEPT !.unread = left]]
        BY <3>1 DEF Purge
      <4>2. [At("snap") EXCEPT !.unread = left].pc = "snap"
        BY DEF At
      <4> QED
        BY <1>1, <1>3, <4>1, <4>2
    <3> QED
      BY <3>1
  <2>3. Snapshot(sched) => pc(sched) = "locate"
    BY <1>1 DEF Snapshot, Local
  <2> QED
    BY <1>9, <2>1, <2>2, <2>3 DEF Collect
<1>10. CASE Schedule
  <2>1. CASE Sweep \/ Fetch \/ FetchFails
    BY <1>1, <2>1 DEF Sweep, Fetch, FetchFails, Local
  <2>2. CASE Aim
    BY <1>1, <2>2 DEF Aim, Local
  <2>3. CASE Trimmed \/ Rest
    BY <1>1, <1>2, <2>3 DEF Trimmed, Rest
  <2>4. CASE CountMissing
    BY <1>1, <2>4 DEF CountMissing, Tasks, At
  <2> QED
    BY <1>10, <2>1, <2>2, <2>3, <2>4 DEF Schedule
<1>11. ~Crash
  BY <1>1, <1>2 DEF Crash
<1>12. ASSUME ps' = ps
       PROVE  quota' = quota \/ Collect(sched)
  <2>1. CASE Quiet
    <3>1. CASE Schedule
      <4>1. CASE Sweep \/ Fetch \/ FetchFails \/ Rest
        BY <4>1 DEF Sweep, Fetch, FetchFails, Rest
      <4>2. CASE Aim
        BY <1>12, <4>2 DEF Aim
      <4>3. CASE Trimmed
        BY <1>1, <1>2, <1>12, <4>3 DEF Trimmed
      <4>4. CASE CountMissing \/ CountSurplus
        BY <1>12, <4>4 DEF CountMissing, CountSurplus
      <4> QED
        BY <3>1, <4>1, <4>2, <4>3, <4>4 DEF Schedule
    <3> QED
      BY <1>5, <1>6, <1>7, <1>8, <2>1, <3>1
      DEF Quiet, Heartbeat, MissHeartbeat, PatchReplication
  <2> QED
    BY <1>11, <2>1
    DEF Next, Disturbance, ReapReplyLost, RemoveNode, ClearNode, ClearNodeFails,
        FinishRemoval, vars
<1> QED
  BY <1>5, <1>6, <1>7, <1>8, <1>9, <1>10, <1>11, <1>12, Steps DEF Schedule

(* A manifest is no more demanding after a step than one was before it, except
   by a commit, whose upload wanted the hash. *)
LEMMA OwnersFall ==
  ASSUME TypeInv, [Next]_vars, NEW h \in Hash, NEW f \in Owners(h)', ~Wanted(h)
  PROVE  \E g \in Owners(h) : Floor(f) <= Floor(g) /\ Floor(g) \in Nat
<1>1. \A g \in files : g \in FileRow /\ g.repl \in Nat \ {0} /\ Floor(g) \in Nat
  BY DEF TypeInv, ClusterTypeOK, TypeOK, FileRow, Floor
<1>2. CASE files' \subseteq files
  BY <1>1, <1>2 DEF Owners
<1>3. ASSUME NEW u \in Upload, Commit(u)
      PROVE  f \in files
  <2>1. h \notin Chunks(u)
    BY <1>3 DEF Commit, Wanted, Placing
  <2> QED
    BY <1>3, <2>1 DEF Commit, CreateFile, Owners
<1>4. ASSUME NEW x \in Updates, PatchReplication(x[1], x[2])
      PROVE  \E g \in Owners(h) : Floor(f) <= Floor(g) /\ Floor(g) \in Nat
  <2>1. x[2] \in Nat \ {0}
    BY <1>4, ClusterAssumption, CatalogAssumption
  <2>2. PICK g \in files : f = IF g.id = x[1]
                               THEN [g EXCEPT !.repl = NormalizedReplication(x[2])] ELSE g
    BY <1>4 DEF PatchReplication, UpdateFileReplication, Owners
  <2>3. NormalizedReplication(x[2]) = x[2]
    BY <2>1 DEF NormalizedReplication
  <2>4. f.chunks = g.chunks /\ (f = g \/ f.repl = x[2])
    BY <1>1, <2>2, <2>3 DEF FileRow
  <2>5. Floor(f) <= Floor(g)
    BY <1>1, <1>4, <2>1, <2>4 DEF Floor, UpdatesLower
  <2> QED
    BY <1>1, <2>4, <2>5 DEF Owners
<1>5. CASE Quiet
  <2>1. CASE \E u \in Upload : UploadStep(u)
    <3>1. ASSUME NEW u \in Upload, UploadStep(u)
          PROVE  f \in files
      BY <1>3, <3>1
      DEF UploadStep, Start, CountCopies, Plan, Abort, Expire, catVars, Owners
    <3> QED
      BY <1>1, <2>1, <3>1 DEF Owners
  <2>2. CASE \E p \in Upload \cup {sched} : Transfer(p)
    BY <1>2, <2>2
    DEF Transfer, Put, PutFails, Confirm, ConfirmFails, ConfirmChunk, catVars
  <2>3. CASE \E p \in Proc : Collect(p)
    BY <1>2, <2>3
    DEF Collect, Purge, PurgeFails, Snapshot, Reap, ReapFails, Drop, Reaped,
        catVars, DeleteFiles, RemoveChunkLocation
  <2>4. CASE Schedule
    BY <1>2, <2>4 DEF Schedule, Sweep, CountSurplus, Trimmed, CountMissing, Aim,
                      Fetch, FetchFails, Rest, catVars
  <2> QED
    BY <1>2, <1>4, <1>5, <2>1, <2>2, <2>3, <2>4
    DEF Quiet, Request, Heartbeat, MissHeartbeat, catVars, RegisterNode, Elapse
<1> QED
  BY <1>2, <1>5
  DEF Next, Disturbance, ReapReplyLost, RemoveNode, ClearNode, ClearNodeFails,
      FinishRemoval, Crash, DeleteNode, vars, catVars

(* The numbers of copies. *)
LEMMA GoodIsFinite ==
  /\ \A h : IsFiniteSet(Good(h)) /\ Cardinality(Good(h)) \in Nat
  /\ \A h : (IsFiniteSet(Good(h)) /\ Cardinality(Good(h)) \in Nat)'
<1>1. \A h : Good(h) \subseteq Node /\ (Good(h) \subseteq Node)'
  BY DEF Good
<1> QED
  BY <1>1, CatalogAssumption, FS_Subset, FS_CardinalityType

(* When the surplus is counted, every copy in the count is usable. *)
LEMMA SurplusCounted ==
  ASSUME SafeInv, Underway, [Next]_vars, CountSurplus,
         NEW h \in Hash, Pruning(h)', h \notin Excused', NEW f \in Owners(h)'
  PROVE  Floor(f) + quota'[h] <= Cardinality(Good(h)') + Pending(h)'
<1> USE DEF SafeInv
<1> DEFINE m == [x \in Hash |-> IF ChunkInUse(x)
                                THEN Monus(Cardinality(Active(x)), Desired(x)) ELSE 0]
           hs == {x \in Hash : m[x] > 0}
<1>1. /\ ps \in [Proc -> Local] /\ sched \in Proc
      /\ h \notin raced' /\ h \notin struck' /\ h \notin raced
  BY NoteStep DEF TypeInv, ProcessesOK, Proc, Excused
<1>2. /\ quota' = m
      /\ ps' = [ps EXCEPT ![sched] = IF hs = {} THEN At("survey")
                                     ELSE [At("locate") EXCEPT !.unread = hs]]
      /\ pc(sched) = "prune" /\ UNCHANGED <<catVars, disk, retiring>>
  BY DEF CountSurplus, Tasks
<1> HIDE DEF hs
<1>3. ps'[sched] = [At("locate") EXCEPT !.unread = hs]
  <2>1. ps'[sched].pc \in {"locate", "trim", "untrim"}
    BY DEF Pruning, pc
  <2>2. At("survey").pc = "survey"
    BY DEF At
  <2> QED
    BY <1>1, <1>2, <2>1, <2>2
<1>4. ps'[sched].pc = "locate" /\ ps'[sched].unread = hs /\ ps'[sched].work = {}
  BY <1>3 DEF At
<1>5. h \in hs
  BY <1>4 DEF Pruning, Lists
<1>6. /\ ChunkInUse(h) /\ quota'[h] = Monus(Cardinality(Active(h)), Desired(h))
      /\ quota'[h] > 0
  BY <1>2, <1>5 DEF hs
<1> HIDE DEF m
<1>7. Pending(h)' = 0
  BY <1>4 DEF Pending, pc
<1>8. Cardinality(Active(h)) \in Nat /\ Desired(h) \in Nat
  BY CopiesAreNat, DesiredIsNat DEF TypeInv, ClusterTypeOK
<1>9. quota'[h] = Cardinality(Active(h)) - Desired(h)
  BY <1>6, <1>8 DEF Monus
<1>10. Floor(f) <= Desired(h) /\ Floor(f) \in Nat
  <2>1. f \in Owners(h)
    BY <1>2 DEF Owners, catVars
  <2>2. f.repl \in Nat \ {0} /\ Floor(f) <= f.repl /\ Floor(f) \in Nat
    BY <2>1 DEF Owners, TypeInv, ClusterTypeOK, TypeOK, FileRow, Floor
  <2> DEFINE S == {g.repl : g \in Owners(h)}
  <2>3. S \subseteq Nat /\ f.repl \in S
    BY <2>1 DEF TypeInv, ClusterTypeOK, TypeOK, FileRow, Owners
  <2>4. IsFiniteSet(S)
    BY FiniteReplications, FS_Subset DEF Owners, TypeInv
  <2>5. Max(S) \in S /\ \A x \in S : Max(S) >= x
    <3> HIDE DEF S
    <3> QED
      BY <2>3, <2>4, GreatestExists DEF Max
  <2>6. Desired(h) = Max(S)
    BY <1>6 DEF Desired
  <2> HIDE DEF S
  <2> QED
    BY <1>8, <2>2, <2>3, <2>5, <2>6
<1>11. Active(h) \subseteq Good(h)'
  <2>1. SUFFICES ASSUME NEW n \in Active(h) PROVE n \in Good(h)'
    OBVIOUS
  <2>2. n \in Node /\ <<h, n>> \in locs
    BY DEF Active, ChunkLocations, TypeInv, ClusterTypeOK, TypeOK
  <2>3. n \notin retiring
    <3>1. Threatened(h)'
      BY <1>1, <1>4, <1>5 DEF Threatened, Reaping, pc
    <3>2. ASSUME n \in retiring PROVE Vacated(h)'
      BY <1>2, <2>2, <3>2 DEF Vacated, catVars
    <3> QED
      BY <1>1, <3>1, <3>2, NoteStep DEF RacedCurrent, Overlap
  <2>4. ASSUME NEW q \in Proc, pc(q) \in {"drop", "untrim"}, <<h, n>> \in ps[q].call
        PROVE  FALSE
    <3>1. pc(q) = "drop"
      BY <1>2, <2>4 DEF TypeInv, ProcessesOK, Fits, SchedulerOnly, pc
    <3>2. Lists(q, h)
      BY <2>2, <2>4 DEF Underway, Lists
    <3> QED
      BY <1>1, <1>6, <3>1, <3>2 DEF Unowned
  <2>5. <<h, n>>[1] = h /\ <<h, n>>[2] = n
    OBVIOUS
  <2>6. <<h, n>> \in disk
    BY <1>1, <2>2, <2>3, <2>4, <2>5, NoteStep DEF LocationsBacked, Excused
  <2> QED
    BY <1>2, <2>2, <2>6 DEF Good, catVars
<1>12. Cardinality(Active(h)) <= Cardinality(Good(h)') /\ Cardinality(Good(h)') \in Nat
  <2>1. IsFiniteSet(Good(h)') /\ Cardinality(Good(h)') \in Nat
    BY GoodIsFinite
  <2> QED
    BY <1>11, <2>1, FS_Subset
<1> QED
  BY <1>7, <1>8, <1>9, <1>10, <1>12

(* One copy less. *)
LEMMA OneLess ==
  ASSUME NEW h, NEW n \in Node, Good(h)' = Good(h) \ {n}
  PROVE  Cardinality(Good(h)') + 1 >= Cardinality(Good(h))
<1>1. /\ IsFiniteSet(Good(h)) /\ Cardinality(Good(h)) \in Nat
  BY GoodIsFinite
<1>2. CASE n \in Good(h)
  BY <1>1, <1>2, FS_RemoveElement
<1>3. CASE n \notin Good(h)
  <2>1. Good(h)' = Good(h)
    BY <1>3
  <2> QED
    BY <1>1, <2>1
<1> QED
  BY <1>2, <1>3

(* The steps of pruning itself. *)
LEMMA SurplusPruned ==
  ASSUME SafeInv, Underway, Gone, Surplus, [Next]_vars,
         \/ Snapshot(sched) /\ pc(sched) = "locate"
         \/ Reap(sched) \/ ReapFails(sched) \/ ReapReplyLost(sched) \/ Drop(sched),
         NEW h \in Hash, Pruning(h)', h \notin Excused', NEW f \in Owners(h)'
  PROVE  Floor(f) + quota'[h] <= Cardinality(Good(h)') + Pending(h)'
<1> USE DEF SafeInv
<1>1. /\ ps \in [Proc -> Local] /\ sched \in Proc /\ ps[sched] \in Local
      /\ quota \in [Hash -> Nat]
      /\ h \notin raced' /\ h \notin struck' /\ h \notin raced /\ h \notin Excused
  BY NoteStep DEF TypeInv, ProcessesOK, Proc, Excused, ClusterTypeOK
<1>2. f \in Owners(h) /\ Floor(f) \in Nat
  <2>1. files' = files
    BY DEF Snapshot, Reap, ReapFails, ReapReplyLost, Drop, RemoveChunkLocation, catVars
  <2> QED
    BY <2>1 DEF Owners, TypeInv, ClusterTypeOK, TypeOK, FileRow, Floor
<1>3. ASSUME Pruning(h)
      PROVE  Floor(f) + quota[h] <= Cardinality(Good(h)) + Pending(h)
  BY <1>1, <1>2, <1>3 DEF Surplus
<1>4. Cardinality(Good(h)) \in Nat /\ Cardinality(Good(h)') \in Nat
  BY GoodIsFinite
<1>5. CASE Snapshot(sched) /\ pc(sched) = "locate"
  <2>1. PICK x \in ps[sched].unread :
          LET at == IF pc(sched) = "snap" THEN ChunkLocations(x) ELSE OnlineLocations(x)
              left == ps[sched].unread \ {x}
          IN  ps' = [ps EXCEPT ![sched].work = @ \cup ({x} \X at),
                               ![sched].unread = left,
                               ![sched].pc = IF left # {} THEN @
                                             ELSE IF @ = "snap" THEN "reap" ELSE "trim"]
    BY <1>5 DEF Snapshot
  <2> DEFINE at == IF pc(sched) = "snap" THEN ChunkLocations(x) ELSE OnlineLocations(x)
  <2>2. /\ ps'[sched].work = ps[sched].work \cup ({x} \X at)
        /\ ps'[sched].unread = ps[sched].unread \ {x}
    BY <1>1, <2>1 DEF Local
  <2>3. ps'[sched].pc \in {"locate", "trim"}
    BY <1>1, <1>5, <2>1 DEF Local, pc
  <2> HIDE DEF at
  <2>4. Lists(sched, h)
    BY <2>2 DEF Pruning, Lists
  <2>5. Pruning(h) /\ Pending(h) = 0 /\ Pending(h)' = 0
    BY <1>5, <2>3, <2>4 DEF Pruning, Pending, pc
  <2>6. Good(h)' = Good(h) /\ quota' = quota
    BY <1>5 DEF Snapshot, Good, catVars
  <2> QED
    BY <1>3, <1>4, <2>5, <2>6
<1>6. CASE Reap(sched)
  <2>1. PICK t \in Due(sched) :
          /\ t \in ps[sched].work /\ disk' = disk \ {t}
          /\ ps'[sched].call = {t} /\ ps'[sched].work = ps[sched].work
          /\ ps'[sched].unread = ps[sched].unread
          /\ pc(sched)' = IF pc(sched) = "reap" THEN "drop" ELSE "untrim"
          /\ UNCHANGED <<catVars, quota, retiring>>
    BY <1>1, <1>6, ReapIs
  <2>2. pc(sched) = "trim" /\ pc(sched)' = "untrim"
    BY <1>6, <2>1 DEF Reap, Pruning
  <2>3. Pruning(h) /\ Pending(h) = 0
    BY <2>1, <2>2 DEF Pruning, Lists, Pending
  <2>4. t[1] \in Hash /\ t[2] \in Node /\ t = <<t[1], t[2]>>
    BY <1>1, <2>1, Listed DEF TypeInv
  <2>5. CASE t[1] = h
    <3>1. Pending(h)' = 1
      BY <2>1, <2>2, <2>5 DEF Pending, pc
    <3>2. Good(h)' = Good(h) \ {t[2]}
      BY <2>1, <2>4, <2>5 DEF Good, catVars
    <3>3. Cardinality(Good(h)') + 1 >= Cardinality(Good(h))
      BY <2>4, <3>2, OneLess
    <3> QED
      BY <1>1, <1>2, <1>3, <1>4, <2>1, <2>3, <3>1, <3>3
  <2>6. CASE t[1] # h
    <3>1. Pending(h)' = 0
      BY <2>1, <2>6 DEF Pending, pc
    <3>2. Good(h)' = Good(h)
      BY <2>1, <2>4, <2>6 DEF Good, catVars
    <3> QED
      BY <1>3, <1>4, <2>1, <2>3, <3>1, <3>2
  <2> QED
    BY <2>5, <2>6
<1>7. CASE ReapFails(sched) \/ ReapReplyLost(sched)
  <2>1. PICK t \in Due(sched) : /\ ps' = [ps EXCEPT ![sched] = [ps[sched] EXCEPT
                                                                 !.work = @ \ {t}]]
                                /\ disk' = disk \/ (disk' = disk \ {t} /\ Note({t[1]}))
                                /\ UNCHANGED <<catVars, quota>>
    BY <1>7 DEF ReapFails, ReapReplyLost
  <2>2. /\ ps'[sched].work \subseteq ps[sched].work /\ ps'[sched].unread = ps[sched].unread
        /\ ps'[sched].pc = ps[sched].pc
    BY <1>1, <2>1 DEF Local
  <2>3. pc(sched) # "untrim"
    BY <1>7 DEF ReapFails, ReapReplyLost
  <2>4. Pruning(h) /\ Pending(h) = 0 /\ Pending(h)' = 0
    BY <2>2, <2>3 DEF Pruning, Lists, Pending, pc
  <2>5. t[1] \in Hash /\ t[2] \in Node /\ t = <<t[1], t[2]>>
    BY <1>1, <2>1, Listed DEF TypeInv, Due
  <2>6. Good(h)' = Good(h)
    <3>1. CASE disk' = disk
      BY <2>1, <3>1 DEF Good, catVars
    <3>2. CASE disk' = disk \ {t} /\ Note({t[1]})
      <4>1. t[1] # h
        BY <1>1, <3>2 DEF Note
      <4> QED
        BY <2>1, <2>5, <3>2, <4>1 DEF Good, catVars
    <3> QED
      BY <2>1, <3>1, <3>2
  <2> QED
    BY <1>3, <1>4, <2>1, <2>4, <2>6
<1>8. CASE Drop(sched)
  <2>1. PICK t \in ps[sched].call :
          /\ RemoveChunkLocation(t[1], t[2])
          /\ quota' = IF pc(sched) = "drop" THEN quota
                      ELSE [quota EXCEPT ![t[1]] = @ - 1]
          /\ ps' = [ps EXCEPT ![sched] = [ps[sched] EXCEPT
                      !.call = {}, !.work = @ \ {t},
                      !.pc = IF @ = "drop" THEN "reap" ELSE "trim"]]
    BY <1>8 DEF Drop
  <2>2. /\ ps'[sched].work \subseteq ps[sched].work /\ ps'[sched].unread = ps[sched].unread
        /\ ps'[sched].call = {}
        /\ ps'[sched].pc = IF ps[sched].pc = "drop" THEN "reap" ELSE "trim"
    BY <1>1, <2>1 DEF Local
  <2>3. pc(sched) = "untrim"
    BY <1>8, <2>2 DEF Drop, Pruning, pc
  <2>4. Pruning(h) /\ Pending(h)' = 0
    BY <2>2, <2>3 DEF Pruning, Lists, Pending, pc
  <2>5. t[1] \in Hash /\ t[2] \in Node /\ t = <<t[1], t[2]>> /\ quota[t[1]] > 0
    BY <1>1, <2>1, <2>3, Listed DEF TypeInv, Armed
  <2>6. CASE t[1] = h
    <3>1. t \notin disk
      BY <1>1, <2>1, <2>3, <2>6 DEF Gone
    <3>2. Good(h)' = Good(h)
      BY <1>8, <2>1, <2>5, <2>6, <3>1 DEF Good, Drop, RemoveChunkLocation
    <3>3. quota'[h] = quota[h] - 1 /\ quota[h] \in Nat
      BY <1>1, <2>1, <2>3, <2>6
    <3>4. Pending(h) = 1
      BY <2>1, <2>3, <2>6 DEF Pending
    <3> QED
      BY <1>2, <1>3, <1>4, <2>4, <3>2, <3>3, <3>4
  <2>7. CASE t[1] # h
    <3>1. Good(h)' = Good(h)
      BY <1>8, <2>1, <2>5, <2>7 DEF Good, Drop, RemoveChunkLocation
    <3>2. quota'[h] = quota[h]
      BY <1>1, <2>1, <2>3, <2>7
    <3>3. Pending(h) = 0
      BY <1>1, <2>1, <2>3, <2>7 DEF Shapes, Shape, Pending, pc
    <3> QED
      BY <1>3, <1>4, <2>4, <3>1, <3>2, <3>3
  <2> QED
    BY <2>6, <2>7
<1> QED
  BY <1>5, <1>6, <1>7, <1>8

(* What is counted as surplus stays a surplus, although the scheduler reads the
   locations after the count and deletes after both. *)
LEMMA SurplusStep ==
  ASSUME SafeInv, Underway, Gone, Surplus, [Next]_vars
  PROVE  Surplus'
<1> USE DEF SafeInv
<1>1. SUFFICES ASSUME NEW h \in Hash, Pruning(h)', h \notin Excused', NEW f \in Owners(h)'
               PROVE  Floor(f) + quota'[h] <= Cardinality(Good(h)') + Pending(h)'
  BY DEF Surplus, Floor
<1>2. h \notin raced' /\ h \notin struck' /\ h \notin raced /\ h \notin Excused
      /\ quota \in [Hash -> Nat]
  BY <1>1, NoteStep DEF TypeInv, Excused, ClusterTypeOK
<1>3. CASE ps'[sched] = ps[sched] /\ quota' = quota
  <2>1. Pruning(h) /\ Pending(h)' = Pending(h)
    BY <1>1, <1>3 DEF Pruning, Lists, Pending, pc
  <2>2. Threatened(h)
    BY <2>1 DEF Pruning, Lists, Threatened, Reaping, Proc
  <2>3. ~Wanted(h)
    BY <1>2, <2>2 DEF RacedCurrent, Overlap
  <2>4. PICK g \in Owners(h) : Floor(f) <= Floor(g) /\ Floor(g) \in Nat
    BY <1>1, <2>3, OwnersFall
  <2>5. Floor(g) + quota[h] <= Cardinality(Good(h)) + Pending(h)
    BY <1>2, <2>1 DEF Surplus
  <2>6. Good(h) \subseteq Good(h)'
    <3>1. SUFFICES ASSUME ~(Good(h) \subseteq Good(h)') PROVE FALSE
      OBVIOUS
    <3>2. PICK p \in Proc, n \in Node : Reap(p) /\ <<h, n>> \in Due(p)
      BY <1>1, <2>2, <3>1, GoodLoss
    <3>3. p # sched
      <4>1. Reap(p) => pc(p)' # pc(p)
        <5>1. pc(p) \in {"reap", "trim"} /\ pc(p)' \in {"drop", "untrim"}
          BY <3>2, ReapIs DEF Reap
        <5> QED
          BY <5>1
      <4> QED
        BY <1>3, <3>2, <4>1 DEF pc
    <3>4. pc(p) = "reap" /\ <<h, n>> \in ps[p].work
      BY <3>2, <3>3 DEF Reap, Due, TypeInv, ProcessesOK, Fits, SchedulerOnly, pc
    <3>5. Lists(p, h)
      BY <3>4 DEF Lists
    <3>6. ~ChunkInUse(h)
      BY <1>2, <3>4, <3>5 DEF Unowned
    <3> QED
      BY <3>6 DEF ChunkInUse
  <2>7. Cardinality(Good(h)) <= Cardinality(Good(h)')
    BY <2>6, GoodIsFinite, FS_Subset
  <2>8. Floor(f) \in Int /\ Pending(h) \in Nat
    <3>1. files' \subseteq FileRow
      BY SetsStep, CatalogStep, TypeStep DEF TypeInv, ClusterTypeOK, TypeOK
    <3> QED
      BY <3>1 DEF Floor, Owners, FileRow, Pending
  <2> QED
    BY <1>2, <1>3, <2>1, <2>4, <2>5, <2>7, <2>8, GoodIsFinite
<1>4. CASE CountSurplus
  BY <1>1, <1>4, SurplusCounted
<1> QED
  BY <1>1, <1>3, <1>4, PruneMoves, SurplusPruned DEF Pruning

-----------------------------------------------------------------------------
(* Theorems *)

(* The foreign key holds while every process runs, because Cluster uses the
   tables through Catalog's statements only (state.go:202-219, 276-292). *)
THEOREM ClusterLocationsRegistered == Spec => []LocationsRegistered
  BY ClusterImplementsCatalog, CatLocationsRegistered, PTL

(* The invariant of the two promises. *)
LEMMA SafeInvariant == Spec => []SafeInv
<1> DEFINE Kept == RacedCurrent /\ Shapes /\ Confirmable /\ LocationsBacked /\ Unowned
<1>1. Init => Kept
  <2> SUFFICES ASSUME Init PROVE Kept
    OBVIOUS
  <2>1. \A p \in Proc : ps[p] = At("idle") /\ pc(p) = "idle"
    BY DEF Init, pc, At
  <2>2. Shapes
    BY <2>1, AtShape DEF Shapes
  <2>3. sched \in Proc /\ Upload \subseteq Proc
    BY DEF Proc
  <2>4. \A h \in Hash : ~Wanted(h) /\ ~Threatened(h)
    BY <2>1, <2>3 DEF Wanted, Threatened, Placing, Reaping
  <2>5. RacedCurrent
    BY <2>4 DEF RacedCurrent, Overlap
  <2>6. Confirmable /\ Unowned
    BY <2>1 DEF Confirmable, Unowned
  <2>7. LocationsBacked
    BY DEF Init, CatInit, LocationsBacked
  <2> QED
    BY <2>2, <2>5, <2>6, <2>7
<1>2. TypeInv /\ LocationsRegistered /\ Kept /\ [Next]_vars => Kept'
  <2> SUFFICES ASSUME SafeInv, [Next]_vars PROVE Kept'
    BY DEF SafeInv
  <2> QED
    BY NoteStep, ShapesStep, ConfirmableStep, BackedStep, UnownedStep DEF SafeInv
<1>3. TypeInv /\ LocationsRegistered /\ Kept => SafeInv
  BY DEF SafeInv
<1> QED
  BY <1>1, <1>2, <1>3, TypeInvariant, ClusterLocationsRegistered, PTL DEF Spec

(* A recorded location has its file, except while the delete that removed it
   is between its call and its statement (handlers.go:447-451,
   replicator.go:39-43, 106-110), on a node being removed, and on the hashes
   that a fault or an overlap has touched. *)
THEOREM ClusterLocationsBacked == Spec => []LocationsBacked
<1>1. SafeInv => LocationsBacked
  BY DEF SafeInv
<1> QED
  BY <1>1, SafeInvariant, PTL

(* deleteUnusedChunks and the orphan cleanup delete only what no backup owns,
   however long after their list they come to it (README.md:188), unless an
   upload of the same content overlapped. *)
THEOREM ClusterDeletesOnlyUnowned == Spec => DeletesOnlyUnowned
<1> DEFINE Unshared == \A p \in Proc : pc(p) = "reap" /\ pc(p)' = "drop" =>
                         \A t \in ps'[p].call : t[1] \in raced' \/ ~ChunkInUse(t[1])
<1>1. SafeInv /\ [Next]_vars => [Unshared]_vars
  <2> SUFFICES ASSUME SafeInv, [Next]_vars, NEW p \in Proc,
                      pc(p) = "reap", pc(p)' = "drop", NEW t \in ps'[p].call
               PROVE  t[1] \in raced' \/ ~ChunkInUse(t[1])
    OBVIOUS
  <2>1. ps'[p] # ps[p]
    BY DEF pc
  <2>2. ps[p] \in Local /\ ps \in [Proc -> Local]
    BY DEF SafeInv, TypeInv, ProcessesOK
  <2>3. ~Put(p)
    BY DEF Put
  <2>4. Reap(p)
    BY <2>1, <2>3, Arrivals DEF SafeInv
  <2>5. PICK x \in Due(p) : ps' = [ps EXCEPT ![p] = [ps[p] EXCEPT !.call = {x},
                              !.pc = IF @ = "reap" THEN "drop" ELSE "untrim"]]
    BY <2>4 DEF Reap
  <2>6. t = x /\ x \in ps[p].work
    BY <2>2, <2>5 DEF Local, Due
  <2>7. t[1] \in Hash /\ t[2] \in Node /\ t = <<t[1], t[2]>>
    BY <2>6, Listed DEF SafeInv, TypeInv
  <2>8. Lists(p, t[1])
    BY <2>6, <2>7 DEF Lists
  <2>9. t[1] \in raced \/ ~ChunkInUse(t[1])
    BY <2>7, <2>8 DEF SafeInv, Unowned
  <2> QED
    BY <2>9, NoteStep DEF SafeInv
<1> QED
  BY <1>1, SafeInvariant, PTL DEF Spec, DeletesOnlyUnowned

(* What the promises about copies rest on. *)
CopiesInv == Underway /\ Gone /\ Surplus /\ AtHand /\ Suffices /\ Sent

LEMMA CopiesInvariant == Spec => []CopiesInv
<1>1. Init => CopiesInv
  <2> SUFFICES ASSUME Init PROVE CopiesInv
    OBVIOUS
  <2>1. \A p \in Proc : ps[p] = At("idle") /\ pc(p) = "idle"
    BY DEF Init, pc, At
  <2>2. sched \in Proc /\ Upload \subseteq Proc
    BY DEF Proc
  <2> QED
    BY <2>1, <2>2
    DEF CopiesInv, Underway, Gone, Surplus, Pruning, AtHand, Suffices, Sent, Placing
<1>2. SafeInv /\ CopiesInv /\ [Next]_vars => CopiesInv'
  BY UnderwayStep, GoneStep, SurplusStep, AtHandStep, SufficesStep, SentStep
  DEF CopiesInv, SafeInv
<1> QED
  BY <1>1, <1>2, SafeInvariant, PTL DEF Spec

(* When a manifest is saved, each of its chunks has as many recorded copies as
   the request asked for (handlers.go:338-359), however many processes count,
   put and delete beside it. *)
THEOREM ClusterCopiedAtCommit == Spec => FullyCopiedAtCommit
<1> DEFINE Full == \A u \in Upload : pc(u) = "count" /\ pc(u)' = "expire" =>
                     \A h \in Chunks(u) :
                       h \in Excused' \/ Cardinality(Good(h)) >= req[u].repl
<1>1. SafeInv /\ CopiesInv /\ [Next]_vars => [Full]_vars
  <2> SUFFICES ASSUME SafeInv, CopiesInv, [Next]_vars, NEW u \in Upload,
                      pc(u) = "count", pc(u)' = "expire",
                      NEW h \in Chunks(u), h \notin Excused'
               PROVE  Cardinality(Good(h)) >= req[u].repl
    OBVIOUS
  <2>1. ps[u].todo = <<>>
    BY CommitEnds DEF SafeInv, Commit
  <2>2. h \notin Range(ps[u].todo)
    BY <2>1 DEF Range
  <2>3. h \notin Excused
    BY NoteStep DEF SafeInv, Excused
  <2> QED
    BY <2>2, <2>3 DEF CopiesInv, Sent, Placing
<1> QED
  BY <1>1, SafeInvariant, CopiesInvariant, PTL DEF Spec, FullyCopiedAtCommit

(* No chunk of a saved backup loses its last recorded copy, unless a fault or
   an overlap has touched its hash (replicator.go:30-115, handlers.go:320-394,
   437-453): cleanup, deletion and pruning together never go too far, and an
   upload that asks for a copy at least has one of every chunk when it commits.
   POST /backups does not refuse 0 (handlers.go:276), hence the assumption. *)
THEOREM ClusterLossOnlyIfExcused ==
  ASSUME AsksForCopies
  PROVE  Spec => []LossOnlyIfExcused
<1>1. Init => LossOnlyIfExcused
  BY DEF Init, CatInit, LossOnlyIfExcused
<1>2. SafeInv /\ CopiesInv /\ LossOnlyIfExcused /\ [Next]_vars => LossOnlyIfExcused'
  <2> SUFFICES ASSUME SafeInv, CopiesInv, LossOnlyIfExcused, [Next]_vars,
                      NEW f \in files', NEW h \in f.chunks, h \notin Excused'
               PROVE  Good(h)' # {}
    BY DEF LossOnlyIfExcused
  <2> USE DEF SafeInv, CopiesInv
  <2>1. h \in Hash
    <3>1. TypeOK'
      BY CatalogStep, TypeStep DEF TypeInv, ClusterTypeOK
    <3> QED
      BY <3>1 DEF TypeOK, FileRow
  <2>2. h \notin raced /\ h \notin Excused
    BY NoteStep DEF Excused
  <2>3. CASE ~ChunkInUse(h)
    <3>1. ChunkInUse(h)'
      BY DEF ChunkInUse, Owners
    <3>2. PICK u \in Upload : Commit(u) /\ h \in Chunks(u)
      BY <2>1, <2>3, <3>1, NewOwner
    <3>3. pc(u) \in Placing /\ ps[u].todo = <<>> /\ locs' = locs /\ disk' = disk
      BY <3>2 DEF Commit, CreateFile, Placing
    <3>4. h \notin Range(ps[u].todo)
      BY <3>3 DEF Range
    <3>5. Cardinality(Good(h)) >= req[u].repl
      BY <2>2, <3>2, <3>3, <3>4 DEF Sent
    <3>6. req[u].repl \in Nat /\ req[u].repl > 0 /\ Cardinality(Good(h)) \in Nat
      BY Asked, CatalogAssumption, ClusterAssumption, GoodIsFinite
      DEF AsksForCopies, TypeInv, ClusterTypeOK
    <3>7. Good(h) # {}
      BY <3>5, <3>6, FS_EmptySet
    <3> QED
      BY <3>3, <3>7 DEF Good
  <2>4. CASE ChunkInUse(h)
    <3>1. Good(h) # {}
      BY <2>2, <2>4 DEF LossOnlyIfExcused, ChunkInUse, Owners
    <3>2. CASE Good(h) \subseteq Good(h)'
      BY <3>1, <3>2
    <3>3. ASSUME NEW p \in Proc, NEW n \in Node,
                 Reap(p), <<h, n>> \in Due(p), Good(h)' = Good(h) \ {n}
          PROVE  Good(h)' # {}
      <4>1. Lists(p, h) /\ pc(p) \in {"reap", "trim"}
        BY <3>3 DEF Lists, Due, Reap
      <4>2. pc(p) = "trim"
        BY <2>1, <2>2, <2>4, <4>1 DEF Unowned
      <4>3. p = sched
        BY <4>2 DEF TypeInv, ProcessesOK, Fits, SchedulerOnly, pc
      <4>4. quota[h] > 0
        BY <3>3, <4>2 DEF Due
      <4>5. Pruning(h) /\ Pending(h) = 0
        BY <4>1, <4>2, <4>3 DEF Pruning, Pending
      <4>6. PICK g \in Owners(h) : Floor(g) \in Nat /\ Floor(g) >= 1
        BY <2>4 DEF ChunkInUse, Owners, Floor, TypeInv, ClusterTypeOK, TypeOK, FileRow
      <4>7. Floor(g) + quota[h] <= Cardinality(Good(h)) + 0
        BY <2>1, <2>2, <4>5 DEF Surplus
      <4>8. Cardinality(Good(h)') + 1 >= Cardinality(Good(h))
        BY <3>3, OneLess
      <4>9. /\ quota[h] \in Nat /\ Cardinality(Good(h)) \in Nat
            /\ Cardinality(Good(h)') \in Nat
        BY <2>1, GoodIsFinite DEF TypeInv, ClusterTypeOK
      <4>10. Cardinality(Good(h)') # 0
        BY <4>4, <4>6, <4>7, <4>8, <4>9
      <4> QED
        BY <4>10, FS_EmptySet
    <3> QED
      BY <2>1, <3>2, <3>3, GoodLoss
  <2> QED
    BY <2>3, <2>4
<1> QED
  BY <1>1, <1>2, SafeInvariant, CopiesInvariant, PTL DEF Spec

(* Pruning leaves as many recorded copies as the most demanding backup asks
   for, although it counts, reads the locations and deletes at three different
   times (state.go:705-755, replicator.go:90-115), as long as nobody asks for
   more copies meanwhile. *)
THEOREM ClusterPruneKeepsDesired ==
  ASSUME UpdatesLower
  PROVE  Spec => PruneKeepsDesired
<1> DEFINE Kept == pc(sched) = "trim" /\ pc(sched)' = "untrim" =>
                     \A t \in ps'[sched].call :
                       t[1] \in Excused' \/ Cardinality(Good(t[1])') >= Desired(t[1])
<1>1. SafeInv /\ CopiesInv /\ [Next]_vars => [Kept]_vars
  <2> SUFFICES ASSUME SafeInv, CopiesInv, [Next]_vars,
                      pc(sched) = "trim", pc(sched)' = "untrim",
                      NEW t \in ps'[sched].call, t[1] \notin Excused'
               PROVE  Cardinality(Good(t[1])') >= Desired(t[1])
    OBVIOUS
  <2> USE DEF SafeInv, CopiesInv
  <2>1. sched \in Proc /\ ps'[sched] # ps[sched] /\ ~Put(sched)
    BY DEF Proc, Put, pc
  <2>2. Reap(sched)
    BY <2>1, Arrivals
  <2>3. PICK x \in Due(sched) : /\ x \in ps[sched].work /\ disk' = disk \ {x}
                                /\ ps'[sched].call = {x} /\ UNCHANGED catVars
    BY <2>1, <2>2, ReapIs
  <2>4. t = x /\ t[1] \in Hash /\ t[2] \in Node /\ t = <<t[1], t[2]>>
    BY <2>1, <2>3, Listed DEF TypeInv
  <2> DEFINE h == t[1]
  <2>5. h \in Hash /\ h \notin Excused'
    BY <2>4
  <2>6. Good(h)' = Good(h) \ {t[2]}
    BY <2>3, <2>4 DEF Good, catVars
  <2>7. Pruning(h) /\ Pending(h) = 0 /\ quota[h] > 0
    BY <2>3, <2>4 DEF Pruning, Pending, Lists, Due
  <2>8. h \notin Excused
    BY <2>5, NoteStep DEF Excused
  <2> HIDE DEF h
  <2>9. /\ quota[h] \in Nat /\ Cardinality(Good(h)) \in Nat
        /\ Cardinality(Good(h)') \in Nat
    BY <2>5, GoodIsFinite DEF TypeInv, ClusterTypeOK
  <2>10. Cardinality(Good(h)') + 1 >= Cardinality(Good(h))
    BY <2>4, <2>6, OneLess
  <2>11. CASE ~ChunkInUse(h)
    BY <2>9, <2>11 DEF Desired, h
  <2>12. CASE ChunkInUse(h)
    <3> DEFINE S == {g.repl : g \in Owners(h)}
    <3>1. S \subseteq Nat /\ S # {}
      BY <2>12 DEF TypeInv, ClusterTypeOK, TypeOK, FileRow, Owners, ChunkInUse
    <3>2. IsFiniteSet(S)
      BY FiniteReplications, FS_Subset DEF Owners, TypeInv
    <3>3. Desired(h) = Max(S)
      BY <2>12 DEF Desired
    <3>4. Max(S) \in S
      <4> HIDE DEF S
      <4> QED
        BY <3>1, <3>2, MaxIsMember
    <3>5. PICK g \in Owners(h) : Desired(h) = g.repl
      BY <3>3, <3>4
    <3>6. g.repl + quota[h] <= Cardinality(Good(h)) + 0 /\ g.repl \in Nat
      BY <2>5, <2>7, <2>8, <3>1 DEF Surplus, Floor
    <3> QED
      BY <2>7, <2>9, <2>10, <3>5, <3>6 DEF h
  <2> QED
    BY <2>11, <2>12
<1> QED
  BY <1>1, SafeInvariant, CopiesInvariant, PTL DEF Spec, PruneKeepsDesired

-----------------------------------------------------------------------------
(* Retention, when nobody deletes backups by hand *)

(* The upload has saved its manifest: the id is used up. *)
Committed(u) == pc(u) \in {"expire", "purge", "snap", "reap", "drop", "done"}

(* The backups a retention run has selected *)
Selected(u) == {m.id : m \in ps[u].doomed}

(* Newer versions of f that it has not *)
Spared(u, f) == {g \in Newer(f) : g.id \notin Selected(u)}

(* Only a retention run is about to delete rows, and no id comes back. *)
IdsUsedUp ==
  /\ \A p \in Proc : pc(p) = "purge" => p \in Upload
  /\ \A f \in files : Committed(f.id)
  /\ \A u \in Upload : pc(u) = "purge" => \A i \in Selected(u) : Committed(i)

(* With a version a retention run selects all older ones, and it leaves enough
   newer ones.  So another run that deletes one of those deletes this one, too. *)
SelectsOldest ==
  \A u \in Upload : pc(u) = "purge" =>
    \A f \in files : f.id \in Selected(u) =>
      /\ \A g \in files : g.name = f.name /\ g.version < f.version
                            => g.id \in Selected(u)
      /\ Cardinality(Spared(u, f)) >= req[u].keep

RetentionInv == IdsUsedUp /\ SelectsOldest

(* Of the k or more versions newer than f that there are, as many are among
   the k newest: the newest one that is not has k newer ones that are. *)
LEMMA NewestSpared ==
  ASSUME TypeOK, IsFiniteSet(files), NEW k \in Nat, NEW f \in files,
         Cardinality(Newer(f)) >= k
  PROVE  Cardinality({g \in Newer(f) : ~(Cardinality(Newer(g)) >= k)}) >= k
<1> DEFINE T == {g \in Newer(f) : ~(Cardinality(Newer(g)) >= k)}
           R == Newer(f) \ T
           V == {g.version : g \in R}
<1>1. /\ \A g : IsFiniteSet(Newer(g)) /\ Newer(g) \subseteq files
      /\ IsFiniteSet(T) /\ IsFiniteSet(R) /\ R \subseteq files
  <2>1. \A g : Newer(g) \in SUBSET files
    BY DEF Newer
  <2>2. T \in SUBSET files /\ R \in SUBSET files
    BY <2>1
  <2> HIDE DEF T, R
  <2>3. IsFiniteSet(T) /\ IsFiniteSet(R)
    BY <2>2, FS_Subset
  <2>4. \A g : IsFiniteSet(Newer(g))
    BY <2>1, FS_Subset
  <2> QED
    BY <2>1, <2>2, <2>3, <2>4
<1>2. CASE R = {}
  <2>1. T = Newer(f)
    BY <1>2
  <2> QED
    BY <2>1
<1>3. CASE R # {}
  <2>1. V \in SUBSET Nat /\ V # {}
    BY <1>1, <1>3 DEF TypeOK, FileRow
  <2>2. IsFiniteSet(V)
    <3> DEFINE h == [g \in R |-> g.version]
    <3>1. h \in Surjection(R, V)
      BY DEF Surjection
    <3> HIDE DEF h, R, V
    <3> QED
      BY <1>1, <3>1, FS_Surjection
  <2>3. PICK m \in V : \A x \in V : m >= x
    <3> HIDE DEF V
    <3> QED
      BY <2>1, <2>2, GreatestExists
  <2>4. PICK g \in R : g.version = m
    OBVIOUS
  <2>5. Newer(g) \subseteq T
    <3> SUFFICES ASSUME NEW x \in Newer(g) PROVE x \in T
      OBVIOUS
    <3>1. x \in files /\ x.name = g.name /\ x.version > g.version
      BY DEF Newer
    <3>2. g \in files /\ g.name = f.name /\ g.version > f.version
      BY <2>4 DEF Newer
    <3>3. x.version \in Nat /\ g.version \in Nat /\ f.version \in Nat
      BY <3>1, <3>2 DEF TypeOK, FileRow
    <3>4. x \in Newer(f)
      BY <3>1, <3>2, <3>3 DEF Newer
    <3>5. x \in R => m >= x.version
      BY <2>3
    <3> QED
      BY <2>4, <3>1, <3>3, <3>4, <3>5
  <2>6. Cardinality(Newer(g)) >= k /\ Cardinality(Newer(g)) \in Nat
        /\ Cardinality(T) \in Nat
    BY <1>1, <2>4, FS_CardinalityType
  <2>7. Cardinality(Newer(g)) <= Cardinality(T)
    <3> HIDE DEF T
    <3> QED
      BY <1>1, <2>5, FS_Subset
  <2> QED
    BY <2>6, <2>7
<1> QED
  BY <1>2, <1>3

(* What a step does to the rows of files *)
LEMMA FilesChange ==
  ASSUME [Next]_vars
  PROVE  \/ files' = files
         \/ \E u \in Upload : Commit(u)
         \/ \E p \in Proc : Purge(p)
         \/ /\ ps' = ps
            /\ \E x \in Updates : PatchReplication(x[1], x[2])
<1>1. CASE Quiet
  <2>1. CASE \E u \in Upload : UploadStep(u)
    BY <2>1 DEF UploadStep, Start, CountCopies, Plan, Abort, Expire, catVars
  <2>2. CASE \E p \in Upload \cup {sched} : Transfer(p)
    BY <2>2 DEF Transfer, Put, PutFails, Confirm, ConfirmFails, catVars, ConfirmChunk
  <2>3. CASE \E p \in Proc : Collect(p)
    BY <2>3 DEF Collect, PurgeFails, Snapshot, Reap, ReapFails, Drop, Reaped, catVars,
                RemoveChunkLocation
  <2>4. CASE Schedule
    BY <2>4 DEF Schedule, Sweep, CountSurplus, Trimmed, CountMissing, Aim, Fetch,
                FetchFails, Rest, catVars
  <2>5. CASE \E n \in Node : Heartbeat(n) \/ MissHeartbeat(n)
    BY <2>5 DEF Heartbeat, MissHeartbeat, RegisterNode, Elapse
  <2>6. CASE \E x \in Updates : PatchReplication(x[1], x[2])
    BY <2>6 DEF PatchReplication
  <2> QED
    BY <1>1, <2>1, <2>2, <2>3, <2>4, <2>5, <2>6 DEF Quiet, Request, catVars
<1> QED
  BY <1>1
  DEF Next, Disturbance, ReapReplyLost, RemoveNode, ClearNode, ClearNodeFails,
      FinishRemoval, DeleteNode, Crash, vars, catVars

(* A deletion or a retention run is over with its transaction. *)
LEMMA PurgeEnds ==
  ASSUME TypeInv, NEW p \in Proc, Purge(p) \/ PurgeFails(p)
  PROVE  /\ pc(p)' \in {"snap", "done", "idle", "prune"}
         /\ p \in Upload => pc(p)' \in {"snap", "done"}
         /\ \A q \in Proc \ {p} : ps'[q] = ps[q]
<1>1. ps \in [Proc -> Local]
  BY DEF TypeInv, ProcessesOK
<1>2. /\ AfterReap(p).pc \in {"done", "idle", "prune"}
      /\ p \in Upload => AfterReap(p).pc = "done"
  BY ClusterAssumption DEF AfterReap, At
<1>3. PICK r : ps' = [ps EXCEPT ![p] = r] /\ (r = AfterReap(p) \/ r.pc = "snap")
  <2>1. CASE Purge(p)
    <3>1. PICK left : ps' = [ps EXCEPT ![p] =
                               IF left = {} THEN AfterReap(p)
                               ELSE [At("snap") EXCEPT !.unread = left]]
      BY <2>1 DEF Purge
    <3>2. [At("snap") EXCEPT !.unread = left].pc = "snap"
      BY DEF At
    <3> QED
      BY <3>1, <3>2
  <2>2. CASE PurgeFails(p)
    BY <2>2 DEF PurgeFails
  <2> QED
    BY <2>1, <2>2
<1> QED
  BY <1>1, <1>2, <1>3 DEF pc

(* Without deletions by hand, a process is about to delete rows only after a
   retention run has selected them. *)
LEMMA PurgeComes ==
  ASSUME TypeInv, Deleter = {}, [Next]_vars, NEW p \in Proc, pc(p)' = "purge"
  PROVE  ps'[p] = ps[p] \/ (p \in Upload /\ Expire(p))
<1>1. /\ ps \in [Proc -> Local] /\ ps[p] \in Local /\ sched \in Proc
      /\ Upload \subseteq Proc
  BY DEF TypeInv, ProcessesOK, Proc
<1>2. \A l : At(l).pc = l
  BY DEF At
<1>3. AfterReap(p).pc \in {"prune", "idle", "done"}
  BY <1>2 DEF AfterReap
<1>4. \A w : Placed(p, w).pc \in {"send", "fetch", "count"}
  BY <1>1 DEF Placed, Local
<1> USE DEF pc
<1>5. ASSUME NEW u \in Upload, UploadStep(u), ~(p \in Upload /\ Expire(p))
      PROVE  ps'[p] = ps[p]
  <2>1. CASE u # p
    BY <1>1, <1>5, <2>1
    DEF UploadStep, Start, CountCopies, Plan, Abort, Commit, Expire
  <2>2. CASE u = p
    <3>1. CASE Start(u) \/ CountCopies(u) \/ Plan(u)
      BY <1>1, <2>2, <3>1 DEF Start, CountCopies, Plan, Local
    <3>2. CASE Abort(u) \/ Commit(u)
      BY <1>1, <1>2, <2>2, <3>2 DEF Abort, Commit, Local
    <3> QED
      BY <1>5, <2>2, <3>1, <3>2 DEF UploadStep
  <2> QED
    BY <2>1, <2>2
<1>6. ASSUME NEW q \in Proc, Transfer(q)
      PROVE  ps'[p] = ps[p]
  <2>1. \E r : ps' = [ps EXCEPT ![q] = r]
    BY <1>6 DEF Transfer, Put, PutFails, Confirm, ConfirmFails, PlaceFailed
  <2>2. CASE q = p /\ Put(p)
    BY <1>1, <2>2 DEF Put, Local
  <2>3. CASE q = p /\ ~Put(p)
    <3>1. PICK w, r : /\ ps' = [ps EXCEPT ![p] = r]
                      /\ r = At("failed") \/ r = Placed(p, w)
      BY <1>6, <2>3 DEF Transfer, PutFails, Confirm, ConfirmFails, PlaceFailed
    <3> QED
      BY <1>1, <1>2, <1>4, <3>1
  <2> QED
    BY <1>1, <2>1, <2>2, <2>3
<1>7. ASSUME NEW q \in Proc, Collect(q) \/ ReapReplyLost(q)
      PROVE  ps'[p] = ps[p]
  <2>1. CASE q # p
    BY <1>1, <1>7, <2>1
    DEF Collect, ReapReplyLost, Purge, PurgeFails, Snapshot, Reap, ReapFails,
        Drop, Reaped
  <2>2. CASE q = p
    <3>1. CASE Purge(p) \/ PurgeFails(p)
      BY <3>1, PurgeEnds
    <3>2. CASE Reaped(p)
      BY <1>1, <1>3, <3>2 DEF Reaped
    <3>3. CASE Snapshot(p)
      BY <1>1, <3>3 DEF Snapshot, Local
    <3>4. CASE Reap(p)
      BY <1>1, <3>4 DEF Reap, Local
    <3>5. CASE ReapFails(p) \/ ReapReplyLost(p)
      BY <1>1, <3>5 DEF ReapFails, ReapReplyLost, Local
    <3>6. CASE Drop(p)
      BY <1>1, <3>6 DEF Drop, Local
    <3> QED
      BY <1>7, <2>2, <3>1, <3>2, <3>3, <3>4, <3>5, <3>6 DEF Collect
  <2> QED
    BY <2>1, <2>2
<1>8. CASE Schedule
  <2>1. \E r : ps' = [ps EXCEPT ![sched] = r]
    BY <1>8 DEF Schedule, Sweep, CountSurplus, Trimmed, CountMissing, Tasks, Aim,
                Fetch, FetchFails, Rest
  <2>2. CASE p = sched
    <3>1. CASE Sweep \/ Fetch \/ FetchFails
      BY <1>1, <2>2, <3>1 DEF Sweep, Fetch, FetchFails, Local
    <3>2. CASE Aim
      BY <1>1, <2>2, <3>2 DEF Aim, Local
    <3>3. CASE Trimmed \/ Rest
      BY <1>1, <1>2, <2>2, <3>3 DEF Trimmed, Rest
    <3>4. ASSUME NEW m, NEW next \in {"locate", "aim"},
                 NEW otherwise \in {"survey", "idle"}, Tasks(m, next, otherwise)
          PROVE  ps'[p] = ps[p]
      BY <1>1, <2>2, <3>4 DEF Tasks, At
    <3> QED
      BY <1>8, <3>1, <3>2, <3>3, <3>4 DEF Schedule, CountSurplus, CountMissing
  <2> QED
    BY <1>1, <2>1, <2>2
<1>9. CASE Crash
  BY <1>1, <1>2, <1>9 DEF Crash
<1> QED
  BY <1>5, <1>6, <1>7, <1>8, <1>9, Steps DEF Proc

(* An upload that has saved its manifest never goes back. *)
LEMMA CommittedStays ==
  ASSUME TypeInv, [Next]_vars, NEW u \in Upload, Committed(u)
  PROVE  Committed(u)'
<1>1. /\ ps \in [Proc -> Local] /\ ps[u] \in Local /\ u \in Proc /\ sched \in Proc
      /\ Deleter \subseteq Proc /\ u # sched /\ u \notin Deleter
  BY ClusterAssumption DEF TypeInv, ProcessesOK, Proc
<1>2. \A l : At(l).pc = l
  BY DEF At
<1>3. AfterReap(u).pc = "done"
  BY <1>1, <1>2 DEF AfterReap
<1> USE DEF pc, Committed
<1>4. ASSUME NEW v \in Upload, UploadStep(v)
      PROVE  Committed(u)'
  <2>1. CASE v # u
    BY <1>1, <1>4, <2>1
    DEF UploadStep, Start, CountCopies, Plan, Abort, Commit, Expire
  <2>2. CASE v = u
    BY <1>1, <1>2, <1>4, <2>2
    DEF UploadStep, Start, CountCopies, Plan, Abort, Commit, Expire, Local
  <2> QED
    BY <2>1, <2>2
<1>5. ASSUME NEW q \in Proc, Transfer(q)
      PROVE  Committed(u)'
  BY <1>1, <1>5 DEF Transfer, Put, PutFails, Confirm, ConfirmFails, PlaceFailed
<1>6. ASSUME NEW d \in Deleter, Request(d)
      PROVE  Committed(u)'
  BY <1>1, <1>6 DEF Request
<1>7. ASSUME NEW q \in Proc, Collect(q) \/ ReapReplyLost(q)
      PROVE  Committed(u)'
  <2>1. CASE q # u
    BY <1>1, <1>7, <2>1
    DEF Collect, ReapReplyLost, Purge, PurgeFails, Snapshot, Reap, ReapFails,
        Drop, Reaped
  <2>2. CASE q = u
    <3>1. CASE Purge(u) \/ PurgeFails(u)
      BY <1>1, <3>1, PurgeEnds
    <3>2. CASE Reaped(u)
      BY <1>1, <1>3, <3>2 DEF Reaped
    <3>3. CASE Snapshot(u)
      BY <1>1, <3>3 DEF Snapshot, Local
    <3>4. CASE Reap(u)
      BY <1>1, <3>4 DEF Reap, Local
    <3>5. CASE ReapFails(u) \/ ReapReplyLost(u)
      BY <1>1, <3>5 DEF ReapFails, ReapReplyLost, Local
    <3>6. CASE Drop(u)
      BY <1>1, <3>6 DEF Drop, Local
    <3> QED
      BY <1>7, <2>2, <3>1, <3>2, <3>3, <3>4, <3>5, <3>6 DEF Collect
  <2> QED
    BY <2>1, <2>2
<1>8. CASE Schedule
  BY <1>1, <1>8 DEF Schedule, Sweep, CountSurplus, Trimmed, CountMissing, Tasks, Aim,
                    Fetch, FetchFails, Rest
<1>9. CASE Crash
  BY <1>1, <1>2, <1>9 DEF Crash, Placing
<1> QED
  BY <1>4, <1>5, <1>6, <1>7, <1>8, <1>9, Steps DEF Proc

(* What a retention run selects: the versions of its name that have keep newer
   ones, no others. *)
LEMMA SelectedNow ==
  ASSUME TypeInv, VersionsDistinct, NEW u \in Upload, Expire(u), pc(u)' = "purge"
  PROVE  /\ files' = files /\ req[u].keep > 0
         /\ \A m \in ps'[u].doomed : \E f \in files : m = Manifest(f)
         /\ \A g \in files : g.id \in Selected(u)' <=>
                               /\ g.name = req[u].name
                               /\ Cardinality(Newer(g)) >= req[u].keep
<1> DEFINE old == Expired(req[u].name, req[u].keep)
<1>1. u \in Proc /\ ps \in [Proc -> Local] /\ ps[u] \in Local
  BY DEF TypeInv, ProcessesOK, Proc
<1>2. old # {}
  <2>1. old = {} => ps' = [ps EXCEPT ![u] = At("done")]
    BY DEF Expire
  <2> HIDE DEF old
  <2>2. At("done").pc = "done"
    BY DEF At
  <2> QED
    BY <1>1, <2>1, <2>2 DEF pc
<1>3. ps' = [ps EXCEPT ![u] = [ps[u] EXCEPT !.pc = "purge",
                                            !.doomed = {Manifest(f) : f \in old}]]
  BY <1>2 DEF Expire
<1>4. ps'[u].doomed = {Manifest(f) : f \in old}
  <2> DEFINE ms == {Manifest(f) : f \in old}
  <2>1. ps' = [ps EXCEPT ![u] = [ps[u] EXCEPT !.pc = "purge", !.doomed = ms]]
    BY <1>3
  <2> HIDE DEF ms
  <2>2. ps'[u].doomed = ms
    BY <1>1, <2>1 DEF Local
  <2> QED
    BY <2>2 DEF ms
<1>5. old \subseteq files /\ files' = files /\ req[u].keep > 0
  BY <1>2 DEF Expired, Expire, catVars
<1>6. ASSUME NEW g \in files
      PROVE  g.id \in Selected(u)' <=> g \in old
  <2>1. Selected(u)' = {m.id : m \in ps'[u].doomed}
    BY DEF Selected
  <2>2. g.id \in Selected(u)' <=> \E f \in old : Manifest(f).id = g.id
    BY <1>4, <2>1
  <2>3. \A f \in old : Manifest(f).id = f.id
    BY DEF Manifest
  <2>4. \A f \in old : f.id = g.id => f = g
    BY <1>5 DEF VersionsDistinct
  <2> HIDE DEF old
  <2> QED
    BY <2>2, <2>3, <2>4
<1>7. \A g \in files : g \in old <=> /\ g.name = req[u].name
                                     /\ Cardinality(Newer(g)) >= req[u].keep
  BY <1>5 DEF Expired
<1> QED
  BY <1>4, <1>5, <1>6, <1>7

(* No id comes back: a manifest is saved by an upload that never was past it. *)
LEMMA UsedUpStep ==
  ASSUME TypeInv, VersionsDistinct, IdsUsedUp, Deleter = {}, [Next]_vars
  PROVE  IdsUsedUp'
<1>1. /\ TypeOK /\ FileId = Upload /\ Upload \subseteq Proc
      /\ \A f \in files : f.id \in Upload
  BY ClusterAssumption DEF TypeInv, ClusterTypeOK, TypeOK, FileRow, Proc
<1>2. ASSUME NEW p \in Proc, pc(p)' = "purge"
      PROVE  p \in Upload
  BY <1>2, PurgeComes DEF IdsUsedUp, pc
<1>3. ASSUME NEW f \in files'
      PROVE  Committed(f.id)'
  <2>1. CASE \E g \in files : g.id = f.id
    BY <1>1, <2>1, CommittedStays DEF IdsUsedUp
  <2>2. CASE ~\E g \in files : g.id = f.id
    <3>1. files' # files
      BY <2>2
    <3>2. ASSUME NEW p \in Proc, Purge(p) PROVE FALSE
      BY <2>2, <3>2 DEF Purge, DeleteFiles
    <3>3. ASSUME NEW x \in Updates, PatchReplication(x[1], x[2]) PROVE FALSE
      <4>1. x[1] \in FileId /\ NormalizedReplication(x[2]) \in Nat
        BY ClusterAssumption, NormalizedPositive
      <4>2. Rewrites(x[1], NormalizedReplication(x[2]))
        BY <3>3 DEF PatchReplication, UpdateFileReplication, Rewrites
      <4> QED
        BY <1>1, <2>2, <4>1, <4>2, RewritesKeep
    <3>4. PICK u \in Upload : Commit(u)
      BY <3>1, <3>2, <3>3, FilesChange
    <3>5. f.id = u
      BY <2>2, <3>4 DEF Commit, CreateFile
    <3>6. ps[u] \in Local /\ ps \in [Proc -> Local] /\ u \in Proc
      BY <1>1 DEF TypeInv, ProcessesOK
    <3>7. pc(u)' = "expire"
      BY <3>4, <3>6 DEF Commit, pc, Local
    <3> QED
      BY <3>5, <3>7 DEF Committed
  <2> QED
    BY <2>1, <2>2
<1>4. ASSUME NEW u \in Upload, pc(u)' = "purge", NEW i \in Selected(u)'
      PROVE  Committed(i)'
  <2>1. CASE ps'[u] = ps[u]
    <3>1. pc(u) = "purge" /\ i \in Selected(u)
      BY <1>4, <2>1 DEF pc, Selected
    <3>2. i \in Upload
      BY <1>1, <3>1, Listed DEF Selected, TypeInv
    <3> QED
      BY <3>1, <3>2, CommittedStays DEF IdsUsedUp
  <2>2. CASE Expire(u)
    <3>1. \A m \in ps'[u].doomed : \E f \in files : m = Manifest(f)
      BY <1>1, <1>4, <2>2, SelectedNow
    <3>2. \E f \in files : i = f.id
      BY <3>1 DEF Selected, Manifest
    <3> QED
      BY <1>1, <3>2, CommittedStays DEF IdsUsedUp
  <2> QED
    BY <1>1, <1>4, <2>1, <2>2, PurgeComes
<1> QED
  BY <1>2, <1>3, <1>4 DEF IdsUsedUp

(* Another run that deletes a newer version has selected the older ones, too;
   a new version is newer than all; a change of the number of copies keeps the
   rows one by one. *)
LEMMA OldestStep ==
  ASSUME TypeInv, VersionsDistinct, RetentionInv, Deleter = {}, [Next]_vars
  PROVE  SelectsOldest'
<1> SUFFICES ASSUME NEW u \in Upload, pc(u)' = "purge",
                    NEW f \in files', f.id \in Selected(u)'
             PROVE  /\ \A g \in files' : g.name = f.name /\ g.version < f.version
                                           => g.id \in Selected(u)'
                    /\ Cardinality(Spared(u, f)') >= req'[u].keep
  BY DEF SelectsOldest
<1>1. /\ TypeOK /\ IsFiniteSet(files) /\ FileId = Upload /\ u \in Proc
      /\ TypeOK' /\ IsFiniteSet(files') /\ req' = req /\ req[u].keep \in Nat
      /\ \A g \in files \cup files' : g.version \in Nat
  <2>1. TypeOK /\ [CatNext]_catVars /\ IsFiniteSet(files)
    BY CatalogStep DEF TypeInv, ClusterTypeOK
  <2>2. TypeOK' /\ IsFiniteSet(files')
    BY <2>1, TypeStep, FilesFinite
  <2> QED
    BY <2>1, <2>2, SetsStep, Asked, ClusterAssumption
    DEF TypeOK, FileRow, Proc, TypeInv
<1>2. IsFiniteSet(Spared(u, f)) /\ IsFiniteSet(Spared(u, f)')
      /\ Cardinality(Spared(u, f)) \in Nat /\ Cardinality(Spared(u, f)') \in Nat
  <2>1. Spared(u, f) \in SUBSET files /\ Spared(u, f)' \in SUBSET files'
    BY DEF Spared, Newer
  <2> QED
    BY <1>1, <2>1, FS_Subset, FS_CardinalityType
<1>3. CASE Expire(u)
  <2> DEFINE k == req[u].keep
  <2>1. /\ files' = files /\ f \in files /\ k > 0
        /\ \A g \in files : g.id \in Selected(u)' <=>
                              /\ g.name = req[u].name
                              /\ Cardinality(Newer(g)) >= k
    BY <1>1, <1>3, SelectedNow
  <2>2. f.name = req[u].name /\ Cardinality(Newer(f)) >= k
    BY <2>1
  <2>3. ASSUME NEW g \in files, g.name = f.name, g.version < f.version
        PROVE  g.id \in Selected(u)'
    <3>1. Newer(f) \subseteq Newer(g)
      BY <1>1, <2>1, <2>3 DEF Newer
    <3>2. Newer(g) \in SUBSET files /\ Newer(f) \in SUBSET Newer(g)
      BY <3>1 DEF Newer
    <3>3. IsFiniteSet(Newer(g))
      BY <1>1, <3>2, FS_Subset
    <3>4. /\ Cardinality(Newer(f)) <= Cardinality(Newer(g))
          /\ Cardinality(Newer(f)) \in Nat /\ Cardinality(Newer(g)) \in Nat
      BY <3>2, <3>3, FS_Subset, FS_CardinalityType
    <3> QED
      BY <1>1, <2>1, <2>2, <2>3, <3>4
  <2>4. Spared(u, f)' = {g \in Newer(f) : ~(Cardinality(Newer(g)) >= k)}
    <3>1. Newer(f)' = Newer(f) /\ \A g \in Newer(f) : g \in files /\ g.name = f.name
      BY <2>1 DEF Newer
    <3>2. \A g \in Newer(f) : g.id \notin Selected(u)' <=> ~(Cardinality(Newer(g)) >= k)
      BY <2>1, <2>2, <3>1
    <3>3. Spared(u, f)' = {g \in Newer(f) : g.id \notin Selected(u)'}
      BY <3>1 DEF Spared
    <3> QED
      BY <3>2, <3>3
  <2>5. Cardinality({g \in Newer(f) : ~(Cardinality(Newer(g)) >= k)}) >= k
    BY <1>1, <2>1, <2>2, NewestSpared
  <2> QED
    BY <1>1, <2>1, <2>3, <2>4, <2>5
<1>4. CASE ps'[u] = ps[u]
  <2>1. pc(u) = "purge" /\ Selected(u)' = Selected(u)
    BY <1>4 DEF pc, Selected
  <2>2. ASSUME f \in files, Spared(u, f) \subseteq files',
               \A g \in files' : g.name = f.name /\ g.version < f.version => g \in files
        PROVE  /\ \A g \in files' : g.name = f.name /\ g.version < f.version
                                      => g.id \in Selected(u)'
               /\ Cardinality(Spared(u, f)') >= req'[u].keep
    <3>1. /\ \A g \in files : g.name = f.name /\ g.version < f.version
                                => g.id \in Selected(u)
          /\ Cardinality(Spared(u, f)) >= req[u].keep
      BY <2>1, <2>2 DEF RetentionInv, SelectsOldest
    <3>2. Spared(u, f) \in SUBSET Spared(u, f)'
      BY <2>1, <2>2 DEF Spared, Newer
    <3>3. Cardinality(Spared(u, f)) <= Cardinality(Spared(u, f)')
      BY <1>2, <3>2, FS_Subset
    <3> QED
      BY <1>1, <1>2, <2>1, <2>2, <3>1, <3>3
  <2>3. CASE files' = files
    BY <2>2, <2>3 DEF Spared, Newer
  <2>4. ASSUME NEW v \in Upload, Commit(v)
        PROVE  f \in files /\ Spared(u, f) \subseteq files'
               /\ \A g \in files' : g.name = f.name /\ g.version < f.version => g \in files
    <3>1. PICK w \in 1 .. MaxVersion :
            /\ NextVersion(req[v].name, w)
            /\ files' = files \cup {[id |-> v, name |-> req[v].name, version |-> w,
                                     repl |-> NormalizedReplication(req[v].repl),
                                     chunks |-> Chunks(v)]}
      BY <2>4 DEF Commit, CreateFile
    <3>2. ~Committed(v)
      BY <2>4 DEF Commit, Committed
    <3>3. f.id # v
      BY <2>1, <3>2 DEF RetentionInv, IdsUsedUp
    <3>4. f \in files
      BY <3>1, <3>3
    <3>5. w \in Nat /\ f.version \in Nat
      BY <1>1, CatalogAssumption
    <3>6. f.name = req[v].name => f.version < w
      BY <3>1, <3>4 DEF NextVersion
    <3> QED
      BY <3>1, <3>4, <3>5, <3>6 DEF Spared, Newer
  <2>5. ASSUME NEW p \in Proc, Purge(p)
        PROVE  f \in files /\ Spared(u, f) \subseteq files'
               /\ \A g \in files' : g.name = f.name /\ g.version < f.version => g \in files
    <3>1. files' = {g \in files : g.id \notin Selected(p)} /\ pc(p) = "purge"
      BY <2>5 DEF Purge, DeleteFiles, Selected
    <3>2. p \in Upload
      BY <3>1 DEF RetentionInv, IdsUsedUp
    <3>3. f \in files /\ f.id \notin Selected(p)
      BY <3>1
    <3>4. ASSUME NEW g \in Spared(u, f), g.id \in Selected(p) PROVE FALSE
      <4>1. g \in files /\ f.name = g.name /\ f.version < g.version
        BY <1>1, <3>3 DEF Spared, Newer
      <4> QED
        BY <3>1, <3>2, <3>3, <3>4, <4>1 DEF RetentionInv, SelectsOldest
    <3> QED
      BY <3>1, <3>3, <3>4 DEF Spared, Newer
  <2>6. ASSUME NEW x \in Updates, PatchReplication(x[1], x[2])
        PROVE  /\ \A g \in files' : g.name = f.name /\ g.version < f.version
                                      => g.id \in Selected(u)'
               /\ Cardinality(Spared(u, f)') >= req'[u].keep
    <3> DEFINE r == NormalizedReplication(x[2])
               New(g) == IF g.id = x[1] THEN [g EXCEPT !.repl = r] ELSE g
    <3>1. x[1] \in FileId /\ r \in Nat
      BY ClusterAssumption, NormalizedPositive
    <3>2. Rewrites(x[1], r) /\ files' = {New(g) : g \in files}
      BY <2>6 DEF PatchReplication, UpdateFileReplication, Rewrites
    <3>3. PICK f0 \in files : f0.id = f.id /\ f0.name = f.name /\ f0.version = f.version
      BY <1>1, <3>1, <3>2, RewritesKeep
    <3>4. /\ \A g \in files : g.name = f0.name /\ g.version < f0.version
                                => g.id \in Selected(u)
          /\ Cardinality(Spared(u, f0)) >= req[u].keep
      BY <2>1, <3>3 DEF RetentionInv, SelectsOldest
    <3>5. ASSUME NEW g \in files', g.name = f.name, g.version < f.version
          PROVE  g.id \in Selected(u)
      <4>1. PICK g0 \in files : g0.id = g.id /\ g0.name = g.name /\ g0.version = g.version
        BY <1>1, <3>1, <3>2, RewritesKeep
      <4> QED
        BY <3>3, <3>4, <3>5, <4>1
    <3>6. \A g \in files : /\ New(g).id = g.id /\ New(g).name = g.name
                           /\ New(g).version = g.version /\ New(g) \in files'
      BY <1>1, <3>2 DEF TypeOK, FileRow
    <3> DEFINE F == [g \in Spared(u, f0) |-> New(g)]
    <3>7. F \in Injection(Spared(u, f0), Spared(u, f)')
      <4>1. ASSUME NEW g \in Spared(u, f0) PROVE F[g] \in Spared(u, f)'
        <5>1. g \in files /\ g.name = f0.name /\ g.version > f0.version
              /\ g.id \notin Selected(u)
          BY DEF Spared, Newer
        <5>2. F[g] = New(g)
          OBVIOUS
        <5> HIDE DEF New, F
        <5> QED
          BY <2>1, <3>3, <3>6, <5>1, <5>2 DEF Spared, Newer
      <4>2. ASSUME NEW g \in Spared(u, f0), NEW h \in Spared(u, f0), F[g] = F[h]
            PROVE  g = h
        <5>1. g \in files /\ h \in files
          BY DEF Spared, Newer
        <5>2. F[g] = New(g) /\ F[h] = New(h)
          OBVIOUS
        <5> HIDE DEF New, F
        <5>3. g.id = h.id
          BY <3>6, <4>2, <5>1, <5>2
        <5> QED
          BY <5>1, <5>3 DEF VersionsDistinct
      <4>3. F \in [Spared(u, f0) -> Spared(u, f)']
        BY <4>1
      <4> HIDE DEF F
      <4> QED
        BY <4>2, <4>3 DEF Injection, IsInjective
    <3>8. Cardinality(Spared(u, f0)) <= Cardinality(Spared(u, f)')
      <4> HIDE DEF F
      <4> QED
        BY <1>2, <3>7, FS_Injection
    <3>9. Cardinality(Spared(u, f0)) \in Nat
      <4>1. Spared(u, f0) \in SUBSET files
        BY DEF Spared, Newer
      <4> QED
        BY <1>1, <4>1, FS_Subset, FS_CardinalityType
    <3> QED
      BY <1>1, <1>2, <2>1, <3>4, <3>5, <3>8, <3>9
  <2> QED
    BY <2>2, <2>3, <2>4, <2>5, <2>6, FilesChange
<1> QED
  BY <1>1, <1>3, <1>4, PurgeComes

(* Without deletions by hand, a retention run with keep = k deletes a version
   only if k newer versions of the name stay (README.md:186, state.go:472-517),
   although it selects in one statement and deletes in another, and however
   many uploads, retention runs, restarts and changes of the number of copies
   overlap. *)
THEOREM ClusterRetentionKeepsNewest ==
  ASSUME Deleter = {}
  PROVE  Spec => RetentionKeepsNewest
<1> DEFINE Keeps ==
      \A u \in Upload : pc(u) = "purge" /\ pc(u)' # "purge" =>
        \A f \in files \ files' :
          Cardinality({g \in files' : g.name = f.name /\ g.version > f.version})
            >= req[u].keep
<1>1. Init => RetentionInv
  <2> SUFFICES ASSUME Init PROVE RetentionInv
    OBVIOUS
  <2>1. files = {} /\ \A p \in Proc : pc(p) # "purge"
    BY DEF Init, CatInit, At, pc
  <2> QED
    BY <2>1 DEF RetentionInv, IdsUsedUp, SelectsOldest, Proc
<1>2. TypeInv /\ VersionsDistinct /\ RetentionInv /\ [Next]_vars => RetentionInv'
  BY UsedUpStep, OldestStep DEF RetentionInv
<1>3. TypeInv /\ RetentionInv /\ [Next]_vars => [Keeps]_vars
  <2> SUFFICES ASSUME TypeInv, RetentionInv, [Next]_vars,
                      NEW u \in Upload, pc(u) = "purge", pc(u)' # "purge",
                      NEW f \in files \ files'
               PROVE  Cardinality({g \in files' : g.name = f.name /\ g.version > f.version})
                        >= req[u].keep
    OBVIOUS
  <2>1. u \in Proc /\ files' # files /\ ps' # ps
    BY DEF Proc, pc
  <2>2. ~\E v \in Upload : Commit(v)
    BY DEF Commit, CreateFile
  <2>3. PICK p \in Proc : Purge(p)
    BY <2>1, <2>2, FilesChange
  <2>4. p = u
    BY <2>1, <2>3, PurgeEnds DEF pc
  <2>5. files' = {g \in files : g.id \notin Selected(u)}
    BY <2>3, <2>4 DEF Purge, DeleteFiles, Selected
  <2>6. {g \in files' : g.name = f.name /\ g.version > f.version} = Spared(u, f)
    BY <2>5 DEF Spared, Newer
  <2>7. Cardinality(Spared(u, f)) >= req[u].keep
    BY <2>5 DEF RetentionInv, SelectsOldest
  <2> QED
    BY <2>6, <2>7
<1>4. Spec => []VersionsDistinct
  BY ClusterImplementsCatalog, CatVersionsDistinct, PTL
<1> QED
  BY <1>1, <1>2, <1>3, <1>4, TypeInvariant, PTL DEF Spec, RetentionKeepsNewest
=============================================================================
