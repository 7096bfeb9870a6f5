--------------------------- MODULE ChunkStoreProofs ---------------------------
(***************************************************************************)
(* What a storage node promises about its files, its counter and its       *)
(* capacity while any number of handlers interleave at every system call,  *)
(* break off and restart.                                                  *)
(***************************************************************************)
EXTENDS ChunkStore, Sums

-----------------------------------------------------------------------------
(* Sizes *)

LEMMA GreatestUpTo ==
  ASSUME NEW n \in Nat, NEW S \in SUBSET (0 .. n), S # {}
  PROVE  \E m \in S : \A x \in S : m >= x
<1> DEFINE T == {c \in Nat : n - c \in S}
<1>1. T # {} /\ T \subseteq Nat
  <2>1. PICK x \in S : TRUE
    OBVIOUS
  <2>2. n - x \in Nat /\ n - (n - x) = x
    BY <2>1
  <2>3. n - x \in T
    BY <2>1, <2>2
  <2>4. QED BY <2>3
<1>2. PICK c \in T : \A d \in T : c <= d
  <2> HIDE DEF T
  <2>1. QED BY <1>1, LeastNumber
<1>4. \A x \in S : n - c >= x
  <2> TAKE x \in S
  <2>1. n - x \in Nat /\ n - (n - x) = x
    OBVIOUS
  <2>2. n - x \in T
    BY <2>1
  <2>3. c <= n - x
    BY <1>2, <2>2
  <2>4. QED BY <2>1, <2>3, <1>1
<1>5. QED BY <1>4

LEMMA SizeType ==
  ASSUME NEW f PROVE Size(f) \in 0 .. Blocks
<1> DEFINE S == {0} \cup {b \in 1 .. Blocks : f[b] # "hole"}
<1>1. Blocks \in Nat /\ S \in SUBSET (0 .. Blocks) /\ S # {}
  BY StoreAssumption
<1>2. \E m \in S : \A x \in S : m >= x
  BY <1>1, GreatestUpTo
<1>3. Max(S) \in S
  BY <1>2 DEF Max
<1>4. QED BY <1>1, <1>3 DEF Size

LEMMA FilePresent ==
  ASSUME NEW f \in File PROVE f # absent
<1>1. DOMAIN f = 1 .. Blocks /\ 1 \in 1 .. Blocks
  BY StoreAssumption DEF File
<1>2. DOMAIN absent = {}
  BY DEF absent
<1>3. QED BY <1>1, <1>2

LEMMA EmptyFile == Empty \in File
  BY DEF Empty, File

-----------------------------------------------------------------------------
(* Types, and what a handler works on *)

Labels == {"idle", "create", "write", "stat", "rename", "restat", "add", "remove",
           "wipe", "zero"}
Local == [pc: Labels, hash: Hash \cup {"none"}, at: {"tmp", "path", "none"},
          next: Nat, old: Int, delta: Int, kind: {"none", "put", "delete", "clear"}]

Files == /\ path \in [Hash -> File \cup {absent}]
         /\ tmp \in [Hash -> File \cup {absent}]

Shape(p) ==
  /\ pc(p) \in {"create", "write", "stat", "rename", "restat"} =>
       op[p].hash \in Hash /\ op[p].kind = "put"
  /\ pc(p) = "write" => op[p].next \in 1 .. Blocks
  /\ pc(p) = "remove" => op[p].hash \in Hash /\ op[p].kind = "delete"
  /\ pc(p) = "add" => op[p].hash \in Hash /\ op[p].kind \in {"put", "delete"}
  /\ pc(p) \in {"wipe", "zero"} => op[p].kind = "clear"

Shaped == op \in [Op -> Local] /\ \A p \in Op : Shape(p)

LEMMA IdleLocal == Idle \in Local /\ Idle.pc = "idle"
  BY DEF Idle, Local, Labels

LEMMA MovedType ==
  ASSUME op \in [Op -> Local], NEW h, NEW from, NEW to \in {"tmp", "path", "none"}
  PROVE  /\ Moved(h, from, to) \in [Op -> Local]
         /\ \A q \in Op : /\ Moved(h, from, to)[q].pc = op[q].pc
                          /\ Moved(h, from, to)[q].hash = op[q].hash
                          /\ Moved(h, from, to)[q].kind = op[q].kind
                          /\ Moved(h, from, to)[q].next = op[q].next
                          /\ Moved(h, from, to)[q].old = op[q].old
                          /\ Moved(h, from, to)[q].delta = op[q].delta
                          /\ op[q].hash # h => Moved(h, from, to)[q] = op[q]
<1>1. ASSUME NEW q \in Op
      PROVE  /\ Moved(h, from, to)[q] \in Local
             /\ Moved(h, from, to)[q].pc = op[q].pc
             /\ Moved(h, from, to)[q].hash = op[q].hash
             /\ Moved(h, from, to)[q].kind = op[q].kind
             /\ Moved(h, from, to)[q].next = op[q].next
             /\ Moved(h, from, to)[q].old = op[q].old
             /\ Moved(h, from, to)[q].delta = op[q].delta
             /\ op[q].hash # h => Moved(h, from, to)[q] = op[q]
  <2>1. op[q] \in Local
    OBVIOUS
  <2>2. Moved(h, from, to)[q] = op[q]
          \/ \E a \in {"tmp", "path", "none"} :
               Moved(h, from, to)[q] = [op[q] EXCEPT !.at = a]
    BY DEF Moved
  <2>3. op[q].hash # h => Moved(h, from, to)[q] = op[q]
    BY DEF Moved
  <2>4. QED BY <2>1, <2>2, <2>3 DEF Local
<1>2. Moved(h, from, to) = [q \in Op |-> Moved(h, from, to)[q]]
  BY DEF Moved
<1>3. QED BY <1>1, <1>2

-----------------------------------------------------------------------------
(* Two handlers on one hash are noted. *)

Noted == mixed \subseteq Hash /\ \A h \in Hash : Overlapping(h) => h \in mixed

(* What a put has made of its chunk, as long as it had the hash for itself. *)
Written(p, k) ==
  /\ tmp[op[p].hash] \in File
  /\ \A b \in 1 .. k : tmp[op[p].hash][b] = Tag(p)

Progress(p) ==
  op[p].hash \notin mixed =>
    /\ pc(p) = "write" => op[p].at = "tmp" /\ Written(p, op[p].next - 1)
    /\ pc(p) \in {"stat", "rename"} => Written(p, Blocks)
    /\ pc(p) = "restat" \/ (pc(p) = "add" /\ op[p].kind = "put") =>
         Whole(path[op[p].hash])

Core == Files /\ Shaped /\ (\A p \in Op : Progress(p)) /\ PublishedWhole
StoreInv == Core /\ Noted

(* Whoever works on a hash that is not mixed is alone with it. *)
LEMMA Alone ==
  ASSUME Shaped, Noted, NEW p \in Op, NEW q \in Op, p # q, Active(p), Active(q),
         NEW h \in Hash \ mixed, op[q].hash = h, op[p].hash = h \/ op[p].kind = "clear"
  PROVE  FALSE
  BY DEF Noted, Overlapping

-----------------------------------------------------------------------------
(* What a step of p leaves alone stays as it was. *)

LEMMA Undisturbed ==
  ASSUME StoreInv, sealed' = sealed, mixed \subseteq mixed', NEW q \in Op,
         op'[q] = op[q],
         op[q].hash \in Hash => /\ path'[op[q].hash] = path[op[q].hash]
                                /\ tmp'[op[q].hash] = tmp[op[q].hash]
  PROVE  Shape(q)' /\ Progress(q)'
<1>1. Shape(q)'
  BY DEF StoreInv, Core, Shaped, Shape, pc
<1>2. CASE op[q].hash \in Hash
  BY <1>1, <1>2 DEF StoreInv, Core, Progress, Written, Whole, File, Tag, pc
<1>3. CASE op[q].hash \notin Hash
  BY <1>1, <1>3 DEF StoreInv, Core, Shaped, Shape, Progress, pc
<1>4. QED BY <1>1, <1>2, <1>3

(* A step that changes no file *)
LEMMA LocalStep ==
  ASSUME StoreInv, sealed' = sealed, mixed \subseteq mixed', NEW p \in Op,
         NEW l \in Local, op' = [op EXCEPT ![p] = l],
         path' = path, tmp' = tmp, Shape(p)', Progress(p)'
  PROVE  Core'
<1>1. op' \in [Op -> Local]
  BY DEF StoreInv, Core, Shaped
<1>2. ASSUME NEW q \in Op PROVE Shape(q)' /\ Progress(q)'
  <2>1. CASE q = p
    BY <2>1
  <2>2. CASE q # p
    <3>1. op'[q] = op[q]
      BY <2>2
    <3>2. QED BY <3>1, Undisturbed
  <2>3. QED BY <2>1, <2>2
<1>3. PublishedWhole'
  BY DEF StoreInv, Core, PublishedWhole, Whole, Tag
<1>4. Files'
  BY DEF StoreInv, Core, Files, File, Tag
<1>5. QED BY <1>1, <1>2, <1>3, <1>4 DEF Core, Shaped

(* A step that changes the files of one hash, and where others find them *)
LEMMA FileStep ==
  ASSUME StoreInv, sealed' = sealed, mixed \subseteq mixed', NEW p \in Op, Active(p),
         NEW h \in Hash, op[p].hash = h \/ op[p].kind = "clear",
         op' \in [Op -> Local],
         \A q \in Op \ {p} : /\ op'[q].pc = op[q].pc
                             /\ op'[q].hash = op[q].hash
                             /\ op'[q].kind = op[q].kind
                             /\ op'[q].next = op[q].next
                             /\ op[q].hash # h => op'[q] = op[q],
         Files', \A g \in Hash \ {h} : path'[g] = path[g] /\ tmp'[g] = tmp[g],
         Shape(p)', Progress(p)',
         h \notin mixed' => path'[h] = absent \/ Whole(path[h])'
  PROVE  Core'
<1>1. ASSUME NEW q \in Op PROVE Shape(q)' /\ Progress(q)'
  <2>1. CASE q = p
    BY <2>1
  <2>2. CASE q # p /\ op[q].hash # h
    <3>1. op'[q] = op[q]
      BY <2>2
    <3>2. QED BY <2>2, <3>1, Undisturbed
  <2>3. CASE q # p /\ op[q].hash = h
    <3>1. Shape(q)'
      BY <2>3 DEF StoreInv, Core, Shaped, Shape, pc
    <3>2. h \in mixed \/ pc(q) = "idle"
      BY <2>3, Alone DEF StoreInv, Core, Active
    <3>3. Progress(q)'
      BY <2>3, <3>2 DEF Progress, pc
    <3>4. QED BY <3>1, <3>3
  <2>4. QED BY <2>1, <2>2, <2>3
<1>2. PublishedWhole'
  <2> SUFFICES ASSUME NEW g \in Hash \ mixed'
               PROVE  path'[g] = absent \/ Whole(path[g])'
    BY DEF PublishedWhole
  <2>1. CASE g = h
    BY <2>1
  <2>2. CASE g # h
    BY <2>2 DEF StoreInv, Core, PublishedWhole, Whole, Tag
  <2>3. QED BY <2>1, <2>2
<1>3. QED BY <1>1, <1>2 DEF Core, Shaped

-----------------------------------------------------------------------------
(* The steps of a handler *)

LEMMA StartSteps ==
  ASSUME StoreInv, sealed' = sealed, mixed \subseteq mixed', NEW p \in Op,
         \/ \E h \in Hash : PutStarts(p, h) \/ DeleteStarts(p, h)
         \/ ClearStarts(p)
  PROVE  Core'
<1>1. ASSUME NEW h \in Hash, PutStarts(p, h) PROVE Core'
  <2> DEFINE l == [Idle EXCEPT !.pc = "create", !.hash = h, !.kind = "put"]
  <2>1. l \in Local /\ l.pc = "create" /\ l.hash = h /\ l.kind = "put"
    BY IdleLocal DEF Local, Labels
  <2>2. op' = [op EXCEPT ![p] = l] /\ op'[p] = l /\ path' = path /\ tmp' = tmp
    BY <1>1 DEF PutStarts, StoreInv, Core, Shaped
  <2> HIDE DEF l
  <2>3. Shape(p)' /\ Progress(p)'
    BY <2>1, <2>2 DEF Shape, Progress, pc
  <2>4. QED BY <2>1, <2>2, <2>3, LocalStep
<1>2. ASSUME NEW h \in Hash, DeleteStarts(p, h) PROVE Core'
  <2> DEFINE l == [Idle EXCEPT !.pc = "remove", !.hash = h, !.kind = "delete",
                               !.delta = -Size(path[h])]
  <2>1. l \in Local /\ l.pc = "remove" /\ l.hash = h /\ l.kind = "delete"
    <3>1. -Size(path[h]) \in Int
      BY SizeType, StoreAssumption
    <3>2. QED BY <3>1, IdleLocal DEF Local, Labels
  <2>2. op' = [op EXCEPT ![p] = l] /\ op'[p] = l /\ path' = path /\ tmp' = tmp
    BY <1>2 DEF DeleteStarts, StoreInv, Core, Shaped
  <2> HIDE DEF l
  <2>3. Shape(p)' /\ Progress(p)'
    BY <2>1, <2>2 DEF Shape, Progress, pc
  <2>4. QED BY <2>1, <2>2, <2>3, LocalStep
<1>3. ASSUME ClearStarts(p) PROVE Core'
  <2> DEFINE l == [Idle EXCEPT !.pc = "wipe", !.kind = "clear"]
  <2>1. l \in Local /\ l.pc = "wipe" /\ l.kind = "clear"
    BY IdleLocal DEF Local, Labels
  <2>2. op' = [op EXCEPT ![p] = l] /\ op'[p] = l /\ path' = path /\ tmp' = tmp
    BY <1>3 DEF ClearStarts, StoreInv, Core, Shaped
  <2> HIDE DEF l
  <2>3. Shape(p)' /\ Progress(p)'
    BY <2>1, <2>2 DEF Shape, Progress, pc
  <2>4. QED BY <2>1, <2>2, <2>3, LocalStep
<1>4. QED BY <1>1, <1>2, <1>3

(* The steps after which the handler is done *)
LEMMA EndSteps ==
  ASSUME StoreInv, sealed' = sealed, mixed \subseteq mixed', NEW p \in Op,
         op' = [op EXCEPT ![p] = Idle], path' = path, tmp' = tmp
  PROVE  Core'
<1>1. op'[p] = Idle
  BY DEF StoreInv, Core, Shaped
<1>2. Shape(p)' /\ Progress(p)'
  BY <1>1, IdleLocal DEF Shape, Progress, pc
<1>3. QED BY <1>2, IdleLocal, LocalStep

LEMMA StatSteps ==
  ASSUME StoreInv, sealed' = sealed, mixed \subseteq mixed', NEW p \in Op,
         StatOld(p) \/ StatNew(p) \/ Wiped(p)
  PROVE  Core'
<1> USE DEF StoreInv, Core, Shaped
<1>1. op[p] \in Local /\ Shape(p) /\ Progress(p)
  OBVIOUS
<1>2. CASE StatOld(p)
  <2> DEFINE l == [op[p] EXCEPT !.pc = "rename", !.old = Size(path[op[p].hash])]
  <2>1. /\ l \in Local /\ l.pc = "rename" /\ l.hash = op[p].hash
        /\ l.kind = op[p].kind /\ pc(p) = "stat"
    <3>1. Size(path[op[p].hash]) \in Int
      BY SizeType, StoreAssumption
    <3>2. QED BY <1>1, <1>2, <3>1 DEF Local, Labels, StatOld, pc
  <2>2. op' = [op EXCEPT ![p] = l] /\ op'[p] = l /\ path' = path /\ tmp' = tmp
    BY <1>2 DEF StatOld
  <2> HIDE DEF l
  <2>3. Shape(p)'
    BY <1>1, <2>1, <2>2 DEF Shape, pc
  <2>4. Progress(p)'
    BY <1>1, <2>1, <2>2 DEF Progress, Written, File, Tag, pc
  <2>5. QED BY <2>1, <2>2, <2>3, <2>4, LocalStep
<1>3. CASE StatNew(p)
  <2> DEFINE l == [op[p] EXCEPT !.pc = "add",
                                !.delta = Size(path[op[p].hash]) - op[p].old]
  <2>1. Size(path[op[p].hash]) - op[p].old \in Int
    BY <1>1, SizeType, StoreAssumption DEF Local
  <2>2. /\ l \in Local /\ l.pc = "add" /\ l.hash = op[p].hash
        /\ l.kind = op[p].kind /\ pc(p) = "restat"
    BY <1>1, <1>3, <2>1 DEF Local, Labels, StatNew, pc
  <2>3. op' = [op EXCEPT ![p] = l] /\ op'[p] = l /\ path' = path /\ tmp' = tmp
    BY <1>3 DEF StatNew
  <2> HIDE DEF l
  <2>4. Shape(p)'
    BY <1>1, <2>2, <2>3 DEF Shape, pc
  <2>5. Progress(p)'
    BY <1>1, <2>2, <2>3 DEF Progress, Whole, Tag, pc
  <2>6. QED BY <2>2, <2>3, <2>4, <2>5, LocalStep
<1>4. CASE Wiped(p)
  <2> DEFINE l == [op[p] EXCEPT !.pc = "zero"]
  <2>1. l \in Local /\ l.pc = "zero" /\ l.kind = op[p].kind /\ pc(p) = "wipe"
    BY <1>1, <1>4 DEF Local, Labels, Wiped, pc
  <2>2. op' = [op EXCEPT ![p] = l] /\ op'[p] = l /\ path' = path /\ tmp' = tmp
    BY <1>4 DEF Wiped
  <2> HIDE DEF l
  <2>3. Shape(p)' /\ Progress(p)'
    BY <1>1, <2>1, <2>2 DEF Shape, Progress, pc
  <2>4. QED BY <2>1, <2>2, <2>3, LocalStep
<1>5. QED BY <1>2, <1>3, <1>4

(* A file stays a file when a block is written. *)
LEMMA WriteType ==
  ASSUME NEW f \in File \cup {absent}, NEW k \in 1 .. Blocks, NEW p \in Op
  PROVE  /\ [f EXCEPT ![k] = Tag(p)] \in File \cup {absent}
         /\ f \in File => [f EXCEPT ![k] = Tag(p)] \in File
<1>1. CASE f \in File
  BY <1>1 DEF File
<1>2. CASE f = absent
  <2>1. DOMAIN f = {}
    BY <1>2 DEF absent
  <2>2. [f EXCEPT ![k] = Tag(p)] = [i \in {} |-> f[i]]
    BY <2>1
  <2>3. absent = [i \in {} |-> f[i]]
    BY <1>2 DEF absent
  <2>4. [f EXCEPT ![k] = Tag(p)] = absent
    BY <2>2, <2>3
  <2>5. QED BY <2>4, <1>2, FilePresent
<1>3. QED BY <1>1, <1>2

LEMMA CreateStep ==
  ASSUME StoreInv, sealed' = sealed, mixed \subseteq mixed', NEW p \in Op, Create(p)
  PROVE  Core'
<1> USE DEF StoreInv, Core, Shaped
<1>1. PICK h \in Hash : op[p].hash = h
  BY DEF Create, Shape, pc
<1> DEFINE l == [op[p] EXCEPT !.pc = "write", !.at = "tmp", !.next = 1]
<1>2. op[p] \in Local /\ op[p].kind = "put" /\ Active(p)
  BY DEF Create, Shape, Active, pc
<1>3. /\ l \in Local /\ l.pc = "write" /\ l.at = "tmp" /\ l.next = 1 /\ l.hash = h
      /\ l.kind = "put"
  BY <1>1, <1>2 DEF Local, Labels
<1>4. op' = [op EXCEPT ![p] = l] /\ op'[p] = l /\ path' = path
  BY DEF Create
<1>5. tmp' = [tmp EXCEPT ![h] = Empty] /\ tmp'[h] = Empty
  BY <1>1 DEF Create, Files
<1> HIDE DEF l
<1>6. File' = File
  BY DEF File, Tag
<1>7. Files'
  BY <1>1, <1>4, <1>5, <1>6, EmptyFile DEF Files
<1>8. Shape(p)'
  BY <1>1, <1>3, <1>4, StoreAssumption DEF Shape, pc
<1>9. Progress(p)'
  BY <1>3, <1>4, <1>5, <1>6, EmptyFile DEF Progress, Written, pc
<1>10. h \notin mixed' => path'[h] = absent \/ Whole(path[h])'
  BY <1>1, <1>4 DEF PublishedWhole, Whole, Tag
<1>11. op' \in [Op -> Local] /\ \A q \in Op \ {p} : op'[q] = op[q]
  BY <1>3, <1>4
<1>12. \A g \in Hash \ {h} : path'[g] = path[g] /\ tmp'[g] = tmp[g]
  BY <1>4, <1>5 DEF Files
<1>13. QED
  BY <1>1, <1>2, <1>7, <1>8, <1>9, <1>10, <1>11, <1>12, FileStep

LEMMA WriteStep ==
  ASSUME StoreInv, sealed' = sealed, mixed \subseteq mixed', NEW p \in Op, Write(p)
  PROVE  Core'
<1> USE DEF StoreInv, Core, Shaped
<1>1. PICK h \in Hash : op[p].hash = h
  BY DEF Write, Shape, pc
<1>2. PICK k \in 1 .. Blocks : op[p].next = k
  BY DEF Write, Shape, pc
<1>3. op[p] \in Local /\ op[p].kind = "put" /\ Active(p) /\ pc(p) = "write"
  BY DEF Write, Shape, Active, pc
<1>4. /\ tmp' = IF op[p].at = "tmp" THEN [tmp EXCEPT ![h][k] = Tag(p)] ELSE tmp
      /\ path' = IF op[p].at = "path" THEN [path EXCEPT ![h][k] = Tag(p)] ELSE path
  BY <1>1, <1>2 DEF Write
<1>5. PICK l \in Local : /\ op' = [op EXCEPT ![p] = l]
                         /\ l.hash = h /\ l.kind = "put"
                         /\ \/ k = Blocks /\ l.pc = "stat"
                            \/ /\ k < Blocks /\ l.pc = "write"
                               /\ l.next = k + 1 /\ l.at = op[p].at
  <2>1. CASE k = Blocks
    <3> DEFINE r == [op[p] EXCEPT !.pc = "stat", !.at = "none"]
    <3>1. r \in Local /\ r.hash = h /\ r.kind = "put" /\ r.pc = "stat"
      BY <1>1, <1>3 DEF Local, Labels
    <3>2. op' = [op EXCEPT ![p] = r]
      BY <1>2, <2>1 DEF Write
    <3>3. QED BY <2>1, <3>1, <3>2
  <2>2. CASE k # Blocks
    <3> DEFINE r == [op[p] EXCEPT !.next = k + 1]
    <3>1. /\ r \in Local /\ r.hash = h /\ r.kind = "put" /\ r.pc = "write"
          /\ r.next = k + 1 /\ r.at = op[p].at
      BY <1>1, <1>3 DEF Local, Labels, pc
    <3>2. op' = [op EXCEPT ![p] = r]
      BY <1>2, <2>2 DEF Write
    <3>3. k < Blocks
      BY <2>2, StoreAssumption
    <3>4. QED BY <3>1, <3>2, <3>3
  <2>3. QED BY <2>1, <2>2
<1>6. File' = File /\ Tag(p)' = Tag(p)
  BY DEF File, Tag
<1>7. op'[p] = l
  BY <1>5
<1>8. Files'
  <2>1. [tmp[h] EXCEPT ![k] = Tag(p)] \in File \cup {absent}
    BY WriteType DEF Files
  <2>2. [path[h] EXCEPT ![k] = Tag(p)] \in File \cup {absent}
    BY WriteType DEF Files
  <2>3. QED BY <1>4, <1>6, <2>1, <2>2 DEF Files
<1>9. Shape(p)'
  BY <1>5, <1>7, StoreAssumption DEF Shape, pc
<1>10. ASSUME h \notin mixed'
       PROVE  /\ op[p].at = "tmp" /\ path' = path
              /\ tmp'[h] \in File /\ \A b \in 1 .. k : tmp'[h][b] = Tag(p)
  <2>1. op[p].at = "tmp" /\ tmp[h] \in File /\ \A b \in 1 .. k - 1 : tmp[h][b] = Tag(p)
    BY <1>1, <1>2, <1>3, <1>10 DEF Progress, Written
  <2>2. tmp'[h] = [tmp[h] EXCEPT ![k] = Tag(p)] /\ path' = path
    BY <1>4, <2>1 DEF Files
  <2>3. tmp'[h] \in File
    BY <2>1, <2>2, WriteType
  <2>4. ASSUME NEW b \in 1 .. k PROVE tmp'[h][b] = Tag(p)
    <3>1. DOMAIN tmp[h] = 1 .. Blocks
      BY <2>1 DEF File
    <3>2. b \in 1 .. Blocks /\ (b = k \/ b \in 1 .. k - 1)
      BY StoreAssumption
    <3>3. QED BY <2>1, <2>2, <3>1, <3>2
  <2>5. QED BY <2>1, <2>2, <2>3, <2>4
<1>11. Progress(p)'
  BY <1>5, <1>6, <1>7, <1>10 DEF Progress, Written, pc
<1>12. h \notin mixed' => path'[h] = absent \/ Whole(path[h])'
  BY <1>10 DEF PublishedWhole, Whole, Tag
<1>13. op' \in [Op -> Local] /\ \A q \in Op \ {p} : op'[q] = op[q]
  BY <1>5
<1>14. \A g \in Hash \ {h} : path'[g] = path[g] /\ tmp'[g] = tmp[g]
  BY <1>4 DEF Files
<1>15. QED
  BY <1>1, <1>3, <1>8, <1>9, <1>11, <1>12, <1>13, <1>14, FileStep

LEMMA PutAbortsStep ==
  ASSUME StoreInv, sealed' = sealed, mixed \subseteq mixed', NEW p \in Op, PutAborts(p)
  PROVE  Core'
<1> USE DEF StoreInv, Core, Shaped
<1>1. PICK h \in Hash : op[p].hash = h
  BY DEF PutAborts, Shape, pc
<1>2. CASE ~(pc(p) = "write" /\ ~sealed)
  <2>1. op' = [op EXCEPT ![p] = Idle] /\ path' = path /\ tmp' = tmp
    BY <1>2 DEF PutAborts
  <2>2. QED BY <2>1, EndSteps
<1>3. CASE pc(p) = "write" /\ ~sealed
  <2>1. /\ tmp' = [tmp EXCEPT ![h] = absent] /\ path' = path
        /\ op' = [Moved(h, "tmp", "none") EXCEPT ![p] = Idle]
    BY <1>1, <1>3 DEF PutAborts
  <2>2. Moved(h, "tmp", "none") \in [Op -> Local]
    BY MovedType
  <2>3. op' \in [Op -> Local] /\ op'[p] = Idle
    BY <2>1, <2>2, IdleLocal
  <2>4. \A q \in Op \ {p} : /\ op'[q].pc = op[q].pc
                            /\ op'[q].hash = op[q].hash
                            /\ op'[q].kind = op[q].kind
                            /\ op'[q].next = op[q].next
                            /\ op[q].hash # h => op'[q] = op[q]
    BY <2>1, <2>2, MovedType
  <2>5. Shape(p)' /\ Progress(p)'
    BY <2>3, IdleLocal DEF Shape, Progress, pc
  <2>6. Files'
    BY <2>1 DEF Files, File, Tag
  <2>7. h \notin mixed' => path'[h] = absent \/ Whole(path[h])'
    BY <2>1 DEF PublishedWhole, Whole, Tag
  <2>8. \A g \in Hash \ {h} : path'[g] = path[g] /\ tmp'[g] = tmp[g]
    BY <2>1 DEF Files
  <2>9. Active(p)
    BY <1>3 DEF Active
  <2>10. QED
    BY <1>1, <2>3, <2>4, <2>5, <2>6, <2>7, <2>8, <2>9, FileStep
<1>4. QED BY <1>2, <1>3

(* Handlers that found the file under from find it under to. *)
LEMMA MovedStep ==
  ASSUME Shaped, NEW p \in Op, NEW h \in Hash, op[p].hash = h,
         NEW from, NEW to \in {"tmp", "path", "none"}, NEW c \in Labels,
         op' = [Moved(h, from, to) EXCEPT ![p].pc = c]
  PROVE  /\ op' \in [Op -> Local]
         /\ op'[p].pc = c /\ op'[p].hash = h /\ op'[p].kind = op[p].kind
         /\ op'[p].old = op[p].old /\ op'[p].delta = op[p].delta
         /\ \A q \in Op \ {p} : /\ op'[q].pc = op[q].pc
                                /\ op'[q].hash = op[q].hash
                                /\ op'[q].kind = op[q].kind
                                /\ op'[q].next = op[q].next
                                /\ op[q].hash # h => op'[q] = op[q]
<1> DEFINE m == Moved(h, from, to)
           l == [m[p] EXCEPT !.pc = c]
<1>1. /\ m \in [Op -> Local] /\ m[p].hash = h /\ m[p].kind = op[p].kind
      /\ m[p].old = op[p].old /\ m[p].delta = op[p].delta
  BY MovedType DEF Shaped
<1>2. /\ l \in Local /\ l.pc = c /\ l.hash = h /\ l.kind = op[p].kind
      /\ l.old = op[p].old /\ l.delta = op[p].delta
  BY <1>1 DEF Local
<1>3. op' = [m EXCEPT ![p] = l]
  OBVIOUS
<1>4. \A q \in Op : /\ m[q].pc = op[q].pc
                    /\ m[q].hash = op[q].hash
                    /\ m[q].kind = op[q].kind
                    /\ m[q].next = op[q].next
                    /\ op[q].hash # h => m[q] = op[q]
  BY MovedType DEF Shaped
<1> HIDE DEF m, l
<1>5. QED BY <1>1, <1>2, <1>3, <1>4

LEMMA RenameStep ==
  ASSUME StoreInv, sealed' = sealed, mixed \subseteq mixed', NEW p \in Op, Rename(p)
  PROVE  Core'
<1> USE DEF StoreInv, Core
<1>1. PICK h \in Hash : op[p].hash = h
  BY DEF Rename, Shaped, Shape, pc
<1>2. op[p].kind = "put" /\ Active(p) /\ pc(p) = "rename"
  BY DEF Rename, Shaped, Shape, Active, pc
<1>3. CASE tmp[h] = absent
  <2>1. op' = [op EXCEPT ![p] = Idle] /\ path' = path /\ tmp' = tmp
    BY <1>1, <1>3 DEF Rename
  <2>2. QED BY <2>1, EndSteps
<1>4. CASE tmp[h] # absent
  <2>1. /\ path' = [path EXCEPT ![h] = tmp[h]] /\ tmp' = [tmp EXCEPT ![h] = absent]
        /\ op' = [Moved(h, "tmp", "path") EXCEPT ![p].pc = "restat"]
    BY <1>1, <1>4 DEF Rename
  <2>2. /\ op' \in [Op -> Local]
        /\ op'[p].pc = "restat" /\ op'[p].hash = h /\ op'[p].kind = op[p].kind
        /\ op'[p].old = op[p].old /\ op'[p].delta = op[p].delta
        /\ \A q \in Op \ {p} : /\ op'[q].pc = op[q].pc
                               /\ op'[q].hash = op[q].hash
                               /\ op'[q].kind = op[q].kind
                               /\ op'[q].next = op[q].next
                               /\ op[q].hash # h => op'[q] = op[q]
    <3>1. "restat" \in Labels /\ "path" \in {"tmp", "path", "none"}
      BY DEF Labels
    <3>2. op' = [Moved(h, "tmp", "path") EXCEPT ![p].pc = "restat"]
      BY <2>1
    <3>3. Shaped
      OBVIOUS
    <3> HIDE DEF StoreInv, Core
    <3>4. QED
      BY <1>1, <3>1, <3>2, <3>3, MovedStep, SMTT(30)
  <2>3. Files'
    BY <2>1 DEF Files, File, Tag
  <2>4. ASSUME h \notin mixed' PROVE Whole(path[h])'
    <3>1. tmp[h] \in File /\ \A b \in 1 .. Blocks : tmp[h][b] = Tag(p)
      BY <1>1, <1>2, <2>4 DEF Progress, Written
    <3>2. path'[h] = tmp[h]
      BY <2>1 DEF Files
    <3>3. path'[h] # absent
      BY <3>1, <3>2, FilePresent
    <3>4. QED BY <3>1, <3>2, <3>3 DEF Whole, Tag
  <2>5. Shape(p)' /\ Progress(p)'
    BY <1>2, <2>2, <2>4 DEF Shape, Progress, pc
  <2>6. \A g \in Hash \ {h} : path'[g] = path[g] /\ tmp'[g] = tmp[g]
    BY <2>1 DEF Files
  <2>7. QED
    BY <1>1, <1>2, <2>2, <2>3, <2>4, <2>5, <2>6, FileStep
<1>5. QED BY <1>3, <1>4

LEMMA RemoveStep ==
  ASSUME StoreInv, sealed' = sealed, mixed \subseteq mixed', NEW p \in Op, Remove(p)
  PROVE  Core'
<1> USE DEF StoreInv, Core
<1>1. PICK h \in Hash : op[p].hash = h
  BY DEF Remove, Shaped, Shape, pc
<1>2. op[p].kind = "delete" /\ Active(p)
  BY DEF Remove, Shaped, Shape, Active, pc
<1>3. CASE path[h] = absent
  <2>1. op' = [op EXCEPT ![p] = Idle] /\ path' = path /\ tmp' = tmp
    BY <1>1, <1>3 DEF Remove
  <2>2. QED BY <2>1, EndSteps
<1>4. CASE path[h] # absent
  <2>1. /\ path' = [path EXCEPT ![h] = absent] /\ tmp' = tmp
        /\ op' = [Moved(h, "path", "none") EXCEPT ![p].pc = "add"]
    BY <1>1, <1>4 DEF Remove
  <2>2. /\ op' \in [Op -> Local]
        /\ op'[p].pc = "add" /\ op'[p].hash = h /\ op'[p].kind = op[p].kind
        /\ op'[p].old = op[p].old /\ op'[p].delta = op[p].delta
        /\ \A q \in Op \ {p} : /\ op'[q].pc = op[q].pc
                               /\ op'[q].hash = op[q].hash
                               /\ op'[q].kind = op[q].kind
                               /\ op'[q].next = op[q].next
                               /\ op[q].hash # h => op'[q] = op[q]
    <3>1. "add" \in Labels /\ "none" \in {"tmp", "path", "none"}
      BY DEF Labels
    <3>2. op' = [Moved(h, "path", "none") EXCEPT ![p].pc = "add"]
      BY <2>1
    <3>3. Shaped
      OBVIOUS
    <3> HIDE DEF StoreInv, Core
    <3>4. op[p].hash = h /\ "none" \in {"tmp", "path", "none"} /\ "add" \in Labels
      BY <1>1, <3>1
    <3>5. QED
      BY <3>2, <3>3, <3>4, MovedStep, Z3
  <2>3. Files'
    BY <2>1 DEF Files, File, Tag
  <2>4. path'[h] = absent
    BY <2>1 DEF Files
  <2>5. Shape(p)' /\ Progress(p)'
    BY <1>2, <2>2 DEF Shape, Progress, pc
  <2>6. \A g \in Hash \ {h} : path'[g] = path[g] /\ tmp'[g] = tmp[g]
    BY <2>1 DEF Files
  <2>7. QED
    BY <1>1, <1>2, <2>2, <2>3, <2>4, <2>5, <2>6, FileStep
<1>5. QED BY <1>3, <1>4

LEMMA WipeStep ==
  ASSUME StoreInv, sealed' = sealed, mixed \subseteq mixed', NEW p \in Op,
         NEW h \in Hash, Wipe(p, h)
  PROVE  Core'
<1> USE DEF StoreInv, Core
<1>1. op[p].kind = "clear" /\ Active(p) /\ pc(p) = "wipe"
  BY DEF Wipe, Shaped, Shape, Active, pc
<1>2. PICK from \in {"tmp", "path"} : op' = Moved(h, from, "none")
  BY DEF Wipe
<1>3. /\ op' \in [Op -> Local]
      /\ \A q \in Op : /\ op'[q].pc = op[q].pc
                       /\ op'[q].hash = op[q].hash
                       /\ op'[q].kind = op[q].kind
                       /\ op'[q].next = op[q].next
                       /\ op[q].hash # h => op'[q] = op[q]
  BY <1>2, MovedType DEF Shaped
<1>4. /\ path' \in {path, [path EXCEPT ![h] = absent]}
      /\ tmp' \in {tmp, [tmp EXCEPT ![h] = absent]}
  BY DEF Wipe
<1>5. Files'
  BY <1>4 DEF Files, File, Tag
<1>6. path'[h] = absent \/ path'[h] = path[h]
  BY <1>4 DEF Files
<1>7. h \notin mixed' => path'[h] = absent \/ Whole(path[h])'
  BY <1>6 DEF PublishedWhole, Whole, Tag
<1>8. Shape(p)' /\ Progress(p)'
  BY <1>1, <1>3 DEF Shape, Progress, pc
<1>9. \A g \in Hash \ {h} : path'[g] = path[g] /\ tmp'[g] = tmp[g]
  BY <1>4 DEF Files
<1>10. QED
  BY <1>1, <1>3, <1>5, <1>7, <1>8, <1>9, FileStep

-----------------------------------------------------------------------------
(* Together *)

LEMMA HandlerStep ==
  ASSUME StoreInv, sealed' = sealed, NEW p \in Op,
         PutStep(p) \/ DeleteStep(p) \/ ClearStep(p), Note
  PROVE  StoreInv'
<1>1. mixed \subseteq mixed' /\ Noted'
  BY DEF Note, StoreInv, Noted
<1>2. CASE \/ \E h \in Hash : PutStarts(p, h) \/ DeleteStarts(p, h)
           \/ ClearStarts(p)
  BY <1>1, <1>2, StartSteps DEF StoreInv
<1>3. CASE AddUsed(p) \/ ClearFails(p) \/ ZeroUsed(p)
  BY <1>1, <1>3, EndSteps DEF StoreInv, AddUsed, ClearFails, ZeroUsed
<1>4. CASE StatOld(p) \/ StatNew(p) \/ Wiped(p)
  BY <1>1, <1>4, StatSteps DEF StoreInv
<1>5. CASE Create(p)
  BY <1>1, <1>5, CreateStep DEF StoreInv
<1>6. CASE Write(p)
  BY <1>1, <1>6, WriteStep DEF StoreInv
<1>7. CASE PutAborts(p)
  BY <1>1, <1>7, PutAbortsStep DEF StoreInv
<1>8. CASE Rename(p)
  BY <1>1, <1>8, RenameStep DEF StoreInv
<1>9. CASE Remove(p)
  BY <1>1, <1>9, RemoveStep DEF StoreInv
<1>10. CASE \E h \in Hash : Wipe(p, h)
  BY <1>1, <1>10, WipeStep DEF StoreInv
<1>11. QED
  BY <1>2, <1>3, <1>4, <1>5, <1>6, <1>7, <1>8, <1>9, <1>10
  DEF PutStep, DeleteStep, ClearStep

(* After a restart nobody has anything open; what is published stays. *)
LEMMA RestartStep ==
  ASSUME StoreInv, sealed' = sealed, Restart
  PROVE  StoreInv'
<1> USE DEF StoreInv, Core, Shaped
<1>1. /\ op' = [p \in Op |-> Idle] /\ path' = path /\ tmp' = tmp /\ mixed' = mixed
  BY DEF Restart
<1>2. op' \in [Op -> Local] /\ \A p \in Op : op'[p] = Idle
  BY <1>1, IdleLocal
<1>3. \A p \in Op : Shape(p)' /\ Progress(p)'
  BY <1>2, IdleLocal DEF Shape, Progress, pc
<1>4. Files'
  BY <1>1 DEF Files, File, Tag
<1>5. Noted'
  BY <1>1, <1>2, IdleLocal DEF Noted, Overlapping, Active, pc
<1>6. PublishedWhole'
  BY <1>1 DEF PublishedWhole, Whole, Tag
<1>7. QED BY <1>2, <1>3, <1>4, <1>5, <1>6

LEMMA StoreInvInit == StoreInit => StoreInv
<1> SUFFICES ASSUME StoreInit PROVE StoreInv
  OBVIOUS
<1> USE DEF StoreInit, StoreInv, Core, Shaped
<1>1. op \in [Op -> Local] /\ \A p \in Op : op[p] = Idle
  BY IdleLocal
<1>2. \A p \in Op : Shape(p) /\ Progress(p)
  BY <1>1, IdleLocal DEF Shape, Progress, pc
<1>3. Files
  BY DEF Files
<1>4. Noted
  BY <1>1, IdleLocal DEF Noted, Overlapping, Active, pc
<1>5. PublishedWhole
  BY DEF PublishedWhole
<1>6. QED BY <1>1, <1>2, <1>3, <1>4, <1>5

LEMMA StoreInvStep == StoreInv /\ [StoreNext]_vars => StoreInv'
<1> SUFFICES ASSUME StoreInv, [StoreNext]_vars PROVE StoreInv'
  OBVIOUS
<1>1. CASE StoreNext
  BY <1>1, HandlerStep, RestartStep DEF StoreNext
<1>2. CASE UNCHANGED vars
  BY <1>2 DEF vars, StoreInv, Core, Shaped, Shape, Progress, Written, Files, Noted,
              Overlapping, Active, PublishedWhole, Whole, File, Tag, pc
<1>3. QED BY <1>1, <1>2

LEMMA StoreInvCorrect == StoreSpec => []StoreInv
<1>1. QED
  BY StoreInvInit, StoreInvStep, PTL DEF StoreSpec

(* No part of a chunk is ever published on a hash whose calls did not overlap,
   wherever a body breaks off or the node stops (store.go:152-179). *)
THEOREM StorePublishesWhole == StoreSpec => []PublishedWhole
<1>1. StoreInv => PublishedWhole
  BY DEF StoreInv, Core
<1>2. QED BY <1>1, StoreInvCorrect, PTL

(* Where a step of q may move a file that others have open, or change a published
   one *)
Touches(q, h) == (pc(q) \in {"write", "rename", "remove"} /\ op[q].hash = h)
                   \/ pc(q) = "wipe"

Kept(q) == /\ op'[q].pc = op[q].pc /\ op'[q].hash = op[q].hash
           /\ op'[q].kind = op[q].kind
           /\ op'[q].old = op[q].old /\ op'[q].delta = op[q].delta

(* A handler is moved on by its own steps only: those of others can change the
   name of its open file, and only where they work. *)
LEMMA OthersKeep ==
  ASSUME op \in [Op -> Local], NEW q \in Op, NEW p \in Op \ {q},
         PutStep(q) \/ DeleteStep(q) \/ ClearStep(q)
  PROVE  Kept(p) /\ (op'[p] = op[p] \/ Touches(q, op[p].hash))
<1>1. ASSUME NEW l, op' = [op EXCEPT ![q] = l]
      PROVE  Kept(p) /\ (op'[p] = op[p] \/ Touches(q, op[p].hash))
  BY <1>1 DEF Kept
<1>2. ASSUME NEW h, NEW from, NEW to \in {"tmp", "path", "none"},
             op' = Moved(h, from, to), Touches(q, h)
      PROVE  Kept(p) /\ (op'[p] = op[p] \/ Touches(q, op[p].hash))
  BY <1>2, MovedType DEF Kept
<1>3. ASSUME NEW h, NEW from, NEW to \in {"tmp", "path", "none"}, NEW l,
             op' = [Moved(h, from, to) EXCEPT ![q] = l], Touches(q, h)
      PROVE  Kept(p) /\ (op'[p] = op[p] \/ Touches(q, op[p].hash))
  <2>1. op'[p] = Moved(h, from, to)[p]
    BY <1>3, MovedType
  <2>2. QED BY <1>3, <2>1, MovedType DEF Kept
<1>4. CASE PutAborts(q)
  BY <1>1, <1>3, <1>4 DEF PutAborts, Touches
<1>5. CASE Rename(q)
  <2> DEFINE m == Moved(op[q].hash, "tmp", "path")
  <2>1. \/ op' = [op EXCEPT ![q] = Idle]
        \/ op' = [m EXCEPT ![q] = [m[q] EXCEPT !.pc = "restat"]]
    BY <1>5 DEF Rename
  <2>2. Touches(q, op[q].hash)
    BY <1>5 DEF Touches, Rename
  <2>3. QED BY <1>1, <1>3, <2>1, <2>2
<1>6. CASE Remove(q)
  <2> DEFINE m == Moved(op[q].hash, "path", "none")
  <2>1. \/ op' = [op EXCEPT ![q] = Idle]
        \/ op' = [m EXCEPT ![q] = [m[q] EXCEPT !.pc = "add"]]
    BY <1>6 DEF Remove
  <2>2. Touches(q, op[q].hash)
    BY <1>6 DEF Touches, Remove
  <2>3. QED BY <1>1, <1>3, <2>1, <2>2
<1>7. CASE \E h \in Hash : Wipe(q, h)
  BY <1>2, <1>7 DEF Wipe, Touches
<1>8. CASE Create(q) \/ Write(q) \/ StatOld(q) \/ StatNew(q) \/ AddUsed(q)
  <2>1. \E l \in {op'[q]} : op' = [op EXCEPT ![q] = l]
    BY <1>8 DEF Create, Write, StatOld, StatNew, AddUsed
  <2>2. QED BY <1>1, <2>1
<1>9. CASE \E h \in Hash : PutStarts(q, h) \/ DeleteStarts(q, h)
  <2>1. \E l \in {op'[q]} : op' = [op EXCEPT ![q] = l]
    BY <1>9 DEF PutStarts, DeleteStarts
  <2>2. QED BY <1>1, <2>1
<1>10. CASE ClearStarts(q) \/ ClearFails(q) \/ Wiped(q) \/ ZeroUsed(q)
  <2>1. \E l \in {op'[q]} : op' = [op EXCEPT ![q] = l]
    BY <1>10 DEF ClearStarts, ClearFails, Wiped, ZeroUsed
  <2>2. QED BY <1>1, <2>1
<1>11. QED
  BY <1>4, <1>5, <1>6, <1>7, <1>8, <1>9, <1>10 DEF PutStep, DeleteStep, ClearStep

LEMMA PathKept ==
  ASSUME Files, NEW q \in Op, PutStep(q) \/ DeleteStep(q) \/ ClearStep(q),
         NEW h \in Hash
  PROVE  path'[h] = path[h] \/ Touches(q, h)
<1>1. CASE Write(q) \/ Rename(q) \/ Remove(q) \/ \E g \in Hash : Wipe(q, g)
  <2>1. CASE op[q].hash = h \/ pc(q) = "wipe"
    BY <1>1, <2>1 DEF Touches, Write, Rename, Remove, Wipe
  <2>2. CASE op[q].hash # h
    <3>1. \/ path' = path \/ pc(q) = "wipe"
          \/ \E f : path' = [path EXCEPT ![op[q].hash] = f]
      BY <1>1 DEF Write, Rename, Remove, Wipe
    <3> QED
      BY <2>2, <3>1 DEF Files, Touches
  <2> QED
    BY <2>1, <2>2
<1>2. CASE path' = path
  BY <1>2
<1> QED
  BY <1>1, <1>2 DEF PutStep, DeleteStep, ClearStep, Create, PutAborts, StatOld, StatNew,
     AddUsed, PutStarts, DeleteStarts, ClearStarts, ClearFails, Wiped, ZeroUsed

(* A put is answered when its chunk is on disk, unless calls on its hash overlapped
   (store.go:145-180 and 189-220, main.go:284-292 of backup-node). *)
THEOREM StoreAcksStored == StoreSpec => AckedStored
<1> DEFINE Acked == \A p \in Op : pc(p) = "add" /\ op[p].kind = "put" /\ ~Active(p)' =>
                      op[p].hash \in mixed' \/ Whole(path'[op[p].hash])
<1>1. ASSUME StoreInv, StoreNext PROVE Acked
  <2> SUFFICES ASSUME NEW p \in Op, pc(p) = "add", op[p].kind = "put", ~Active(p)',
                      op[p].hash \notin mixed'
               PROVE  Whole(path'[op[p].hash])
    OBVIOUS
  <2>1. mixed \subseteq mixed'
    BY <1>1 DEF StoreNext, Note, Restart
  <2>2. Whole(path[op[p].hash])
    BY <1>1, <2>1 DEF StoreInv, Core, Progress
  <2>3. path' = path
    <3>1. CASE Restart
      BY <3>1 DEF Restart
    <3>2. CASE PutStep(p) \/ DeleteStep(p) \/ ClearStep(p)
      BY <3>2 DEF PutStep, DeleteStep, ClearStep, Create, Write, PutAborts, StatOld,
                  Rename, StatNew, AddUsed, PutStarts, Remove, DeleteStarts,
                  ClearStarts, ClearFails, Wiped, ZeroUsed, Wipe
    <3>3. ASSUME NEW q \in Op \ {p}, PutStep(q) \/ DeleteStep(q) \/ ClearStep(q)
          PROVE  FALSE
      <4>1. op \in [Op -> Local]
        BY <1>1 DEF StoreInv, Core, Shaped
      <4>2. op'[p].pc = op[p].pc
        BY <3>3, <4>1, OthersKeep DEF Kept
      <4>3. QED BY <4>2 DEF Active, pc
    <3>4. QED BY <1>1, <3>1, <3>2, <3>3 DEF StoreNext
  <2>4. QED BY <2>2, <2>3
<1>2. QED
  <2>1. StoreInv /\ [StoreNext]_vars => [Acked]_vars
    BY <1>1
  <2>2. QED BY <2>1, StoreInvCorrect, PTL DEF StoreSpec, AckedStored
-----------------------------------------------------------------------------
(* What a handler counts *)

Ranges(p) ==
  /\ pc(p) = "idle" => op[p].kind = "none"
  /\ op[p].old \in 0 .. Blocks /\ op[p].delta \in -Blocks .. Blocks
  /\ op[p].kind = "delete" => op[p].delta <= 0

Ranged == sealed \in Keys /\ used \in Nat /\ \A p \in Op : Ranges(p)

LEMMA MaxOfTwo ==
  ASSUME NEW n \in Int
  PROVE  Max({0, n}) = IF n > 0 THEN n ELSE 0
<1> DEFINE m == IF n > 0 THEN n ELSE 0
<1>1. m \in {0, n} /\ m >= 0 /\ m >= n
  OBVIOUS
<1>2. \A x \in {0, n} : (\A y \in {0, n} : x >= y) => x = m
  BY <1>1
<1>3. \E x \in {0, n} : \A y \in {0, n} : x >= y
  BY <1>1
<1>4. Max({0, n}) \in {0, n} /\ \A y \in {0, n} : Max({0, n}) >= y
  BY <1>3 DEF Max
<1> QED
  BY <1>2, <1>4

LEMMA IdleNumbers == Idle.old = 0 /\ Idle.delta = 0 /\ Idle.kind = "none"
  BY DEF Idle

LEMMA OwnRanges ==
  ASSUME Shaped, Ranged, NEW p \in Op, PutStep(p) \/ DeleteStep(p) \/ ClearStep(p)
  PROVE  Ranges(p)'
<1>1. Blocks \in Nat /\ op[p] \in Local /\ Shape(p) /\ Ranges(p) /\ used \in Nat
  BY StoreAssumption DEF Shaped, Ranged
<1>2. DOMAIN op = Op
  BY DEF Shaped
<1>3. ASSUME op'[p] = Idle PROVE Ranges(p)'
  BY <1>1, <1>3, IdleNumbers DEF Ranges
<1>4. ASSUME NEW h \in Hash, PutStarts(p, h) \/ DeleteStarts(p, h) \/ ClearStarts(p)
      PROVE  Ranges(p)'
  <2>1. Size(path[h]) \in 0 .. Blocks
    BY SizeType
  <2>2. op'[p].pc # "idle" /\ op'[p].old = 0 /\ op'[p].delta \in {0, -Size(path[h])}
    BY <1>2, <1>4 DEF PutStarts, DeleteStarts, ClearStarts, Idle
  <2> QED
    BY <1>1, <2>1, <2>2 DEF Ranges, pc
<1>5. CASE ClearStarts(p)
  BY <1>1, <1>2, <1>5 DEF ClearStarts, Idle, Ranges, pc
<1>6. CASE Create(p) \/ Write(p) \/ Wiped(p)
  <2>1. /\ op'[p].pc # "idle" /\ op'[p].old = op[p].old /\ op'[p].delta = op[p].delta
        /\ op'[p].kind = op[p].kind
    BY <1>1, <1>2, <1>6 DEF Create, Write, Wiped, Local, pc
  <2> QED
    BY <1>1, <2>1 DEF Ranges, pc
<1>7. CASE PutAborts(p)
  <2>1. op' = [op EXCEPT ![p] = Idle]
          \/ op' = [Moved(op[p].hash, "tmp", "none") EXCEPT ![p] = Idle]
    BY <1>7 DEF PutAborts
  <2> QED
    BY <1>2, <1>3, <2>1 DEF Moved
<1>8. CASE StatOld(p) \/ StatNew(p)
  <2>1. Size(path[op[p].hash]) \in 0 .. Blocks
    BY SizeType
  <2>2. /\ op'[p].pc # "idle" /\ op'[p].kind = op[p].kind
        /\ op'[p].old \in {op[p].old, Size(path[op[p].hash])}
        /\ op'[p].delta \in {op[p].delta, Size(path[op[p].hash]) - op[p].old}
    BY <1>1, <1>2, <1>8 DEF StatOld, StatNew, Local, pc
  <2>3. op[p].kind = "put"
    BY <1>1, <1>8 DEF Shape, StatOld, StatNew
  <2> QED
    BY <1>1, <2>1, <2>2, <2>3 DEF Ranges, pc
<1>9. CASE Rename(p) \/ Remove(p) \/ \E h \in Hash : Wipe(p, h)
  <2>1. \/ op' = [op EXCEPT ![p] = Idle]
        \/ \E h, from : \E to \in {"tmp", "path", "none"}, c \in {"restat", "add"} :
             \/ op' = [Moved(h, from, to) EXCEPT ![p].pc = c]
             \/ op' = Moved(h, from, to) /\ pc(p) = "wipe"
    BY <1>9 DEF Rename, Remove, Wipe
  <2>2. ASSUME NEW h, NEW from, NEW to \in {"tmp", "path", "none"}
        PROVE  /\ Moved(h, from, to) \in [Op -> Local]
               /\ Moved(h, from, to)[p].old = op[p].old
               /\ Moved(h, from, to)[p].delta = op[p].delta
               /\ Moved(h, from, to)[p].kind = op[p].kind
               /\ Moved(h, from, to)[p].pc = op[p].pc
    BY MovedType DEF Shaped
  <2>3. ASSUME NEW h, NEW from, NEW to \in {"tmp", "path", "none"},
               NEW c \in {"restat", "add"},
               \/ op' = [Moved(h, from, to) EXCEPT ![p].pc = c]
               \/ op' = Moved(h, from, to) /\ pc(p) = "wipe"
        PROVE  /\ op'[p].old = op[p].old /\ op'[p].delta = op[p].delta
               /\ op'[p].kind = op[p].kind /\ op'[p].pc # "idle"
    <3> DEFINE m == Moved(h, from, to)
    <3>1. m \in [Op -> Local] /\ m[p] \in Local
      BY <2>2
    <3>2. CASE op' = m /\ pc(p) = "wipe"
      BY <2>2, <3>2 DEF pc
    <3>3. CASE op' = [m EXCEPT ![p].pc = c]
      <4>1. op'[p] = [m[p] EXCEPT !.pc = c]
        BY <3>1, <3>3
      <4> HIDE DEF m
      <4>2. /\ op'[p].old = m[p].old /\ op'[p].delta = m[p].delta
            /\ op'[p].kind = m[p].kind /\ op'[p].pc = c
        BY <3>1, <4>1 DEF Local
      <4> QED
        BY <2>2, <4>2 DEF m
    <3> QED
      BY <2>3, <3>2, <3>3
  <2>4. CASE op' = [op EXCEPT ![p] = Idle]
    BY <1>2, <1>3, <2>4
  <2> QED
    BY <1>1, <2>1, <2>3, <2>4 DEF Ranges, pc
<1>10. CASE AddUsed(p) \/ ClearFails(p) \/ ZeroUsed(p)
  <2>1. op'[p] = Idle
    BY <1>2, <1>10 DEF AddUsed, ClearFails, ZeroUsed
  <2> QED
    BY <1>3, <2>1
<1> QED
  BY <1>4, <1>5, <1>6, <1>7, <1>8, <1>9, <1>10
  DEF PutStep, DeleteStep, ClearStep

LEMMA UsedType ==
  ASSUME Ranged, NEW p \in Op, PutStep(p) \/ DeleteStep(p) \/ ClearStep(p)
  PROVE  used' \in Nat
<1>1. CASE AddUsed(p)
  <2>1. used \in Nat /\ used + op[p].delta \in Int
    BY StoreAssumption DEF Ranged, Ranges
  <2> QED
    BY <1>1, <2>1, MaxOfTwo DEF AddUsed
<1>2. CASE used' \in {used, 0}
  BY <1>2 DEF Ranged
<1> QED
  BY <1>1, <1>2 DEF PutStep, DeleteStep, ClearStep, Create, Write, PutAborts, StatOld,
     Rename, StatNew, PutStarts, Remove, DeleteStarts, ClearStarts, ClearFails,
     Wiped, ZeroUsed, Wipe

(* The sizes of the published files *)
Sizes == [h \in Hash |-> Size(path[h])]

LEMMA TotalIsSum == Total = SumFunctionOnSet(Sizes, Hash) /\ Total \in Nat
<1>1. Total = SumFunctionOnSet(Sizes, Hash)
  BY DEF Total, Sizes, SumFunctionOnSet
<1>2. \A h \in Hash : Sizes[h] \in Nat
  BY SizeType, StoreAssumption DEF Sizes
<1> QED
  BY <1>1, <1>2, StoreFinite, SumNat

LEMMA TotalKept == path' = path => Total' = Total
<1> SUFFICES ASSUME path' = path PROVE Total' = Total
  OBVIOUS
<1>1. (Total = SumFunctionOnSet(Sizes, Hash) /\ Total \in Nat)'
  BY TotalIsSum, PTL
<1>2. Sizes' = Sizes
  BY DEF Sizes
<1> QED
  BY <1>1, <1>2, TotalIsSum

LEMMA RangedInit == StoreInit => Ranged
  BY IdleNumbers, StoreAssumption DEF StoreInit, Ranged, Ranges

LEMMA RangedStep == StoreInv /\ Ranged /\ [StoreNext]_vars => Ranged'
<1> SUFFICES ASSUME StoreInv, Ranged, [StoreNext]_vars PROVE Ranged'
  OBVIOUS
<1>1. CASE StoreNext
  <2>1. ASSUME NEW p \in Op, PutStep(p) \/ DeleteStep(p) \/ ClearStep(p)
        PROVE  Ranged'
    <3>1. sealed' = sealed /\ used' \in Nat /\ Ranges(p)'
      BY <1>1, <2>1, OwnRanges, UsedType DEF StoreNext, StoreInv, Core
    <3>2. ASSUME NEW q \in Op \ {p} PROVE Ranges(q)'
      <4>1. Kept(q)
        BY <2>1, OthersKeep DEF StoreInv, Core, Shaped
      <4> QED
        BY <4>1 DEF Kept, Ranged, Ranges, pc
    <3> QED
      BY <3>1, <3>2 DEF Ranged
  <2>2. CASE Restart
    <3>1. used' \in Nat /\ \A p \in Op : op'[p] = Idle
      BY <2>2, TotalIsSum DEF Restart
    <3> QED
      BY <1>1, <3>1, IdleNumbers, StoreAssumption DEF StoreNext, Ranged, Ranges
  <2> QED
    BY <1>1, <2>1, <2>2 DEF StoreNext
<1>2. CASE UNCHANGED vars
  BY <1>2 DEF vars, Ranged, Ranges, pc
<1> QED
  BY <1>1, <1>2

LEMMA RangedCorrect == StoreSpec => [](StoreInv /\ Ranged)
  BY StoreInvInit, StoreInvStep, RangedInit, RangedStep, PTL DEF StoreSpec

(* The state keeps its types; the counter is never negative, whatever the handlers
   add and in whatever order (store.go:98-107). *)
THEOREM StoreTypeCorrect == StoreSpec => []StoreTypeOK
<1>1. StoreInv /\ Ranged /\ drift \in BOOLEAN => StoreTypeOK
  BY DEF StoreInv, Core, Files, Shaped, Noted, Ranged, Ranges, StoreTypeOK, Local
<1>2. StoreInit => drift \in BOOLEAN
  BY DEF StoreInit
<1>3. drift \in BOOLEAN /\ [StoreNext]_vars => (drift \in BOOLEAN)'
  BY DEF StoreNext, Note, Restart, vars
<1> QED
  BY <1>1, <1>2, <1>3, RangedCorrect, PTL DEF StoreSpec
-----------------------------------------------------------------------------
(* What the counter has counted.  As long as no two calls have shared a hash since
   the start, a handler knows the size of the file it is about to replace or has
   removed, and the counter is the sum over the hashes of what it believes each file
   to be: its size, or the size from before the put or delete that has still to add
   its difference.  While the storage is cleared it may be anything. *)

Known(p) ==
  /\ pc(p) = "write" => op[p].at # "path"
  /\ pc(p) = "rename" => op[p].old = Size(path[op[p].hash])
  /\ pc(p) = "remove" => op[p].delta = -Size(path[op[p].hash])
  /\ pc(p) = "zero" => \A h \in Hash : path[h] = absent

Pending(p, h) == op[p].hash = h /\ pc(p) \in {"restat", "add"}

Owed(acc, h) ==
  /\ \A p \in Op : op[p].hash = h =>
       /\ pc(p) = "restat" => acc[h] = op[p].old
       /\ pc(p) = "add" => acc[h] + op[p].delta = Size(path[h])
  /\ (\A p \in Op : ~Pending(p, h)) => acc[h] = Size(path[h])

Counts(acc) == /\ acc \in [Hash -> 0 .. Blocks]
               /\ used = SumFunctionOnSet(acc, Hash) /\ \A h \in Hash : Owed(acc, h)

Clearing == \E p \in Op : op[p].kind = "clear"

CountInv == ~drift => /\ \A h \in Hash : ~Overlapping(h)
                      /\ \A p \in Op : Known(p)
                      /\ Clearing \/ \E acc : Counts(acc)

(* The handlers that work on one hash, or beside a clear, are one. *)
LEMMA Lonely ==
  ASSUME NEW p \in Op, NEW q \in Op \ {p}, NEW h \in Hash, ~Overlapping(h),
         Active(p), op[p].hash = h \/ op[p].kind = "clear",
         Active(q), op[q].hash = h \/ op[q].kind = "clear"
  PROVE  FALSE
  BY DEF Overlapping

LEMMA LonelyNext ==
  ASSUME NEW p \in Op, NEW q \in Op \ {p}, NEW h \in Hash, ~Overlapping(h)',
         Active(p)', op'[p].hash = h \/ op'[p].kind = "clear",
         Active(q)', op'[q].hash = h \/ op'[q].kind = "clear"
  PROVE  FALSE
  BY DEF Overlapping

LEMMA NotTouched ==
  ASSUME Shaped, NEW p \in Op, NEW q \in Op \ {p}, NEW h \in Hash, ~Overlapping(h),
         Active(q), op[q].hash = h \/ op[q].kind = "clear"
  PROVE  ~Touches(p, h)
<1> SUFFICES ASSUME Touches(p, h) PROVE FALSE
  OBVIOUS
<1>1. Active(p) /\ (op[p].hash = h \/ op[p].kind = "clear")
  BY DEF Touches, Active, Shaped, Shape
<1> QED
  BY <1>1, Lonely

(* What the others know stays true. *)
LEMMA OthersKnow ==
  ASSUME Shaped, Files, \A h \in Hash : ~Overlapping(h), NEW p \in Op,
         PutStep(p) \/ DeleteStep(p) \/ ClearStep(p), NEW q \in Op \ {p}, Known(q)
  PROVE  Known(q)'
<1>1. Kept(q) /\ (op'[q] = op[q] \/ Touches(p, op[q].hash))
  BY OthersKeep DEF Shaped
<1>2. CASE pc(q) \in {"write", "rename", "remove"}
  <2>1. op[q].hash \in Hash /\ Active(q)
    BY <1>2 DEF Shaped, Shape, Active
  <2>2. ~Touches(p, op[q].hash)
    BY <2>1, NotTouched
  <2>3. path'[op[q].hash] = path[op[q].hash]
    BY <2>1, <2>2, PathKept
  <2>4. op'[q] = op[q]
    BY <1>1, <2>2
  <2>5. Size(path'[op'[q].hash]) = Size(path[op[q].hash])
    BY <2>3, <2>4
  <2> QED
    BY <1>2, <2>4, <2>5 DEF Known, pc
<1>3. CASE pc(q) = "zero"
  <2>1. op[q].kind = "clear" /\ Active(q)
    BY <1>3 DEF Shaped, Shape, Active
  <2>2. ASSUME NEW h \in Hash PROVE path'[h] = path[h]
    <3>1. ~Touches(p, h)
      BY <2>1, NotTouched
    <3> QED
      BY <3>1, PathKept
  <2> QED
    BY <1>1, <1>3, <2>2 DEF Known, Kept, pc
<1>4. CASE pc(q) \notin {"write", "rename", "remove", "zero"}
  BY <1>1, <1>4 DEF Known, Kept, pc
<1> QED
  BY <1>2, <1>3, <1>4

LEMMA OwnKnows ==
  ASSUME Shaped, NEW p \in Op, PutStep(p) \/ DeleteStep(p) \/ ClearStep(p), Known(p)
  PROVE  Known(p)'
<1>1. op \in [Op -> Local] /\ op[p] \in Local /\ DOMAIN op = Op
  BY DEF Shaped
<1>2. CASE op'[p].pc \notin {"write", "rename", "remove", "zero"}
  BY <1>2 DEF Known, pc
<1>3. CASE Create(p)
  <2>1. op'[p].pc = "write" /\ op'[p].at = "tmp"
    BY <1>1, <1>3 DEF Create, Local
  <2> QED
    BY <2>1 DEF Known, pc
<1>4. CASE Write(p)
  <2>1. op'[p].pc \in {"write", "stat"} /\ op'[p].at \in {op[p].at, "none"}
    BY <1>1, <1>4 DEF Write, Local, pc
  <2>2. pc(p) = "write"
    BY <1>4 DEF Write
  <2> QED
    BY <2>1, <2>2 DEF Known, pc
<1>5. CASE StatOld(p)
  <2>1. /\ op'[p].pc = "rename" /\ op'[p].old = Size(path[op[p].hash])
        /\ op'[p].hash = op[p].hash /\ path' = path
    BY <1>1, <1>5 DEF StatOld, Local
  <2> QED
    BY <2>1 DEF Known, pc, Size
<1>6. ASSUME NEW h \in Hash, DeleteStarts(p, h) PROVE Known(p)'
  <2>1. /\ op'[p].pc = "remove" /\ op'[p].delta = -Size(path[h])
        /\ op'[p].hash = h /\ path' = path
    BY <1>1, <1>6 DEF DeleteStarts, Idle
  <2> QED
    BY <2>1 DEF Known, pc, Size
<1>7. CASE Wiped(p)
  <2>1. op'[p].pc = "zero" /\ path' = path /\ \A h \in Hash : path[h] = absent
    BY <1>1, <1>7 DEF Wiped, Local
  <2> QED
    BY <2>1 DEF Known, pc
<1>8. CASE AddUsed(p) \/ ClearFails(p) \/ ZeroUsed(p)
  BY <1>1, <1>2, <1>8, IdleLocal DEF AddUsed, ClearFails, ZeroUsed
<1>9. CASE StatNew(p) \/ ClearStarts(p) \/ \E h \in Hash : PutStarts(p, h)
  <2>1. CASE StatNew(p)
    <3>1. op'[p].pc = "add"
      BY <1>1, <2>1 DEF StatNew, Local
    <3> QED
      BY <1>2, <3>1
  <2>2. CASE ClearStarts(p) \/ \E h \in Hash : PutStarts(p, h)
    <3>1. op'[p].pc \in {"wipe", "create"}
      BY <1>1, <2>2 DEF ClearStarts, PutStarts, Idle
    <3> QED
      BY <1>2, <3>1
  <2> QED
    BY <1>9, <2>1, <2>2
<1>10. CASE PutAborts(p)
  <2>1. op' = [op EXCEPT ![p] = Idle]
          \/ op' = [Moved(op[p].hash, "tmp", "none") EXCEPT ![p] = Idle]
    BY <1>10 DEF PutAborts
  <2>2. op'[p] = Idle
    BY <1>1, <2>1 DEF Moved
  <2> QED
    BY <1>2, <2>2, IdleLocal
<1>11. CASE Rename(p) \/ Remove(p)
  <2>1. PICK h \in Hash : op[p].hash = h
    BY <1>11 DEF Rename, Remove, Shaped, Shape
  <2>2. \/ op' = [op EXCEPT ![p] = Idle]
        \/ op' = [Moved(h, "tmp", "path") EXCEPT ![p].pc = "restat"]
        \/ op' = [Moved(h, "path", "none") EXCEPT ![p].pc = "add"]
    BY <1>11, <2>1 DEF Rename, Remove
  <2>3. op'[p].pc \in {"idle", "restat", "add"}
    <3>1. CASE op' = [op EXCEPT ![p] = Idle]
      BY <1>1, <3>1, IdleLocal
    <3>2. CASE op' = [Moved(h, "tmp", "path") EXCEPT ![p].pc = "restat"]
      BY <2>1, <3>2, MovedStep DEF Labels
    <3>3. CASE op' = [Moved(h, "path", "none") EXCEPT ![p].pc = "add"]
      BY <2>1, <3>3, MovedStep DEF Labels
    <3> QED
      BY <2>2, <3>1, <3>2, <3>3
  <2> QED
    BY <1>2, <2>3
<1>12. CASE \E h \in Hash : Wipe(p, h)
  <2>1. pc(p) = "wipe" /\ \E h, from : op' = Moved(h, from, "none")
    BY <1>12 DEF Wipe
  <2>2. op'[p].pc = "wipe"
    <3>1. PICK h, from : op' = Moved(h, from, "none")
      BY <2>1
    <3>2. Moved(h, from, "none")[p].pc = op[p].pc
      BY <1>1, MovedType
    <3> QED
      BY <2>1, <3>1, <3>2 DEF pc
  <2> QED
    BY <1>2, <2>2
<1> QED
  BY <1>3, <1>4, <1>5, <1>6, <1>7, <1>8, <1>9, <1>10, <1>11, <1>12
  DEF PutStep, DeleteStep, ClearStep

(* p's step changes what is believed of h, and the counter with it. *)
LEMMA Recount ==
  ASSUME Shaped, NEW p \in Op, NEW h \in Hash, NEW acc, Counts(acc), NEW b \in 0 .. Blocks,
         \A q \in Op \ {p} : Kept(q) /\ ~Pending(q, h),
         \A g \in Hash \ {h} : ~Pending(p, g) /\ ~Pending(p, g)' /\ path'[g] = path[g],
         used' = used - acc[h] + b,
         op'[p].hash = h /\ op'[p].pc = "restat" => b = op'[p].old,
         op'[p].hash = h /\ op'[p].pc = "add" => b + op'[p].delta = Size(path'[h]),
         ~Pending(p, h)' => b = Size(path'[h])
  PROVE  \E a : Counts(a)'
<1> DEFINE a == [acc EXCEPT ![h] = b]
<1>1. a \in [Hash -> 0 .. Blocks] /\ a[h] = b /\ \A g \in Hash \ {h} : a[g] = acc[g]
  BY DEF Counts
<1>2. used' = SumFunctionOnSet(a, Hash)
  <2>1. \A g \in Hash : acc[g] \in Int
    BY StoreAssumption DEF Counts
  <2>2. \A g \in Hash : a[g] \in Int
    BY <1>1, StoreAssumption
  <2>3. \A g \in Hash \ {h} : a[g] = acc[g]
    BY <1>1
  <2> HIDE DEF a
  <2>4. SumFunctionOnSet(a, Hash) = SumFunctionOnSet(acc, Hash) - acc[h] + a[h]
    BY <2>1, <2>2, <2>3, StoreFinite, SumChanges
  <2> QED
    BY <1>1, <2>4 DEF Counts
<1> HIDE DEF a
<1>3. Owed(a, h)'
  <2>1. \A q \in Op \ {p} : ~Pending(q, h)'
    BY DEF Kept, Pending, pc
  <2> QED
    BY <1>1, <2>1 DEF Owed, Pending, pc
<1>4. ASSUME NEW g \in Hash \ {h} PROVE Owed(a, g)'
  <2>1. Owed(acc, g)
    BY DEF Counts
  <2>2. \A q \in Op : Pending(q, g)' => q # p /\ Pending(q, g) /\ Kept(q)
    BY DEF Kept, Pending, pc
  <2>3. \A q \in Op : Pending(q, g) => q # p /\ Pending(q, g)'
    BY DEF Kept, Pending, pc
  <2> QED
    BY <1>1, <2>1, <2>2, <2>3 DEF Owed, Pending, Kept, pc
<1>5. Counts(a)'
  <2>1. \A g \in Hash : Owed(a, g)'
    BY <1>3, <1>4
  <2> QED
    BY <1>1, <1>2, <2>1 DEF Counts
<1> QED
  BY <1>5

(* A handler works on one hash, alone. *)
LEMMA Works ==
  ASSUME Shaped, Files, \A g \in Hash : ~Overlapping(g), \A g \in Hash : ~Overlapping(g)',
         NEW p \in Op, PutStep(p) \/ DeleteStep(p) \/ ClearStep(p), NEW h \in Hash,
         \/ Active(p) /\ op[p].hash = h
         \/ pc(p) = "idle" /\ Active(p)' /\ op'[p].hash = h,
         op'[p].pc = "idle" \/ op'[p].hash = h, pc(p) # "wipe"
  PROVE  /\ \A q \in Op \ {p} : Kept(q) /\ ~Pending(q, h)
         /\ \A g \in Hash \ {h} : ~Pending(p, g) /\ ~Pending(p, g)' /\ path'[g] = path[g]
<1>1. ASSUME NEW q \in Op \ {p} PROVE Kept(q) /\ ~Pending(q, h)
  <2>1. Kept(q)
    BY OthersKeep DEF Shaped
  <2>2. ASSUME Pending(q, h) PROVE FALSE
    <3>1. Active(q) /\ op[q].hash = h /\ Active(q)' /\ op'[q].hash = h
      BY <2>1, <2>2 DEF Pending, Active, Kept, pc
    <3>2. CASE Active(p) /\ op[p].hash = h
      BY <3>1, <3>2, Lonely
    <3>3. CASE pc(p) = "idle" /\ Active(p)' /\ op'[p].hash = h
      BY <3>1, <3>3, LonelyNext
    <3> QED
      BY <3>2, <3>3
  <2> QED
    BY <2>1, <2>2
<1>2. ASSUME NEW g \in Hash \ {h}
      PROVE  ~Pending(p, g) /\ ~Pending(p, g)' /\ path'[g] = path[g]
  <2>1. ~Pending(p, g) /\ ~Pending(p, g)'
    BY DEF Pending, pc
  <2>2. ~Touches(p, g)
    BY DEF Touches
  <2> QED
    BY <2>1, <2>2, PathKept
<1> QED
  BY <1>1, <1>2

(* A step that does not change the counter *)
LEMMA CountKept ==
  ASSUME Shaped, Files, \A g \in Hash : ~Overlapping(g), \A g \in Hash : ~Overlapping(g)',
         NEW p \in Op, PutStep(p) \/ DeleteStep(p) \/ ClearStep(p), NEW h \in Hash,
         \/ Active(p) /\ op[p].hash = h
         \/ pc(p) = "idle" /\ Active(p)' /\ op'[p].hash = h,
         op'[p].pc = "idle" \/ op'[p].hash = h, pc(p) # "wipe",
         NEW acc, Counts(acc), used' = used,
         op'[p].pc = "restat" => acc[h] = op'[p].old,
         op'[p].pc = "add" => acc[h] + op'[p].delta = Size(path'[h]),
         op'[p].pc \notin {"restat", "add"} => acc[h] = Size(path'[h])
  PROVE  \E a : Counts(a)'
<1>1. /\ \A q \in Op \ {p} : Kept(q) /\ ~Pending(q, h)
      /\ \A g \in Hash \ {h} : ~Pending(p, g) /\ ~Pending(p, g)' /\ path'[g] = path[g]
  BY Works
<1>2. acc[h] \in 0 .. Blocks /\ acc \in [Hash -> 0 .. Blocks]
  BY DEF Counts
<1>3. used \in Int
  <2>1. \A g \in Hash : acc[g] \in Int
    BY <1>2, StoreAssumption
  <2> QED
    BY <2>1, StoreFinite, SumType DEF Counts
<1>4. used' = used - acc[h] + acc[h]
  BY <1>2, <1>3, StoreAssumption
<1>5. ~Pending(p, h)' => acc[h] = Size(path'[h])
  <2> SUFFICES ASSUME ~Pending(p, h)' PROVE acc[h] = Size(path'[h])
    OBVIOUS
  <2>1. op'[p].pc \notin {"restat", "add"}
    BY DEF Pending, pc
  <2> QED
    BY <2>1
<1> QED
  BY <1>1, <1>2, <1>4, <1>5, Recount

(* What is believed of a hash that p works on *)
LEMMA Believed ==
  ASSUME NEW acc, Counts(acc), NEW p \in Op, NEW h \in Hash,
         \A q \in Op \ {p} : ~Pending(q, h)
  PROVE  /\ op[p].hash = h /\ pc(p) = "restat" => acc[h] = op[p].old
         /\ op[p].hash = h /\ pc(p) = "add" => acc[h] + op[p].delta = Size(path[h])
         /\ ~Pending(p, h) => acc[h] = Size(path[h])
  BY DEF Counts, Owed

LEMMA AddCounts ==
  ASSUME Shaped, Files, \A g \in Hash : ~Overlapping(g), \A g \in Hash : ~Overlapping(g)',
         NEW p \in Op, AddUsed(p), Ranges(p), NEW acc, Counts(acc)
  PROVE  \E a : Counts(a)'
<1>1. PICK h \in Hash : op[p].hash = h
  BY DEF AddUsed, Shaped, Shape
<1>2. /\ op'[p] = Idle /\ op'[p].pc = "idle" /\ path' = path
      /\ Active(p) /\ pc(p) = "add" /\ PutStep(p)
  BY IdleLocal DEF AddUsed, Shaped, Active, PutStep
<1>3. /\ \A q \in Op \ {p} : Kept(q) /\ ~Pending(q, h)
      /\ \A g \in Hash \ {h} : ~Pending(p, g) /\ ~Pending(p, g)' /\ path'[g] = path[g]
  BY <1>1, <1>2, Works
<1> DEFINE b == Size(path[h])
           a == [acc EXCEPT ![h] = b]
<1>4. acc[h] + op[p].delta = b
  BY <1>1, <1>2, <1>3, Believed
<1>5. b \in 0 .. Blocks /\ Blocks \in Nat /\ acc \in [Hash -> 0 .. Blocks]
      /\ op[p].delta \in Int
  BY SizeType, StoreAssumption DEF Counts, Ranges
<1>6. used + op[p].delta \in Nat /\ used + op[p].delta = used - acc[h] + b
  <2>1. (\A g \in Hash : acc[g] \in Int) /\ (\A g \in Hash : a[g] \in Int)
    BY <1>5
  <2>2. /\ \A g \in Hash \ {h} : a[g] = acc[g]
        /\ a[h] = b /\ \A g \in Hash : a[g] \in Nat
    BY <1>5
  <2> HIDE DEF a
  <2>3. SumFunctionOnSet(a, Hash) = SumFunctionOnSet(acc, Hash) - acc[h] + a[h]
    BY <2>1, <2>2, StoreFinite, SumChanges
  <2>4. SumFunctionOnSet(a, Hash) \in Nat /\ SumFunctionOnSet(acc, Hash) \in Int
    BY <2>1, <2>2, StoreFinite, SumNat, SumType
  <2>5. used = SumFunctionOnSet(acc, Hash) /\ acc[h] \in Int
    BY <2>1 DEF Counts
  <2> HIDE DEF b
  <2> QED
    BY <1>4, <1>5, <2>2, <2>3, <2>4, <2>5
<1>7. used' = used - acc[h] + b
  <2>1. used' = Max({0, used + op[p].delta})
    BY DEF AddUsed
  <2>2. Max({0, used + op[p].delta}) = used + op[p].delta
    BY <1>6, MaxOfTwo
  <2> QED
    BY <1>6, <2>1, <2>2
<1>8. b = Size(path'[h])
  BY <1>2
<1> HIDE DEF a, b
<1> QED
  BY <1>2, <1>3, <1>5, <1>7, <1>8, Recount

LEMMA PutCounts ==
  ASSUME Shaped, Files, \A g \in Hash : ~Overlapping(g), \A g \in Hash : ~Overlapping(g)',
         NEW p \in Op, PutStep(p), Known(p), Ranges(p), NEW acc, Counts(acc)
  PROVE  \E a : Counts(a)'
<1> USE DEF Shaped
<1>1. op[p] \in Local /\ DOMAIN op = Op /\ Shape(p)
  OBVIOUS
<1>2. CASE \E h \in Hash : PutStarts(p, h)
  <2>1. PICK h \in Hash : PutStarts(p, h)
    BY <1>2
  <2>2. /\ op'[p].pc = "create" /\ op'[p].hash = h /\ path' = path /\ used' = used
        /\ pc(p) = "idle"
    BY <1>1, <2>1 DEF PutStarts, Idle
  <2>3. Active(p)'
    BY <2>2 DEF Active, pc
  <2>4. \A q \in Op \ {p} : ~Pending(q, h)
    BY <2>2, <2>3, Works
  <2>5. acc[h] = Size(path'[h])
    BY <2>2, <2>4, Believed DEF Pending
  <2> QED
    BY <2>2, <2>3, <2>5, CountKept
<1>3. ASSUME pc(p) # "idle", op[p].hash \in Hash PROVE \E a : Counts(a)'
  <2> DEFINE h == op[p].hash
  <2>1. Active(p) /\ h \in Hash /\ op[p].hash = h /\ pc(p) # "wipe"
    BY <1>1, <1>3 DEF Active, PutStep, PutStarts, Create, Write, PutAborts, StatOld,
       Rename, StatNew, AddUsed
  <2> HIDE DEF h
  <2>2. op'[p].pc = "idle" \/ op'[p].hash = h
    <3>1. CASE Rename(p) /\ tmp[h] # absent
      <4>1. op' = [Moved(h, "tmp", "path") EXCEPT ![p].pc = "restat"]
        BY <2>1, <3>1 DEF Rename
      <4> QED
        BY <2>1, <4>1, MovedStep DEF Labels
    <3>2. CASE Rename(p) /\ tmp[h] = absent
      BY <1>1, <2>1, <3>2, IdleLocal DEF Rename
    <3>3. CASE PutAborts(p)
      <4>1. op'[p] = Idle
        BY <1>1, <3>3 DEF PutAborts, Moved
      <4> QED
        BY <4>1, IdleLocal
    <3>4. CASE Create(p) \/ Write(p) \/ StatOld(p) \/ StatNew(p) \/ AddUsed(p)
      BY <1>1, <2>1, <3>4, IdleLocal DEF Create, Write, StatOld, StatNew, AddUsed, Local
    <3> QED
      BY <1>3, <3>1, <3>2, <3>3, <3>4 DEF PutStep, PutStarts
  <2>3. /\ \A q \in Op \ {p} : Kept(q) /\ ~Pending(q, h)
        /\ \A g \in Hash \ {h} : ~Pending(p, g) /\ ~Pending(p, g)' /\ path'[g] = path[g]
    BY <2>1, <2>2, Works
  <2>4. /\ pc(p) = "restat" => acc[h] = op[p].old
        /\ pc(p) = "add" => acc[h] + op[p].delta = Size(path[h])
        /\ pc(p) \notin {"restat", "add"} => acc[h] = Size(path[h])
    BY <2>1, <2>3, Believed DEF Pending
  <2>5. CASE Create(p) \/ StatOld(p) \/ PutAborts(p)
    <3>1. path' = path /\ used' = used
      BY <2>5 DEF Create, StatOld, PutAborts
    <3>2. op'[p].pc \notin {"restat", "add"}
      BY <1>1, <2>5, IdleLocal DEF Create, StatOld, PutAborts, Moved, Local
    <3>3. acc[h] = Size(path'[h])
      BY <2>4, <2>5, <3>1 DEF Create, StatOld, PutAborts
    <3> QED
      BY <2>1, <2>2, <3>1, <3>2, <3>3, CountKept
  <2>6. CASE Write(p)
    <3>1. path' = path /\ used' = used
      BY <2>6 DEF Write, Known
    <3>2. op'[p].pc \notin {"restat", "add"}
      BY <1>1, <2>6 DEF Write, Local, pc
    <3>3. acc[h] = Size(path'[h])
      BY <2>4, <2>6, <3>1 DEF Write
    <3> QED
      BY <2>1, <2>2, <3>1, <3>2, <3>3, CountKept
  <2>7. CASE Rename(p)
    <3>1. used' = used /\ acc[h] = Size(path[h]) /\ acc[h] = op[p].old
      BY <2>1, <2>4, <2>7 DEF Rename, Known
    <3>2. CASE tmp[h] = absent
      <4>1. op'[p] = Idle /\ path' = path
        BY <1>1, <2>1, <2>7, <3>2 DEF Rename
      <4>2. op'[p].pc \notin {"restat", "add"} /\ acc[h] = Size(path'[h])
        BY <3>1, <4>1, IdleLocal
      <4> QED
        BY <2>1, <2>2, <3>1, <4>2, CountKept
    <3>3. CASE tmp[h] # absent
      <4>1. op' = [Moved(h, "tmp", "path") EXCEPT ![p].pc = "restat"]
        BY <2>1, <2>7, <3>3 DEF Rename
      <4>2. op'[p].pc = "restat" /\ op'[p].old = op[p].old
        BY <2>1, <4>1, MovedStep DEF Labels
      <4> QED
        BY <2>1, <2>2, <3>1, <4>2, CountKept
    <3> QED
      BY <3>2, <3>3
  <2>8. CASE StatNew(p)
    <3>1. used' = used /\ path' = path /\ acc[h] = op[p].old
      BY <2>4, <2>8 DEF StatNew
    <3>2. op'[p].pc = "add" /\ op'[p].delta = Size(path[h]) - op[p].old
      BY <1>1, <2>1, <2>8 DEF StatNew, Local
    <3>3. acc[h] \in Int /\ Size(path[h]) \in Int
      BY <2>1, SizeType, StoreAssumption DEF Counts
    <3>4. acc[h] + op'[p].delta = Size(path'[h])
      <4>1. acc[h] + op'[p].delta = Size(path[h])
        BY <3>1, <3>2, <3>3
      <4> QED
        BY <3>1, <4>1
    <3> QED
      BY <2>1, <2>2, <3>1, <3>2, <3>4, CountKept
  <2>9. CASE AddUsed(p)
    BY <2>9, AddCounts
  <2> QED
    BY <1>3, <2>5, <2>6, <2>7, <2>8, <2>9 DEF PutStep, PutStarts
<1>4. CASE ~ \E h \in Hash : PutStarts(p, h)
  <2>1. pc(p) \in {"create", "write", "stat", "rename", "restat", "add"}
    BY <1>4 DEF PutStep, Create, Write, PutAborts, StatOld, Rename, StatNew, AddUsed
  <2> QED
    BY <1>1, <1>3, <2>1 DEF Shape
<1> QED
  BY <1>2, <1>4

LEMMA DeleteCounts ==
  ASSUME Shaped, Files, \A g \in Hash : ~Overlapping(g), \A g \in Hash : ~Overlapping(g)',
         NEW p \in Op, DeleteStep(p), Known(p), NEW acc, Counts(acc)
  PROVE  \E a : Counts(a)'
<1>1. op[p] \in Local /\ DOMAIN op = Op /\ Shape(p)
  BY DEF Shaped
<1>2. CASE \E h \in Hash : DeleteStarts(p, h)
  <2>1. PICK h \in Hash : DeleteStarts(p, h)
    BY <1>2
  <2>2. /\ op'[p].pc = "remove" /\ op'[p].hash = h /\ path' = path /\ used' = used
        /\ pc(p) = "idle"
    BY <1>1, <2>1 DEF DeleteStarts, Idle
  <2>3. Active(p)'
    BY <2>2 DEF Active, pc
  <2>4. \A q \in Op \ {p} : ~Pending(q, h)
    BY <2>2, <2>3, Works
  <2>5. acc[h] = Size(path'[h])
    BY <2>2, <2>4, Believed DEF Pending
  <2> QED
    BY <2>2, <2>3, <2>5, CountKept
<1>3. CASE Remove(p)
  <2>1. PICK h \in Hash : op[p].hash = h
    BY <1>1, <1>3 DEF Remove, Shape
  <2>2. pc(p) = "remove" /\ Active(p) /\ used' = used
    BY <1>3 DEF Remove, Active
  <2>3. CASE path[h] = absent
    <3>1. op'[p].pc = "idle" /\ path' = path
      BY <1>1, <1>3, <2>1, <2>3, IdleLocal DEF Remove
    <3>2. \A q \in Op \ {p} : ~Pending(q, h)
      BY <2>1, <2>2, <3>1, Works
    <3>3. acc[h] = Size(path'[h])
      BY <2>2, <3>1, <3>2, Believed DEF Pending
    <3> QED
      BY <2>1, <2>2, <3>1, <3>3, CountKept
  <2>4. CASE path[h] # absent
    <3>1. /\ path' = [path EXCEPT ![h] = absent]
          /\ op' = [Moved(h, "path", "none") EXCEPT ![p].pc = "add"]
      BY <1>3, <2>1, <2>4 DEF Remove
    <3>2. op'[p].pc = "add" /\ op'[p].hash = h /\ op'[p].delta = op[p].delta
      BY <2>1, <3>1, MovedStep DEF Labels
    <3>3. \A q \in Op \ {p} : ~Pending(q, h)
      BY <2>1, <2>2, <3>2, Works
    <3>4. acc[h] = Size(path[h]) /\ op[p].delta = -Size(path[h])
      BY <2>1, <2>2, <3>3, Believed DEF Pending, Known
    <3>5. Size(path'[h]) = 0 /\ Size(path[h]) \in Int
      <4>1. path'[h] = absent
        BY <3>1 DEF Files
      <4> QED
        BY <4>1, SizeType, StoreAssumption DEF Size
    <3>6. acc[h] + op'[p].delta = Size(path'[h])
      BY <3>2, <3>4, <3>5
    <3> QED
      BY <2>1, <2>2, <3>2, <3>6, CountKept
  <2> QED
    BY <2>3, <2>4
<1> QED
  BY <1>2, <1>3 DEF DeleteStep

(* A clear goes on, or ends: alone, when everything is gone. *)
LEMMA ClearCounts ==
  ASSUME Shaped, \A h \in Hash : ~Overlapping(h), NEW p \in Op, ClearStep(p),
         \A h \in Hash : ~Overlapping(h)', Known(p), op' \in [Op -> Local],
         \A q \in Op : Shape(q)'
  PROVE  Clearing' \/ \E a : Counts(a)'
<1>1. op[p] \in Local /\ DOMAIN op = Op /\ Shape(p) /\ Blocks \in Nat
  BY StoreAssumption DEF Shaped
<1>2. CASE op'[p].kind = "clear"
  BY <1>2 DEF Clearing
<1>3. CASE ClearStarts(p) \/ Wiped(p)
  <2>1. CASE ClearStarts(p)
    <3>1. op'[p].kind = "clear"
      BY <1>1, <2>1 DEF ClearStarts, Idle
    <3> QED
      BY <1>2, <3>1
  <2>2. CASE Wiped(p)
    <3>1. op'[p].kind = op[p].kind /\ pc(p) = "wipe"
      BY <1>1, <2>2 DEF Wiped, Local
    <3>2. op[p].kind = "clear"
      BY <1>1, <3>1 DEF Shape
    <3> QED
      BY <1>2, <3>1, <3>2
  <2> QED
    BY <1>3, <2>1, <2>2
<1>4. CASE \E h \in Hash : Wipe(p, h)
  <2>1. PICK h \in Hash, from \in {"tmp", "path"} :
          op' = Moved(h, from, "none") /\ pc(p) = "wipe"
    BY <1>4 DEF Wipe
  <2>2. Moved(h, from, "none")[p].kind = op[p].kind
    BY MovedType DEF Shaped
  <2>3. op[p].kind = "clear"
    BY <1>1, <2>1 DEF Shape
  <2>4. op'[p].kind = "clear"
    BY <2>1, <2>2, <2>3
  <2> QED
    BY <1>2, <2>4
<1>5. ASSUME NEW q \in Op \ {p}, Active(q), pc(p) \in {"wipe", "zero"}
      PROVE  Clearing'
  <2>1. Kept(q)
    BY OthersKeep DEF Shaped
  <2>2. op[p].kind = "clear" /\ Active(p)
    BY <1>1, <1>5 DEF Shape, Active
  <2>3. op[q].kind = "clear"
    <3>1. op[q].kind = "clear" \/ op[q].hash \in Hash
      <4>1. op[q] \in Local /\ Shape(q)
        BY DEF Shaped
      <4> QED
        BY <1>5, <4>1 DEF Local, Labels, Shape, Active, pc
    <3>2. ASSUME op[q].hash \in Hash PROVE FALSE
      BY <1>5, <2>2, <3>2, Lonely
    <3> QED
      BY <3>1, <3>2
  <2> QED
    BY <2>1, <2>3 DEF Kept, Clearing
<1>6. CASE ClearFails(p)
  BY <1>5, <1>6 DEF ClearFails
<1>7. CASE ZeroUsed(p)
  <2>1. CASE \E q \in Op \ {p} : Active(q)
    BY <1>5, <1>7, <2>1 DEF ZeroUsed
  <2>2. CASE \A q \in Op \ {p} : ~Active(q)
    <3> DEFINE a == [h \in Hash |-> 0]
    <3>1. used' = 0 /\ path' = path /\ \A h \in Hash : path'[h] = absent
      BY <1>7 DEF ZeroUsed, Known
    <3>2. \A q \in Op : op'[q].pc = "idle"
      <4>1. op'[p] = Idle /\ \A q \in Op \ {p} : op'[q] = op[q]
        BY <1>1, <1>7 DEF ZeroUsed
      <4> QED
        BY <2>2, <4>1, IdleLocal DEF Active, pc
    <3>3. SumFunctionOnSet(a, Hash) = 0 /\ a \in [Hash -> 0 .. Blocks]
      <4>1. a \in [Hash -> 0 .. Blocks] /\ \A h \in Hash : a[h] = 0
        BY <1>1
      <4> HIDE DEF a
      <4> QED
        BY <4>1, StoreFinite, SumZero
    <3>4. \A h \in Hash : Owed(a, h)'
      BY <3>1, <3>2 DEF Owed, Pending, Size, pc
    <3>5. Counts(a)'
      <4> HIDE DEF a
      <4> QED
        BY <3>1, <3>3, <3>4 DEF Counts
    <3> QED
      BY <3>5
  <2> QED
    BY <2>1, <2>2
<1> QED
  BY <1>3, <1>4, <1>6, <1>7 DEF ClearStep

LEMMA CountStep ==
  ASSUME StoreInv, StoreInv', Ranged, CountInv, NEW p \in Op,
         PutStep(p) \/ DeleteStep(p) \/ ClearStep(p), Note
  PROVE  CountInv'
<1> SUFFICES ASSUME ~drift' PROVE CountInv'
  BY DEF CountInv
<1>1. ~drift /\ \A h \in Hash : ~Overlapping(h)'
  BY DEF Note
<1>2. /\ \A h \in Hash : ~Overlapping(h)
      /\ \A q \in Op : Known(q)
      /\ Clearing \/ \E acc : Counts(acc)
  BY <1>1 DEF CountInv
<1>3. Shaped /\ Files /\ Ranges(p) /\ op' \in [Op -> Local] /\ \A q \in Op : Shape(q)'
  BY DEF StoreInv, Core, Shaped, Ranged
<1>4. \A q \in Op : Known(q)'
  BY <1>2, <1>3, OthersKnow, OwnKnows
<1>5. Clearing' \/ \E a : Counts(a)'
  <2>1. CASE ClearStep(p)
    BY <1>1, <1>2, <1>3, <2>1, ClearCounts
  <2>2. CASE PutStep(p) \/ DeleteStep(p)
    <3>1. CASE Clearing
      <4>1. PICK q \in Op : op[q].kind = "clear"
        BY <3>1 DEF Clearing
      <4>2. p # q
        <5>1. pc(p) \in {"create", "write", "stat", "rename", "restat", "add", "remove"}
                \/ pc(p) = "idle"
          BY <2>2 DEF PutStep, DeleteStep, PutStarts, Create, Write, PutAborts, StatOld,
             Rename, StatNew, AddUsed, DeleteStarts, Remove
        <5> QED
          BY <1>3, <4>1, <5>1 DEF Shaped, Shape, Ranges
      <4>3. Kept(q)
        BY <1>3, <4>2, OthersKeep DEF Shaped
      <4> QED
        BY <4>1, <4>3 DEF Kept, Clearing
    <3>2. ASSUME NEW acc, Counts(acc) PROVE \E a : Counts(a)'
      BY <1>1, <1>2, <1>3, <2>2, <3>2, PutCounts, DeleteCounts
    <3> QED
      BY <1>2, <3>1, <3>2
  <2> QED
    BY <2>1, <2>2
<1> QED
  BY <1>1, <1>4, <1>5 DEF CountInv

LEMMA CountRestart == StoreInv /\ Restart => CountInv'
<1> SUFFICES ASSUME StoreInv, Restart PROVE CountInv'
  OBVIOUS
<1>1. /\ \A p \in Op : op'[p].pc = "idle" /\ op'[p].kind = "none"
      /\ path' = path /\ used' = Total
  BY IdleLocal, IdleNumbers DEF Restart
<1>2. \A h \in Hash : ~Overlapping(h)'
  BY <1>1 DEF Overlapping, Active, pc
<1>3. \A p \in Op : Known(p)'
  BY <1>1 DEF Known, pc
<1>4. PICK a : a = Sizes
  OBVIOUS
<1>5. a \in [Hash -> 0 .. Blocks] /\ \A h \in Hash : a[h] = Size(path'[h])
  BY <1>1, <1>4, SizeType DEF Sizes
<1>6. \A h \in Hash : Owed(a, h)'
  BY <1>1, <1>5 DEF Owed, Pending, pc
<1>7. used' = SumFunctionOnSet(a, Hash)
  BY <1>1, <1>4, TotalIsSum
<1>8. Counts(a)'
  BY <1>5, <1>6, <1>7 DEF Counts
<1> QED
  BY <1>2, <1>3, <1>8 DEF CountInv

LEMMA CountInit == StoreInit => CountInv
<1> SUFFICES ASSUME StoreInit PROVE CountInv
  OBVIOUS
<1> DEFINE a == [h \in Hash |-> 0]
<1>1. /\ \A p \in Op : op[p].pc = "idle"
      /\ \A h \in Hash : path[h] = absent
      /\ used = 0 /\ Blocks \in Nat
  BY IdleLocal, StoreAssumption DEF StoreInit
<1>2. (\A h \in Hash : ~Overlapping(h)) /\ (\A p \in Op : Known(p))
  BY <1>1 DEF Overlapping, Active, Known, pc
<1>3. a \in [Hash -> 0 .. Blocks] /\ \A h \in Hash : a[h] = 0
  BY <1>1
<1> HIDE DEF a
<1>4. SumFunctionOnSet(a, Hash) = 0
  BY <1>3, StoreFinite, SumZero
<1>5. \A h \in Hash : Owed(a, h)
  BY <1>1, <1>3 DEF Owed, Pending, Size, pc
<1>6. Counts(a)
  BY <1>1, <1>3, <1>4, <1>5 DEF Counts
<1> QED
  BY <1>2, <1>6 DEF CountInv

LEMMA CountNext ==
  StoreInv /\ StoreInv' /\ Ranged /\ CountInv /\ [StoreNext]_vars => CountInv'
<1> SUFFICES ASSUME StoreInv, StoreInv', Ranged, CountInv, [StoreNext]_vars
             PROVE  CountInv'
  OBVIOUS
<1>1. CASE StoreNext
  BY <1>1, CountStep, CountRestart DEF StoreNext
<1>2. CASE UNCHANGED vars
  BY <1>2 DEF vars, CountInv, Overlapping, Active, Known, Clearing, Counts, Owed,
     Pending, pc
<1> QED
  BY <1>1, <1>2

LEMMA CountCorrect == StoreSpec => [](StoreInv /\ Ranged /\ CountInv)
<1>1. StoreInv /\ Ranged /\ CountInv /\ [StoreNext]_vars
        => (StoreInv /\ Ranged /\ CountInv)'
  BY StoreInvStep, RangedStep, CountNext
<1> QED
  BY <1>1, StoreInvInit, RangedInit, CountInit, PTL DEF StoreSpec

(* At rest the cached total is the total on disk, however calls for different hashes
   interleaved, failed, broke off or were followed by a restart (store.go:65-107,
   145-240). *)
THEOREM StoreUsedIsTotal == StoreSpec => []UsedIsTotal
<1>1. Ranged /\ CountInv => UsedIsTotal
  <2> SUFFICES ASSUME Ranged, CountInv, \A p \in Op : ~Active(p), ~drift
               PROVE  used = Total
    BY DEF UsedIsTotal
  <2>1. \A p \in Op : pc(p) = "idle" /\ op[p].kind = "none"
    BY DEF Ranged, Ranges, Active
  <2>2. PICK acc : Counts(acc)
    BY <2>1 DEF CountInv, Clearing
  <2>3. \A h \in Hash : acc[h] = Size(path[h])
    BY <2>1, <2>2 DEF Counts, Owed, Pending
  <2>4. \A h \in Hash : acc[h] \in Int
    BY <2>2, StoreAssumption DEF Counts
  <2>5. \A h \in Hash : Sizes[h] = acc[h]
    BY <2>3 DEF Sizes
  <2>6. SumFunctionOnSet(acc, Hash) = SumFunctionOnSet(Sizes, Hash)
    BY <2>4, <2>5, StoreFinite, SumsAgree
  <2> QED
    BY <2>2, <2>6, TotalIsSum DEF Counts
<1> QED
  BY <1>1, CountCorrect, PTL

-----------------------------------------------------------------------------
(* What the puts may add.  Each was let in when the counter left room for its body;
   what it adds to the disk is at most a chunk, which the counter has not counted as
   long as the put runs. *)

Puts == {p \in Op : op[p].kind = "put"}
Bound == Capacity - Body + Cardinality(Op) * Blocks

BoundInv == /\ drift => mixed # {}
            /\ mixed = {} => /\ used + Cardinality(Puts) * Blocks <= Bound
                             /\ Total <= Bound

LEMMA PutsFinite ==
  ASSUME NEW P \in SUBSET Op
  PROVE  /\ IsFiniteSet(P) /\ Cardinality(P) \in Nat /\ Cardinality(Op) \in Nat
         /\ Cardinality(P) <= Cardinality(Op)
         /\ P # Op => Cardinality(P) <= Cardinality(Op) - 1
<1>1. /\ IsFiniteSet(P) /\ Cardinality(P) \in Nat /\ Cardinality(Op) \in Nat
      /\ Cardinality(P) <= Cardinality(Op)
      /\ Cardinality(P) = Cardinality(Op) => P = Op
  BY StoreFinite, FS_Subset, FS_CardinalityType
<1> QED
  BY <1>1

LEMMA TimesBlocks ==
  ASSUME NEW m \in Nat, NEW n \in Nat, m <= n
  PROVE  /\ m * Blocks \in Nat /\ n * Blocks \in Nat /\ m * Blocks <= n * Blocks
         /\ (n - 1) * Blocks = n * Blocks - Blocks
<1>1. Blocks \in Nat
  BY StoreAssumption
<1>2. PICK d \in Nat : n = m + d
  <2>1. n - m \in Nat /\ n = m + (n - m)
    OBVIOUS
  <2> QED
    BY <2>1
<1>3. n * Blocks = m * Blocks + d * Blocks
  BY <1>1, <1>2
<1>4. m * Blocks \in Nat /\ d * Blocks \in Nat
  BY <1>1
<1> QED
  BY <1>1, <1>3, <1>4

LEMMA BodyFits ==
  /\ Capacity \in Nat /\ Blocks \in Nat /\ Body \in 0 .. Blocks /\ Bound \in Int
  /\ Bound = Capacity - Body + Cardinality(Op) * Blocks
<1>1. Capacity \in Nat /\ Blocks \in Nat /\ Body \in 0 .. Blocks
  BY StoreAssumption DEF Body
<1>2. Cardinality(Op) * Blocks \in Nat
  BY PutsFinite, TimesBlocks
<1> QED
  BY <1>1, <1>2 DEF Bound

(* As long as nothing is cleared the disk holds what is counted, and a chunk at most
   for each put. *)
LEMMA PutsOwe ==
  Shaped /\ Ranged /\ CountInv /\ ~drift /\ ~Clearing
    => Total <= used + Cardinality(Puts) * Blocks
<1> SUFFICES ASSUME Shaped, Ranged, CountInv, ~drift, ~Clearing
             PROVE  Total <= used + Cardinality(Puts) * Blocks
  OBVIOUS
<1>1. PICK acc : Counts(acc)
  BY DEF CountInv
<1> DEFINE D == {h \in Hash : \E p \in Puts : Pending(p, h)}
<1>2. Blocks \in Nat
  BY StoreAssumption
<1>3. (\A h \in Hash : acc[h] \in Int) /\ (\A h \in Hash : Sizes[h] \in Int)
  BY <1>1, <1>2, SizeType DEF Counts, Sizes
<1>4. ASSUME NEW h \in Hash
      PROVE  Sizes[h] <= acc[h] + (IF h \in D THEN Blocks ELSE 0)
  <2>1. Sizes[h] = Size(path[h]) /\ Size(path[h]) \in 0 .. Blocks /\ acc[h] \in 0 .. Blocks
    BY <1>1, SizeType DEF Counts, Sizes
  <2>2. CASE h \in D
    <3> HIDE DEF D
    <3> QED
      BY <1>2, <2>1, <2>2
  <2>3. CASE h \notin D
    <3>1. Size(path[h]) <= acc[h]
      <4>1. CASE \A p \in Op : ~Pending(p, h)
        BY <1>1, <1>2, <2>1, <4>1 DEF Counts, Owed
      <4>2. ASSUME NEW p \in Op, Pending(p, h) PROVE Size(path[h]) <= acc[h]
        <5>1. op[p].kind = "delete" /\ pc(p) = "add"
          BY <2>3, <4>2 DEF Pending, Puts, Shaped, Shape
        <5>2. acc[h] + op[p].delta = Size(path[h])
          BY <1>1, <4>2, <5>1 DEF Counts, Owed, Pending
        <5>3. op[p].delta \in Int /\ op[p].delta <= 0
          BY <1>2, <5>1 DEF Ranged, Ranges
        <5> QED
          BY <1>2, <2>1, <5>2, <5>3
      <4> QED
        BY <4>1, <4>2
    <3>2. Size(path[h]) \in Int /\ acc[h] \in Int /\ Sizes[h] = Size(path[h])
      BY <1>2, <2>1
    <3> HIDE DEF D
    <3> QED
      BY <2>3, <3>1, <3>2
  <2> QED
    BY <2>2, <2>3
<1>5. Cardinality(D) \in Nat /\ Cardinality(D) <= Cardinality(Puts)
  <2> DEFINE f == [h \in D |-> CHOOSE p \in Puts : Pending(p, h)]
  <2>1. \A h \in D : f[h] \in Puts /\ Pending(f[h], h)
    OBVIOUS
  <2>2. \A h \in D : op[f[h]].hash = h
    BY <2>1 DEF Pending
  <2>3. f \in [D -> Puts]
    BY <2>1
  <2> HIDE DEF f
  <2>4. f \in Injection(D, Puts)
    <3>1. \A g, h \in D : f[g] = f[h] => g = h
      BY <2>2
    <3> HIDE DEF D
    <3> QED
      BY <2>3, <3>1 DEF Injection, IsInjective
  <2>5. IsFiniteSet(Puts)
    BY PutsFinite DEF Puts
  <2> HIDE DEF D
  <2> QED
    BY <2>4, <2>5, FS_Injection, FS_CardinalityType
<1>6. Hash \cap D = D
  OBVIOUS
<1> HIDE DEF D
<1>7. SumFunctionOnSet(Sizes, Hash)
        <= SumFunctionOnSet(acc, Hash) + Cardinality(D) * Blocks
  BY <1>2, <1>3, <1>4, <1>6, StoreFinite, SumAtMost
<1>8. Cardinality(Puts) \in Nat
  BY PutsFinite DEF Puts
<1>9. /\ Cardinality(D) * Blocks <= Cardinality(Puts) * Blocks
      /\ Cardinality(D) * Blocks \in Nat /\ Cardinality(Puts) * Blocks \in Nat
  BY <1>5, <1>8, TimesBlocks
<1>10. used = SumFunctionOnSet(acc, Hash) /\ used \in Nat
  BY <1>1 DEF Counts, Ranged
<1> QED
  BY <1>7, <1>9, <1>10, TotalIsSum

(* Nobody but a put that starts joins the puts. *)
LEMMA PutsNext ==
  ASSUME Shaped, Ranged, NEW p \in Op, PutStep(p) \/ DeleteStep(p) \/ ClearStep(p)
  PROVE  /\ \/ \E h \in Hash : PutStarts(p, h)
            \/ Puts' \subseteq Puts
         /\ AddUsed(p) \/ ZeroUsed(p) => Puts' \subseteq Puts \ {p}
<1>1. op[p] \in Local /\ DOMAIN op = Op /\ Shape(p) /\ Ranges(p) /\ Puts \subseteq Op
  BY DEF Shaped, Ranged, Puts
<1>2. \A q \in Op \ {p} : q \in Puts' <=> q \in Puts
  <2>1. \A q \in Op \ {p} : Kept(q)
    BY OthersKeep DEF Shaped
  <2> QED
    BY <2>1 DEF Kept, Puts
<1>3. ASSUME op'[p].kind # "put" PROVE Puts' \subseteq Puts \ {p}
  BY <1>2, <1>3 DEF Puts
<1>4. ASSUME op[p].kind = "put" PROVE Puts' \subseteq Puts
  BY <1>2, <1>4 DEF Puts
<1>5. AddUsed(p) \/ ZeroUsed(p) => Puts' \subseteq Puts \ {p}
  <2>1. AddUsed(p) \/ ZeroUsed(p) => op'[p] = Idle
    BY <1>1 DEF AddUsed, ZeroUsed
  <2> QED
    BY <1>3, <2>1, IdleNumbers
<1>6. CASE PutStep(p)
  <2>1. pc(p) \in {"create", "write", "stat", "rename", "restat"} => op[p].kind = "put"
    BY <1>1 DEF Shape
  <2> QED
    BY <1>4, <1>5, <1>6, <2>1 DEF PutStep, Create, Write, PutAborts, StatOld, Rename,
       StatNew
<1>7. ASSUME DeleteStep(p) \/ ClearStep(p) PROVE op'[p].kind # "put"
  <2>1. CASE \E h \in Hash : DeleteStarts(p, h)
    BY <1>1, <2>1 DEF DeleteStarts, Idle
  <2>2. CASE ClearStarts(p)
    BY <1>1, <2>2 DEF ClearStarts, Idle
  <2>3. CASE ClearFails(p) \/ ZeroUsed(p)
    BY <1>1, <2>3, IdleNumbers DEF ClearFails, ZeroUsed
  <2>4. CASE Wiped(p)
    <3>1. op'[p].kind = op[p].kind /\ pc(p) = "wipe"
      BY <1>1, <2>4 DEF Wiped, Local
    <3> QED
      BY <1>1, <3>1 DEF Shape
  <2>5. CASE \E h \in Hash : Wipe(p, h)
    <3>1. PICK h \in Hash, from \in {"tmp", "path"} :
            op' = Moved(h, from, "none") /\ pc(p) = "wipe"
      BY <2>5 DEF Wipe
    <3>2. Moved(h, from, "none")[p].kind = op[p].kind
      BY MovedType DEF Shaped
    <3> QED
      BY <1>1, <3>1, <3>2 DEF Shape
  <2>6. CASE Remove(p)
    <3>1. PICK h \in Hash : op[p].hash = h
      BY <1>1, <2>6 DEF Remove, Shape
    <3>2. CASE op' = [op EXCEPT ![p] = Idle]
      BY <1>1, <3>2, IdleNumbers
    <3>3. CASE op' = [Moved(h, "path", "none") EXCEPT ![p].pc = "add"]
      <4>1. op'[p].kind = op[p].kind
        BY <3>1, <3>3, MovedStep DEF Labels
      <4> QED
        BY <1>1, <2>6, <4>1 DEF Remove, Shape
    <3> QED
      BY <2>6, <3>1, <3>2, <3>3 DEF Remove
  <2> QED
    BY <1>7, <2>1, <2>2, <2>3, <2>4, <2>5, <2>6 DEF DeleteStep, ClearStep
<1> QED
  BY <1>3, <1>5, <1>6, <1>7

(* The counter and the puts that run *)
LEMMA AdmittedStep ==
  ASSUME Shaped, Ranged, Ranged', sealed' = sealed, NEW p \in Op,
         PutStep(p) \/ DeleteStep(p) \/ ClearStep(p),
         used + Cardinality(Puts) * Blocks <= Bound
  PROVE  used' + Cardinality(Puts') * Blocks <= Bound'
<1>1. Bound' = Bound
  BY DEF Bound, Body
<1>2. /\ Puts \in SUBSET Op /\ Puts' \in SUBSET Op
      /\ used \in Nat /\ used' \in Nat
  BY DEF Puts, Ranged
<1> DEFINE A == Cardinality(Puts)
           N == Cardinality(Puts')
           C == Cardinality(Op)
<1>3. A \in Nat /\ N \in Nat /\ C \in Nat /\ A <= C /\ N <= C
  BY <1>2, PutsFinite
<1>4. /\ Capacity \in Nat /\ Blocks \in Nat /\ Body \in 0 .. Blocks /\ Bound \in Int
      /\ Bound = Capacity - Body + C * Blocks
  BY BodyFits
<1>5. A * Blocks \in Nat /\ N * Blocks \in Nat /\ C * Blocks \in Nat
  BY <1>3, TimesBlocks
<1>6. Puts' \subseteq Puts => N <= A /\ N * Blocks <= A * Blocks
  <2>1. Puts' \subseteq Puts => N <= A
    BY <1>2, PutsFinite, FS_Subset
  <2> QED
    BY <1>3, <2>1, TimesBlocks
<1>7. ASSUME Puts' \subseteq Puts \ {p} PROVE N * Blocks <= C * Blocks - Blocks
  <2>1. Puts' # Op
    BY <1>7
  <2>2. N <= C - 1 /\ C - 1 \in Nat
    BY <1>2, <1>3, <2>1, PutsFinite
  <2> HIDE DEF N, C
  <2>3. N * Blocks <= (C - 1) * Blocks /\ (C - 1) * Blocks = C * Blocks - Blocks
    BY <1>3, <2>2, TimesBlocks
  <2> QED
    BY <2>3
<1>8. CASE \E h \in Hash : PutStarts(p, h)
  <2>1. used' = used /\ used + Body <= Capacity
    BY <1>8 DEF PutStarts
  <2>2. N * Blocks <= C * Blocks
    BY <1>3, TimesBlocks
  <2> HIDE DEF N, C
  <2> QED
    BY <1>1, <1>2, <1>4, <1>5, <2>1, <2>2 DEF N
<1>9. CASE Puts' \subseteq Puts /\ used' = used
  <2>1. N * Blocks <= A * Blocks
    BY <1>6, <1>9
  <2> HIDE DEF N, A
  <2>2. used' + N * Blocks <= used + A * Blocks
    BY <1>2, <1>5, <1>9, <2>1
  <2>3. used + A * Blocks <= Bound
    BY DEF A
  <2>4. used' + N * Blocks <= Bound'
    BY <1>1, <1>2, <1>4, <1>5, <2>2, <2>3
  <2> QED
    BY <2>4 DEF N
<1>10. ASSUME used' = 0, Puts' \subseteq Puts \ {p} PROVE used' + N * Blocks <= Bound'
  <2>1. N * Blocks <= C * Blocks - Blocks
    BY <1>7, <1>10
  <2> HIDE DEF N, C
  <2> QED
    BY <1>1, <1>4, <1>5, <1>10, <2>1
<1>11. CASE ZeroUsed(p)
  BY <1>10, <1>11, PutsNext DEF ZeroUsed
<1>12. CASE AddUsed(p)
  <2>1. Puts' \subseteq Puts \ {p}
    BY <1>12, PutsNext
  <2>2. op[p].delta \in -Blocks .. Blocks /\ op[p].delta \in Int
        /\ (op[p].kind = "delete" => op[p].delta <= 0)
    BY <1>4 DEF Ranged, Ranges
  <2>3. used' = 0 \/ used' = used + op[p].delta
    <3>1. used + op[p].delta \in Int
      BY <1>2, <2>2
    <3> QED
      BY <1>12, <3>1, MaxOfTwo DEF AddUsed
  <2>4. CASE used' = 0
    BY <1>10, <2>1, <2>4
  <2>5. CASE used' = used + op[p].delta
    <3>1. op[p].kind \in {"put", "delete"}
      BY <1>12 DEF AddUsed, Shaped, Shape
    <3>2. N * Blocks <= A * Blocks - (IF op[p].kind = "put" THEN Blocks ELSE 0)
      <4>1. CASE op[p].kind = "put"
        <5>1. p \in Puts
          BY <4>1 DEF Puts
        <5>2. IsFiniteSet(Puts) /\ Puts \ {p} \in SUBSET Op
          BY <1>2, PutsFinite
        <5>3. Cardinality(Puts \ {p}) = A - 1
          BY <5>1, <5>2, FS_RemoveElement
        <5>4. N <= A - 1 /\ A - 1 \in Nat
          <6>1. N <= Cardinality(Puts \ {p}) /\ Cardinality(Puts \ {p}) \in Nat
            BY <2>1, <5>2, PutsFinite, FS_Subset
          <6> QED
            BY <5>3, <6>1
        <5> HIDE DEF N, A
        <5>5. N * Blocks <= (A - 1) * Blocks /\ (A - 1) * Blocks = A * Blocks - Blocks
          BY <1>3, <5>4, TimesBlocks
        <5> QED
          BY <4>1, <5>5
      <4>2. CASE op[p].kind # "put"
        <5>1. N * Blocks <= A * Blocks
          BY <1>6, <2>1
        <5> HIDE DEF N, A
        <5> QED
          BY <1>5, <4>2, <5>1
      <4> QED
        BY <4>1, <4>2
    <3> HIDE DEF N, A
    <3>3. used' + N * Blocks <= used + A * Blocks
      BY <1>2, <1>4, <1>5, <2>2, <2>5, <3>1, <3>2
    <3>4. used + A * Blocks <= Bound
      BY DEF A
    <3>5. used' + N * Blocks <= Bound'
      BY <1>1, <1>2, <1>4, <1>5, <3>3, <3>4
    <3> QED
      BY <3>5 DEF N
  <2> QED
    BY <2>3, <2>4, <2>5
<1>13. CASE used' = used /\ ~ \E h \in Hash : PutStarts(p, h)
  BY <1>9, <1>13, PutsNext
<1>14. used' = used \/ AddUsed(p) \/ ZeroUsed(p)
  BY DEF PutStep, DeleteStep, ClearStep, Create, Write, PutAborts, StatOld,
     Rename, StatNew, PutStarts, Remove, DeleteStarts, ClearStarts, ClearFails,
     Wiped, Wipe
<1> QED
  BY <1>8, <1>11, <1>12, <1>13, <1>14

LEMMA ClearPlace ==
  Shaped /\ Ranged => \A q \in Op : op[q].kind = "clear" => op[q].pc \in {"wipe", "zero"}
<1> SUFFICES ASSUME Shaped, Ranged, NEW q \in Op, op[q].kind = "clear"
             PROVE  op[q].pc \in {"wipe", "zero"}
  OBVIOUS
<1>1. op[q] \in Local /\ Shape(q) /\ Ranges(q)
  BY DEF Shaped, Ranged
<1> QED
  BY <1>1 DEF Local, Labels, Shape, Ranges, pc

LEMMA StaysPut ==
  ASSUME Shaped, NEW p \in Op, PutStep(p) \/ DeleteStep(p) \/ ClearStep(p),
         pc(p) \in {"write", "rename", "remove"}
  PROVE  op'[p].pc \notin {"wipe", "zero"}
<1>1. op[p] \in Local /\ DOMAIN op = Op /\ op[p].hash \in Hash
  BY DEF Shaped, Shape
<1>2. Write(p) \/ PutAborts(p) \/ Rename(p) \/ Remove(p)
  BY DEF PutStep, DeleteStep, ClearStep, Create, StatOld, StatNew, AddUsed, PutStarts,
     DeleteStarts, ClearStarts, ClearFails, Wiped, ZeroUsed, Wipe
<1>3. CASE Write(p)
  BY <1>1, <1>3 DEF Write, Local, pc
<1>4. CASE PutAborts(p)
  <2>1. op'[p] = Idle
    BY <1>1, <1>4 DEF PutAborts, Moved
  <2> QED
    BY <2>1, IdleLocal
<1>5. CASE Rename(p) \/ Remove(p)
  <2>1. \/ op' = [op EXCEPT ![p] = Idle]
        \/ op' = [Moved(op[p].hash, "tmp", "path") EXCEPT ![p].pc = "restat"]
        \/ op' = [Moved(op[p].hash, "path", "none") EXCEPT ![p].pc = "add"]
    BY <1>5 DEF Rename, Remove
  <2>2. CASE op' = [op EXCEPT ![p] = Idle]
    BY <1>1, <2>2, IdleLocal
  <2>3. CASE op' = [Moved(op[p].hash, "tmp", "path") EXCEPT ![p].pc = "restat"]
    <3>1. op'[p].pc = "restat"
      BY <1>1, <2>3, MovedStep DEF Labels
    <3> QED
      BY <3>1
  <2>4. CASE op' = [Moved(op[p].hash, "path", "none") EXCEPT ![p].pc = "add"]
    <3>1. op'[p].pc = "add"
      BY <1>1, <2>4, MovedStep DEF Labels
    <3> QED
      BY <3>1
  <2> QED
    BY <2>1, <2>2, <2>3, <2>4
<1> QED
  BY <1>2, <1>3, <1>4, <1>5

(* A clear that is alone makes files vanish and does nothing else to them. *)
LEMMA ClearingShrinks ==
  ASSUME Shaped, Files, \A h \in Hash : ~Overlapping(h), NEW p \in Op,
         PutStep(p) \/ DeleteStep(p) \/ ClearStep(p), Ranged, Shaped', Ranged', Clearing'
  PROVE  Total' <= Total
<1>0. \A q \in Op : op'[q].kind = "clear" => op'[q].pc \in {"wipe", "zero"}
  <2>1. (Shaped /\ Ranged => \A q \in Op : op[q].kind = "clear" => op[q].pc \in {"wipe", "zero"})'
    BY ClearPlace, PTL
  <2> QED
    BY <2>1
<1>1. PICK q \in Op : op'[q].kind = "clear"
  BY DEF Clearing
<1>2. ASSUME NEW h \in Hash, pc(p) # "wipe" PROVE path'[h] = path[h]
  <2>1. CASE q = p
    <3>1. op'[p].pc \in {"wipe", "zero"}
      BY <1>0, <1>1, <2>1
    <3>2. pc(p) \notin {"write", "rename", "remove"}
      BY <3>1, StaysPut
    <3>3. ~Touches(p, h)
      BY <1>2, <3>2 DEF Touches
    <3> QED
      BY <3>3, PathKept
  <2>2. CASE q # p
    <3>1. Kept(q)
      BY <2>2, OthersKeep DEF Shaped
    <3>2. op[q].kind = "clear"
      BY <1>1, <3>1 DEF Kept
    <3>3. Active(q)
      BY <3>2 DEF Ranged, Ranges, Active
    <3>4. ~Touches(p, h)
      BY <2>2, <3>2, <3>3, NotTouched
    <3> QED
      BY <3>4, PathKept
  <2> QED
    BY <2>1, <2>2
<1>3. ASSUME NEW h \in Hash, pc(p) = "wipe" PROVE path'[h] = path[h] \/ path'[h] = absent
  <2>1. ClearStep(p)
    BY <1>3 DEF PutStep, DeleteStep, ClearStep, Create, Write, PutAborts, StatOld, Rename,
       StatNew, AddUsed, PutStarts, DeleteStarts, Remove
  <2>2. CASE \E g \in Hash : Wipe(p, g)
    BY <2>2 DEF Wipe, Files
  <2> QED
    BY <2>1, <2>2 DEF ClearStep, ClearStarts, ClearFails, Wiped, ZeroUsed
<1>4. PICK s : s = Sizes
  OBVIOUS
<1>5. PICK t : t = Sizes'
  OBVIOUS
<1>6. Total = SumFunctionOnSet(s, Hash) /\ Total' = SumFunctionOnSet(t, Hash)
  <2>1. (Total = SumFunctionOnSet(Sizes, Hash) /\ Total \in Nat)'
    BY TotalIsSum, PTL
  <2> QED
    BY <1>4, <1>5, <2>1, TotalIsSum
<1>7. (\A h \in Hash : s[h] \in Int) /\ (\A h \in Hash : t[h] \in Int)
  BY <1>4, <1>5, SizeType, StoreAssumption DEF Sizes
<1> DEFINE D == {}
<1>8. ASSUME NEW h \in Hash
      PROVE  t[h] <= s[h] + (IF h \in D THEN Blocks ELSE 0)
  <2>1. s[h] = Size(path[h]) /\ t[h] = Size(path'[h])
    BY <1>4, <1>5 DEF Sizes
  <2>2. path'[h] = path[h] \/ path'[h] = absent
    BY <1>2, <1>3
  <2>3. Size(absent) = 0 /\ s[h] \in 0 .. Blocks
    BY <2>1, SizeType DEF Size
  <2>4. t[h] = s[h] \/ t[h] = 0
    BY <2>1, <2>2, <2>3
  <2> QED
    BY <2>3, <2>4, <1>7, StoreAssumption
<1>9. Cardinality(Hash \cap D) = 0 /\ Blocks \in Nat
  BY FS_EmptySet, StoreAssumption
<1> HIDE DEF D
<1>10. SumFunctionOnSet(t, Hash) <= SumFunctionOnSet(s, Hash) + 0 * Blocks
  BY <1>7, <1>8, <1>9, StoreFinite, SumAtMost
<1>11. 0 * Blocks = 0 /\ SumFunctionOnSet(s, Hash) \in Int
  BY <1>7, <1>9, StoreFinite, SumType
<1> QED
  BY <1>6, <1>10, <1>11

LEMMA BoundStep ==
  ASSUME StoreInv, StoreInv', Ranged, Ranged', CountInv, CountInv', BoundInv,
         sealed' = sealed, NEW p \in Op,
         PutStep(p) \/ DeleteStep(p) \/ ClearStep(p), Note
  PROVE  BoundInv'
<1>1. mixed \subseteq mixed' /\ (drift' => drift \/ mixed' # {})
  BY DEF Note
<1>2. (drift => mixed # {})'
  BY <1>1 DEF BoundInv
<1>3. ASSUME mixed' = {}
      PROVE  used' + Cardinality(Puts') * Blocks <= Bound' /\ Total' <= Bound'
  <2>1. ~drift /\ ~drift' /\ mixed = {} /\ \A h \in Hash : ~Overlapping(h)
    BY <1>1, <1>2, <1>3 DEF BoundInv, CountInv
  <2>2. used + Cardinality(Puts) * Blocks <= Bound /\ Total <= Bound
    BY <2>1 DEF BoundInv
  <2>3. used' + Cardinality(Puts') * Blocks <= Bound'
    BY <2>2, AdmittedStep DEF StoreInv, Core
  <2>4. Shaped' /\ Files /\ Shaped
    BY DEF StoreInv, Core
  <2>5. CASE Clearing'
    <3>1. Total' <= Total
      BY <2>1, <2>4, <2>5, ClearingShrinks
    <3>2. Bound' = Bound /\ Bound \in Int
      BY BodyFits DEF Bound, Body
    <3>3. Total \in Nat /\ Total' \in Nat
      <4>1. (Total \in Nat)'
        BY TotalIsSum, PTL
      <4> QED
        BY <4>1, TotalIsSum
    <3> QED
      BY <2>2, <2>3, <3>1, <3>2, <3>3
  <2>6. CASE ~Clearing'
    <3>1. Total' <= used' + Cardinality(Puts') * Blocks
      <4>1. (Shaped /\ Ranged /\ CountInv /\ ~drift /\ ~Clearing
               => Total <= used + Cardinality(Puts) * Blocks)'
        BY PutsOwe, PTL
      <4> QED
        BY <2>1, <2>4, <2>6, <4>1
    <3>2. Total' \in Int /\ Bound' \in Int
      <4>1. (Total \in Nat)'
        BY TotalIsSum, PTL
      <4>2. Bound' = Bound /\ Bound \in Int
        BY BodyFits DEF Bound, Body
      <4> QED
        BY <4>1, <4>2
    <3>3. used' \in Nat /\ Cardinality(Puts') * Blocks \in Nat
      <4>1. Puts' \in SUBSET Op
        BY DEF Puts
      <4>2. Cardinality(Puts') \in Nat
        BY <4>1, PutsFinite
      <4> QED
        BY <4>2, TimesBlocks DEF Ranged
    <3> QED
      BY <2>3, <3>1, <3>2, <3>3
  <2> QED
    BY <2>5, <2>6
<1> QED
  BY <1>2, <1>3 DEF BoundInv

(* A restart counts what is on the disk, and ends every put. *)
LEMMA BoundRestart ==
  ASSUME Ranged, BoundInv, sealed' = sealed, Restart
  PROVE  BoundInv'
<1>1. /\ \A p \in Op : op'[p].kind = "none"
      /\ path' = path /\ used' = Total /\ mixed' = mixed /\ drift' = FALSE
  BY IdleNumbers DEF Restart
<1>2. Cardinality(Puts') = 0
  <2>1. Puts' = {}
    BY <1>1 DEF Puts
  <2> QED
    BY <2>1, FS_EmptySet
<1>3. Cardinality(Puts') * Blocks = 0
  BY <1>2, BodyFits
<1>4. Bound' = Bound /\ Total' = Total
  BY <1>1, TotalKept DEF Bound, Body
<1>5. Total \in Nat
  BY TotalIsSum
<1> QED
  BY <1>1, <1>3, <1>4, <1>5 DEF BoundInv

LEMMA BoundInit == StoreInit => BoundInv
<1> SUFFICES ASSUME StoreInit PROVE BoundInv
  OBVIOUS
<1>1. Puts = {} /\ used = 0 /\ drift = FALSE
  BY IdleNumbers DEF StoreInit, Puts
<1>2. Total = 0
  <2>1. PICK s : s = Sizes
    OBVIOUS
  <2>2. \A h \in Hash : s[h] = 0
    BY <2>1 DEF Sizes, StoreInit, Size
  <2> QED
    BY <2>1, <2>2, StoreFinite, SumZero, TotalIsSum
<1>3. 0 <= Bound
  <2>1. Cardinality(Op) \in Nat /\ Cardinality(Op) # 0
    BY StoreFinite, PutsFinite, FS_EmptySet
  <2>2. Blocks <= Cardinality(Op) * Blocks
    <3>1. 1 * Blocks <= Cardinality(Op) * Blocks
      BY <2>1, TimesBlocks
    <3> QED
      BY <3>1, BodyFits
  <2>3. Cardinality(Op) * Blocks \in Nat
    BY <2>1, TimesBlocks
  <2> QED
    BY <2>2, <2>3, BodyFits
<1>4. Cardinality(Puts) * Blocks = 0
  BY <1>1, FS_EmptySet, BodyFits
<1> QED
  BY <1>1, <1>2, <1>3, <1>4 DEF BoundInv

LEMMA BoundNext ==
  StoreInv /\ Ranged /\ CountInv /\ BoundInv
    /\ StoreInv' /\ Ranged' /\ CountInv' /\ [StoreNext]_vars => BoundInv'
<1> SUFFICES ASSUME StoreInv, Ranged, CountInv, BoundInv,
                    StoreInv', Ranged', CountInv', [StoreNext]_vars
             PROVE  BoundInv'
  OBVIOUS
<1>1. CASE StoreNext
  BY <1>1, BoundStep, BoundRestart DEF StoreNext
<1>2. CASE UNCHANGED vars
  BY <1>2, TotalKept DEF vars, BoundInv, Bound, Body, Puts
<1> QED
  BY <1>1, <1>2

(* Handlers that were all let in by the same reading of the counter may together
   exceed the capacity, but each by one chunk at most, whatever fails, breaks off or
   restarts (main.go:268-273 of backup-node, store.go:94-101). *)
THEOREM StoreOverrunBounded == StoreSpec => []OverrunBounded
<1>1. StoreInv /\ Ranged /\ CountInv /\ BoundInv /\ [StoreNext]_vars
        => (StoreInv /\ Ranged /\ CountInv /\ BoundInv)'
  BY StoreInvStep, RangedStep, CountNext, BoundNext
<1>2. BoundInv => OverrunBounded
  BY DEF BoundInv, OverrunBounded, Bound
<1> QED
  BY <1>1, <1>2, StoreInvInit, RangedInit, CountInit, BoundInit, PTL DEF StoreSpec
=============================================================================
