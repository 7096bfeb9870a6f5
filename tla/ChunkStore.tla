------------------------------ MODULE ChunkStore ------------------------------
(***************************************************************************)
(* One storage node: internal/chunkstore/store.go behind the handlers of   *)
(* cmd/backup-node/main.go.  Handlers run concurrently and nothing but the *)
(* usage counter is locked: two calls for one hash share <hash>.chunk and  *)
(* <hash>.chunk.tmp, and interleave at every system call.                  *)
(*                                                                         *)
(* A file is the set of its blocks that were written, each with the tag of *)
(* what wrote it: plaintext of one hash is always the same, ciphertext     *)
(* differs with the nonce.  Its length is that of its last block.  A put   *)
(* that has the file open keeps writing to it wherever the name goes; a    *)
(* file no name refers to is never read again, so only the two names are   *)
(* kept.  putPlain hashes the stream it reads and not the file, and the    *)
(* server always sends the bytes of the hash, so its comparison fails only *)
(* on a body that breaks off: PutAborts.                                   *)
(***************************************************************************)
EXTENDS Integers, FiniteSets, Functions, FiniteSetsExt

CONSTANTS
  Op,        \* handlers that may run at once
  Hash,
  Blocks,    \* length of a chunk on disk
  Overhead,  \* of which the nonce and the tag, where chunks are encrypted
  Capacity,  \* the capacity the node was started with
  Keys,      \* whether the store may be opened with a key, without one
  Restarts,  \* the node process may stop and start again
  MaxSealed  \* bound where chunks are encrypted: hashes in use at once, and
             \* again those on which calls have overlapped

ASSUME StoreAssumption ==
  /\ Blocks \in Nat \ {0} /\ Overhead \in 0 .. Blocks - 1 /\ Capacity \in Nat
  /\ Keys \subseteq BOOLEAN /\ Restarts \in BOOLEAN
  /\ MaxSealed \in Nat
ASSUME StoreFinite == IsFiniteSet(Hash) /\ IsFiniteSet(Op) /\ Op # {}

VARIABLES
  sealed,  \* the store was opened with a key; a restart uses the same one
  op,      \* the local state of each handler
  path,    \* the file <hash>.chunk, or absent
  tmp,     \* the file <hash>.chunk.tmp, or absent
  used,    \* the cached total, under Store.mu
  mixed,   \* history: hashes on which two calls overlapped
  drift    \* history: two calls have shared a hash since the start

vars == <<sealed, op, path, tmp, used, mixed, drift>>

absent == <<>>
Tag(p) == IF sealed THEN p ELSE "plain"
File == [1 .. Blocks -> {Tag(p) : p \in Op} \cup {"hole"}]

(* The length of the body a put announces, that of the plaintext *)
Body == IF sealed THEN Blocks - Overhead ELSE Blocks
Empty == [b \in 1 .. Blocks |-> "hole"]

(* Every block is there and they belong together. *)
Whole(f) == f # absent /\ \E p \in Op : \A b \in 1 .. Blocks : f[b] = Tag(p)

(* fileSize: 0 for a file that does not exist. *)
Size(f) == IF f = absent THEN 0
           ELSE Max({0} \cup {b \in 1 .. Blocks : f[b] # "hole"})

Total == FoldFunctionOnSet(+, 0, [h \in Hash |-> Size(path[h])], Hash)

Idle == [pc |-> "idle", hash |-> "none", at |-> "none", next |-> 0,
         old |-> 0, delta |-> 0, kind |-> "none"]

pc(p) == op[p].pc
Active(p) == pc(p) # "idle"

(* at: the name under which p's open file is found, if any.  A rename takes
   the file that is open elsewhere along, an unlink or an overwrite hides it. *)
Moved(h, from, to) ==
  [q \in Op |-> IF op[q].hash = h /\ op[q].at = from THEN [op[q] EXCEPT !.at = to]
                ELSE IF op[q].hash = h /\ op[q].at = to
                THEN [op[q] EXCEPT !.at = "none"]
                ELSE op[q]]

(* Two calls share a hash, or anything overlaps Clear. *)
Overlapping(h) ==
  \E p, q \in Op :
    /\ p # q /\ Active(p) /\ Active(q)
    /\ op[p].hash = h \/ op[p].kind = "clear"
    /\ op[q].hash = h \/ op[q].kind = "clear"

Note == /\ mixed' = mixed \cup {h \in Hash : Overlapping(h)'}
        /\ drift' = (drift \/ \E h \in Hash : Overlapping(h)')

StoreInit ==
  /\ op = [p \in Op |-> Idle]
  /\ path = [h \in Hash |-> absent] /\ tmp = [h \in Hash |-> absent]
  /\ used = 0 /\ mixed = {} /\ drift = FALSE
  /\ sealed \in Keys

-----------------------------------------------------------------------------
(* PUT /chunks/<hash> *)

(* The handler compares used + ContentLength with the capacity. *)
PutStartsUnchecked(p, h) ==
  /\ pc(p) = "idle"
  /\ op' = [op EXCEPT ![p] = [Idle EXCEPT !.pc = "create", !.hash = h,
                                          !.kind = "put"]]
  /\ UNCHANGED <<path, tmp, used>>
PutStarts(p, h) ==
  /\ pc(p) = "idle" /\ used + Body <= Capacity
  /\ op' = [op EXCEPT ![p] = [Idle EXCEPT !.pc = "create", !.hash = h,
                                          !.kind = "put"]]
  /\ UNCHANGED <<path, tmp, used>>

(* os.Create truncates a tmp that another put has open. *)
CreateInPlace(p) ==
  /\ pc(p) = "create"
  /\ path' = [path EXCEPT ![op[p].hash] = Empty]
  /\ op' = [op EXCEPT ![p].pc = "write", ![p].at = "path", ![p].next = 1]
  /\ UNCHANGED <<tmp, used>>
Create(p) ==
  /\ pc(p) = "create"
  /\ tmp' = [tmp EXCEPT ![op[p].hash] = Empty]
  /\ op' = [op EXCEPT ![p].pc = "write", ![p].at = "tmp", ![p].next = 1]
  /\ UNCHANGED <<path, used>>

Write(p) ==
  /\ pc(p) = "write"
  /\ LET h == op[p].hash
         Put(file, name) == IF op[p].at = name
                            THEN [file EXCEPT ![h][op[p].next] = Tag(p)]
                            ELSE file
     IN  tmp' = Put(tmp, "tmp") /\ path' = Put(path, "path")
  /\ op' = IF op[p].next = Blocks
           THEN [op EXCEPT ![p].pc = "stat", ![p].at = "none"]
           ELSE [op EXCEPT ![p].next = @ + 1]
  /\ UNCHANGED used

(* The body breaks off or the disk refuses.  putPlain removes tmp, whoever
   wrote it; os.WriteFile leaves it. *)
PutAbortsPublishes(p) ==
  /\ pc(p) \in {"create", "write"}
  /\ op' = [op EXCEPT ![p] = IF @.pc = "create" THEN Idle
                             ELSE [@ EXCEPT !.pc = "stat", !.at = "none"]]
  /\ UNCHANGED <<path, tmp, used>>
PutAborts(p) ==
  /\ pc(p) \in {"create", "write"}
  /\ LET h == op[p].hash
         removes == pc(p) = "write" /\ ~sealed
     IN  /\ tmp' = IF removes THEN [tmp EXCEPT ![h] = absent] ELSE tmp
         /\ op' = [IF removes THEN Moved(h, "tmp", "none") ELSE op
                     EXCEPT ![p] = Idle]
  /\ UNCHANGED <<path, used>>

StatOldSkipped(p) ==
  /\ pc(p) = "stat"
  /\ op' = [op EXCEPT ![p].pc = "rename"]
  /\ UNCHANGED <<path, tmp, used>>
StatOld(p) ==
  /\ pc(p) = "stat"
  /\ op' = [op EXCEPT ![p].pc = "rename", ![p].old = Size(path[op[p].hash])]
  /\ UNCHANGED <<path, tmp, used>>

(* os.Rename takes whatever tmp is now, and fails when there is none. *)
Rename(p) ==
  /\ pc(p) = "rename"
  /\ LET h == op[p].hash
     IN  IF tmp[h] = absent
         THEN /\ op' = [op EXCEPT ![p] = Idle]
              /\ UNCHANGED <<path, tmp>>
         ELSE /\ path' = [path EXCEPT ![h] = tmp[h]]
              /\ tmp' = [tmp EXCEPT ![h] = absent]
              /\ op' = [Moved(h, "tmp", "path") EXCEPT ![p].pc = "restat"]
  /\ UNCHANGED used

StatNew(p) ==
  /\ pc(p) = "restat"
  /\ op' = [op EXCEPT ![p].pc = "add",
                      ![p].delta = Size(path[op[p].hash]) - op[p].old]
  /\ UNCHANGED <<path, tmp, used>>

(* The last step of a put and of a delete that removed a file. *)
AddUsedUnclamped(p) ==
  /\ pc(p) = "add"
  /\ used' = used + op[p].delta
  /\ op' = [op EXCEPT ![p] = Idle]
  /\ UNCHANGED <<path, tmp>>
AddUsed(p) ==
  /\ pc(p) = "add"
  /\ used' = Max({0, used + op[p].delta})
  /\ op' = [op EXCEPT ![p] = Idle]
  /\ UNCHANGED <<path, tmp>>

-----------------------------------------------------------------------------
(* DELETE /chunks/<hash> *)

DeleteStarts(p, h) ==
  /\ pc(p) = "idle"
  /\ op' = [op EXCEPT ![p] = [Idle EXCEPT !.pc = "remove", !.hash = h,
                                          !.kind = "delete",
                                          !.delta = -Size(path[h])]]
  /\ UNCHANGED <<path, tmp, used>>

Remove(p) ==
  /\ pc(p) = "remove"
  /\ LET h == op[p].hash
     IN  IF path[h] = absent
         THEN op' = [op EXCEPT ![p] = Idle] /\ UNCHANGED path
         ELSE /\ path' = [path EXCEPT ![h] = absent]
              /\ op' = [Moved(h, "path", "none") EXCEPT ![p].pc = "add"]
  /\ UNCHANGED <<tmp, used>>

-----------------------------------------------------------------------------
(* DELETE /storage *)

ClearStarts(p) ==
  /\ pc(p) = "idle"
  /\ op' = [op EXCEPT ![p] = [Idle EXCEPT !.pc = "wipe", !.kind = "clear"]]
  /\ UNCHANGED <<path, tmp, used>>

(* os.RemoveAll unlinks one file after the other. *)
Wipe(p, h) ==
  /\ pc(p) = "wipe"
  /\ \/ /\ path[h] # absent
        /\ path' = [path EXCEPT ![h] = absent]
        /\ op' = Moved(h, "path", "none")
        /\ UNCHANGED tmp
     \/ /\ tmp[h] # absent
        /\ tmp' = [tmp EXCEPT ![h] = absent]
        /\ op' = Moved(h, "tmp", "none")
        /\ UNCHANGED path
  /\ UNCHANGED used

(* It gives up when another call makes a file vanish under its walk, or has
   filled a directory again. *)
ClearFails(p) ==
  /\ pc(p) = "wipe" /\ \E q \in Op \ {p} : Active(q)
  /\ op' = [op EXCEPT ![p] = Idle]
  /\ UNCHANGED <<path, tmp, used>>

Wiped(p) ==
  /\ pc(p) = "wipe" /\ \A h \in Hash : path[h] = absent /\ tmp[h] = absent
  /\ op' = [op EXCEPT ![p].pc = "zero"]
  /\ UNCHANGED <<path, tmp, used>>

ZeroUsed(p) ==
  /\ pc(p) = "zero"
  /\ used' = 0
  /\ op' = [op EXCEPT ![p] = Idle]
  /\ UNCHANGED <<path, tmp>>

-----------------------------------------------------------------------------
(* New over the same directory: the handlers are gone, the files are not, and
   scanUsed sums the files that end in .chunk. *)
Restart ==
  /\ Restarts
  /\ op' = [p \in Op |-> Idle]
  /\ used' = Total
  /\ mixed' = mixed /\ drift' = FALSE
  /\ UNCHANGED <<path, tmp>>

PutStep(p) == \/ Create(p) \/ Write(p) \/ PutAborts(p) \/ StatOld(p)
              \/ Rename(p) \/ StatNew(p) \/ AddUsed(p)
              \/ \E h \in Hash : PutStarts(p, h)
DeleteStep(p) == Remove(p) \/ \E h \in Hash : DeleteStarts(p, h)
ClearStep(p) == \/ ClearStarts(p) \/ ClearFails(p) \/ Wiped(p) \/ ZeroUsed(p)
                \/ \E h \in Hash : Wipe(p, h)

InUse == {h \in Hash : \/ path[h] # absent \/ tmp[h] # absent
                       \/ \E p \in Op : op[p].hash = h}

StoreNext ==
  /\ UNCHANGED sealed
  /\ \/ \E p \in Op : (PutStep(p) \/ DeleteStep(p) \/ ClearStep(p)) /\ Note
     \/ Restart
  /\ sealed => Cardinality(InUse') + Cardinality(mixed') <= MaxSealed

StoreSpec == StoreInit /\ [][StoreNext]_vars

-----------------------------------------------------------------------------
(* Properties *)

StoreTypeOK ==
  /\ path \in [Hash -> File \cup {absent}] /\ tmp \in [Hash -> File \cup {absent}]
  /\ sealed \in Keys /\ used \in Nat /\ mixed \subseteq Hash /\ drift \in BOOLEAN
  /\ \A p \in Op : /\ op[p].hash \in Hash \cup {"none"}
                   /\ op[p].at \in {"tmp", "path", "none"}
                   /\ op[p].old \in 0 .. Blocks
                   /\ op[p].delta \in -Blocks .. Blocks

(* A chunk file is never a part of a chunk, unless two calls for its hash
   overlapped: what a crash, a broken upload or a restart leaves behind has
   another name (store.go:152-179). *)
PublishedWhole == \A h \in Hash \ mixed : path[h] = absent \/ Whole(path[h])

(* When nothing runs the cached total is the total on disk, as long as no two
   calls for one hash have overlapped since the start: calls for different
   hashes may interleave at will, fail, and the node may stop anywhere. *)
UsedIsTotal == (\A p \in Op : ~Active(p)) /\ ~drift => used = Total

(* A put that is answered 201 has its chunk on disk, unless another call for
   the hash overlapped. *)
AckedStored ==
  [][\A p \in Op : pc(p) = "add" /\ op[p].kind = "put" /\ ~Active(p)' =>
       op[p].hash \in mixed' \/ Whole(path'[op[p].hash])]_vars

(* The capacity is checked before the chunk is written and the counter moves
   after: each handler may add one chunk to what the last of them was let in
   with, but no more, whatever fails or restarts in between. *)
OverrunBounded ==
  mixed = {} =>
    Total <= Capacity - Body + Cardinality(Op) * Blocks
=============================================================================
