------------------------------ MODULE Maintenance ------------------------------
(***************************************************************************)
(* What the scheduler achieves (internal/server/replicator.go and the task *)
(* queries of state.go): whether, once troubles cease, every chunk ends up *)
(* with the copies it should have.                                         *)
(*                                                                         *)
(* Here the orders matter that Cluster leaves open: a tick takes the first *)
(* Limit tasks of each kind, the neediest first; it reads from the first   *)
(* source that answers, and writes to no more nodes than copies are        *)
(* missing, the emptiest first.  So a task that can never be done may keep *)
(* others from being tried, and the properties say exactly when.           *)
(*                                                                         *)
(* Abstracted: the queries of one task list are one step (Cluster takes    *)
(* them apart); a node is recent, online and running, or none of these;    *)
(* free space only orders the nodes, which keep their order.               *)
(***************************************************************************)
EXTENDS Integers, FiniteSetsExt

CONSTANTS
  Node,       \* storage nodes; numbers, in the order of their ids
  Hash,       \* chunk hashes; numbers, in the order of the hashes
  Free,       \* free space of a node
  Replicas,   \* replication factors of backups
  Limit,      \* tasks of one kind per tick, 100 in the code
  MaxBroken,  \* bound: nodes that send heartbeats and refuse calls
  Troubles    \* bound: troubles of one behaviour

ASSUME MaintenanceAssumption ==
  /\ Node \subseteq Nat /\ IsFiniteSet(Node)
  /\ Hash \subseteq Nat /\ IsFiniteSet(Hash)
  /\ Free \in [Node -> Nat]
  /\ Replicas \subseteq Nat \ {0} /\ Limit \in Nat \ {0}
  /\ MaxBroken \in Nat /\ Troubles \in Nat

VARIABLES
  heard,    \* nodes whose heartbeats arrive
  deaf,     \* nodes the server cannot call at the address they gave
  full,     \* nodes that refuse every put: the disk is full, the capacity is not
  desired,  \* MAX(replication) of the backups that own a hash, 0 if none does
  locs,     \* rows of chunk_locations, as <<hash, node>>
  disk,     \* files on the nodes
  damaged,  \* those of them whose content is wrong
  late,     \* files a node will still delete for a call that timed out
  at,       \* where the scheduler is
  tasks,    \* the tasks of the list at hand that are left
  left,     \* troubles still to come
  fresh     \* history: no node has come or gone and no backup has changed
            \* since the list at hand was read

vars == <<heard, deaf, full, desired, locs, disk, damaged, late, at, tasks, left,
          fresh>>

Pair == Hash \X Node

(* hash    the chunk
   rank    how far it is from its number of copies, which orders the list
   quota   copies still to remove or to make
   from    its locations: where to delete it, or where to get it
   to      candidates for new copies                                       *)
Task ==
  [hash: Hash, rank: Nat, quota: Nat, from: SUBSET Node, to: SUBSET Node]

Places == {"idle", "orphans", "prune", "trim", "survey", "copy", "send"}

-----------------------------------------------------------------------------
(* Queries *)

Online(h) == {n \in heard : <<h, n>> \in locs}

(* The first k elements of S *)
Leading(S, k, Before(_, _)) ==
  {x \in S : Cardinality({y \in S : Before(y, x)}) < k}
TheFirst(S, Before(_, _)) == CHOOSE x \in S : \A y \in S \ {x} : Before(x, y)

MoreFree(m, n) == \/ Free[m] > Free[n]
                  \/ Free[m] = Free[n] /\ m < n
LessFree(m, n) == \/ Free[m] < Free[n]
                  \/ Free[m] = Free[n] /\ m < n

(* ORDER BY desired - active DESC, hash; in OrphanChunkTasks hash, node id *)
Earlier(s, t) == \/ s.rank > t.rank
                 \/ s.rank = t.rank /\ s.hash < t.hash
                 \/ /\ s.rank = t.rank /\ s.hash = t.hash /\ s # t
                    /\ \E m \in s.from, n \in t.from : m < n

(* Without the join with nodes, offline copies would count. *)
LackingAll(h) == desired[h] - Cardinality({n \in Node : <<h, n>> \in locs})
Lacking(h) == desired[h] - Cardinality(Online(h))

(* PlanChunkSpread for the copies that are missing *)
Candidates(h) ==
  Leading({n \in heard : <<h, n>> \notin locs}, Lacking(h), MoreFree)

TaskFor(h, k, from, to) ==
  [hash |-> h, rank |-> k, quota |-> k, from |-> from, to |-> to]

Orphans == {TaskFor(p[1], 0, {p[2]}, {}) :
              p \in {q \in locs : desired[q[1]] = 0 /\ q[2] \in heard}}
(* Without HAVING, or with >= in it *)
SurplusAll == {TaskFor(h, -Lacking(h), Online(h), {}) :
                 h \in {g \in Hash : desired[g] > 0 /\ Lacking(g) # 0}}
SurplusTight == {TaskFor(h, -Lacking(h), Online(h), {}) :
                   h \in {g \in Hash : desired[g] > 0 /\ Lacking(g) <= 0}}
Surplus == {TaskFor(h, -Lacking(h), Online(h), {}) :
              h \in {g \in Hash : desired[g] > 0 /\ Lacking(g) < 0}}
Missing == {TaskFor(h, Lacking(h), Online(h), Candidates(h)) :
              h \in {g \in Hash : Lacking(g) > 0}}

-----------------------------------------------------------------------------
Init ==
  /\ heard = Node
  /\ deaf \in SUBSET Node /\ full \in SUBSET Node
  /\ Cardinality(deaf) + Cardinality(full) <= MaxBroken
  /\ desired \in [Hash -> Replicas]
  /\ locs \in {L \in SUBSET Pair :
                 \A h \in Hash : Cardinality({p \in L : p[1] = h}) = desired[h]}
  /\ disk = locs
  /\ damaged = {} /\ late = {} /\ tasks = {}
  /\ at = "idle"
  /\ left = Troubles /\ fresh = TRUE

World == <<heard, deaf, full, desired>>

-----------------------------------------------------------------------------
(* A tick *)

Answers(n) == n \in heard \ deaf
Trouble == left > 0 /\ left' = left - 1

List(place, S, next) ==
  /\ at = place
  /\ tasks' = Leading(S, Limit, Earlier)
  /\ at' = next /\ fresh' = TRUE
  /\ UNCHANGED <<World, locs, disk, damaged, late, left>>

Sweep  == List("idle", Orphans, "orphans")
Prune  == List("prune", Surplus, "trim")
Survey == List("survey", Missing, "copy")

Turn == TheFirst(tasks, Earlier)

(* The task at hand becomes t, or goes when there is nothing to do for it. *)
Proceed(t) ==
  tasks' = (tasks \ {Turn}) \cup (IF t.from = {} THEN {} ELSE {t})

ListDone ==
  /\ tasks = {} /\ at \in {"orphans", "trim", "copy"}
  /\ at' = CASE at = "orphans" -> "prune" [] at = "trim" -> "survey"
             [] OTHER -> "idle"
  /\ UNCHANGED <<World, locs, disk, damaged, late, tasks, left, fresh>>

(* deleteChunk and RemoveChunkLocation, for an orphan or for a surplus copy *)
FirstLocation(t) == TheFirst(t.from, LessFree)

Delete ==
  /\ at \in {"orphans", "trim"} /\ tasks # {}
  /\ LET p == <<Turn.hash, FirstLocation(Turn)>>
         rest == Turn.from \ {FirstLocation(Turn)}
     IN  /\ Answers(p[2])
         /\ disk' = disk \ {p} /\ locs' = locs \ {p} /\ damaged' = damaged \ {p}
         /\ Proceed([Turn EXCEPT !.quota = @ - 1,
                                 !.from = IF Turn.quota <= 1 THEN {} ELSE rest])
  /\ UNCHANGED <<World, late, at, left, fresh>>

(* The call fails: the next node, or the next orphan.  If it was late, the node
   deletes the file all the same. *)
DeleteFails ==
  /\ at \in {"orphans", "trim"} /\ tasks # {}
  /\ LET n == FirstLocation(Turn)
     IN  /\ IF Answers(n)
            THEN Trouble /\ late' \in {late, late \cup {<<Turn.hash, n>>}}
            ELSE UNCHANGED <<left, late>>
         /\ Proceed([Turn EXCEPT !.from = @ \ {n}])
  /\ UNCHANGED <<World, locs, disk, damaged, at, fresh>>

(* fetchFromAny and the comparison of the hash *)
Serves(n, h) == Answers(n) /\ <<h, n>> \in disk

Intact(n, h) == Serves(n, h) /\ <<h, n>> \notin damaged
Fetchable(h, from) ==
  \E n \in from : Intact(n, h) /\ \A m \in from : Serves(m, h) => n <= m

Fetch ==
  /\ at = "copy" /\ tasks # {} /\ Turn.to # {}
  /\ \/ Fetchable(Turn.hash, Turn.from) /\ UNCHANGED left
     \/ (\E n \in Turn.from : Intact(n, Turn.hash)) /\ Trouble
  /\ at' = "send"
  /\ UNCHANGED <<World, locs, disk, damaged, late, tasks, fresh>>

(* No source, no candidate, no answer, or the wrong content: the next task. *)
FetchFails ==
  /\ at = "copy" /\ tasks # {}
  /\ \/ (Turn.to = {} \/ ~Fetchable(Turn.hash, Turn.from)) /\ UNCHANGED left
     \/ Trouble
  /\ tasks' = tasks \ {Turn}
  /\ UNCHANGED <<World, locs, disk, damaged, late, at, fresh>>

(* putChunk and ConfirmChunk, until enough copies are made *)
Target == TheFirst(Turn.to, MoreFree)

Copied(t) ==
  IF t.quota = 0 \/ t.to = {}
  THEN tasks' = tasks \ {Turn} /\ at' = "copy"
  ELSE tasks' = (tasks \ {Turn}) \cup {t} /\ UNCHANGED at

Takes(n) == Answers(n) /\ n \notin full

Copy ==
  /\ at = "send" /\ Takes(Target)
  /\ LET p == <<Turn.hash, Target>>
     IN  disk' = disk \cup {p} /\ damaged' = damaged \ {p} /\ locs' = locs \cup {p}
  /\ Copied([Turn EXCEPT !.quota = @ - 1, !.to = @ \ {Target}])
  /\ UNCHANGED <<World, late, left, fresh>>

(* The put fails, or its reply is lost, or the confirmation fails. *)
CopyFails ==
  /\ at = "send"
  /\ LET p == <<Turn.hash, Target>>
     IN  \/ ~Takes(Target) /\ UNCHANGED <<disk, damaged, left>>
         \/ Takes(Target) /\ Trouble /\ UNCHANGED <<disk, damaged>>
         \/ Takes(Target) /\ Trouble /\ disk' = disk \cup {p} /\ damaged' = damaged \ {p}
  /\ Copied([Turn EXCEPT !.to = @ \ {Target}])
  /\ UNCHANGED <<World, locs, late, fresh>>

Tick == \/ Sweep \/ Prune \/ Survey \/ ListDone
        \/ Delete \/ DeleteFails \/ Fetch \/ FetchFails \/ Copy \/ CopyFails

-----------------------------------------------------------------------------
(* Troubles *)

Scheduler == <<at, tasks>>

Fall(n) == /\ n \in heard /\ heard' = heard \ {n} /\ Trouble
           /\ UNCHANGED <<deaf, full, desired, locs, disk, damaged, late, Scheduler>>

Return(n) == /\ n \notin heard /\ heard' = heard \cup {n}
             /\ UNCHANGED <<deaf, full, desired, locs, disk, damaged, late, Scheduler, left>>

(* PATCH of a backup; the last backup of a hash is deleted, and deleteChunk is
   called on some of its nodes only; it is uploaded again. *)
Change(h, r) ==
  /\ desired[h] > 0 /\ r # desired[h] /\ desired' = [desired EXCEPT ![h] = r]
  /\ Trouble
  /\ UNCHANGED <<heard, deaf, full, locs, disk, damaged, late, Scheduler>>

Forget(h) ==
  /\ desired[h] > 0 /\ desired' = [desired EXCEPT ![h] = 0]
  /\ \E S \in SUBSET {n \in heard \ deaf : <<h, n>> \in locs} :
       /\ locs' = locs \ ({h} \X S) /\ disk' = disk \ ({h} \X S)
       /\ damaged' = damaged \ ({h} \X S)
  /\ Trouble
  /\ UNCHANGED <<heard, deaf, full, late, Scheduler>>

Damage(p) == /\ p \in disk \ damaged /\ damaged' = damaged \cup {p} /\ Trouble
             /\ UNCHANGED <<World, locs, disk, late, Scheduler>>

Lose(p) == /\ p \in disk /\ disk' = disk \ {p} /\ damaged' = damaged \ {p} /\ Trouble
           /\ UNCHANGED <<World, locs, late, Scheduler>>

DeleteLate(p) ==
  /\ p \in late /\ late' = late \ {p}
  /\ disk' = disk \ {p} /\ damaged' = damaged \ {p}
  /\ UNCHANGED <<World, locs, Scheduler, left>>

Disturbance ==
  /\ \/ \E n \in Node : Fall(n) \/ Return(n)
     \/ \E h \in Hash : Forget(h) \/ \E r \in Replicas : Change(h, r)
     \/ \E p \in Pair : Damage(p) \/ Lose(p) \/ DeleteLate(p)
  /\ fresh' = (fresh /\ UNCHANGED <<heard, desired>>)

Next == Tick \/ Disturbance

Spec == Init /\ [][Next]_vars

(* The ticker fires again and again, and every call ends (10 s). *)
FairSpec == Spec /\ WF_vars(Tick)

-----------------------------------------------------------------------------
(* Properties *)

MaintenanceTypeOK ==
  /\ heard \subseteq Node /\ deaf \subseteq Node /\ full \subseteq Node
  /\ desired \in [Hash -> Replicas \cup {0}]
  /\ locs \subseteq Pair /\ disk \subseteq Pair /\ damaged \subseteq disk
  /\ late \subseteq Pair /\ tasks \subseteq Task
  /\ at \in Places /\ left \in 0 .. Troubles /\ fresh \in BOOLEAN

(* What is wrong with h, in terms of what the backups ask for *)
Have(h) == {n \in heard : <<h, n>> \in locs}
Excess(h) == Cardinality(Have(h)) - desired[h]

Short == {h \in Hash : Excess(h) < 0}
Extra == {h \in Hash : desired[h] > 0 /\ Excess(h) > 0}
Garbage == {p \in locs : desired[p[1]] = 0 /\ p[2] \in heard}

Nearer(h) == IF Excess(h) >= 0 THEN Excess(h)' \in 0 .. Excess(h)
             ELSE Excess(h)' \in Excess(h) .. 0

(* As long as a list is fresh, the scheduler takes every chunk only nearer to
   the copies its backups ask for and never beyond, and every location it adds
   or removes is such a step: calls that fail, are late or lose their reply,
   damaged and lost files and nodes that refuse do not make the orphan cleanup,
   the pruning and the copying of one tick work against one another
   (replicator.go:30-114; the three task queries, state.go:611-755). *)
TicksApproach ==
  [][fresh /\ Tick => /\ \A h \in Hash : Nearer(h)
                      /\ locs' # locs => \E h \in Hash : Excess(h)' # Excess(h)]_vars

(* The first source that answers has a damaged copy, or there is none; the
   nodes with most space, as many as copies are missing, all refuse it. *)
CannotCopy(h) ==
  \/ \A n \in Have(h) : Intact(n, h) => \E m \in Have(h) : Serves(m, h) /\ m < n
  \/ Leading(heard \ Have(h), -Excess(h), MoreFree) \subseteq deaf \cup full

CannotRemove(h) == Have(h) \subseteq deaf

(* A tick takes only Limit tasks of a kind: those that cannot be done come up
   again at the next one, and those behind them are not tried. *)
Crowded(S) == Cardinality(S) >= Limit

(* Once troubles cease, the ticks give every chunk exactly the copies its
   backups ask for: what is left to do cannot be done, or a full list of
   such tasks comes before it (README.md:222-226, replicator.go:30-114, the
   task queries of state.go). *)
Converges ==
  <>[](/\ \A h \in Short :
            \/ CannotCopy(h)
            \/ Crowded({g \in Short : /\ CannotCopy(g)
                                     /\ \/ Excess(g) < Excess(h)
                                        \/ Excess(g) = Excess(h) /\ g < h})
       /\ \A h \in Extra :
            \/ CannotRemove(h)
            \/ Crowded({g \in Extra : /\ CannotRemove(g)
                                     /\ \/ Excess(g) > Excess(h)
                                        \/ Excess(g) = Excess(h) /\ g < h})
       /\ \A p \in Garbage :
            \/ p[2] \in deaf
            \/ Crowded({q \in Garbage : /\ q[2] \in deaf
                                       /\ \/ q[1] < p[1]
                                          \/ q[1] = p[1] /\ q[2] < p[2]}))

(* Once troubles cease, ticks change nothing any more: pruning and copying do
   not undo each other (replicator.go:30-35). *)
ComesToRest == <>[][UNCHANGED <<locs, disk>>]_vars
=============================================================================
