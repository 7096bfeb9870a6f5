-------------------------- MODULE MaintenanceProofs --------------------------
(***************************************************************************)
(* The scheduler's task lists keep their types, for every number of nodes  *)
(* and hashes: there is a first task whenever one is left, and a count of  *)
(* copies to make or to remove never goes below zero.  As long as a list   *)
(* is fresh its steps only take chunks nearer to their number of copies.   *)
(* That the ticks get there in the end is liveness and stays with TLC.     *)
(***************************************************************************)
EXTENDS Maintenance, Sums

-----------------------------------------------------------------------------
(* The first of a list *)

(* A finite set has a first element in every total order. *)
LEMMA FirstOfFinite ==
  ASSUME NEW S, IsFiniteSet(S), NEW R,
         \A a, b \in S : a = b \/ <<a, b>> \in R \/ <<b, a>> \in R,
         \A a, b, c \in S : <<a, b>> \in R /\ <<b, c>> \in R => <<a, c>> \in R
  PROVE  S = {} \/ \E m \in S : \A y \in S \ {m} : <<m, y>> \in R
<1> DEFINE C == {T \in SUBSET S : T = {} \/ \E m \in T : \A y \in T \ {m} : <<m, y>> \in R}
<1>1. {} \in C
  OBVIOUS
<1>2. ASSUME NEW T \in SUBSET S, NEW x \in T, T \ {x} \in C PROVE T \in C
  <2>1. CASE T \ {x} = {}
    <3>1. \A y \in T \ {x} : <<x, y>> \in R
      BY <2>1
    <3> QED
      BY <3>1
  <2>2. CASE T \ {x} # {}
    <3>1. PICK m \in T \ {x} : \A y \in (T \ {x}) \ {m} : <<m, y>> \in R
      BY <1>2, <2>2
    <3>2. CASE <<m, x>> \in R
      <4>1. \A y \in T \ {m} : <<m, y>> \in R
        BY <3>1, <3>2
      <4> QED
        BY <4>1
    <3>3. CASE <<x, m>> \in R
      <4>1. \A y \in T \ {x} : <<x, y>> \in R
        BY <3>1, <3>3
      <4> QED
        BY <4>1
    <3> QED
      BY <3>2, <3>3
  <2> QED
    BY <2>1, <2>2
<1>3. S \in C
  <2> HIDE DEF C
  <2> QED
    BY <1>1, <1>2, SubsetInduction
<1> QED
  BY <1>3

(* The list is in order: no two tasks are about the same thing. *)
Singles ==
  at = "orphans" =>
    /\ \A t \in tasks : \E n \in Node : t.from = {n}
    /\ \A s, t \in tasks : s.hash = t.hash /\ s.rank = t.rank /\ s.from = t.from => s = t
Apart ==
  at \in {"trim", "copy", "send"} => \A s, t \in tasks : s.hash = t.hash => s = t

(* A copy is being made only for a task that still lacks one. *)
Wanting ==
  /\ at \in {"copy", "send"} => \A t \in tasks : t.quota > 0
  /\ at = "send" => tasks # {}

TasksInv == Singles /\ Apart /\ Wanting /\ IsFiniteSet(tasks)

MaintenanceInv == MaintenanceTypeOK /\ TasksInv

Listed == at \in {"orphans", "trim", "copy", "send"} /\ tasks # {}

(* Earlier orders the tasks of a list. *)
LEMMA Ordered ==
  ASSUME tasks \subseteq Task, TasksInv, at \in {"orphans", "trim", "copy", "send"}
  PROVE  /\ \A s \in tasks : ~Earlier(s, s)
         /\ \A s, t \in tasks : s = t \/ Earlier(s, t) \/ Earlier(t, s)
         /\ \A s, t, u \in tasks : Earlier(s, t) /\ Earlier(t, u) => Earlier(s, u)
<1>1. \A t \in tasks : t.rank \in Nat /\ t.hash \in Nat /\ t.from \subseteq Nat
  BY MaintenanceAssumption DEF Task
<1>2. CASE at = "orphans"
  <2>1. PICK node \in [tasks -> Nat] : \A t \in tasks : t.from = {node[t]}
    <3>1. \A t \in tasks : \E n \in Nat : t.from = {n}
      BY <1>2, MaintenanceAssumption DEF TasksInv, Singles
    <3> DEFINE node == [t \in tasks |-> CHOOSE n \in Nat : t.from = {n}]
    <3>2. \A t \in tasks : node[t] \in Nat /\ t.from = {node[t]}
      BY <3>1
    <3> QED
      BY <3>2
  <2>2. \A s, t \in tasks :
          Earlier(s, t) <=> \/ s.rank > t.rank
                            \/ s.rank = t.rank /\ s.hash < t.hash
                            \/ /\ s.rank = t.rank /\ s.hash = t.hash
                               /\ node[s] < node[t]
    BY <1>1, <2>1 DEF Earlier
  <2>3. \A s, t \in tasks :
          s.hash = t.hash /\ s.rank = t.rank /\ node[s] = node[t] => s = t
    BY <1>2, <2>1, ZenonT(60) DEF TasksInv, Singles
  <2>4. \A t \in tasks : node[t] \in Nat
    BY <2>1
  <2> HIDE DEF TasksInv
  <2> QED
    BY <1>1, <2>2, <2>3, <2>4
<1>3. CASE at \in {"trim", "copy", "send"}
  <2>1. \A s, t \in tasks : s.hash = t.hash => s = t
    BY <1>3 DEF TasksInv, Apart
  <2>2. \A s, t \in tasks :
          Earlier(s, t) <=> \/ s.rank > t.rank
                            \/ s.rank = t.rank /\ s.hash < t.hash
    BY <1>1, <2>1 DEF Earlier
  <2> QED
    BY <1>1, <2>1, <2>2
<1> QED
  BY <1>2, <1>3

(* While a task is left, one is the first. *)
LEMMA TurnIsListed ==
  ASSUME tasks \subseteq Task, TasksInv, Listed
  PROVE  Turn \in tasks /\ \A s \in tasks \ {Turn} : Earlier(Turn, s)
<1> DEFINE R == {p \in tasks \X tasks : Earlier(p[1], p[2])}
<1>1. /\ \A s, t \in tasks : <<s, t>> \in R <=> Earlier(s, t)
      /\ \A s, t \in tasks : s = t \/ Earlier(s, t) \/ Earlier(t, s)
      /\ \A s, t, u \in tasks : Earlier(s, t) /\ Earlier(t, u) => Earlier(s, u)
      /\ IsFiniteSet(tasks) /\ tasks # {}
  BY Ordered DEF Listed, TasksInv
<1> HIDE DEF R
<1>2. tasks = {} \/ \E m \in tasks : \A y \in tasks \ {m} : <<m, y>> \in R
  <2> SUFFICES ASSUME NEW T, T = tasks, NEW Q, Q = R
               PROVE  T = {} \/ \E m \in T : \A y \in T \ {m} : <<m, y>> \in Q
    OBVIOUS
  <2>1. IsFiniteSet(T)
    BY <1>1
  <2>2. \A a, b \in T : a = b \/ <<a, b>> \in Q \/ <<b, a>> \in Q
    BY <1>1
  <2>3. \A a, b, c \in T : <<a, b>> \in Q /\ <<b, c>> \in Q => <<a, c>> \in Q
    BY <1>1
  <2> QED
    BY <2>1, <2>2, <2>3, FirstOfFinite
<1>3. \E m \in tasks : \A y \in tasks \ {m} : Earlier(m, y)
  <2>1. PICK m \in tasks : \A y \in tasks \ {m} : <<m, y>> \in R
    BY <1>1, <1>2
  <2>2. \A y \in tasks \ {m} : Earlier(m, y)
    BY <1>1, <2>1
  <2> QED
    BY <2>2
<1> QED
  BY ONLY <1>3 DEF Turn, TheFirst

-----------------------------------------------------------------------------
(* The queries *)

LEMMA Counted ==
  ASSUME MaintenanceTypeOK, NEW h \in Hash
  PROVE  /\ desired[h] \in Nat /\ Lacking(h) \in Int
         /\ Online(h) \subseteq Node /\ Candidates(h) \subseteq Node
<1>1. Online(h) \in SUBSET Node /\ Candidates(h) \in SUBSET Node
  BY DEF MaintenanceTypeOK, Online, Candidates, Leading
<1>2. Cardinality(Online(h)) \in Nat
  BY <1>1, FS_Subset, FS_CardinalityType, MaintenanceAssumption
<1>3. desired[h] \in Nat
  <2>1. desired \in [Hash -> Replicas \cup {0}]
    BY DEF MaintenanceTypeOK
  <2>2. Replicas \cup {0} \in SUBSET Nat
    BY MaintenanceAssumption
  <2> QED
    BY <2>1, <2>2
<1> QED
  BY <1>1, <1>2, <1>3 DEF Lacking

LEMMA OrphansList ==
  ASSUME MaintenanceTypeOK
  PROVE  /\ Orphans \subseteq Task /\ IsFiniteSet(Orphans)
         /\ \A t \in Orphans : \E n \in Node : t.from = {n}
         /\ \A s, t \in Orphans : s.hash = t.hash /\ s.from = t.from => s = t
<1> DEFINE Q == {q \in locs : desired[q[1]] = 0 /\ q[2] \in heard}
           F == [p \in Q |-> TaskFor(p[1], 0, {p[2]}, {})]
<1>1. Q \in SUBSET Pair
  BY DEF MaintenanceTypeOK
<1>2. Orphans = {TaskFor(p[1], 0, {p[2]}, {}) : p \in Q}
  BY DEF Orphans
<1>3. IsFiniteSet(Pair)
  BY MaintenanceAssumption, FS_Product DEF Pair
<1>4. IsFiniteSet(Orphans)
  <2>1. F \in Surjection(Q, Orphans)
    BY <1>2 DEF Surjection
  <2>2. IsFiniteSet(Q)
    <3> HIDE DEF Q
    <3> QED
      BY <1>1, <1>3, FS_Subset
  <2> HIDE DEF F, Q
  <2> QED
    BY <2>1, <2>2, FS_Surjection
<1>5. \A p \in Q : p[1] \in Hash /\ p[2] \in Node /\ p = <<p[1], p[2]>>
  BY <1>1 DEF Pair
<1> HIDE DEF Q
<1>6. Orphans \subseteq Task
  BY <1>2, <1>5 DEF TaskFor, Task
<1>7. \A t \in Orphans : \E n \in Node : t.from = {n}
  BY <1>2, <1>5 DEF TaskFor
<1>8. \A s, t \in Orphans : s.hash = t.hash /\ s.from = t.from => s = t
  <2> SUFFICES ASSUME NEW p \in Q, NEW q \in Q,
                      p[1] = q[1], {p[2]} = {q[2]}
               PROVE  p = q
    BY <1>2, SMTT(30) DEF TaskFor
  <2> QED
    BY <1>5
<1> QED
  BY <1>4, <1>6, <1>7, <1>8

LEMMA SurplusList ==
  ASSUME MaintenanceTypeOK
  PROVE  /\ Surplus \subseteq Task /\ IsFiniteSet(Surplus)
         /\ \A s, t \in Surplus : s.hash = t.hash => s = t
<1> DEFINE G == {g \in Hash : desired[g] > 0 /\ Lacking(g) < 0}
           f == [h \in G |-> TaskFor(h, -Lacking(h), Online(h), {})]
<1>1. Surplus = {f[h] : h \in G}
  BY DEF Surplus
<1>2. \A h \in G : f[h] \in Task /\ f[h].hash = h
  BY Counted DEF TaskFor, Task
<1>3. G \in SUBSET Hash /\ f \in [G -> {f[h] : h \in G}]
  OBVIOUS
<1> HIDE DEF f, G
<1>4. IsFiniteSet(Surplus)
  <2>1. f \in Surjection(G, Surplus)
    BY <1>1, <1>3 DEF Surjection
  <2>2. IsFiniteSet(G)
    BY <1>3, FS_Subset, MaintenanceAssumption
  <2> QED
    BY <2>1, <2>2, FS_Surjection
<1>5. \A s, t \in Surplus : s.hash = t.hash => s = t
  BY <1>1, <1>2
<1> QED
  BY <1>1, <1>2, <1>4, <1>5

LEMMA MissingList ==
  ASSUME MaintenanceTypeOK
  PROVE  /\ Missing \subseteq Task /\ IsFiniteSet(Missing)
         /\ \A s, t \in Missing : s.hash = t.hash => s = t
         /\ \A t \in Missing : t.quota > 0
<1> DEFINE G == {g \in Hash : Lacking(g) > 0}
           f == [h \in G |-> TaskFor(h, Lacking(h), Online(h), Candidates(h))]
<1>1. Missing = {f[h] : h \in G}
  BY DEF Missing
<1>2. \A h \in G : f[h] \in Task /\ f[h].hash = h /\ f[h].quota > 0
  BY Counted DEF TaskFor, Task
<1>3. G \in SUBSET Hash /\ f \in [G -> {f[h] : h \in G}]
  OBVIOUS
<1> HIDE DEF f, G
<1>4. IsFiniteSet(Missing)
  <2>1. f \in Surjection(G, Missing)
    BY <1>1, <1>3 DEF Surjection
  <2>2. IsFiniteSet(G)
    BY <1>3, FS_Subset, MaintenanceAssumption
  <2> QED
    BY <2>1, <2>2, FS_Surjection
<1>5. \A s, t \in Missing : s.hash = t.hash => s = t
  BY <1>1, <1>2
<1> QED
  BY <1>1, <1>2, <1>4, <1>5

-----------------------------------------------------------------------------
(* Steps that leave the list, or take a task off it *)
LEMMA FewerTasks ==
  ASSUME MaintenanceInv, at' = at, tasks' \subseteq tasks,
         at = "send" => tasks' # {}
  PROVE  tasks' \subseteq Task /\ TasksInv'
<1>1. IsFiniteSet(tasks')
  BY FS_Subset DEF MaintenanceInv, TasksInv
<1> QED
  BY <1>1 DEF MaintenanceInv, MaintenanceTypeOK, TasksInv, Singles, Apart, Wanting

(* The task at hand becomes t. *)
LEMMA TaskBecomes ==
  ASSUME MaintenanceInv, Listed, at \in {"trim", "send"}, at' = at,
         NEW t \in Task, t.hash = Turn.hash, at = "send" => t.quota > 0,
         tasks' = (tasks \ {Turn}) \cup {t}
  PROVE  tasks' \subseteq Task /\ TasksInv'
<1>1. Turn \in tasks
  BY TurnIsListed DEF MaintenanceInv, MaintenanceTypeOK
<1>2. IsFiniteSet(tasks')
  <2>1. IsFiniteSet(tasks \ {Turn})
    BY FS_RemoveElement DEF MaintenanceInv, TasksInv
  <2> QED
    BY <2>1, FS_AddElement
<1>3. \A s \in tasks \ {Turn} : s.hash # t.hash
  BY <1>1 DEF MaintenanceInv, TasksInv, Apart
<1>4. Apart'
  BY <1>3 DEF MaintenanceInv, TasksInv, Apart
<1>5. Wanting' /\ Singles'
  BY DEF MaintenanceInv, TasksInv, Wanting, Singles
<1> QED
  BY <1>2, <1>4, <1>5 DEF MaintenanceInv, MaintenanceTypeOK, TasksInv

(* What a list leaves when it is made *)
LEMMA Lists ==
  ASSUME MaintenanceInv, NEW S, NEW next \in {"orphans", "trim", "copy"},
         tasks' = Leading(S, Limit, Earlier), at' = next,
         S \subseteq Task, IsFiniteSet(S),
         next = "orphans" =>
           /\ \A t \in S : \E n \in Node : t.from = {n}
           /\ \A s, t \in S : s.hash = t.hash /\ s.from = t.from => s = t,
         next # "orphans" => \A s, t \in S : s.hash = t.hash => s = t,
         next = "copy" => \A t \in S : t.quota > 0
  PROVE  tasks' \subseteq Task /\ TasksInv'
<1>1. tasks' \in SUBSET S
  BY DEF Leading
<1>2. IsFiniteSet(tasks')
  BY <1>1, FS_Subset
<1> QED
  BY <1>1, <1>2 DEF TasksInv, Singles, Apart, Wanting

(* What the step is about stays a set of pairs. *)
Stored == /\ locs \subseteq Pair /\ disk \subseteq Pair /\ damaged \subseteq disk
          /\ late \subseteq Pair /\ left \in 0 .. Troubles

LEMMA TickStep ==
  ASSUME MaintenanceInv, Tick
  PROVE  MaintenanceInv'
<1>1. /\ MaintenanceTypeOK /\ TasksInv /\ tasks \subseteq Task /\ Stored
      /\ \A t \in tasks : t.hash \in Hash /\ t.quota \in Nat /\ t.rank \in Nat
                          /\ t.from \subseteq Node /\ t.to \subseteq Node
      /\ heard \subseteq Node /\ fresh \in BOOLEAN
  BY DEF MaintenanceInv, MaintenanceTypeOK, Task, Stored
<1>0. fresh' = TRUE \/ UNCHANGED fresh
  BY DEF Tick, Sweep, Prune, Survey, List, ListDone, Delete, DeleteFails, Fetch,
         FetchFails, Copy, CopyFails
<1>2. SUFFICES UNCHANGED World /\ Stored' /\ at' \in Places
               /\ tasks' \subseteq Task /\ TasksInv'
  BY <1>0, <1>1 DEF MaintenanceInv, MaintenanceTypeOK, World, Stored
<1>3. UNCHANGED World
  BY DEF Tick, Sweep, Prune, Survey, List, ListDone, Delete, DeleteFails, Fetch,
         FetchFails, Copy, CopyFails
<1>4. Listed => Turn \in tasks
  BY <1>1, TurnIsListed
<1>5. ASSUME Trouble \/ UNCHANGED left PROVE left' \in 0 .. Troubles
  <2>1. Troubles \in Nat /\ left \in 0 .. Troubles
    BY <1>1, MaintenanceAssumption DEF Stored
  <2> QED
    BY <1>5, <2>1 DEF Trouble
<1>6. CASE Sweep
  <2>1. /\ tasks' = Leading(Orphans, Limit, Earlier) /\ at' = "orphans"
        /\ UNCHANGED <<locs, disk, damaged, late, left>>
    BY <1>6 DEF Sweep, List
  <2>2. tasks' \subseteq Task /\ TasksInv'
    BY <1>1, <2>1, OrphansList, Lists
  <2> QED
    BY <1>1, <1>3, <2>1, <2>2 DEF Stored, Places
<1>7. CASE Prune
  <2>1. /\ tasks' = Leading(Surplus, Limit, Earlier) /\ at' = "trim"
        /\ UNCHANGED <<locs, disk, damaged, late, left>>
    BY <1>7 DEF Prune, List
  <2>2. tasks' \subseteq Task /\ TasksInv'
    BY <1>1, <2>1, SurplusList, Lists
  <2> QED
    BY <1>1, <1>3, <2>1, <2>2 DEF Stored, Places
<1>8. CASE Survey
  <2>1. /\ tasks' = Leading(Missing, Limit, Earlier) /\ at' = "copy"
        /\ UNCHANGED <<locs, disk, damaged, late, left>>
    BY <1>8 DEF Survey, List
  <2>2. tasks' \subseteq Task /\ TasksInv'
    BY <1>1, <2>1, MissingList, Lists
  <2> QED
    BY <1>1, <1>3, <2>1, <2>2 DEF Stored, Places
<1>9. CASE ListDone
  <2>1. /\ tasks = {} /\ tasks' = {} /\ at' \in {"prune", "survey", "idle"}
        /\ UNCHANGED <<locs, disk, damaged, late, left>>
    BY <1>9 DEF ListDone
  <2>2. TasksInv'
    BY <2>1, FS_EmptySet DEF TasksInv, Singles, Apart, Wanting
  <2> QED
    BY <1>1, <1>3, <2>1, <2>2 DEF Stored, Places
<1>10. CASE Delete
  <2> DEFINE p == <<Turn.hash, FirstLocation(Turn)>>
             rest == IF Turn.quota <= 1 THEN {} ELSE Turn.from \ {FirstLocation(Turn)}
             t == [Turn EXCEPT !.quota = @ - 1, !.from = rest]
  <2>1. /\ at \in {"orphans", "trim"} /\ Listed /\ Turn \in tasks
        /\ disk' = disk \ {p} /\ locs' = locs \ {p} /\ damaged' = damaged \ {p}
        /\ Proceed(t) /\ UNCHANGED <<late, at, left>>
    BY <1>4, <1>10 DEF Delete, Listed
  <2>2. tasks' \subseteq Task /\ TasksInv'
    <3>1. t.from = rest
      BY <1>1, <2>1 DEF Task
    <3>2. CASE rest = {}
      <4>1. tasks' = tasks \ {Turn}
        BY <2>1, <3>1, <3>2 DEF Proceed
      <4> QED
        BY <2>1, <4>1, FewerTasks
    <3>3. CASE rest # {}
      <4>1. tasks' = (tasks \ {Turn}) \cup {t}
        BY <2>1, <3>1, <3>3 DEF Proceed
      <4>2. Turn.quota > 1 /\ Turn.quota \in Nat /\ rest \subseteq Node
        BY <1>1, <2>1, <3>3
      <4>3. Turn \in Task
        BY <1>1, <2>1
      <4>4. t \in Task /\ t.hash = Turn.hash
        <5> HIDE DEF rest
        <5>1. Turn.quota - 1 \in Nat
          BY <4>2
        <5> QED
          BY <4>2, <4>3, <5>1 DEF Task
      <4>5. at = "trim"
        <5>1. CASE at = "orphans"
          <6>1. PICK n \in Node : Turn.from = {n}
            BY <1>1, <2>1, <5>1 DEF TasksInv, Singles
          <6>2. FirstLocation(Turn) = n
            BY <6>1 DEF FirstLocation, TheFirst
          <6> QED
            BY <3>3, <6>1, <6>2
        <5> QED
          BY <2>1, <5>1
      <4> HIDE DEF t, rest
      <4> QED
        BY <2>1, <4>1, <4>4, <4>5, TaskBecomes
    <3> QED
      BY <3>2, <3>3
  <2> HIDE DEF p
  <2>3. Stored'
    BY <1>1, <2>1 DEF Stored
  <2>4. at' \in Places
    BY <1>1, <2>1 DEF MaintenanceTypeOK
  <2> QED
    BY <1>3, <2>2, <2>3, <2>4
<1>11. CASE DeleteFails
  <2> DEFINE n == FirstLocation(Turn)
             t == [Turn EXCEPT !.from = @ \ {n}]
  <2>1. /\ at \in {"orphans", "trim"} /\ Listed /\ Turn \in tasks
        /\ Proceed(t) /\ UNCHANGED <<locs, disk, damaged, at>>
        /\ \/ Answers(n) /\ Trouble /\ late' \in {late, late \cup {<<Turn.hash, n>>}}
           \/ UNCHANGED <<left, late>>
    BY <1>4, <1>11 DEF DeleteFails, Listed
  <2>2. late' \subseteq Pair /\ left' \in 0 .. Troubles
    <3>1. Answers(n) => n \in Node
      BY <1>1 DEF Answers
    <3>2. Turn.hash \in Hash
      BY <1>1, <2>1
    <3> HIDE DEF n, t
    <3> QED
      BY <1>1, <1>5, <2>1, <3>1, <3>2 DEF Stored, Pair
  <2>3. tasks' \subseteq Task /\ TasksInv'
    <3>1. t.from = Turn.from \ {n} /\ Turn \in Task
      BY <1>1, <2>1 DEF Task
    <3>2. CASE t.from = {}
      <4>1. tasks' = tasks \ {Turn}
        BY <2>1, <3>2 DEF Proceed
      <4> QED
        BY <2>1, <4>1, FewerTasks
    <3>3. CASE t.from # {}
      <4>1. tasks' = (tasks \ {Turn}) \cup {t}
        BY <2>1, <3>3 DEF Proceed
      <4>2. t \in Task /\ t.hash = Turn.hash
        <5> HIDE DEF n
        <5> QED
          BY <3>1 DEF Task
      <4>3. at = "trim"
        <5>1. CASE at = "orphans"
          <6>1. PICK m \in Node : Turn.from = {m}
            BY <1>1, <2>1, <5>1 DEF TasksInv, Singles
          <6>2. n = m
            BY <6>1 DEF FirstLocation, TheFirst
          <6> QED
            BY <3>1, <3>3, <6>1, <6>2
        <5> QED
          BY <2>1, <5>1
      <4> HIDE DEF t, n
      <4> QED
        BY <2>1, <4>1, <4>2, <4>3, TaskBecomes
    <3> QED
      BY <3>2, <3>3
  <2>4. Stored' /\ at' \in Places
    BY <1>1, <2>1, <2>2 DEF Stored, MaintenanceTypeOK
  <2> QED
    BY <1>3, <2>3, <2>4
<1>12. CASE Fetch
  <2>1. /\ at = "copy" /\ tasks # {} /\ at' = "send" /\ (UNCHANGED left \/ Trouble)
        /\ UNCHANGED <<locs, disk, damaged, late, tasks>>
    BY <1>12 DEF Fetch
  <2>2. TasksInv'
    BY <1>1, <2>1 DEF TasksInv, Singles, Apart, Wanting
  <2> QED
    BY <1>1, <1>3, <1>5, <2>1, <2>2 DEF Stored, Places
<1>13. CASE FetchFails
  <2>1. /\ at = "copy" /\ at' = at /\ (UNCHANGED left \/ Trouble)
        /\ UNCHANGED <<locs, disk, damaged, late>> /\ tasks' = tasks \ {Turn}
    BY <1>13 DEF FetchFails
  <2>2. tasks' \subseteq Task /\ TasksInv'
    BY <2>1, FewerTasks
  <2> QED
    BY <1>1, <1>3, <1>5, <2>1, <2>2 DEF Stored, Places
<1>14. ASSUME at = "send", NEW q \in {Turn.quota, Turn.quota - 1},
              Copied([Turn EXCEPT !.quota = q, !.to = @ \ {Target}])
       PROVE  tasks' \subseteq Task /\ TasksInv' /\ at' \in Places
  <2> DEFINE t == [Turn EXCEPT !.quota = q, !.to = @ \ {Target}]
  <2>1. Listed /\ Turn \in tasks /\ Turn \in Task /\ Turn.quota > 0
    BY <1>1, <1>4, <1>14 DEF Listed, TasksInv, Wanting
  <2>2. q \in Nat /\ t \in Task /\ t.hash = Turn.hash /\ t.quota = q
    <3>1. Turn.quota \in Nat /\ Turn.to \ {Target} \subseteq Node
      BY <1>1, <2>1
    <3>2. q \in Nat
      BY <2>1, <3>1
    <3> QED
      BY <2>1, <3>1, <3>2 DEF Task
  <2>3. \/ tasks' = tasks \ {Turn} /\ at' = "copy"
        \/ q # 0 /\ tasks' = (tasks \ {Turn}) \cup {t} /\ at' = at
    BY <1>14, <2>2 DEF Copied
  <2>4. CASE tasks' = tasks \ {Turn} /\ at' = "copy"
    <3>1. IsFiniteSet(tasks')
      BY <1>1, <2>4, FS_RemoveElement DEF TasksInv
    <3>2. Apart' /\ Wanting' /\ Singles'
      BY <1>1, <1>14, <2>4 DEF TasksInv, Singles, Apart, Wanting
    <3> QED
      BY <1>1, <2>4, <3>1, <3>2 DEF TasksInv, Places
  <2>5. CASE q # 0 /\ tasks' = (tasks \ {Turn}) \cup {t} /\ at' = at
    <3> HIDE DEF t
    <3>1. t.quota > 0
      BY <2>2, <2>5
    <3>2. tasks' \subseteq Task /\ TasksInv'
      BY <1>14, <2>1, <2>2, <2>5, <3>1, TaskBecomes
    <3> QED
      BY <1>14, <2>5, <3>2 DEF Places
  <2> QED
    BY <2>3, <2>4, <2>5
<1>15. CASE Copy
  <2> DEFINE p == <<Turn.hash, Target>>
  <2>1. /\ at = "send" /\ Takes(Target) /\ UNCHANGED <<late, left>>
        /\ disk' = disk \cup {p} /\ damaged' = damaged \ {p} /\ locs' = locs \cup {p}
        /\ Copied([Turn EXCEPT !.quota = Turn.quota - 1, !.to = @ \ {Target}])
    BY <1>15 DEF Copy
  <2>2. p \in Pair
    <3>1. Target \in Node /\ Turn \in tasks
      BY <1>1, <1>4, <2>1 DEF Takes, Answers, Listed, TasksInv, Wanting
    <3> QED
      BY <1>1, <3>1 DEF Pair
  <2> HIDE DEF p
  <2>3. Stored'
    BY <1>1, <2>1, <2>2 DEF Stored
  <2> QED
    BY <1>3, <1>14, <2>1, <2>3
<1>16. CASE CopyFails
  <2> DEFINE p == <<Turn.hash, Target>>
  <2>1. /\ at = "send" /\ UNCHANGED <<locs, late>>
        /\ \/ UNCHANGED <<disk, damaged>> /\ (UNCHANGED left \/ Trouble)
           \/ Takes(Target) /\ Trouble /\ disk' = disk \cup {p} /\ damaged' = damaged \ {p}
        /\ Copied([Turn EXCEPT !.to = @ \ {Target}])
    BY <1>16 DEF CopyFails
  <2>2. Turn \in tasks
    BY <1>1, <1>4, <2>1 DEF Listed, TasksInv, Wanting
  <2>3. Takes(Target) => p \in Pair
    BY <1>1, <2>2 DEF Takes, Answers, Pair
  <2>4. Stored'
    <3> HIDE DEF p
    <3> QED
      BY <1>1, <1>5, <2>1, <2>3 DEF Stored
  <2>5. [Turn EXCEPT !.to = @ \ {Target}]
          = [Turn EXCEPT !.quota = Turn.quota, !.to = @ \ {Target}]
    BY <1>1, <2>2 DEF Task
  <2> QED
    BY <1>3, <1>14, <2>1, <2>4, <2>5
<1> QED
  BY <1>6, <1>7, <1>8, <1>9, <1>10, <1>11, <1>12, <1>13, <1>15, <1>16 DEF Tick

(* Troubles leave the scheduler's list alone. *)
LEMMA DisturbanceStep ==
  ASSUME MaintenanceInv, Disturbance
  PROVE  MaintenanceInv'
<1>1. UNCHANGED <<at, tasks>>
  BY DEF Disturbance, Fall, Return, Change, Forget, Damage, Lose, DeleteLate, Scheduler
<1>2. TasksInv'
  BY <1>1 DEF MaintenanceInv, TasksInv, Singles, Apart, Wanting
<1>9. fresh' \in BOOLEAN
  BY DEF Disturbance
<1>3. MaintenanceTypeOK /\ Troubles \in Nat
  BY MaintenanceAssumption DEF MaintenanceInv
<1>4. ASSUME Trouble PROVE left' \in 0 .. Troubles
  BY <1>3, <1>4 DEF Trouble, MaintenanceTypeOK
<1> USE DEF MaintenanceTypeOK, World, Scheduler
<1>5. ASSUME NEW n \in Node, Fall(n) \/ Return(n) PROVE MaintenanceTypeOK'
  BY <1>3, <1>4, <1>9, <1>5 DEF Fall, Return
<1>6. ASSUME NEW h \in Hash, NEW r \in Replicas, Change(h, r) PROVE MaintenanceTypeOK'
  BY <1>3, <1>4, <1>9, <1>6 DEF Change
<1>7. ASSUME NEW h \in Hash, Forget(h) PROVE MaintenanceTypeOK'
  BY <1>3, <1>4, <1>9, <1>7 DEF Forget
<1>8. ASSUME NEW p \in Pair, Damage(p) \/ Lose(p) \/ DeleteLate(p)
      PROVE  MaintenanceTypeOK'
  BY <1>3, <1>4, <1>9, <1>8 DEF Damage, Lose, DeleteLate
<1> QED
  BY <1>2, <1>5, <1>6, <1>7, <1>8 DEF Disturbance, MaintenanceInv

-----------------------------------------------------------------------------
(* What a list says as long as it is fresh *)

(* An orphan has no backup and is still placed where it is to be deleted; a
   surplus and a deficit are the chunk's present ones, and the nodes to delete
   from and to copy to are still with it and without it. *)
UpToDate ==
  /\ at = "orphans" =>
       \A t \in tasks : /\ t.rank = 0 /\ desired[t.hash] = 0
                        /\ \A n \in t.from : <<t.hash, n>> \in locs
  /\ at = "trim" =>
       \A t \in tasks : /\ t.quota = Excess(t.hash) /\ t.quota > 0
                        /\ t.from \subseteq Have(t.hash) /\ t.from # {}
  /\ at \in {"copy", "send"} =>
       \A t \in tasks : /\ t.quota = -Excess(t.hash)
                        /\ t.to \subseteq heard \ Have(t.hash)
  /\ at = "send" => Turn.to # {}

FreshInv == fresh => UpToDate

LEMMA Measured ==
  ASSUME MaintenanceTypeOK, NEW h \in Hash
  PROVE  /\ Have(h) \subseteq Node /\ IsFiniteSet(Have(h)) /\ Online(h) = Have(h)
         /\ desired[h] \in Nat /\ Cardinality(Have(h)) \in Nat
         /\ Excess(h) \in Int /\ Lacking(h) = -Excess(h)
<1>1. Have(h) \in SUBSET Node /\ Online(h) = Have(h)
  BY DEF MaintenanceTypeOK, Have, Online
<1>2. IsFiniteSet(Have(h)) /\ Cardinality(Have(h)) \in Nat
  BY <1>1, FS_Subset, FS_CardinalityType, MaintenanceAssumption
<1> QED
  BY <1>1, <1>2, Counted DEF Excess, Lacking

LEMMA SameCopies ==
  ASSUME UNCHANGED <<heard, desired, locs>>, NEW h
  PROVE  Have(h)' = Have(h) /\ Excess(h)' = Excess(h)
BY DEF Have, Excess

(* One location goes. *)
LEMMA OneLess ==
  ASSUME MaintenanceTypeOK, UNCHANGED <<heard, desired>>,
         NEW h \in Hash, NEW n \in Have(h), locs' = locs \ {<<h, n>>}
  PROVE  /\ Have(h)' = Have(h) \ {n} /\ Excess(h)' = Excess(h) - 1
         /\ \A g \in Hash \ {h} : Have(g)' = Have(g) /\ Excess(g)' = Excess(g)
<1>1. Have(h)' = Have(h) \ {n}
  BY DEF Have
<1>2. \A g \in Hash \ {h} : Have(g)' = Have(g)
  BY DEF Have
<1>3. Cardinality(Have(h) \ {n}) = Cardinality(Have(h)) - 1
  BY Measured, FS_RemoveElement
<1> QED
  BY <1>1, <1>2, <1>3, Measured DEF Excess

(* One location comes. *)
LEMMA OneMore ==
  ASSUME MaintenanceTypeOK, UNCHANGED <<heard, desired>>,
         NEW h \in Hash, NEW n \in heard \ Have(h), locs' = locs \cup {<<h, n>>}
  PROVE  /\ Have(h)' = Have(h) \cup {n} /\ Excess(h)' = Excess(h) + 1
         /\ \A g \in Hash \ {h} : Have(g)' = Have(g) /\ Excess(g)' = Excess(g)
<1>1. Have(h)' = Have(h) \cup {n}
  BY DEF Have
<1>2. \A g \in Hash \ {h} : Have(g)' = Have(g)
  BY DEF Have
<1>3. Cardinality(Have(h) \cup {n}) = Cardinality(Have(h)) + 1
  BY Measured, FS_AddElement
<1> QED
  BY <1>1, <1>2, <1>3, Measured DEF Excess

-----------------------------------------------------------------------------
(* A tick, as long as its lists are fresh *)

(* What TicksApproach says of a step *)
Approach ==
  /\ \A h \in Hash : Nearer(h)
  /\ locs' # locs => \E h \in Hash : Excess(h)' # Excess(h)

LEMMA StandingStill ==
  ASSUME MaintenanceTypeOK, UNCHANGED <<heard, desired, locs>>
  PROVE  Approach
<1> SUFFICES ASSUME NEW h \in Hash PROVE Nearer(h)
  BY DEF Approach
<1> QED
  BY SameCopies, Measured DEF Nearer

LEMMA Shrinks ==
  ASSUME MaintenanceTypeOK, NEW h \in Hash, Excess(h) > 0,
         Excess(h)' = Excess(h) - 1,
         \A g \in Hash \ {h} : Excess(g)' = Excess(g)
  PROVE  Approach
<1>1. \A g \in Hash : Excess(g) \in Int
  BY Measured
<1>2. Nearer(h) /\ Excess(h)' # Excess(h)
  BY <1>1 DEF Nearer
<1>3. \A g \in Hash \ {h} : Nearer(g)
  BY <1>1 DEF Nearer
<1> QED
  BY <1>2, <1>3 DEF Approach

LEMMA Grows ==
  ASSUME MaintenanceTypeOK, NEW h \in Hash, Excess(h) < 0,
         Excess(h)' = Excess(h) + 1,
         \A g \in Hash \ {h} : Excess(g)' = Excess(g)
  PROVE  Approach
<1>1. \A g \in Hash : Excess(g) \in Int
  BY Measured
<1>2. Nearer(h) /\ Excess(h)' # Excess(h)
  BY <1>1 DEF Nearer
<1>3. \A g \in Hash \ {h} : Nearer(g)
  BY <1>1 DEF Nearer
<1> QED
  BY <1>2, <1>3 DEF Approach

(* The orders in which nodes are tried have a first element. *)
LEMMA FirstIsMember ==
  ASSUME NEW S \in SUBSET Node, S # {}
  PROVE  TheFirst(S, LessFree) \in S /\ TheFirst(S, MoreFree) \in S
<1>1. IsFiniteSet(S) /\ \A n \in S : n \in Nat /\ Free[n] \in Nat
  BY MaintenanceAssumption, FS_Subset
<1>2. TheFirst(S, LessFree) \in S
  <2> DEFINE R == {p \in S \X S : LessFree(p[1], p[2])}
  <2>1. /\ \A a, b \in S : <<a, b>> \in R <=> LessFree(a, b)
        /\ \A a, b \in S : a = b \/ LessFree(a, b) \/ LessFree(b, a)
        /\ \A a, b, c \in S : LessFree(a, b) /\ LessFree(b, c) => LessFree(a, c)
    BY <1>1 DEF LessFree
  <2> HIDE DEF R
  <2>2. PICK m \in S : \A y \in S \ {m} : <<m, y>> \in R
    BY <1>1, <2>1, FirstOfFinite
  <2> QED
    BY <2>1, <2>2 DEF TheFirst
<1>3. TheFirst(S, MoreFree) \in S
  <2> DEFINE R == {p \in S \X S : MoreFree(p[1], p[2])}
  <2>1. /\ \A a, b \in S : <<a, b>> \in R <=> MoreFree(a, b)
        /\ \A a, b \in S : a = b \/ MoreFree(a, b) \/ MoreFree(b, a)
        /\ \A a, b, c \in S : MoreFree(a, b) /\ MoreFree(b, c) => MoreFree(a, c)
    BY <1>1 DEF MoreFree
  <2> HIDE DEF R
  <2>2. PICK m \in S : \A y \in S \ {m} : <<m, y>> \in R
    BY <1>1, <2>1, FirstOfFinite
  <2> QED
    BY <2>1, <2>2 DEF TheFirst
<1> QED
  BY <1>2, <1>3

LEMMA ListIsUpToDate ==
  ASSUME MaintenanceTypeOK, Sweep \/ Prune \/ Survey
  PROVE  UpToDate' /\ Approach
<1>1. UNCHANGED <<heard, desired, locs>>
  BY DEF Sweep, Prune, Survey, List, World
<1>2. \A h : Have(h)' = Have(h) /\ Excess(h)' = Excess(h)
  BY <1>1, SameCopies
<1>3. CASE Sweep
  <2>1. tasks' \subseteq Orphans /\ at' = "orphans"
    BY <1>3 DEF Sweep, List, Leading
  <2>2. \A t \in Orphans : /\ t.rank = 0 /\ desired[t.hash] = 0
                           /\ \A n \in t.from : <<t.hash, n>> \in locs
    <3>1. SUFFICES ASSUME NEW q \in locs, desired[q[1]] = 0
                   PROVE  LET t == TaskFor(q[1], 0, {q[2]}, {})
                          IN  /\ t.rank = 0 /\ desired[t.hash] = 0
                              /\ \A n \in t.from : <<t.hash, n>> \in locs
      BY DEF Orphans
    <3>2. q = <<q[1], q[2]>>
      BY <3>1 DEF MaintenanceTypeOK, Pair
    <3> QED
      BY <3>1, <3>2 DEF TaskFor
  <2> QED
    BY <1>1, <2>1, <2>2, StandingStill DEF UpToDate
<1>4. CASE Prune
  <2>1. tasks' \subseteq Surplus /\ at' = "trim"
    BY <1>4 DEF Prune, List, Leading
  <2>2. \A t \in Surplus : /\ t.quota = Excess(t.hash) /\ t.quota > 0
                           /\ t.from \subseteq Have(t.hash) /\ t.from # {}
    <3> SUFFICES ASSUME NEW h \in Hash, desired[h] > 0, Lacking(h) < 0
                 PROVE  /\ -Lacking(h) = Excess(h) /\ -Lacking(h) > 0
                        /\ Online(h) \subseteq Have(h) /\ Online(h) # {}
      BY DEF Surplus, TaskFor
    <3>1. Have(h) # {}
      <4>1. Cardinality(Have(h)) # 0
        BY Measured DEF Excess
      <4> QED
        BY <4>1, FS_EmptySet
    <3> QED
      BY <3>1, Measured
  <2> QED
    BY <1>1, <1>2, <2>1, <2>2, StandingStill DEF UpToDate
<1>5. CASE Survey
  <2>1. tasks' \subseteq Missing /\ at' = "copy"
    BY <1>5 DEF Survey, List, Leading
  <2>2. \A t \in Missing : /\ t.quota = -Excess(t.hash)
                           /\ t.to \subseteq heard \ Have(t.hash)
    <3>1. \A h \in Hash : Candidates(h) \subseteq heard \ Have(h)
      BY DEF Candidates, Leading, Have
    <3> QED
      BY <3>1, Measured DEF Missing, TaskFor
  <2> QED
    BY <1>1, <1>2, <2>1, <2>2, StandingStill DEF UpToDate
<1> QED
  BY <1>3, <1>4, <1>5

(* deleteChunk and RemoveChunkLocation, or a call that fails *)
LEMMA DeletesApproach ==
  ASSUME MaintenanceInv, UpToDate, Delete \/ DeleteFails
  PROVE  UpToDate' /\ Approach
<1>1. /\ MaintenanceTypeOK /\ TasksInv /\ at \in {"orphans", "trim"} /\ at' = at
      /\ UNCHANGED <<heard, desired>> /\ Turn \in tasks /\ Turn \in Task
      /\ Turn.hash \in Hash /\ Turn.quota \in Nat
      /\ \A t \in tasks : t.hash \in Hash
  <2>1. Listed /\ at' = at /\ UNCHANGED <<heard, desired>>
    BY DEF Delete, DeleteFails, Listed, World
  <2> QED
    BY <2>1, TurnIsListed
       DEF Delete, DeleteFails, MaintenanceInv, MaintenanceTypeOK, Task
<1>hash. PICK h \in Hash : h = Turn.hash
  BY <1>1
<1>0. PICK n : n = FirstLocation(Turn) /\ h = Turn.hash
  BY <1>hash
<1>2. CASE Delete
  <2> DEFINE rest == IF Turn.quota <= 1 THEN {} ELSE Turn.from \ {n}
             t == [Turn EXCEPT !.quota = @ - 1, !.from = rest]
  <2>1. Answers(n) /\ locs' = locs \ {<<h, n>>} /\ Proceed(t)
    BY <1>0, <1>2 DEF Delete
  <2>2. t.from = rest /\ t.hash = h /\ t.quota = Turn.quota - 1
    BY <1>0, <1>1 DEF Task
  <2>3. CASE at = "orphans"
    <3>1. PICK m \in Node : Turn.from = {m}
      BY <1>1, <2>3 DEF TasksInv, Singles
    <3>2. n = m
      BY <1>0, <3>1 DEF FirstLocation, TheFirst
    <3>3. tasks' = tasks \ {Turn}
      <4>1. rest = {}
        BY <3>1, <3>2
      <4> QED
        BY <2>1, <2>2, <4>1 DEF Proceed
    <3>4. n \in Have(h) /\ desired[h] = 0 /\ Turn.rank = 0
      BY <1>0, <1>1, <2>1, <2>3, <3>1, <3>2 DEF UpToDate, Have, Answers
    <3>5. \A s \in tasks' : \A k \in s.from : <<s.hash, k>> # <<h, n>>
      <4> SUFFICES ASSUME NEW s \in tasks \ {Turn}, NEW k \in s.from,
                          s.hash = h, k = n
                   PROVE  FALSE
        BY <3>3
      <4>1. s.from = {n}
        BY <1>1, <2>3 DEF TasksInv, Singles
      <4>2. s.rank = 0
        BY <2>3 DEF UpToDate
      <4> QED
        BY <1>0, <1>1, <2>3, <3>1, <3>2, <3>4, <4>1, <4>2 DEF TasksInv, Singles
    <3>6. UpToDate'
      <4>1. \A s \in tasks' : /\ s.rank = 0 /\ desired'[s.hash] = 0
                             /\ \A k \in s.from : <<s.hash, k>> \in locs'
        BY <1>1, <2>1, <2>3, <3>3, <3>5 DEF UpToDate
      <4> QED
        BY <1>1, <2>3, <4>1 DEF UpToDate
    <3>7. Excess(h) > 0
      <4>1. Cardinality(Have(h)) # 0
        BY <1>1, <3>4, Measured, FS_EmptySet
      <4> QED
        BY <1>1, <3>4, <4>1, Measured DEF Excess
    <3>9. Excess(h)' = Excess(h) - 1 /\ \A g \in Hash \ {h} : Excess(g)' = Excess(g)
      BY <1>1, <2>1, <3>4, OneLess
    <3> QED
      BY <1>1, <3>6, <3>7, <3>9, Shrinks
  <2>4. CASE at = "trim"
    <3>1. /\ Turn.quota = Excess(h) /\ Turn.quota > 0 /\ Turn.from \subseteq Have(h)
          /\ \A s \in tasks \ {Turn} : s.hash # h
      BY <1>0, <1>1, <2>4 DEF UpToDate, TasksInv, Apart
    <3>2. n \in Turn.from
      <4>1. Turn.from # {} /\ Turn.from \in SUBSET Node
        BY <1>1, <2>4 DEF UpToDate, Task
      <4> QED
        BY <1>0, <4>1, FirstIsMember DEF FirstLocation
    <3>3. n \in Have(h)
      BY <3>1, <3>2
    <3>4. \A s \in tasks' : s \in tasks \ {Turn} \/ (s = t /\ t.from # {})
      BY <2>1 DEF Proceed
    <3>5. t.from # {} => t.quota > 0 /\ t.from \subseteq Have(h) \ {n}
      BY <1>1, <2>2, <3>1
    <3> HIDE DEF t, rest
    <3>6. /\ Have(h)' = Have(h) \ {n} /\ Excess(h)' = Excess(h) - 1
          /\ \A g \in Hash \ {h} : Have(g)' = Have(g) /\ Excess(g)' = Excess(g)
      BY <1>1, <2>1, <3>3, OneLess
    <3>7. UpToDate'
      <4>1. \A s \in tasks' : /\ s.quota = Excess(s.hash)' /\ s.quota > 0
                             /\ s.from \subseteq Have(s.hash)' /\ s.from # {}
        <5>1. SUFFICES ASSUME NEW s \in tasks'
                       PROVE  /\ s.quota = Excess(s.hash)' /\ s.quota > 0
                              /\ s.from \subseteq Have(s.hash)' /\ s.from # {}
          OBVIOUS
        <5>2. CASE s = t /\ t.from # {}
          BY <2>2, <3>1, <3>5, <3>6, <5>2
        <5>3. CASE s \in tasks \ {Turn}
          BY <1>1, <2>4, <3>1, <3>6, <5>3 DEF UpToDate
        <5> QED
          BY <3>4, <5>1, <5>2, <5>3
      <4> QED
        BY <1>1, <2>4, <4>1 DEF UpToDate
    <3> QED
      BY <1>1, <3>1, <3>3, <3>6, <3>7, Shrinks
  <2> QED
    BY <1>1, <2>3, <2>4
<1>3. CASE DeleteFails
  <2> DEFINE t == [Turn EXCEPT !.from = @ \ {n}]
  <2>1. Proceed(t) /\ UNCHANGED locs
    BY <1>0, <1>3 DEF DeleteFails
  <2>2. /\ t.from = Turn.from \ {n} /\ t.hash = h /\ t.quota = Turn.quota
        /\ t.rank = Turn.rank
    BY <1>0, <1>1 DEF Task
  <2>3. \A s \in tasks' : s \in tasks \/ (s = t /\ t.from # {})
    BY <2>1 DEF Proceed
  <2>4. \A g : Have(g)' = Have(g) /\ Excess(g)' = Excess(g)
    BY <1>1, <2>1, SameCopies
  <2> HIDE DEF t
  <2>5. UpToDate'
    BY <1>0, <1>1, <2>1, <2>2, <2>3, <2>4 DEF UpToDate
  <2> QED
    BY <1>1, <2>1, <2>5, StandingStill
<1> QED
  BY <1>2, <1>3

(* The task at hand stays at hand when only its quota and its candidates
   change. *)
LEMMA TurnStays ==
  ASSUME MaintenanceInv, at = "send", NEW t \in Task,
         t.hash = Turn.hash, t.rank = Turn.rank,
         tasks' = (tasks \ {Turn}) \cup {t}
  PROVE  Turn' = t
<1>1. /\ Turn \in tasks /\ tasks \subseteq Task /\ TasksInv
      /\ \A s \in tasks \ {Turn} : s.hash # Turn.hash
  BY TurnIsListed
     DEF MaintenanceInv, MaintenanceTypeOK, TasksInv, Apart, Wanting, Listed
<1>2. \A s \in tasks \ {Turn} : Earlier(Turn, s)
  BY <1>1, TurnIsListed DEF MaintenanceInv, MaintenanceTypeOK, Listed
<1>3. \A s \in tasks' \ {t} : Earlier(t, s) /\ ~Earlier(s, t)
  <2> SUFFICES ASSUME NEW s \in tasks \ {Turn} PROVE Earlier(t, s) /\ ~Earlier(s, t)
    OBVIOUS
  <2>1. Earlier(Turn, s) /\ s.hash # Turn.hash
    BY <1>1, <1>2
  <2>2. s.rank \in Nat /\ t.rank \in Nat /\ s.hash \in Nat /\ t.hash \in Nat
    BY <1>1, MaintenanceAssumption DEF Task
  <2> QED
    BY <2>1, <2>2 DEF Earlier
<1> QED
  BY <1>3 DEF Turn, TheFirst

(* putChunk and ConfirmChunk, or one that fails *)
LEMMA CopiesApproach ==
  ASSUME MaintenanceInv, UpToDate, Copy \/ CopyFails
  PROVE  UpToDate' /\ Approach
<1>1. /\ MaintenanceTypeOK /\ TasksInv /\ at = "send"
      /\ UNCHANGED <<heard, desired>> /\ Turn \in tasks /\ Turn \in Task
      /\ Turn.hash \in Hash /\ Turn.quota \in Nat /\ Turn.quota > 0
      /\ \A s \in tasks \ {Turn} : s.hash # Turn.hash
  <2>1. at = "send" /\ UNCHANGED <<heard, desired>>
    BY DEF Copy, CopyFails, World
  <2> QED
    BY <2>1, TurnIsListed
       DEF MaintenanceInv, MaintenanceTypeOK, Task, TasksInv, Apart, Wanting, Listed
<1>hash. PICK h \in Hash : h = Turn.hash
  BY <1>1
<1>2. PICK n : n = Target /\ h = Turn.hash
  BY <1>hash
<1>3. n \in Turn.to /\ Turn.to \subseteq heard \ Have(h) /\ Turn.quota = -Excess(h)
  <2>1. Turn.to # {} /\ Turn.to \in SUBSET Node
    BY <1>1 DEF UpToDate, Task
  <2>2. n \in Turn.to
    BY <1>2, <2>1, FirstIsMember DEF Target
  <2> QED
    BY <1>1, <1>2, <2>2 DEF UpToDate
(* what is left to do for the task *)
<1>4. ASSUME NEW q \in {Turn.quota, Turn.quota - 1},
             Copied([Turn EXCEPT !.quota = q, !.to = @ \ {Target}]),
             Excess(h)' = -q, Have(h)' \subseteq Have(h) \cup {n},
             \A g \in Hash \ {h} : Have(g)' = Have(g) /\ Excess(g)' = Excess(g)
      PROVE  UpToDate'
  <2> DEFINE t == [Turn EXCEPT !.quota = q, !.to = @ \ {Target}]
  <2>1. /\ t.quota = q /\ t.to = Turn.to \ {n} /\ t.hash = h /\ t.rank = Turn.rank
        /\ t \in Task
    <3>1. q \in Nat /\ Turn.to \ {Target} \subseteq Node
      BY <1>1 DEF Task
    <3> QED
      BY <1>1, <1>2, <3>1 DEF Task
  <2>2. \/ tasks' = tasks \ {Turn} /\ at' = "copy"
        \/ t.to # {} /\ tasks' = (tasks \ {Turn}) \cup {t} /\ at' = "send"
    BY <1>1, <1>4 DEF Copied
  <2> HIDE DEF t
  <2>3. \A s \in tasks' : s.quota = -Excess(s.hash)' /\ s.to \subseteq heard' \ Have(s.hash)'
    <3>1. SUFFICES ASSUME NEW s \in tasks'
                   PROVE  /\ s.quota = -Excess(s.hash)'
                          /\ s.to \subseteq heard' \ Have(s.hash)'
      OBVIOUS
    <3>2. CASE s = t
      BY <1>1, <1>3, <1>4, <2>1, <3>2
    <3>3. CASE s \in tasks \ {Turn}
      <4>1. s.hash \in Hash \ {h}
        BY <1>1, <1>2, <3>3 DEF MaintenanceTypeOK, Task
      <4> QED
        BY <1>1, <1>4, <3>3, <4>1 DEF UpToDate
    <3> QED
      BY <2>2, <3>1, <3>2, <3>3
  <2>4. at' = "send" => Turn'.to # {}
    BY <1>1, <1>2, <2>1, <2>2, TurnStays
  <2> QED
    BY <2>2, <2>3, <2>4 DEF UpToDate
<1>5. CASE Copy
  <2>1. /\ locs' = locs \cup {<<h, n>>}
        /\ Copied([Turn EXCEPT !.quota = Turn.quota - 1, !.to = @ \ {Target}])
    BY <1>2, <1>5 DEF Copy
  <2>2. /\ Have(h)' = Have(h) \cup {n} /\ Excess(h)' = Excess(h) + 1
        /\ \A g \in Hash \ {h} : Have(g)' = Have(g) /\ Excess(g)' = Excess(g)
    BY <1>1, <1>3, <2>1, OneMore
  <2>3. Excess(h) \in Int
    BY <1>1, Measured
  <2>4. UpToDate'
    BY <1>3, <1>4, <2>1, <2>2, <2>3
  <2> QED
    BY <1>1, <1>3, <2>2, <2>3, <2>4, Grows
<1>6. CASE CopyFails
  <2>1. /\ UNCHANGED locs
        /\ Copied([Turn EXCEPT !.to = @ \ {Target}])
    BY <1>6 DEF CopyFails
  <2>2. [Turn EXCEPT !.to = @ \ {Target}]
          = [Turn EXCEPT !.quota = Turn.quota, !.to = @ \ {Target}]
    BY <1>1 DEF Task
  <2>3. \A g : Have(g)' = Have(g) /\ Excess(g)' = Excess(g)
    BY <1>1, <2>1, SameCopies
  <2>4. Excess(h) \in Int
    BY <1>1, Measured
  <2>5. UpToDate'
    BY <1>3, <1>4, <2>1, <2>2, <2>3, <2>4
  <2> QED
    BY <1>1, <2>1, <2>5, StandingStill
<1> QED
  BY <1>5, <1>6

(* ListDone, Fetch and FetchFails only leave a list or a task. *)
LEMMA OthersApproach ==
  ASSUME MaintenanceInv, UpToDate, ListDone \/ Fetch \/ FetchFails
  PROVE  UpToDate' /\ Approach
<1>1. MaintenanceTypeOK /\ UNCHANGED <<heard, desired, locs>>
  BY DEF ListDone, Fetch, FetchFails, World, MaintenanceInv
<1>2. \A g : Have(g)' = Have(g) /\ Excess(g)' = Excess(g)
  BY <1>1, SameCopies
<1>3. CASE ListDone
  BY <1>1, <1>3, StandingStill DEF ListDone, UpToDate
<1>4. CASE Fetch
  <2>1. at = "copy" /\ at' = "send" /\ tasks' = tasks /\ Turn.to # {} /\ Turn' = Turn
    BY <1>4 DEF Fetch, Turn
  <2> QED
    BY <1>1, <1>2, <2>1, StandingStill DEF UpToDate
<1>5. CASE FetchFails
  <2>1. at = "copy" /\ at' = "copy" /\ tasks' \subseteq tasks
    BY <1>5 DEF FetchFails
  <2> QED
    BY <1>1, <1>2, <2>1, StandingStill DEF UpToDate
<1> QED
  BY <1>3, <1>4, <1>5

LEMMA FreshTick ==
  ASSUME MaintenanceInv, FreshInv, Tick
  PROVE  FreshInv' /\ (fresh => Approach)
<1>1. CASE Sweep \/ Prune \/ Survey
  <2>1. MaintenanceTypeOK
    BY DEF MaintenanceInv
  <2> QED
    BY <1>1, <2>1, ListIsUpToDate DEF FreshInv
<1>2. CASE Delete \/ DeleteFails \/ Copy \/ CopyFails \/ ListDone \/ Fetch \/ FetchFails
  <2>1. UNCHANGED fresh
    BY <1>2 DEF Delete, DeleteFails, Copy, CopyFails, ListDone, Fetch, FetchFails
  <2>2. UpToDate => UpToDate' /\ Approach
    BY <1>2, DeletesApproach, CopiesApproach, OthersApproach
  <2> QED
    BY <2>1, <2>2 DEF FreshInv
<1> QED
  BY <1>1, <1>2 DEF Tick

(* What happens to nodes and backups makes a list stale; what happens to files
   does not touch what it says. *)
LEMMA FreshDisturbance ==
  ASSUME MaintenanceTypeOK, FreshInv, Disturbance
  PROVE  FreshInv'
<1> SUFFICES ASSUME fresh' PROVE UpToDate'
  BY DEF FreshInv
<1>1. fresh /\ UNCHANGED <<heard, desired>>
  BY DEF Disturbance
<1>2. UNCHANGED <<at, tasks, locs>>
  <2>1. ASSUME NEW h \in Hash, Forget(h) PROVE FALSE
    BY <1>1, <2>1 DEF Forget, MaintenanceTypeOK
  <2> QED
    BY <2>1 DEF Disturbance, Fall, Return, Change, Damage, Lose, DeleteLate, Scheduler
<1>3. \A g : Have(g)' = Have(g) /\ Excess(g)' = Excess(g)
  BY <1>1, <1>2, SameCopies
<1>4. Turn' = Turn
  BY <1>2 DEF Turn
<1> QED
  BY <1>1, <1>2, <1>3, <1>4 DEF FreshInv, UpToDate

-----------------------------------------------------------------------------
(* Theorems *)

LEMMA InitInv == Init => MaintenanceInv /\ FreshInv
<1> SUFFICES ASSUME Init PROVE MaintenanceInv /\ FreshInv
  OBVIOUS
<1>1. IsFiniteSet({}) /\ Troubles \in Nat
  BY FS_EmptySet, MaintenanceAssumption
<1>2. MaintenanceTypeOK
  BY <1>1 DEF Init, MaintenanceTypeOK, Places, Pair
<1>3. TasksInv
  BY <1>1 DEF Init, TasksInv, Singles, Apart, Wanting
<1>4. FreshInv
  BY DEF Init, FreshInv, UpToDate
<1> QED
  BY <1>2, <1>3, <1>4 DEF MaintenanceInv

LEMMA NextInv ==
  MaintenanceInv /\ FreshInv /\ [Next]_vars => MaintenanceInv' /\ FreshInv'
<1>1. ASSUME MaintenanceInv, FreshInv, UNCHANGED vars PROVE MaintenanceInv' /\ FreshInv'
  <2>1. MaintenanceInv'
    BY <1>1 DEF vars, MaintenanceInv, MaintenanceTypeOK, TasksInv, Singles, Apart, Wanting
  <2>2. \A g : Have(g)' = Have(g) /\ Excess(g)' = Excess(g)
    BY <1>1, SameCopies DEF vars
  <2>3. FreshInv'
    BY <1>1, <2>2 DEF vars, FreshInv, UpToDate, Turn
  <2> QED
    BY <2>1, <2>3
<1>2. MaintenanceInv => MaintenanceTypeOK
  BY DEF MaintenanceInv
<1> QED
  BY <1>1, <1>2, TickStep, DisturbanceStep, FreshTick, FreshDisturbance DEF Next

(* The scheduler and everything that happens beside it keep their types; in
   particular the copies still to make or to remove of a task never go below
   zero, and whenever a tick has tasks left there is one that comes first in
   the order of the query (state.go:611-755, replicator.go:30-115). *)
THEOREM MaintenanceTypeCorrect == Spec => []MaintenanceTypeOK
BY InitInv, NextInv, PTL DEF Spec, MaintenanceInv

(* As long as no node comes or goes and no backup changes after a list was
   read, every step of the scheduler takes every chunk nearer to its number of
   copies or leaves it, never beyond it, and every location that comes or goes
   is such a step; so of two ticks that nobody disturbs the second never undoes
   what the first did (replicator.go:30-115). *)
THEOREM MaintenanceTicksApproach == Spec => TicksApproach
<1>1. MaintenanceInv /\ FreshInv /\ [Next]_vars => [fresh /\ Tick => Approach]_vars
  BY FreshTick
<1>2. Spec => [][fresh /\ Tick => Approach]_vars
  BY <1>1, InitInv, NextInv, PTL DEF Spec
<1> QED
  BY <1>2 DEF TicksApproach, Approach
=============================================================================
