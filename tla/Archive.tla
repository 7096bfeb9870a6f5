------------------------------- MODULE Archive --------------------------------
(***************************************************************************)
(* A backup job of cmd/backupctl/main.go: its directories are walked and   *)
(* packed into a tar stream that is uploaded while it is written           *)
(* (backupConfiguredJob, writeTarJob, addRootToTar), and restored by       *)
(* extractTar, once or again into the same directory.                      *)
(*                                                                         *)
(* The user goes on working: files vanish, appear, shrink and grow between *)
(* the moment a directory is listed and the moments its entries are looked *)
(* up, opened and read.                                                    *)
(*                                                                         *)
(* A path is a sequence of names and a name a number, in the order of the  *)
(* strings; <<>> is the root of the file system.  What is in a file is a   *)
(* short sequence.  The client is not a superuser.                         *)
(***************************************************************************)
EXTENDS Naturals, FiniteSets, SequencesExt

CONSTANTS
  RootName,      \* the name "root"
  Numbered(_, _),\* the name with "-2", "-3", ... behind it
  Jobs,          \* the tree, the paths and excludes of the job, and how often
                 \* the user interferes
  Places,        \* where the user does
  Contents       \* what the user writes into files

VARIABLES
  job,       \* one of Jobs
  tree,      \* path -> [kind, mode, data]
  touched,   \* history: paths the user changed during the job
  budget,    \* changes still to come
  pc,        \* where the client is
  roots,     \* tarRoots
  todo,      \* entries WalkDir has yet to visit, first the next one
  archive,   \* the tar stream
  left,      \* what of it extractTar has yet to read
  out,       \* the directory it restores into: path -> [kind, mode, data]
  attempt    \* how many restores were started

files == <<tree, touched, budget>>
walk == <<roots, todo, archive>>
restore == <<left, out, attempt>>
vars == <<job, files, pc, walk, restore>>

Node(kind, mode, data) == [kind |-> kind, mode |-> mode, data |-> data]
Nodes == [kind: {"dir", "file", "link", "fifo", "socket"},
          mode: {"rw", "r", "none"}, data: Seq(Nat)]
IsKind(t, p, k) == p \in DOMAIN t /\ t[p].kind = k
Under(p, q) == IsPrefix(p, q)
Readable(p) == tree[p].mode # "none"
Base(p) == IF p = <<>> THEN RootName ELSE Last(p)

IsTree(t) ==
  /\ DOMAIN t \subseteq Seq(Nat) /\ IsFiniteSet(DOMAIN t)
  /\ \A p \in DOMAIN t : t[p] \in Nodes
  /\ \A p \in DOMAIN t \ {<<>>} : IsKind(t, Front(p), "dir")

ASSUME ArchiveAssumption ==
  /\ RootName \in Nat /\ Places \subseteq Seq(Nat) /\ Contents \subseteq Seq(Nat)
  /\ \A j \in Jobs :
       /\ IsTree(j.tree) /\ j.changes \in Nat
       /\ j.paths \in Seq(Seq(Nat)) /\ j.exclude \subseteq Seq(SUBSET Nat)
       /\ \A i, k \in 1 .. Len(j.paths) : Numbered(Base(j.paths[i]), k) \in Nat

-----------------------------------------------------------------------------
(* Excludes.  A pattern is a sequence of sets of names: "*.tmp" is the set of
   the names that end so, "*" that of all names and the empty one.  Deep stands
   for "**". *)
Deep == {}
NoName == 0

(* The regular expression of globToRegexp: "**" and a slash is any number of
   directories, at the end it is all that is left.  Rest[i] has the places where
   what the pattern has from i on fits what the path has from there on. *)
Matches(pattern, path) ==
  LET Rest[i \in 1 .. Len(pattern) + 1] ==
        IF i > Len(pattern) THEN {Len(path) + 1}
        ELSE {j \in 1 .. Len(path) + 1 :
                \/ pattern[i] = Deep /\ i = Len(pattern) /\ j <= Len(path)
                \/ /\ pattern[i] = Deep /\ i < Len(pattern)
                   /\ \E k \in Rest[i + 1] : j <= k
                \/ j <= Len(path) /\ path[j] \in pattern[i] /\ j + 1 \in Rest[i + 1]}
  IN  1 \in Rest[1]

(* match: a directory also with a slash behind it *)
MatchedBare(name, isDir) == \E p \in job.exclude : Matches(p, name)
Matched(name, isDir) ==
  \E p \in job.exclude :
    Matches(p, name) \/ (isDir /\ Matches(p, Append(name, NoName)))

-----------------------------------------------------------------------------
Init ==
  /\ job \in Jobs /\ tree = job.tree /\ budget = job.changes /\ touched = {}
  /\ pc = "roots" /\ roots = <<>> /\ todo = <<>> /\ archive = <<>>
  /\ left = <<>> /\ out = <<>> /\ attempt = 0

-----------------------------------------------------------------------------
(* The user *)

Busy == pc \in {"roots", "walk", "copy", "list"}

Change(p, t) ==
  /\ Busy /\ budget > 0 /\ budget' = budget - 1
  /\ tree' = t /\ touched' = touched \cup {p}
  /\ UNCHANGED <<job, pc, walk, restore>>

Unlink(p) ==
  /\ p \in DOMAIN tree
  /\ Change(p, [q \in {r \in DOMAIN tree : ~Under(p, r)} |-> tree[q]])

Place(p, node) ==
  /\ IsKind(tree, Front(p), "dir")
  /\ Change(p, [q \in DOMAIN tree \cup {p} |-> IF q = p THEN node ELSE tree[q]])

WriteFile(p, data) ==
  /\ p \in DOMAIN tree => tree[p].kind = "file"
  /\ Place(p, Node("file", IF p \in DOMAIN tree THEN tree[p].mode ELSE "rw", data))

MakeDir(p) == p \notin DOMAIN tree /\ Place(p, Node("dir", "rw", <<>>))

User == \E p \in Places :
          Unlink(p) \/ MakeDir(p) \/ \E data \in Contents : WriteFile(p, data)

-----------------------------------------------------------------------------
(* writeTarJob and the goroutine around it *)

(* The error goes through both pipes, and the server drops the upload. *)
JobFails == pc' = "failed" /\ UNCHANGED walk

(* tarRoots *)
LstatRoot ==
  /\ pc = "roots" /\ Len(roots) < Len(job.paths)
  /\ LET k == Len(roots) + 1
         p == job.paths[k]
         nth == Cardinality({i \in 1 .. k : Base(job.paths[i]) = Base(p)})
         prefix == IF nth = 1 THEN Base(p) ELSE Numbered(Base(p), nth)
     IN  IF p \in DOMAIN tree
         THEN /\ roots' = Append(roots, [source |-> p, prefix |-> prefix])
              /\ UNCHANGED <<pc, todo, archive>>
         ELSE JobFails
  /\ UNCHANGED <<job, files, restore>>

Before(p, q) ==
  \/ IsStrictPrefix(p, q)
  \/ \E k \in 1 .. Len(p) : /\ k <= Len(q) /\ p[k] < q[k]
                            /\ \A i \in 1 .. k - 1 : p[i] = q[i]

Entry(root, path, kind) == [root |-> root, path |-> path, kind |-> kind]

(* The results of sort.Slice: it does not keep the order of equal sources. *)
Sortings ==
  {f \in [DOMAIN roots -> DOMAIN roots] :
     \A i, j \in DOMAIN roots :
       i < j => f[i] # f[j] /\ ~Before(roots[f[j]].source, roots[f[i]].source)}

StartWalk ==
  /\ pc = "roots" /\ Len(roots) = Len(job.paths)
  /\ \E f \in Sortings :
       todo' = [k \in 1 .. Len(roots) |->
                  LET root == roots[f[k]] IN Entry(root, root.source, "unknown")]
  /\ pc' = "walk"
  /\ UNCHANGED <<job, files, roots, archive, restore>>

Entered == Head(todo)

(* filepath.Rel, seen from the directory the root is in *)
TarPath(root, path) ==
  LET above == Len(root.source) - 1
  IN  IF path = <<>> THEN <<root.prefix>>
      ELSE IF root.source = <<>> THEN path ELSE SubSeq(path, above + 1, Len(path))

EnteredName == TarPath(Entered.root, Entered.path)
Known == pc = "walk" /\ todo # <<>> /\ Entered.kind # "unknown"
Out == Matched(EnteredName, Entered.kind = "dir")

(* WalkDir looks a root up again. *)
BeginRoot ==
  /\ pc = "walk" /\ todo # <<>> /\ Entered.kind = "unknown"
  /\ IF Entered.path \in DOMAIN tree
     THEN /\ todo' = [todo EXCEPT ![1].kind = tree[Entered.path].kind]
          /\ UNCHANGED <<pc, roots, archive>>
     ELSE JobFails
  /\ UNCHANGED <<job, files, restore>>

(* filepath.SkipDir, which would skip the rest of the directory if it were
   returned for a file *)
Siblings == {k \in 1 .. Len(todo) : Front(todo[k].path) = Front(Entered.path)}
LeaveOutSiblings ==
  /\ Known /\ Out
  /\ todo' = SubSeq(todo, Cardinality(Siblings) + 1, Len(todo))
  /\ UNCHANGED <<job, files, pc, roots, archive, restore>>
LeaveOut ==
  /\ Known /\ Out
  /\ todo' = Tail(todo)
  /\ UNCHANGED <<job, files, pc, roots, archive, restore>>

(* An entry is shorter than its header says. *)
Truncated(x) == Len(x.data) < x.size
Short == archive # <<>> /\ Truncated(archive[Len(archive)])

Header(node) ==
  [name |-> EnteredName, kind |-> node.kind, mode |-> node.mode,
   size |-> IF node.kind = "file" THEN Len(node.data) ELSE 0,
   data |-> IF node.kind = "file" THEN <<>> ELSE node.data]

(* There is an entry, and a header can be written for it behind the last file. *)
CanStartAfterShort == Entered.path \in DOMAIN tree /\ tree[Entered.path].kind # "socket"
CanStart == ~Short /\ Entered.path \in DOMAIN tree /\ tree[Entered.path].kind # "socket"

(* From d.Info to WriteHeader.  A link is read in the same step.  WalkDir goes
   down into what was a directory when it was listed. *)
Visit ==
  /\ Known /\ ~Out
  /\ IF ~CanStart THEN JobFails
     ELSE LET node == tree[Entered.path]
              next == CASE node.kind = "file" -> "copy"
                        [] node.kind # "file" /\ Entered.kind = "dir" -> "list"
                        [] OTHER -> "walk"
          IN  /\ archive' = Append(archive, Header(node))
              /\ pc' = next
              /\ todo' = IF next = "walk" THEN Tail(todo) ELSE todo
              /\ UNCHANGED roots
  /\ UNCHANGED <<job, files, restore>>

(* os.Open and io.Copy.  The writer takes no more than the header announced and
   reports what is too much; that something is missing it reports later. *)
Copy ==
  /\ pc = "copy"
  /\ LET p == Entered.path
         opened == IsKind(tree, p, "file") /\ Readable(p)
     IN  IF opened /\ Len(tree[p].data) <= Last(archive).size
         THEN /\ archive' = [archive EXCEPT ![Len(archive)].data = tree[p].data]
              /\ pc' = IF Entered.kind = "dir" THEN "list" ELSE "walk"
              /\ todo' = IF Entered.kind = "dir" THEN todo ELSE Tail(todo)
              /\ UNCHANGED roots
         ELSE JobFails
  /\ UNCHANGED <<job, files, restore>>

Children(p) == {n \in {Last(q) : q \in DOMAIN tree \ {<<>>}} : Append(p, n) \in DOMAIN tree}

(* The names in their order *)
Listings(p) ==
  {f \in [1 .. Cardinality(Children(p)) -> Children(p)] :
     \A i, j \in DOMAIN f : i < j => f[i] < f[j]}

(* os.ReadDir: what the entries are is known from here on *)
List ==
  /\ pc = "list"
  /\ LET p == Entered.path
         entries(names) == [k \in 1 .. Cardinality(Children(p)) |->
                              LET q == Append(p, names[k])
                              IN  Entry(Entered.root, q, tree[q].kind)]
     IN  IF IsKind(tree, p, "dir") /\ Readable(p)
         THEN /\ \E names \in Listings(p) : todo' = entries(names) \o Tail(todo)
              /\ pc' = "walk" /\ UNCHANGED <<roots, archive>>
         ELSE JobFails
  /\ UNCHANGED <<job, files, restore>>

(* The deferred Close of the tar writer: its error is lost, and a file that is
   too short ends the stream. *)
Finish ==
  /\ pc = "walk" /\ todo = <<>>
  /\ pc' = "saved"
  /\ UNCHANGED <<job, files, walk, restore>>

-----------------------------------------------------------------------------
(* extractTar *)

StartRestore ==
  /\ pc \in {"saved", "restored", "broken", "cut"} /\ attempt < 2
  /\ left' = archive /\ attempt' = attempt + 1
  /\ pc' = "extract"
  /\ UNCHANGED <<job, files, walk, out>>

(* The download ends early, or the user stops the client. *)
Interrupt ==
  /\ pc = "extract"
  /\ pc' = "cut"
  /\ UNCHANGED <<job, files, walk, restore>>

Writable(p) == p = <<>> \/ (IsKind(out, p, "dir") /\ out[p].mode = "rw")
Ahead == Head(left)
Target == Ahead.name

(* MkdirAll of a directory whose parent is there *)
CanMakeDir == IsKind(out, Target, "dir") \/ (Target \notin DOMAIN out /\ Writable(Front(Target)))

CanOpenAnything == Target \in DOMAIN out \/ Writable(Front(Target))
CanOpen == \/ IsKind(out, Target, "file") /\ out[Target].mode = "rw"
           \/ Target \notin DOMAIN out /\ Writable(Front(Target))

(* os.Remove and os.Symlink *)
EmptyDir(p) == ~\E q \in DOMAIN out : IsStrictPrefix(p, q)
CanLinkOnce == Writable(Front(Target)) /\ Target \notin DOMAIN out
CanLink == /\ Writable(Front(Target))
           /\ IsKind(out, Target, "dir") => EmptyDir(Target)

(* What is there keeps its mode. *)
Extracted ==
  CASE IsKind(out, Target, Ahead.kind) /\ Ahead.kind # "link" ->
         [out[Target] EXCEPT !.data = Ahead.data]
    [] OTHER -> Node(Ahead.kind, Ahead.mode, Ahead.data)

Extract ==
  /\ pc = "extract" /\ left # <<>>
  /\ LET possible == CASE Ahead.kind = "dir" -> CanMakeDir
                       [] Ahead.kind = "file" -> CanOpen
                       [] Ahead.kind = "link" -> CanLink
                       [] OTHER -> TRUE
     IN  /\ out' = IF possible /\ Ahead.kind \in {"dir", "file", "link"}
                   THEN [p \in DOMAIN out \cup {Target} |->
                           IF p = Target THEN Extracted ELSE out[p]]
                   ELSE out
         /\ IF possible /\ ~Truncated(Ahead)
            THEN left' = Tail(left) /\ UNCHANGED pc
            ELSE pc' = "broken" /\ UNCHANGED left
  /\ UNCHANGED <<job, files, walk, attempt>>

EndRestore ==
  /\ pc = "extract" /\ left = <<>>
  /\ pc' = "restored"
  /\ UNCHANGED <<job, files, walk, restore>>

Client == \/ LstatRoot \/ StartWalk \/ BeginRoot \/ LeaveOut \/ Visit \/ Copy
          \/ List \/ Finish \/ StartRestore \/ Interrupt \/ Extract \/ EndRestore

Next == Client \/ User

Spec == Init /\ [][Next]_vars

-----------------------------------------------------------------------------
(* Properties *)

Untouched(p) == \A q \in touched : ~Under(q, p)

ArchiveTypeOK ==
  /\ job \in Jobs /\ budget \in 0 .. job.changes /\ touched \subseteq Places
  /\ pc \in {"roots", "walk", "copy", "list", "failed", "saved", "extract",
             "cut", "restored", "broken"}
  /\ \A p \in DOMAIN tree \ {<<>>} : IsKind(tree, Front(p), "dir")
  /\ \A p \in DOMAIN out : Len(p) > 1 => IsKind(out, Front(p), "dir")
  /\ IsSuffix(left, archive) /\ attempt \in 0 .. 2

(* What the excludes of the README name is never archived: with "**/g/**" no
   directory g, wherever it lies, and nothing in it, with "**/*.tmp" nothing of
   such a name and nothing below it, even while the tree changes.  A file that
   has become a directory since it was listed is the exception (README.md:101-108,
   main.go:638-643, 720-746). *)
IgnoredStaysOut ==
  \A k \in 1 .. Len(archive) :
    LET x == archive[k] IN
    \A S \in {p[2] : p \in {q \in job.exclude : Len(q) > 1 /\ q[1] = Deep}} :
      /\ <<Deep, S>> \in job.exclude => \A i \in 1 .. Len(x.name) : x.name[i] \notin S
      /\ <<Deep, S, Deep>> \in job.exclude =>
           /\ \A i \in 1 .. Len(x.name) - 1 : x.name[i] \notin S
           /\ (x.kind = "dir" /\ touched = {}) => Last(x.name) \notin S

(* Only the last file of an archive may be short: if any other shrinks while it
   is read the job fails, and no version is saved
   (main.go:563-582, 664-676). *)
OnlyTheLastIsShort ==
  \A k \in 1 .. Len(archive) - 1 : ~Truncated(archive[k])

(* What is restored is the tree the job saw, wherever nobody touched it during
   the job: no entry is missing, added or different, whatever happened in the
   rest of the tree, also if a restore was interrupted and repeated.  The roots
   must have different names, and the root of the file system, which is archived
   as "root", no entry of that name (main.go:603-613, 630-637). *)
DistinctRoots ==
  /\ \A i, j \in 1 .. Len(roots) :
       Base(roots[i].source) = Base(roots[j].source) => i = j
  /\ Len(roots) > 1 => \A i \in 1 .. Len(roots) : roots[i].source # <<>>
  /\ \A i \in 1 .. Len(roots) :
       roots[i].source = <<>> => <<roots[i].prefix>> \notin DOMAIN job.tree \cup touched

Ignored(r, p) ==
  \E l \in Len(r.source) .. Len(p) :
    LET q == SubSeq(p, 1, l) IN Matched(TarPath(r, q), job.tree[q].kind = "dir")

UntouchedComesBack ==
  (pc = "restored" /\ DistinctRoots) =>
    /\ \A k \in 1 .. Len(roots) :
         \A p \in {q \in DOMAIN job.tree : Under(roots[k].source, q) /\ Untouched(q)} :
           LET name == TarPath(roots[k], p)
           IN  IF Ignored(roots[k], p) \/ job.tree[p].kind = "fifo"
               THEN name \notin DOMAIN out
               ELSE name \in DOMAIN out /\ out[name] = job.tree[p]
    /\ \A n \in DOMAIN out : \E k \in 1 .. Len(archive) : archive[k].name = n

(* A restore breaks off for five causes only: the last file was cut short, a
   directory without write permission has entries (main.go:771), a directory was
   something else for a moment and is archived as that, with entries behind it
   (main.go:645-657), two entries had one name and differ in kind or are files
   without write permission, below two roots of one name or as the root of the file
   system and /root (main.go:604-617, 634), or a file without write permission is
   restored again (main.go:778). *)
BreaksForCause ==
  pc = "broken" =>
    \/ Short
    \/ \E i, j \in 1 .. Len(archive) :
         /\ archive[i].kind = "dir" => archive[i].mode # "rw"
         /\ IsStrictPrefix(archive[i].name, archive[j].name)
    \/ \E i, j \in 1 .. Len(archive) :
         /\ i # j /\ archive[i].name = archive[j].name
         /\ \/ archive[i].kind # archive[j].kind
            \/ archive[i].kind = "file" /\ archive[i].mode # "rw"
    \/ /\ attempt = 2
       /\ \E i \in 1 .. Len(archive) : archive[i].kind = "file" /\ archive[i].mode # "rw"
=============================================================================
