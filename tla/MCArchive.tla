------------------------------ MODULE MCArchive -------------------------------
(* The instance of Archive that TLC checks: directories with what the excludes
   of the README name, one with a read-only directory, a link and a pipe, two
   directories of one name, single files, and the whole file system. *)
EXTENDS Archive, TLC

Docs == 1
Git == 2
Tmp == 3
A == 4
B == 5

Dir == Node("dir", "rw", <<>>)
Locked == Node("dir", "r", <<>>)
File == Node("file", "rw", <<1>>)
Big == Node("file", "rw", <<1, 1>>)
Fixed == Node("file", "r", <<1>>)
Hidden == Node("file", "none", <<1>>)
Link == Node("link", "rw", <<1>>)
Root == <<>> :> Dir

Project == Root @@ <<Docs>> :> Dir @@ <<Docs, Git>> :> Dir @@ <<Docs, Git, A>> :> File
             @@ <<Docs, Tmp>> :> File @@ <<Docs, A>> :> Big @@ <<Docs, B>> :> Fixed
Submodule == Root @@ <<Docs>> :> Dir @@ <<Docs, Git>> :> File @@ <<Docs, A>> :> Dir
Deeper == Root @@ <<Docs>> :> Dir @@ <<Docs, A>> :> Dir @@ <<Docs, A, Git>> :> Dir
            @@ <<Docs, A, Git, B>> :> File @@ <<Docs, A, Tmp>> :> Dir
            @@ <<Docs, A, Tmp, A>> :> File @@ <<Docs, B>> :> Link
ReadOnly == Root @@ <<A>> :> Dir @@ <<A, A>> :> Locked @@ <<A, A, B>> :> File
Special(kind) == Root @@ <<A>> :> Dir @@ <<A, A>> :> Node(kind, "rw", <<>>) @@ <<A, B>> :> Link
Unreadable == Root @@ <<A>> :> Dir @@ <<A, A>> :> Hidden
Twice == Root @@ <<A>> :> Dir @@ <<B>> :> Dir
           @@ <<A, Docs>> :> Dir @@ <<A, Docs, A>> :> File
           @@ <<B, Docs>> :> Dir @@ <<B, Docs, A>> :> Big @@ <<B, Docs, B>> :> File
Clash == Root @@ <<A>> :> Dir @@ <<B>> :> Dir
           @@ <<A, Docs>> :> File @@ <<B, Docs>> :> Dir @@ <<B, Docs, B>> :> File
Clashing == Root @@ <<A>> :> Dir @@ <<B>> :> Dir
              @@ <<A, Docs>> :> Dir @@ <<A, Docs, A>> :> File @@ <<B, Docs>> :> File

Star == {NoName, Docs, Git, Tmp, A, B}
Documented == {<<Deep, {Git}, Deep>>, <<Deep, {Tmp}>>}

Job(t, paths, exclude, changes) ==
  [tree |-> t, paths |-> paths, exclude |-> exclude, changes |-> changes]

MCJobs ==
  {Job(Project, <<<<Docs>>>>, e, 3) : e \in {Documented, {<<{Docs}, Star>>}}}
    \cup {Job(t, <<<<Docs>>>>, Documented, 3) : t \in {Deeper, Submodule}}
    \cup {Job(t, <<<<A>>>>, e, 1) : t \in {ReadOnly, Special("fifo"), Special("socket"), Unreadable},
                                    e \in {{}, {<<{A}, {A}>>}}}
    \cup {Job(t, <<<<B, Docs>>, <<A, Docs>>>>, {}, 1) : t \in {Twice, Clash, Clashing}}
    \cup {Job(Project, <<<<Docs, A>>, <<Docs, B>>>>, {}, 2)}
    \cup {Job(Twice, <<<<A>>, <<B>>>>, {<<{B}, Deep>>}, 2)}
    \cup {Job(ReadOnly, p, {}, 1) : p \in {<<<<>>>>, <<<<>>, <<>>>>}}
    \cup {Job(Root @@ <<A>> :> Dir, <<<<A>>>>, {}, 5)}
    \cup {Job(Root @@ <<A>> :> File @@ <<RootName>> :> Locked, <<<<>>>>, {}, 1)}

MCNumbered(name, k) == 10 * name + k
MCPlaces == {<<Docs, A>>, <<Docs, B>>, <<Docs, Git>>, <<Docs, Tmp>>, <<Docs, A, Tmp>>,
             <<A, A>>, <<A, Docs, A>>, <<B, Docs, B>>, <<Docs>>, <<A>>}
MCContents == {<<>>, <<2>>, <<2, 2, 2>>}
=============================================================================
