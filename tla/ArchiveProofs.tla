------------------------------ MODULE ArchiveProofs -----------------------------
(* What holds of every archive a job writes and of every restore, for all
   trees, excludes, places and contents, and however often the user
   interferes. *)
EXTENDS Archive, Sums, SequenceTheorems

-----------------------------------------------------------------------------
(* Sequences and names *)

LEMMA NoneInEmpty == \A S : \A s \in Seq(S) : s # <<>> <=> Len(s) > 0
<1> SUFFICES ASSUME NEW S, NEW s \in Seq(S) PROVE s # <<>> <=> Len(s) > 0
  OBVIOUS
<1>1. Len(s) \in Nat /\ s = [i \in 1 .. Len(s) |-> s[i]]
  OBVIOUS
<1>2. Len(s) = 0 => s = <<>>
  BY <1>1
<1>3. Len(<<>>) = 0
  OBVIOUS
<1> QED
  BY <1>1, <1>2, <1>3

LEMMA FrontOf ==
  ASSUME NEW S, NEW s \in Seq(S), s # <<>>
  PROVE  /\ Front(s) \in Seq(S) /\ Len(Front(s)) = Len(s) - 1
         /\ \A i \in 1 .. Len(s) - 1 : Front(s)[i] = s[i]
         /\ Last(s) = s[Len(s)] /\ Last(s) \in S
         /\ Front(s) # s /\ IsStrictPrefix(Front(s), s)
<1>1. Len(s) \in Nat /\ Len(s) > 0
  BY NoneInEmpty
<1>2. /\ Front(s) \in Seq(S) /\ Len(Front(s)) = Len(s) - 1
      /\ \A i \in 1 .. Len(s) - 1 : Front(s)[i] = s[i]
  <2>1. \A i \in 1 .. Len(s) - 1 : s[i] \in S
    BY <1>1
  <2>2. 1 \in Int /\ Len(s) - 1 \in Int
    BY <1>1
  <2> DEFINE f == SubSeq(s, 1, Len(s) - 1)
  <2>3. /\ f \in Seq(S) /\ Len(f) = IF 1 <= Len(s) - 1 THEN Len(s) - 1 - 1 + 1 ELSE 0
        /\ \A i \in 1 .. Len(s) - 1 - 1 + 1 : f[i] = s[1 + i - 1]
    BY <2>1, <2>2, SubSeqProperties
  <2> HIDE DEF f
  <2>4. Len(s) - 1 - 1 + 1 = Len(s) - 1 /\ (1 <= Len(s) - 1 \/ Len(s) - 1 = 0)
    <3>1. \A n \in Nat : n > 0 => n - 1 - 1 + 1 = n - 1 /\ (1 <= n - 1 \/ n - 1 = 0)
      OBVIOUS
    <3> QED
      BY <1>1, <3>1
  <2>5. Len(f) = Len(s) - 1
    BY <2>3, <2>4
  <2>6. ASSUME NEW i \in 1 .. Len(s) - 1 PROVE f[i] = s[i]
    <3>1. 1 + i - 1 = i
      BY <1>1
    <3>2. f[i] = s[1 + i - 1]
      BY <2>3, <2>4
    <3> QED
      BY <3>1, <3>2
  <2> QED
    BY <2>3, <2>5, <2>6 DEF Front, f
<1>3. Last(s) = s[Len(s)] /\ Last(s) \in S
  BY <1>1 DEF Last
<1>4. Front(s) # s
  BY <1>1, <1>2
<1>5. IsPrefix(Front(s), s)
  <2> DEFINE n == Len(s) - 1
             f == Front(s)
  <2>1. n \in Nat /\ Len(f) = n /\ n <= Len(s)
    BY <1>1, <1>2
  <2>2. /\ SubSeq(f, 1, n) \in Seq(S) /\ Len(SubSeq(f, 1, n)) = n
        /\ \A i \in 1 .. n : SubSeq(f, 1, n)[i] = f[i]
    <3> HIDE DEF n, f
    <3>1. f \in Seq(S)
      BY <1>2 DEF f
    <3> QED
      BY <2>1, <3>1
  <2>3. /\ SubSeq(s, 1, n) \in Seq(S) /\ Len(SubSeq(s, 1, n)) = n
        /\ \A i \in 1 .. n : SubSeq(s, 1, n)[i] = s[i]
    <3> HIDE DEF n
    <3> QED
      BY <2>1
  <2>4. SubSeq(f, 1, n) = SubSeq(s, 1, n)
    <3>1. \A i \in 1 .. n : f[i] = s[i]
      BY <1>2
    <3> HIDE DEF n, f
    <3> QED
      BY <2>2, <2>3, <3>1
  <2>5. Len(f) <= Len(s) /\ SubSeq(f, 1, Len(f)) = SubSeq(s, 1, Len(f))
    <3> HIDE DEF f
    <3>1. Len(f) = n
      BY <2>1
    <3>2. SubSeq(f, 1, Len(f)) = SubSeq(s, 1, Len(f))
      BY <2>4, <3>1, Zenon
    <3> QED
      BY <2>1, <3>2
  <2> QED
    BY <2>5 DEF IsPrefix
<1> QED
  BY <1>2, <1>3, <1>4, <1>5 DEF IsStrictPrefix

LEMMA FrontAppend ==
  ASSUME NEW S, NEW s \in Seq(S), NEW x \in S
  PROVE  /\ Append(s, x) \in Seq(S) /\ Append(s, x) # <<>>
         /\ Front(Append(s, x)) = s /\ Last(Append(s, x)) = x
<1> DEFINE t == Append(s, x)
<1>1. /\ t \in Seq(S) /\ Len(t) = Len(s) + 1 /\ t[Len(s) + 1] = x
      /\ \A i \in 1 .. Len(s) : t[i] = s[i]
      /\ Len(s) \in Nat
  OBVIOUS
<1> HIDE DEF t
<1>2. t # <<>>
  BY <1>1, NoneInEmpty
<1>3. /\ Front(t) \in Seq(S) /\ Len(Front(t)) = Len(s)
      /\ \A i \in 1 .. Len(s) : Front(t)[i] = s[i]
  BY <1>1, <1>2, FrontOf
<1>4. Front(t) = s
  BY <1>1, <1>3
<1>5. Last(t) = x
  BY <1>1 DEF Last
<1> QED
  BY <1>1, <1>2, <1>4, <1>5 DEF t

(* What lies below p lies below what p lies below. *)
LEMMA PrefixOfFront ==
  ASSUME NEW S, NEW p \in Seq(S), NEW q \in Seq(S), q # <<>>, IsPrefix(p, Front(q))
  PROVE  IsPrefix(p, q)
<1> DEFINE f == Front(q)
<1>1. /\ f \in Seq(S) /\ Len(f) = Len(q) - 1 /\ Len(q) \in Nat /\ Len(p) \in Nat
      /\ \A i \in 1 .. Len(q) - 1 : f[i] = q[i]
  BY FrontOf
<1> HIDE DEF f
<1>2. Len(p) <= Len(f) /\ SubSeq(p, 1, Len(p)) = SubSeq(f, 1, Len(p))
  BY DEF IsPrefix, f
<1>3. Len(p) <= Len(q)
  BY <1>1, <1>2
<1>4. /\ SubSeq(f, 1, Len(p)) \in Seq(S) /\ Len(SubSeq(f, 1, Len(p))) = Len(p)
      /\ \A i \in 1 .. Len(p) : SubSeq(f, 1, Len(p))[i] = f[i]
  BY <1>1, <1>2
<1>5. /\ SubSeq(q, 1, Len(p)) \in Seq(S) /\ Len(SubSeq(q, 1, Len(p))) = Len(p)
      /\ \A i \in 1 .. Len(p) : SubSeq(q, 1, Len(p))[i] = q[i]
  BY <1>1, <1>3
<1>6. SubSeq(f, 1, Len(p)) = SubSeq(q, 1, Len(p))
  <2>1. \A i \in 1 .. Len(p) : f[i] = q[i]
    BY <1>1, <1>2
  <2> QED
    BY <1>1, <1>4, <1>5, <2>1
<1> QED
  BY <1>2, <1>3, <1>6 DEF IsPrefix

(* The names of a root and of what is in a directory *)
LEMMA RootName1 ==
  ASSUME NEW r \in [source: Seq(Nat), prefix: Nat]
  PROVE  TarPath(r, r.source) \in Seq(Nat) /\ Len(TarPath(r, r.source)) = 1
<1> DEFINE p == r.source
<1>1. p \in Seq(Nat) /\ r.prefix \in Nat
  OBVIOUS
<1> HIDE DEF p
<1>2. CASE p = <<>>
  BY <1>1, <1>2 DEF TarPath, p
<1>3. CASE p # <<>>
  <2>1. Len(p) \in Nat /\ Len(p) > 0
    BY <1>1, <1>3, NoneInEmpty
  <2>2. TarPath(r, p) = SubSeq(p, Len(p) - 1 + 1, Len(p))
    BY <1>3 DEF TarPath, p
  <2>3. Len(p) - 1 + 1 = Len(p)
    BY <2>1
  <2>4. SubSeq(p, Len(p), Len(p)) \in Seq(Nat) /\ Len(SubSeq(p, Len(p), Len(p))) = 1
    BY <1>1, <2>1
  <2> QED
    BY <2>2, <2>3, <2>4 DEF p
<1> QED
  BY <1>2, <1>3

LEMMA NameType ==
  ASSUME NEW r \in [source: Seq(Nat), prefix: Nat], NEW p \in Seq(Nat),
         Len(r.source) <= Len(p)
  PROVE  TarPath(r, p) \in Seq(Nat) /\ TarPath(r, p) # <<>>
<1> DEFINE a == r.source
<1>1. a \in Seq(Nat) /\ r.prefix \in Nat /\ Len(a) <= Len(p) /\ Len(a) \in Nat /\ Len(p) \in Nat
  OBVIOUS
<1> HIDE DEF a
<1>2. CASE p = <<>>
  <2>1. TarPath(r, p) = <<r.prefix>>
    BY <1>2 DEF TarPath
  <2>2. <<r.prefix>> \in Seq(Nat) /\ Len(<<r.prefix>>) = 1
    BY <1>1
  <2> QED
    BY <2>1, <2>2, NoneInEmpty
<1>3. CASE p # <<>> /\ a = <<>>
  BY <1>3 DEF TarPath, a
<1>4. CASE p # <<>> /\ a # <<>>
  <2>1. Len(a) > 0
    BY <1>1, <1>4, NoneInEmpty
  <2>2. TarPath(r, p) = SubSeq(p, Len(a) - 1 + 1, Len(p))
    BY <1>4 DEF TarPath, a
  <2>3. Len(a) - 1 + 1 = Len(a)
    BY <1>1
  <2>4. /\ SubSeq(p, Len(a), Len(p)) \in Seq(Nat)
        /\ Len(SubSeq(p, Len(a), Len(p))) = Len(p) - Len(a) + 1
    BY <1>1, <2>1
  <2>5. Len(SubSeq(p, Len(a), Len(p))) > 0
    BY <1>1, <2>4
  <2> QED
    BY <2>2, <2>3, <2>4, <2>5, NoneInEmpty
<1> QED
  BY <1>2, <1>3, <1>4

LEMMA ChildName ==
  ASSUME NEW r \in [source: Seq(Nat), prefix: Nat], NEW p \in Seq(Nat),
         Len(r.source) <= Len(p), NEW n \in Nat
  PROVE  LET name == TarPath(r, Append(p, n))
         IN  Len(name) = 1 \/ name = Append(TarPath(r, p), n)
<1> DEFINE a == r.source
           q == Append(p, n)
<1>1. a \in Seq(Nat) /\ Len(a) <= Len(p) /\ Len(a) \in Nat /\ Len(p) \in Nat
  OBVIOUS
<1>2. /\ q \in Seq(Nat) /\ Len(q) = Len(p) + 1 /\ q[Len(p) + 1] = n
      /\ \A i \in 1 .. Len(p) : q[i] = p[i]
  OBVIOUS
<1>3. q # <<>>
  BY AppendProperties
<1> HIDE DEF a
<1>4. CASE a = <<>> /\ p = <<>>
  <2>1. TarPath(r, q) = q
    BY <1>3, <1>4 DEF TarPath, a
  <2>2. Len(q) = 1
    BY <1>4
  <2> QED
    BY <2>1, <2>2
<1>5. CASE a = <<>> /\ p # <<>>
  <2>1. TarPath(r, q) = q
    BY <1>3, <1>5 DEF TarPath, a
  <2>2. TarPath(r, p) = p
    BY <1>5 DEF TarPath, a
  <2> QED
    BY <2>1, <2>2
<1>6. CASE a # <<>>
  <2>1. Len(a) > 0 /\ Len(p) > 0 /\ p # <<>>
    BY <1>1, <1>6, NoneInEmpty
  <2>2. Len(a) - 1 + 1 = Len(a)
    BY <1>1
  <2>3. TarPath(r, q) = SubSeq(q, Len(a), Len(q))
    BY <1>3, <1>6, <2>2 DEF TarPath, a
  <2>4. TarPath(r, p) = SubSeq(p, Len(a), Len(p))
    BY <1>6, <2>1, <2>2 DEF TarPath, a
  <2> HIDE DEF q
  <2> DEFINE u == SubSeq(p, Len(a), Len(p))
             v == SubSeq(q, Len(a), Len(q))
  <2>5. /\ u \in Seq(Nat) /\ Len(u) = Len(p) - Len(a) + 1
        /\ \A i \in 1 .. Len(p) - Len(a) + 1 : u[i] = p[Len(a) + i - 1]
    BY <1>1, <2>1
  <2>6. /\ v \in Seq(Nat) /\ Len(v) = Len(q) - Len(a) + 1
        /\ \A i \in 1 .. Len(q) - Len(a) + 1 : v[i] = q[Len(a) + i - 1]
    <3>1. q \in Seq(Nat) /\ Len(q) \in Nat /\ Len(a) \in 1 .. Len(q)
      BY <1>1, <1>2, <2>1
    <3>2. \A i \in Len(a) .. Len(q) : q[i] \in Nat
      BY <1>1, <2>1, <3>1
    <3>3. Len(a) \in Int /\ Len(q) \in Int /\ Len(a) <= Len(q)
      BY <3>1
    <3> QED
      BY <3>2, <3>3, SubSeqProperties DEF v
  <2> HIDE DEF u, v
  <2> DEFINE w == Append(u, n)
  <2>7. /\ w \in Seq(Nat) /\ Len(w) = Len(u) + 1 /\ w[Len(u) + 1] = n
        /\ \A i \in 1 .. Len(u) : w[i] = u[i]
    BY <2>5
  <2> HIDE DEF w
  <2>8. Len(v) = Len(w)
    BY <1>1, <1>2, <2>5, <2>6, <2>7
  <2>9. ASSUME NEW i \in 1 .. Len(v) PROVE v[i] = w[i]
    <3>1. CASE i \in 1 .. Len(u)
      <4>1. Len(a) + i - 1 \in 1 .. Len(p)
        BY <1>1, <2>1, <2>5, <3>1
      <4> QED
        BY <1>2, <2>5, <2>6, <2>7, <2>9, <3>1, <4>1
    <3>2. CASE i = Len(u) + 1
      <4>1. Len(a) + i - 1 = Len(p) + 1
        BY <1>1, <2>5, <3>2
      <4> QED
        BY <1>2, <2>6, <2>7, <2>9, <3>2, <4>1
    <3> QED
      BY <2>5, <2>7, <2>8, <3>1, <3>2
  <2>10. v = w
    <3>1. \A i \in 1 .. Len(v) : v[i] = w[i]
      BY <2>9
    <3>2. v \in Seq(Nat) /\ w \in Seq(Nat)
      BY <2>6, <2>7
    <3> QED
      BY <2>8, <3>1, <3>2, SeqEqual
  <2> QED
    BY <2>3, <2>4, <2>10 DEF u, v, w, q
<1> QED
  BY <1>4, <1>5, <1>6

-----------------------------------------------------------------------------
(* Excludes: the two forms of the README *)

(* The function that Matches evaluates exists. *)
Fits(pattern, path, i, next) ==
  {j \in 1 .. Len(path) + 1 :
     \/ pattern[i] = Deep /\ i = Len(pattern) /\ j <= Len(path)
     \/ /\ pattern[i] = Deep /\ i < Len(pattern)
        /\ \E k \in next : j <= k
     \/ j <= Len(path) /\ path[j] \in pattern[i] /\ j + 1 \in next}

MatchTable(M, pattern, path) ==
  M = [i \in 1 .. Len(pattern) + 1 |->
         IF i > Len(pattern) THEN {Len(path) + 1}
         ELSE Fits(pattern, path, i, M[i + 1])]

LEMMA MatchExists ==
  ASSUME NEW pattern, NEW path, Len(pattern) \in Nat
  PROVE  \E M : MatchTable(M, pattern, path)
<1> DEFINE L == Len(pattern)
           I == 1 .. L + 1
           At(M, i) == IF i > L THEN {Len(path) + 1} ELSE Fits(pattern, path, i, M[i + 1])
           Part(M, n) == \A i \in I : i + n >= L + 1 => M[i] = At(M, i)
           C == {n \in Nat : \E M : Part(M, n)}
<1>1. 0 \in C
  <2> DEFINE M == [i \in I |-> {Len(path) + 1}]
  <2>1. ASSUME NEW i \in I, i + 0 >= L + 1 PROVE M[i] = At(M, i)
    BY <2>1
  <2>2. Part(M, 0)
    <3> HIDE DEF M, At
    <3> QED
      BY <2>1
  <2>3. \E N : Part(N, 0)
    <3> HIDE DEF M, Part
    <3> QED
      BY <2>2
  <2> QED
    BY <2>3
<1>2. ASSUME NEW n \in Nat, n \in C PROVE n + 1 \in C
  <2>1. PICK N : Part(N, n)
    BY <1>2
  <2> DEFINE M == [i \in I |-> IF i + n >= L + 1 THEN N[i] ELSE At(N, i)]
  <2>2. \A i \in I : M[i] = IF i + n >= L + 1 THEN N[i] ELSE At(N, i)
    <3> HIDE DEF At
    <3> QED
      OBVIOUS
  <2> HIDE DEF M
  <2>3. ASSUME NEW i \in I, i + (n + 1) >= L + 1 PROVE M[i] = At(M, i)
    <3>1. i <= L => i + 1 \in I /\ (i + 1) + n >= L + 1
      BY <2>3
    <3>2. i <= L => M[i + 1] = N[i + 1]
      <4> HIDE DEF At, I
      <4> QED
        BY <2>2, <3>1
    <3>3. At(M, i) = At(N, i)
      BY <3>2
    <3>4. i + n >= L + 1 => N[i] = At(N, i)
      <4> HIDE DEF At
      <4> QED
        BY <2>1
    <3> HIDE DEF At
    <3> QED
      BY <2>2, <3>3, <3>4
  <2>4. Part(M, n + 1)
    <3> HIDE DEF At
    <3> QED
      BY <2>3
  <2>5. \E K : Part(K, n + 1)
    <3> HIDE DEF Part
    <3> QED
      BY <2>4
  <2> HIDE DEF Part
  <2> QED
    BY <2>5
<1>3. L \in C
  <2> HIDE DEF C
  <2> QED
    BY <1>1, <1>2, SetOfNaturals
<1>4. PICK N : Part(N, L)
  BY <1>3
<1> DEFINE M == [i \in I |-> N[i]]
<1>5. \A i \in I : M[i] = N[i]
  OBVIOUS
<1>6. M = [i \in I |-> M[i]]
  OBVIOUS
<1> HIDE DEF M
<1>7. ASSUME NEW i \in I PROVE M[i] = At(M, i)
  <2>1. i + L >= L + 1 /\ (i <= L => i + 1 \in I)
    OBVIOUS
  <2>2. N[i] = At(N, i)
    <3> HIDE DEF At
    <3> QED
      BY <1>4, <2>1
  <2>3. i <= L => M[i + 1] = N[i + 1]
    <3> HIDE DEF I
    <3> QED
      BY <1>5, <2>1
  <2>4. At(M, i) = At(N, i)
    BY <2>3
  <2> HIDE DEF At
  <2> QED
    BY <1>5, <2>2, <2>4
<1>8. M = [i \in I |-> At(M, i)]
  <2> HIDE DEF At
  <2> QED
    BY <1>6, <1>7
<1>9. MatchTable(M, pattern, path)
  BY <1>8 DEF MatchTable
<1> QED
  BY <1>9

LEMMA MatchesTable ==
  ASSUME NEW pattern, NEW path, Len(pattern) \in Nat
  PROVE  \E M : MatchTable(M, pattern, path) /\ (Matches(pattern, path) <=> 1 \in M[1])
<1> DEFINE M == CHOOSE N : MatchTable(N, pattern, path)
<1>1. MatchTable(M, pattern, path)
  <2>1. \E N : MatchTable(N, pattern, path)
    BY MatchExists
  <2> QED
    BY <2>1
<1>2. Matches(pattern, path) <=> 1 \in M[1]
  BY DEF Matches, MatchTable, Fits
<1> HIDE DEF M
<1> QED
  BY <1>1, <1>2

(* "**/*.tmp" *)
LEMMA DeepName ==
  ASSUME NEW S, NEW path \in Seq(Nat), path # <<>>, Last(path) \in S
  PROVE  Matches(<<Deep, S>>, path)
<1> DEFINE pattern == <<Deep, S>>
           n == Len(path)
<1>1. Len(pattern) = 2 /\ pattern[1] = Deep /\ pattern[2] = S
  OBVIOUS
<1>2. n = Len(path) /\ n \in Nat /\ n > 0 /\ path[n] \in S
  BY NoneInEmpty DEF Last
<1> HIDE DEF pattern, n
<1>3. PICK M : MatchTable(M, pattern, path) /\ (Matches(pattern, path) <=> 1 \in M[1])
  <2>1. Len(pattern) \in Nat
    BY <1>1
  <2> QED
    BY <2>1, MatchesTable
<1>4. /\ M[3] = {n + 1} /\ M[2] = Fits(pattern, path, 2, M[3])
      /\ M[1] = Fits(pattern, path, 1, M[2])
  <2> USE <1>1, <1>3
  <2>0. ASSUME NEW i \in 1 .. Len(pattern) + 1
        PROVE  /\ i > Len(pattern) => M[i] = {Len(path) + 1}
               /\ i <= Len(pattern) => M[i] = Fits(pattern, path, i, M[i + 1])
    <3>1. M[i] = IF i > Len(pattern) THEN {Len(path) + 1}
                 ELSE Fits(pattern, path, i, M[i + 1])
      BY Zenon DEF MatchTable
    <3> QED
      BY <3>1
  <2>1. M[3] = {n + 1}
    <3>1. 3 \in 1 .. Len(pattern) + 1 /\ 3 > Len(pattern) /\ Len(pattern) \in Nat
      OBVIOUS
    <3>2. M[3] = {Len(path) + 1}
      BY <2>0, <3>1
    <3> QED
      BY <1>2, <3>2
  <2>2. M[2] = Fits(pattern, path, 2, M[2 + 1])
    <3>1. 2 \in 1 .. Len(pattern) + 1 /\ 2 <= Len(pattern) /\ Len(pattern) \in Nat
      OBVIOUS
    <3> QED
      BY <2>0, <3>1
  <2>3. M[1] = Fits(pattern, path, 1, M[1 + 1])
    <3>1. 1 \in 1 .. Len(pattern) + 1 /\ 1 <= Len(pattern) /\ Len(pattern) \in Nat
      OBVIOUS
    <3> QED
      BY <2>0, <3>1
  <2>4. 2 + 1 = 3 /\ 1 + 1 = 2
    OBVIOUS
  <2> QED
    BY <2>1, <2>2, <2>3, <2>4
<1>5. n \in M[2]
  BY <1>1, <1>2, <1>4 DEF Fits
<1>6. 1 \in M[1]
  BY <1>1, <1>2, <1>4, <1>5 DEF Fits
<1> QED
  BY <1>3, <1>6 DEF pattern

(* "**/.git/**", for a directory *)
LEMMA DeepDir ==
  ASSUME NEW S, NEW name \in Seq(Nat), name # <<>>, Last(name) \in S
  PROVE  Matches(<<Deep, S, Deep>>, Append(name, NoName))
<1> DEFINE pattern == <<Deep, S, Deep>>
           path == Append(name, NoName)
           n == Len(name)
<1>1. Len(pattern) = 3 /\ pattern[1] = Deep /\ pattern[2] = S /\ pattern[3] = Deep
  OBVIOUS
<1>2. n \in Nat /\ n > 0 /\ name[n] \in S
  BY NoneInEmpty DEF Last
<1>3. Len(path) = n + 1 /\ path[n] = name[n]
  BY <1>2
<1> HIDE DEF pattern, n, path
<1>4. PICK M : MatchTable(M, pattern, path) /\ (Matches(pattern, path) <=> 1 \in M[1])
  <2>1. Len(pattern) \in Nat
    BY <1>1
  <2> QED
    BY <2>1, MatchesTable
<1>5. /\ M[3] = Fits(pattern, path, 3, M[4]) /\ M[2] = Fits(pattern, path, 2, M[3])
      /\ M[1] = Fits(pattern, path, 1, M[2])
  <2> USE <1>1, <1>4
  <2>0. ASSUME NEW i \in 1 .. Len(pattern) + 1
        PROVE  /\ i > Len(pattern) => M[i] = {Len(path) + 1}
               /\ i <= Len(pattern) => M[i] = Fits(pattern, path, i, M[i + 1])
    <3>1. M[i] = IF i > Len(pattern) THEN {Len(path) + 1}
                 ELSE Fits(pattern, path, i, M[i + 1])
      BY Zenon DEF MatchTable
    <3> QED
      BY <3>1
  <2>1. M[1] = Fits(pattern, path, 1, M[1 + 1])
    <3>1. 1 \in 1 .. Len(pattern) + 1 /\ 1 <= Len(pattern) /\ Len(pattern) \in Nat
      OBVIOUS
    <3> QED
      BY <2>0, <3>1
  <2>2. M[2] = Fits(pattern, path, 2, M[2 + 1])
    <3>1. 2 \in 1 .. Len(pattern) + 1 /\ 2 <= Len(pattern) /\ Len(pattern) \in Nat
      OBVIOUS
    <3> QED
      BY <2>0, <3>1
  <2>3. M[3] = Fits(pattern, path, 3, M[3 + 1])
    <3>1. 3 \in 1 .. Len(pattern) + 1 /\ 3 <= Len(pattern) /\ Len(pattern) \in Nat
      OBVIOUS
    <3> QED
      BY <2>0, <3>1
  <2>4. 3 + 1 = 4 /\ 2 + 1 = 3 /\ 1 + 1 = 2
    OBVIOUS
  <2> QED
    BY <2>1, <2>2, <2>3, <2>4
<1>6. n + 1 \in M[3]
  BY <1>1, <1>2, <1>3, <1>5 DEF Fits
<1>7. n \in M[2]
  BY <1>1, <1>2, <1>3, <1>5, <1>6 DEF Fits
<1>8. 1 \in M[1]
  BY <1>1, <1>2, <1>3, <1>5, <1>7 DEF Fits
<1> QED
  BY <1>4, <1>8 DEF pattern, path

-----------------------------------------------------------------------------
(* The inductive invariant.  Types first: what a walk has in hand, and that the
   tree is one. *)

Paths == Seq(Nat)
Roots == [source: Paths, prefix: Nat]
Kinds == {"dir", "file", "link", "fifo", "socket"}
Entries ==
  {e \in [root: Roots, path: Paths, kind: Kinds \cup {"unknown"}] :
     /\ Len(e.root.source) <= Len(e.path)
     /\ e.kind = "unknown" => e.path = e.root.source}
Headers == [name: Paths, kind: Kinds, mode: {"rw", "r", "none"}, size: Nat, data: Seq(Nat)]

Early == pc \in {"roots", "walk", "copy", "list", "failed"}

FilesTyped ==
  /\ job \in Jobs /\ IsTree(tree)
  /\ touched \subseteq Places /\ budget \in 0 .. job.changes

WalkTyped ==
  /\ pc \in {"roots", "walk", "copy", "list", "failed", "saved", "extract",
             "cut", "restored", "broken"}
  /\ roots \in Seq(Roots) /\ Len(roots) <= Len(job.paths)
  /\ todo \in Seq(Entries) /\ archive \in Seq(Headers)
  /\ pc \in {"copy", "list"} => todo # <<>> /\ archive # <<>> /\ Entered.kind # "unknown"
  /\ pc = "list" => Entered.kind = "dir"

(* Names.  What is above an entry that is still to be visited has been archived
   and is not ignored. *)
NameOf(e) == TarPath(e.root, e.path)
Ignores(S) == <<Deep, S>> \in job.exclude \/ <<Deep, S, Deep>> \in job.exclude
ClearAbove(name) ==
  \A S \in SUBSET Nat : Ignores(S) => \A i \in 1 .. Len(name) - 1 : name[i] \notin S
ParentIn(name, n) ==
  Len(name) > 1 => \E i \in 1 .. n : archive[i].name = Front(name)

Pending(e) ==
  /\ ClearAbove(NameOf(e)) /\ ParentIn(NameOf(e), Len(archive))
  /\ (touched = {} /\ e.kind # "unknown") => IsKind(tree, e.path, e.kind)

Fine(k) ==
  /\ archive[k].name # <<>> /\ ClearAbove(archive[k].name)
  /\ ParentIn(archive[k].name, k - 1)
  /\ \A S \in SUBSET Nat :
       /\ <<Deep, S>> \in job.exclude => Last(archive[k].name) \notin S
       /\ (<<Deep, S, Deep>> \in job.exclude /\ archive[k].kind = "dir" /\ touched = {}) =>
            Last(archive[k].name) \notin S

ToVisit == {todo[k] : k \in 1 .. Len(todo)}

NamesInv ==
  /\ \A e \in ToVisit : Pending(e)
  /\ \A k \in 1 .. Len(archive) : Fine(k)
  /\ pc \in {"copy", "list"} =>
       /\ archive[Len(archive)].name = NameOf(Entered)
       /\ Entered.kind = "dir" =>
            \A S \in SUBSET Nat : Ignores(S) => Last(NameOf(Entered)) \notin S

LEMMA SameWhenUserMoves == User => Busy /\ UNCHANGED <<job, pc, walk, restore>>
  BY DEF User, Unlink, MakeDir, WriteFile, Place, Change

LEMMA SameForTheClient == [Next]_vars /\ ~User => UNCHANGED <<job, files>>
  BY DEF Next, Client, LstatRoot, StartWalk, BeginRoot, LeaveOut, Visit, Copy, List,
         Finish, StartRestore, Interrupt, Extract, EndRestore, vars

(* A tree stays one when p is put under a directory, and p is not a directory
   with something in it. *)
LEMMA TreeAfterPlace ==
  ASSUME NEW t, IsTree(t), NEW p \in Paths, NEW node \in Nodes,
         IsKind(t, Front(p), "dir"), p \in DOMAIN t => t[p].kind # "dir"
  PROVE  IsTree([q \in DOMAIN t \cup {p} |-> IF q = p THEN node ELSE t[q]])
<1> DEFINE u == [q \in DOMAIN t \cup {p} |-> IF q = p THEN node ELSE t[q]]
<1>1. /\ DOMAIN u = DOMAIN t \cup {p} /\ u[p] = node
      /\ \A q \in DOMAIN t : q # p => u[q] = t[q]
  OBVIOUS
<1> HIDE DEF u
<1>2. DOMAIN u \subseteq Seq(Nat) /\ IsFiniteSet(DOMAIN u)
  BY <1>1, FS_AddElement DEF IsTree, Paths
<1>3. ASSUME NEW q \in DOMAIN u PROVE u[q] \in Nodes
  BY <1>1 DEF IsTree
<1>4. ASSUME NEW q \in DOMAIN u \ {<<>>} PROVE IsKind(u, Front(q), "dir")
  <2>1. IsKind(t, Front(q), "dir")
    BY <1>1 DEF IsTree
  <2>2. Front(q) # p
    <3>1. CASE q = p
      BY <1>4, <3>1, FrontOf DEF Paths
    <3>2. CASE q # p
      BY <2>1, <3>2 DEF IsKind
    <3> QED
      BY <3>1, <3>2
  <2> QED
    BY <1>1, <2>1, <2>2 DEF IsKind
<1> QED
  BY <1>2, <1>3, <1>4 DEF IsTree, u

LEMMA TreeAfterUnlink ==
  ASSUME NEW t, IsTree(t), NEW p \in Paths
  PROVE  IsTree([q \in {r \in DOMAIN t : ~Under(p, r)} |-> t[q]])
<1> DEFINE D == {r \in DOMAIN t : ~Under(p, r)}
           u == [q \in D |-> t[q]]
<1>1. DOMAIN u = D /\ \A q \in D : u[q] = t[q]
  OBVIOUS
<1> HIDE DEF u
<1>2. DOMAIN u \subseteq Seq(Nat) /\ IsFiniteSet(DOMAIN u)
  <2>1. D \in SUBSET DOMAIN t /\ IsFiniteSet(DOMAIN t)
    BY DEF IsTree
  <2>2. IsFiniteSet(D)
    BY <2>1, FS_Subset
  <2> QED
    BY <1>1, <2>1, <2>2 DEF IsTree
<1>3. ASSUME NEW q \in DOMAIN u PROVE u[q] \in Nodes
  BY <1>1 DEF IsTree
<1>4. ASSUME NEW q \in DOMAIN u \ {<<>>} PROVE IsKind(u, Front(q), "dir")
  <2>1. q \in DOMAIN t /\ q \in Seq(Nat) /\ q # <<>> /\ ~IsPrefix(p, q)
    BY <1>1 DEF IsTree, Under
  <2>2. IsKind(t, Front(q), "dir")
    BY <2>1 DEF IsTree
  <2>3. ~IsPrefix(p, Front(q))
    BY <2>1, PrefixOfFront DEF Paths
  <2>4. Front(q) \in D
    BY <2>2, <2>3 DEF IsKind, Under
  <2> QED
    BY <1>1, <2>2, <2>4 DEF IsKind
<1> QED
  BY <1>2, <1>3, <1>4 DEF IsTree, u

LEMMA FilesStep == FilesTyped /\ [Next]_vars => FilesTyped'
<1> SUFFICES ASSUME FilesTyped, [Next]_vars PROVE FilesTyped'
  OBVIOUS
<1>1. CASE ~User
  BY <1>1, SameForTheClient DEF FilesTyped, files
<1>2. CASE User
  <2>1. PICK p \in Places :
          Unlink(p) \/ MakeDir(p) \/ \E data \in Contents : WriteFile(p, data)
    BY <1>2 DEF User
  <2>2. p \in Paths /\ job \in Jobs /\ job.changes \in Nat /\ IsTree(tree)
    BY <2>1, ArchiveAssumption DEF FilesTyped, Paths
  <2>3. job' = job /\ budget > 0 /\ budget' = budget - 1 /\ touched' = touched \cup {p}
    BY <2>1 DEF Unlink, MakeDir, WriteFile, Place, Change
  <2>4. IsTree(tree')
    <3>1. CASE Unlink(p)
      <4>1. tree' = [q \in {r \in DOMAIN tree : ~Under(p, r)} |-> tree[q]]
        BY <3>1 DEF Unlink, Change
      <4> QED
        BY <2>2, <4>1, TreeAfterUnlink
    <3>2. ASSUME NEW node \in Nodes, Place(p, node),
                 p \in DOMAIN tree => tree[p].kind # "dir"
          PROVE  IsTree(tree')
      <4>1. /\ IsKind(tree, Front(p), "dir")
            /\ tree' = [q \in DOMAIN tree \cup {p} |-> IF q = p THEN node ELSE tree[q]]
        BY <3>2 DEF Place, Change
      <4> QED
        BY <2>2, <3>2, <4>1, TreeAfterPlace
    <3>3. CASE MakeDir(p)
      <4>1. Node("dir", "rw", <<>>) \in Nodes
        BY DEF Node, Nodes
      <4> QED
        BY <3>2, <3>3, <4>1 DEF MakeDir
    <3>4. ASSUME NEW data \in Contents, WriteFile(p, data) PROVE IsTree(tree')
      <4>1. data \in Seq(Nat)
        BY ArchiveAssumption
      <4>2. p \in DOMAIN tree => tree[p].mode \in {"rw", "r", "none"}
        BY <2>2 DEF IsTree, Nodes
      <4>3. Node("file", IF p \in DOMAIN tree THEN tree[p].mode ELSE "rw", data) \in Nodes
        BY <4>1, <4>2 DEF Node, Nodes
      <4> QED
        BY <3>2, <3>4, <4>3 DEF WriteFile
    <3> QED
      BY <2>1, <3>1, <3>3, <3>4
  <2>5. touched' \subseteq Places /\ budget' \in 0 .. job.changes
    BY <2>1, <2>2, <2>3 DEF FilesTyped
  <2> QED
    BY <2>2, <2>3, <2>4, <2>5 DEF FilesTyped
<1> QED
  BY <1>1, <1>2

Typed == FilesTyped /\ WalkTyped

LEMMA EnteredType ==
  ASSUME WalkTyped, todo # <<>>
  PROVE  /\ Entered \in Entries /\ Entered = todo[1] /\ Len(todo) \in Nat \ {0}
         /\ Tail(todo) \in Seq(Entries) /\ Len(Tail(todo)) = Len(todo) - 1
         /\ \A k \in 1 .. Len(todo) - 1 : Tail(todo)[k] = todo[k + 1]
<1>1. todo \in Seq(Entries)
  BY DEF WalkTyped
<1>2. Len(todo) \in Nat \ {0}
  BY <1>1, EmptySeq
<1>3. /\ Head(todo) \in Entries /\ Tail(todo) \in Seq(Entries)
      /\ Len(Tail(todo)) = Len(todo) - 1
      /\ \A k \in 1 .. Len(Tail(todo)) : Tail(todo)[k] = todo[k + 1]
  BY <1>1, HeadTailProperties
<1> QED
  BY <1>1, <1>2, <1>3 DEF Entered

LEMMA EntryName ==
  ASSUME NEW e \in Entries
  PROVE  NameOf(e) \in Paths /\ NameOf(e) # <<>>
<1>1. e.root \in Roots /\ e.path \in Seq(Nat) /\ Len(e.root.source) <= Len(e.path)
  BY DEF Entries, Paths
<1> QED
  BY <1>1, NameType DEF Roots, Paths, NameOf

(* Where the client takes a step and writes nothing it need not say more. *)
LEMMA FailsTyped ==
  ASSUME WalkTyped, JobFails, UNCHANGED job PROVE WalkTyped'
  BY DEF WalkTyped, JobFails, walk, Entered

LEMMA StepLstatRoot == ASSUME Typed, LstatRoot PROVE WalkTyped'
<1> DEFINE k == Len(roots) + 1
           p == job.paths[k]
           nth == Cardinality({i \in 1 .. k : Base(job.paths[i]) = Base(p)})
           prefix == IF nth = 1 THEN Base(p) ELSE Numbered(Base(p), nth)
           root == [source |-> p, prefix |-> prefix]
<1>1. CASE JobFails
  BY <1>1, FailsTyped DEF LstatRoot, Typed
<1>2. CASE roots' = Append(roots, root) /\ UNCHANGED <<pc, todo, archive>>
  <2>1. /\ job \in Jobs /\ job.paths \in Seq(Paths) /\ RootName \in Nat
        /\ \A i, n \in 1 .. Len(job.paths) : Numbered(Base(job.paths[i]), n) \in Nat
    BY ArchiveAssumption DEF Typed, FilesTyped, Paths
  <2>2. roots \in Seq(Roots) /\ Len(roots) \in Nat
    BY DEF Typed, WalkTyped
  <2>3. k \in 1 .. Len(job.paths)
    BY <2>1, <2>2 DEF LstatRoot
  <2>4. p \in Paths
    BY <2>1, <2>3
  <2>5. Base(p) \in Nat
    <3>1. CASE p = <<>>
      BY <2>1, <3>1 DEF Base
    <3>2. CASE p # <<>>
      BY <2>4, <3>2, FrontOf DEF Base, Paths
    <3> QED
      BY <3>1, <3>2
  <2>6. nth \in 1 .. k
    <3> DEFINE same == {i \in 1 .. k : Base(job.paths[i]) = Base(p)}
    <3>1. k \in same /\ same \in SUBSET (1 .. k)
      BY <2>3
    <3>2. IsFiniteSet(1 .. k) /\ Cardinality(1 .. k) = k
      BY <2>2, FS_Interval
    <3> HIDE DEF same
    <3>3. IsFiniteSet(same) /\ Cardinality(same) <= k
      BY <3>1, <3>2, FS_Subset
    <3>4. Cardinality(same) \in Nat /\ Cardinality(same) # 0
      BY <3>1, <3>3, FS_CardinalityType, FS_EmptySet
    <3> QED
      BY <2>2, <3>3, <3>4 DEF same
  <2>7. nth \in 1 .. Len(job.paths)
    BY <2>1, <2>3, <2>6
  <2> HIDE DEF nth
  <2>8. prefix \in Nat
    BY <2>1, <2>3, <2>5, <2>7
  <2>9. root \in Roots
    <3> HIDE DEF p, prefix
    <3> QED
      BY <2>4, <2>8 DEF Roots
  <2> HIDE DEF root
  <2>10. roots' \in Seq(Roots) /\ Len(roots') = k
    BY <1>2, <2>2, <2>9
  <2>11. pc = "roots" /\ job' = job
    BY DEF LstatRoot
  <2> QED
    BY <1>2, <2>1, <2>3, <2>10, <2>11 DEF Typed, WalkTyped
<1> QED
  BY <1>1, <1>2 DEF LstatRoot

LEMMA StepStartWalk == ASSUME Typed, StartWalk PROVE WalkTyped'
<1>1. PICK f \in Sortings :
        todo' = [k \in 1 .. Len(roots) |->
                   LET root == roots[f[k]] IN Entry(root, root.source, "unknown")]
  BY DEF StartWalk
<1>2. roots \in Seq(Roots) /\ Len(roots) \in Nat
  BY DEF Typed, WalkTyped
<1>3. \A k \in 1 .. Len(roots) : f[k] \in 1 .. Len(roots)
  BY <1>2 DEF Sortings
<1>4. ASSUME NEW k \in 1 .. Len(roots)
      PROVE  Entry(roots[f[k]], roots[f[k]].source, "unknown") \in Entries
  <2>1. roots[f[k]] \in Roots
    BY <1>2, <1>3
  <2>2. roots[f[k]].source \in Paths /\ Len(roots[f[k]].source) \in Nat
    BY <2>1 DEF Roots, Paths
  <2> QED
    BY <2>1, <2>2 DEF Entries, Entry
<1>5. todo' \in [1 .. Len(roots) -> Entries]
  BY <1>1, <1>4
<1>6. todo' \in Seq(Entries)
  BY <1>2, <1>5
<1> QED
  BY <1>6 DEF StartWalk, Typed, WalkTyped

LEMMA StepBeginRoot == ASSUME Typed, BeginRoot PROVE WalkTyped'
<1>1. CASE JobFails
  BY <1>1, FailsTyped DEF BeginRoot, Typed
<1>2. CASE /\ Entered.path \in DOMAIN tree
           /\ todo' = [todo EXCEPT ![1].kind = tree[Entered.path].kind]
           /\ UNCHANGED <<pc, roots, archive>>
  <2>1. pc = "walk" /\ todo # <<>> /\ job' = job
    BY DEF BeginRoot
  <2>2. Entered \in Entries /\ Entered = todo[1] /\ Len(todo) \in Nat \ {0}
    BY <2>1, EnteredType DEF Typed
  <2>3. tree[Entered.path].kind \in Kinds
    BY <1>2 DEF Typed, FilesTyped, IsTree, Nodes, Kinds
  <2>4. "unknown" \notin Kinds
    BY DEF Kinds
  <2> DEFINE e == [todo[1] EXCEPT !.kind = tree[Entered.path].kind]
  <2>5. e \in Entries
    BY <2>2, <2>3, <2>4 DEF Entries
  <2>6. todo' = [todo EXCEPT ![1] = e] /\ 1 \in 1 .. Len(todo) /\ todo \in Seq(Entries)
    BY <1>2, <2>2 DEF Typed, WalkTyped
  <2> HIDE DEF e
  <2>7. todo' \in Seq(Entries)
    BY <2>5, <2>6, ExceptSeq
  <2> QED
    BY <1>2, <2>1, <2>7 DEF Typed, WalkTyped
<1> QED
  BY <1>1, <1>2 DEF BeginRoot

LEMMA StepLeaveOut == ASSUME Typed, LeaveOut PROVE WalkTyped'
<1>1. pc = "walk" /\ todo # <<>>
  BY DEF LeaveOut, Known
<1>2. Tail(todo) \in Seq(Entries)
  BY <1>1, EnteredType DEF Typed
<1> QED
  BY <1>1, <1>2 DEF LeaveOut, Typed, WalkTyped

LEMMA HeaderType ==
  ASSUME Typed, Known, Entered.path \in DOMAIN tree
  PROVE  Header(tree[Entered.path]) \in Headers
<1> DEFINE node == tree[Entered.path]
<1>1. node \in Nodes
  BY DEF Typed, FilesTyped, IsTree
<1>2. EnteredName \in Paths
  <2>1. Entered \in Entries
    BY EnteredType DEF Known, Typed
  <2> QED
    BY <2>1, EntryName DEF EnteredName, NameOf
<1> HIDE DEF node
<1>3. /\ node.kind \in Kinds /\ node.mode \in {"rw", "r", "none"}
      /\ node.data \in Seq(Nat) /\ Len(node.data) \in Nat /\ <<>> \in Seq(Nat)
  BY <1>1 DEF Nodes, Kinds
<1> HIDE DEF EnteredName
<1>4. Header(node) \in Headers
  BY <1>2, <1>3 DEF Header, Headers
<1> QED
  BY <1>4 DEF node

LEMMA StepVisit == ASSUME Typed, Visit PROVE WalkTyped'
<1>1. CASE JobFails
  BY <1>1, FailsTyped DEF Visit, Typed
<1>2. CASE ~JobFails
  <2> DEFINE node == tree[Entered.path]
  <2>1. /\ Known /\ CanStart /\ archive' = Append(archive, Header(node))
        /\ pc' \in {"copy", "list", "walk"}
        /\ pc' = "list" => Entered.kind = "dir"
        /\ todo' = IF pc' = "walk" THEN Tail(todo) ELSE todo
        /\ UNCHANGED <<job, roots>>
    BY <1>2 DEF Visit
  <2>2. Header(node) \in Headers
    BY <2>1, HeaderType DEF CanStart
  <2>3. archive \in Seq(Headers)
    BY DEF Typed, WalkTyped
  <2> HIDE DEF node
  <2>4. archive' \in Seq(Headers) /\ archive' # <<>>
    BY <2>1, <2>2, <2>3, AppendProperties
  <2>5. todo # <<>> /\ Entered.kind # "unknown"
    BY <2>1 DEF Known
  <2>6. todo' \in Seq(Entries)
    BY <2>1, <2>5, EnteredType DEF Typed, WalkTyped
  <2>7. pc' \in {"copy", "list"} => Entered' = Entered /\ todo' = todo
    BY <2>1 DEF Entered
  <2> QED
    BY <2>1, <2>4, <2>5, <2>6, <2>7 DEF Typed, WalkTyped
<1> QED
  BY <1>1, <1>2

LEMMA StepCopy == ASSUME Typed, Copy PROVE WalkTyped'
<1>1. CASE JobFails
  BY <1>1, FailsTyped DEF Copy, Typed
<1>2. CASE ~JobFails
  <2> DEFINE d == tree[Entered.path].data
             n == Len(archive)
  <2>1. /\ pc = "copy" /\ IsKind(tree, Entered.path, "file")
        /\ archive' = [archive EXCEPT ![n].data = d]
        /\ pc' = (IF Entered.kind = "dir" THEN "list" ELSE "walk")
        /\ todo' = (IF Entered.kind = "dir" THEN todo ELSE Tail(todo))
        /\ UNCHANGED <<job, roots>>
    BY <1>2 DEF Copy
  <2>2. /\ todo # <<>> /\ archive # <<>> /\ Entered.kind # "unknown"
        /\ archive \in Seq(Headers) /\ todo \in Seq(Entries)
    BY <2>1 DEF Typed, WalkTyped
  <2>3. d \in Seq(Nat)
    BY <2>1 DEF IsKind, Typed, FilesTyped, IsTree, Nodes
  <2>4. n \in 1 .. Len(archive)
    BY <2>2, EmptySeq
  <2> DEFINE e == [archive[n] EXCEPT !.data = d]
  <2> HIDE DEF d
  <2>5. e \in Headers
    <3>1. archive[n] \in Headers
      BY <2>2, <2>4
    <3> HIDE DEF n
    <3> QED
      BY <2>3, <3>1 DEF Headers
  <2>6. archive' = [archive EXCEPT ![n] = e]
    BY <2>1, <2>2
  <2> HIDE DEF e, n
  <2>7. archive' \in Seq(Headers) /\ Len(archive') = Len(archive)
    BY <2>2, <2>4, <2>5, <2>6, ExceptSeq
  <2>8. archive' # <<>>
    BY <2>4, <2>7
  <2>9. todo' \in Seq(Entries)
    BY <2>1, <2>2, EnteredType DEF Typed
  <2>10. pc' = "list" => Entered' = Entered /\ todo' = todo /\ Entered.kind = "dir"
    BY <2>1 DEF Entered
  <2>11. pc' \in {"list", "walk"}
    BY <2>1
  <2> QED
    BY <2>1, <2>2, <2>7, <2>8, <2>9, <2>10, <2>11 DEF Typed, WalkTyped
<1> QED
  BY <1>1, <1>2

(* A directory has finitely many entries. *)
LEMMA ChildrenFinite ==
  ASSUME FilesTyped, NEW p \in Paths
  PROVE  Children(p) \in SUBSET Nat /\ IsFiniteSet(Children(p))
<1> DEFINE D == DOMAIN tree \ {<<>>}
           L == {Last(q) : q \in D}
           g == [q \in D |-> Last(q)]
<1>1. DOMAIN tree \subseteq Seq(Nat) /\ IsFiniteSet(DOMAIN tree)
  BY DEF FilesTyped, IsTree
<1>2. L \in SUBSET Nat
  BY <1>1, FrontOf
<1>3. IsFiniteSet(L)
  <2>1. IsFiniteSet(D)
    BY <1>1, FS_Subset
  <2>2. g \in Surjection(D, L)
    BY DEF Surjection
  <2> HIDE DEF g, D, L
  <2> QED
    BY <2>1, <2>2, FS_Surjection
<1>4. Children(p) \in SUBSET L
  BY DEF Children
<1> HIDE DEF L
<1> QED
  BY <1>2, <1>3, <1>4, FS_Subset

(* What List puts in front of the rest *)
Listed(names) ==
  [k \in 1 .. Cardinality(Children(Entered.path)) |->
     LET q == Append(Entered.path, names[k])
     IN  Entry(Entered.root, q, tree[q].kind)]

LEMMA ListedType ==
  ASSUME Typed, todo # <<>>, Entered.kind = "dir",
         NEW names \in Listings(Entered.path)
  PROVE  /\ Cardinality(Children(Entered.path)) \in Nat
         /\ Listed(names) \in Seq(Entries)
         /\ Len(Listed(names)) = Cardinality(Children(Entered.path))
         /\ \A k \in 1 .. Len(Listed(names)) :
              LET e == Listed(names)[k] IN
              /\ names[k] \in Nat /\ e.root = Entered.root
              /\ e.path = Append(Entered.path, names[k]) /\ e.path \in DOMAIN tree
              /\ e.kind = tree[e.path].kind /\ e.kind # "unknown"
<1> DEFINE p == Entered.path
           n == Cardinality(Children(p))
<1>1. /\ Entered.root \in Roots /\ p \in Paths /\ Len(Entered.root.source) <= Len(p)
      /\ Len(Entered.root.source) \in Nat
  <2>1. Entered \in Entries
    BY EnteredType DEF Typed
  <2> QED
    BY <2>1 DEF Entries, Roots, Paths
<1>2. n \in Nat /\ Children(p) \in SUBSET Nat
  BY <1>1, ChildrenFinite, FS_CardinalityType DEF Typed
<1>3. \A k \in 1 .. n : names[k] \in Children(p)
  BY DEF Listings
<1> DEFINE e(k) == Entry(Entered.root, Append(p, names[k]), tree[Append(p, names[k])].kind)
<1>4. Listed(names) = [k \in 1 .. n |-> e(k)]
  BY DEF Listed
<1> HIDE DEF n, p
<1>5. ASSUME NEW k \in 1 .. n
      PROVE  /\ e(k) \in Entries /\ names[k] \in Nat /\ e(k).root = Entered.root
             /\ e(k).path = Append(p, names[k]) /\ e(k).path \in DOMAIN tree
             /\ e(k).kind = tree[e(k).path].kind /\ e(k).kind # "unknown"
  <2> DEFINE q == Append(p, names[k])
  <2>1. names[k] \in Nat /\ q \in DOMAIN tree
    BY <1>2, <1>3 DEF Children
  <2>2. q \in Paths /\ Len(q) = Len(p) + 1 /\ Len(p) \in Nat
    BY <1>1, <2>1 DEF Paths
  <2>3. tree[q].kind \in Kinds
    BY <2>1 DEF Typed, FilesTyped, IsTree, Nodes, Kinds
  <2>4. "unknown" \notin Kinds
    BY DEF Kinds
  <2> HIDE DEF q
  <2>5. Entry(Entered.root, q, tree[q].kind) \in Entries
    BY <1>1, <2>2, <2>3, <2>4 DEF Entries, Entry
  <2> QED
    BY <2>1, <2>3, <2>4, <2>5 DEF Entry, q
<1>6. \A k \in 1 .. n : e(k) \in Entries
  BY <1>5
<1>7. Listed(names) \in Seq(Entries) /\ Len(Listed(names)) = n
      /\ \A k \in 1 .. n : Listed(names)[k] = e(k)
  <2> HIDE DEF e
  <2> QED
    BY <1>2, <1>4, <1>6
<1> QED
  <2>1. ASSUME NEW k \in 1 .. Len(Listed(names))
        PROVE  LET x == Listed(names)[k] IN
               /\ names[k] \in Nat /\ x.root = Entered.root
               /\ x.path = Append(Entered.path, names[k]) /\ x.path \in DOMAIN tree
               /\ x.kind = tree[x.path].kind /\ x.kind # "unknown"
    <3>1. k \in 1 .. n /\ Listed(names)[k] = e(k)
      BY <1>7
    <3> HIDE DEF e
    <3> QED
      BY <1>5, <3>1 DEF p
  <2> QED
    BY <1>2, <1>7, <2>1 DEF n, p

LEMMA StepList == ASSUME Typed, List PROVE WalkTyped'
<1>1. CASE JobFails
  BY <1>1, FailsTyped DEF List, Typed
<1>2. CASE ~JobFails
  <2>1. PICK names \in Listings(Entered.path) : todo' = Listed(names) \o Tail(todo)
    BY <1>2 DEF List, Listed
  <2>2. pc = "list" /\ pc' = "walk" /\ UNCHANGED <<job, roots, archive>>
    BY <1>2 DEF List
  <2>3. todo # <<>> /\ Entered.kind = "dir"
    BY <2>2 DEF Typed, WalkTyped
  <2>4. Listed(names) \in Seq(Entries) /\ Tail(todo) \in Seq(Entries)
    BY <2>3, ListedType, EnteredType DEF Typed
  <2>5. todo' \in Seq(Entries)
    BY <2>1, <2>4, ConcatProperties
  <2> QED
    BY <2>2, <2>5 DEF Typed, WalkTyped
<1> QED
  BY <1>1, <1>2

LEMMA WalkStep == Typed /\ [Next]_vars => WalkTyped'
<1> SUFFICES ASSUME Typed, [Next]_vars PROVE WalkTyped'
  OBVIOUS
<1>1. CASE UNCHANGED vars
  BY <1>1 DEF vars, walk, Typed, WalkTyped, Entered
<1>2. CASE User
  BY <1>2, SameWhenUserMoves DEF walk, Typed, WalkTyped, Entered
<1>3. CASE Finish
  BY <1>3 DEF Finish, walk, Typed, WalkTyped, Entered
<1>4. CASE StartRestore \/ Interrupt \/ Extract \/ EndRestore
  <2>1. UNCHANGED <<job, walk>> /\ pc' \in {"extract", "cut", "broken", "restored"}
    BY <1>4 DEF StartRestore, Interrupt, Extract, EndRestore
  <2> QED
    BY <2>1 DEF walk, Typed, WalkTyped, Entered
<1> QED
  BY <1>1, <1>2, <1>3, <1>4, StepLstatRoot, StepStartWalk, StepBeginRoot,
     StepLeaveOut, StepVisit, StepCopy, StepList DEF Next, Client

-----------------------------------------------------------------------------
(* Names *)

(* The stream keeps the names and kinds of its entries. *)
Grows ==
  /\ Len(archive) \in Nat /\ Len(archive') \in Nat /\ Len(archive) <= Len(archive')
  /\ \A i \in 1 .. Len(archive) :
       archive'[i].name = archive[i].name /\ archive'[i].kind = archive[i].kind

Undisturbed == touched' # {} \/ UNCHANGED <<tree, touched>>

LEMMA PendingStays ==
  ASSUME NEW e, Pending(e), job' = job, Grows, Undisturbed
  PROVE  Pending(e)'
<1>1. ClearAbove(NameOf(e))'
  BY DEF Pending, ClearAbove, Ignores, NameOf, TarPath
<1>2. ParentIn(NameOf(e), Len(archive))'
  <2>1. Len(NameOf(e)) > 1 => \E i \in 1 .. Len(archive) : archive[i].name = Front(NameOf(e))
    BY DEF Pending, ParentIn
  <2>2. Len(NameOf(e)) > 1 => \E i \in 1 .. Len(archive') : archive'[i].name = Front(NameOf(e))
    BY <2>1 DEF Grows
  <2> QED
    BY <2>2 DEF ParentIn, NameOf, TarPath
<1>3. (touched = {} /\ e.kind # "unknown" => IsKind(tree, e.path, e.kind))'
  BY DEF Pending, Undisturbed, IsKind
<1> QED
  BY <1>1, <1>2, <1>3 DEF Pending

LEMMA FineStays ==
  ASSUME NEW k \in 1 .. Len(archive), Fine(k), job' = job, Grows, Undisturbed
  PROVE  Fine(k)'
<1> DEFINE name == archive[k].name
<1>1. archive'[k].name = name /\ archive'[k].kind = archive[k].kind
  BY DEF Grows
<1>2. touched' = {} => touched = {}
  BY DEF Undisturbed
<1>3. ClearAbove(archive[k].name)'
  BY <1>1 DEF Fine, ClearAbove, Ignores
<1>4. ParentIn(archive[k].name, k - 1)'
  <2>1. k \in Nat /\ k <= Len(archive) /\ Len(archive) \in Nat
    BY DEF Grows
  <2>2. \A i \in 1 .. k - 1 : archive'[i].name = archive[i].name
    BY <2>1 DEF Grows
  <2> QED
    BY <1>1, <2>2 DEF Fine, ParentIn
<1> QED
  BY <1>1, <1>2, <1>3, <1>4 DEF Fine

LEMMA GrowsWhenSame == ASSUME WalkTyped, archive' = archive PROVE Grows
<1>1. Len(archive) \in Nat
  BY DEF WalkTyped
<1> QED
  BY <1>1 DEF Grows

(* Nothing new to visit, and nothing new in the stream *)
LEMMA NamesStay ==
  ASSUME Typed, NamesInv, job' = job, archive' = archive, Undisturbed,
         ToVisit' \subseteq ToVisit,
         pc' \in {"copy", "list"} => pc \in {"copy", "list"} /\ todo' = todo
  PROVE  NamesInv'
<1>1. Grows
  BY GrowsWhenSame DEF Typed
<1>2. \A e \in ToVisit' : Pending(e)'
  BY <1>1, PendingStays DEF NamesInv
<1>3. \A k \in 1 .. Len(archive) : Fine(k)'
  BY <1>1, FineStays DEF NamesInv
<1>4. pc' \in {"copy", "list"} =>
        /\ archive'[Len(archive')].name = NameOf(Entered)'
        /\ Entered'.kind = "dir" =>
             \A S \in SUBSET Nat : Ignores(S)' => Last(NameOf(Entered)') \notin S
  BY DEF NamesInv, Entered, Ignores, NameOf, TarPath
<1> QED
  BY <1>2, <1>3, <1>4 DEF NamesInv

LEMMA Same == ASSUME UNCHANGED todo PROVE ToVisit' = ToVisit
  BY DEF ToVisit

LEMMA Fewer ==
  ASSUME WalkTyped, todo # <<>>, todo' = Tail(todo)
  PROVE  ToVisit' \subseteq ToVisit
<1>1. /\ Len(todo) \in Nat \ {0} /\ Len(Tail(todo)) = Len(todo) - 1
      /\ \A k \in 1 .. Len(todo) - 1 : Tail(todo)[k] = todo[k + 1]
  BY EnteredType
<1>2. ASSUME NEW e \in ToVisit' PROVE e \in ToVisit
  <2>1. PICK k \in 1 .. Len(todo) - 1 : e = todo'[k]
    BY <1>1 DEF ToVisit
  <2>2. k + 1 \in 1 .. Len(todo) /\ e = todo[k + 1]
    BY <1>1, <2>1
  <2> QED
    BY <2>2 DEF ToVisit
<1> QED
  BY <1>2

LEMMA ToVisitEntries == ASSUME WalkTyped PROVE ToVisit \subseteq Entries
  BY DEF WalkTyped, ToVisit

LEMMA EnteredToVisit == ASSUME WalkTyped, todo # <<>> PROVE Entered \in ToVisit
<1>1. Entered = todo[1] /\ 1 \in 1 .. Len(todo)
  BY EnteredType
<1> QED
  BY <1>1 DEF ToVisit

LEMMA FailsKeepsNames ==
  ASSUME Typed, NamesInv, JobFails, UNCHANGED <<job, files>> PROVE NamesInv'
<1>1. UNCHANGED <<todo, archive>> /\ pc' = "failed" /\ Undisturbed
  BY DEF JobFails, walk, files, Undisturbed
<1> QED
  BY <1>1, Same, NamesStay

LEMMA StartWalkNames == ASSUME Typed, NamesInv, StartWalk PROVE NamesInv'
<1>1. PICK f \in Sortings :
        todo' = [k \in 1 .. Len(roots) |->
                   LET root == roots[f[k]] IN Entry(root, root.source, "unknown")]
  BY DEF StartWalk
<1>2. roots \in Seq(Roots) /\ Len(roots) \in Nat
  BY DEF Typed, WalkTyped
<1>3. \A k \in 1 .. Len(roots) : f[k] \in 1 .. Len(roots)
  BY <1>2 DEF Sortings
<1>4. pc' = "walk" /\ UNCHANGED <<job, files, archive>>
  BY DEF StartWalk
<1>5. Grows
  BY <1>4, GrowsWhenSame DEF Typed
<1>6. ASSUME NEW e \in ToVisit' PROVE Pending(e)'
  <2>1. PICK k \in 1 .. Len(todo') : e = todo'[k]
    BY <1>6 DEF ToVisit
  <2>2. Len(todo') = Len(roots)
    BY <1>1, <1>2
  <2>3. PICK r \in Roots : e = Entry(r, r.source, "unknown")
    BY <1>1, <1>2, <1>3, <2>1, <2>2
  <2>4. NameOf(e) = TarPath(r, r.source) /\ e.kind = "unknown"
    BY <2>3 DEF NameOf, Entry
  <2>5. Len(NameOf(e)) = 1
    BY <2>4, RootName1 DEF Roots, Paths
  <2>6. (NameOf(e))' = NameOf(e)
    BY DEF NameOf, TarPath
  <2>7. ClearAbove(NameOf(e))' /\ ParentIn(NameOf(e), Len(archive))'
    BY <2>5, <2>6 DEF ClearAbove, ParentIn
  <2> QED
    BY <2>4, <2>7 DEF Pending
<1>7. \A k \in 1 .. Len(archive) : Fine(k)'
  BY <1>4, <1>5, FineStays DEF NamesInv, Undisturbed, files
<1> QED
  BY <1>4, <1>6, <1>7 DEF NamesInv

LEMMA BeginRootNames == ASSUME Typed, NamesInv, BeginRoot PROVE NamesInv'
<1>1. CASE JobFails
  BY <1>1, FailsKeepsNames DEF BeginRoot
<1>2. CASE ~JobFails
  <2> DEFINE kind == tree[Entered.path].kind
             x == [todo[1] EXCEPT !.kind = kind]
  <2>1. /\ pc = "walk" /\ todo # <<>> /\ Entered.path \in DOMAIN tree
        /\ todo' = [todo EXCEPT ![1].kind = kind]
        /\ UNCHANGED <<pc, archive, job, files>>
    BY <1>2 DEF BeginRoot
  <2>2. /\ todo \in Seq(Entries) /\ Len(todo) \in Nat \ {0}
        /\ Entered = todo[1] /\ Entered \in Entries
    BY <2>1, EnteredType DEF Typed, WalkTyped
  <2>3. todo' = [todo EXCEPT ![1] = x]
    BY <2>1
  <2>4. Len(todo') = Len(todo) /\ todo'[1] = x
        /\ \A k \in 1 .. Len(todo) : k # 1 => todo'[k] = todo[k]
    <3> HIDE DEF x
    <3>1. DOMAIN todo = 1 .. Len(todo)
      BY <2>2
    <3>2. todo' = [k \in 1 .. Len(todo) |-> IF k = 1 THEN x ELSE todo[k]]
      BY <2>3, <3>1
    <3> QED
      BY <2>2, <3>2
  <2>5. x.root = Entered.root /\ x.path = Entered.path /\ x.kind = kind
    BY <2>2 DEF Entries
  <2>6. Grows /\ Undisturbed
    BY <2>1, GrowsWhenSame DEF Typed, Undisturbed, files
  <2>7. Pending(Entered)
    BY <2>1, EnteredToVisit DEF NamesInv, Typed
  <2>8. Pending(x)
    <3> HIDE DEF x
    <3>1. NameOf(x) = NameOf(Entered)
      BY <2>5 DEF NameOf
    <3>2. IsKind(tree, x.path, x.kind)
      BY <2>1, <2>5 DEF IsKind
    <3> QED
      BY <2>7, <3>1, <3>2 DEF Pending
  <2>9. ASSUME NEW e \in ToVisit' PROVE Pending(e)'
    <3>1. PICK k \in 1 .. Len(todo) : e = todo'[k]
      BY <2>4 DEF ToVisit
    <3>2. Pending(e)
      <4>1. CASE k = 1
        <5>1. e = x
          BY <2>4, <3>1, <4>1
        <5> QED
          BY <2>8, <5>1
      <4>2. CASE k # 1
        <5>1. e = todo[k]
          BY <2>4, <3>1, <4>2
        <5> QED
          BY <5>1 DEF NamesInv, ToVisit
      <4> QED
        BY <4>1, <4>2
    <3> QED
      BY <2>1, <2>6, <3>2, PendingStays
  <2>10. \A k \in 1 .. Len(archive) : Fine(k)'
    BY <2>1, <2>6, FineStays DEF NamesInv
  <2> QED
    BY <2>1, <2>9, <2>10 DEF NamesInv
<1> QED
  BY <1>1, <1>2

LEMMA LeaveOutNames == ASSUME Typed, NamesInv, LeaveOut PROVE NamesInv'
<1>1. /\ pc = "walk" /\ todo # <<>> /\ todo' = Tail(todo)
      /\ UNCHANGED <<job, files, pc, archive>>
  BY DEF LeaveOut, Known
<1>2. ToVisit' \subseteq ToVisit
  BY <1>1, Fewer DEF Typed
<1> QED
  BY <1>1, <1>2, NamesStay DEF Undisturbed, files

(* Whoever is not left out ends in nothing the excludes name. *)
LEMMA NotOut ==
  ASSUME Typed, Known, ~Out, NEW S \in SUBSET Nat
  PROVE  /\ <<Deep, S>> \in job.exclude => Last(EnteredName) \notin S
         /\ (<<Deep, S, Deep>> \in job.exclude /\ Entered.kind = "dir") =>
              Last(EnteredName) \notin S
<1> DEFINE name == EnteredName
<1>1. name \in Seq(Nat) /\ name # <<>>
  <2>1. Entered \in Entries
    BY EnteredType DEF Known, Typed
  <2> QED
    BY <2>1, EntryName DEF EnteredName, NameOf, Paths
<1>2. \A p \in job.exclude :
        ~Matches(p, name) /\ (Entered.kind = "dir" => ~Matches(p, Append(name, NoName)))
  BY DEF Out, Matched
<1> HIDE DEF name
<1>3. Last(name) \in S => Matches(<<Deep, S>>, name)
  BY <1>1, DeepName
<1>4. Last(name) \in S => Matches(<<Deep, S, Deep>>, Append(name, NoName))
  BY <1>1, DeepDir
<1> QED
  BY <1>2, <1>3, <1>4 DEF name

LEMMA VisitNames == ASSUME Typed, NamesInv, Visit PROVE NamesInv'
<1>1. CASE JobFails
  BY <1>1, FailsKeepsNames DEF Visit
<1>2. CASE ~JobFails
  <2> DEFINE node == tree[Entered.path]
             h == Header(node)
             name == EnteredName
  <2>1. /\ Known /\ ~Out /\ CanStart /\ archive' = Append(archive, h)
        /\ pc' \in {"copy", "list", "walk"}
        /\ todo' = IF pc' = "walk" THEN Tail(todo) ELSE todo
        /\ UNCHANGED <<job, files>>
    BY <1>2 DEF Visit
  <2>2. h.name = name /\ h.kind = node.kind
    BY DEF Header
  <2>3. archive \in Seq(Headers) /\ Len(archive) \in Nat
    BY DEF Typed, WalkTyped
  <2>4. h \in Headers
    BY <2>1, HeaderType DEF CanStart
  <2> HIDE DEF h
  <2> PICK n \in Nat : n = Len(archive) + 1
    BY <2>3
  <2>5. /\ Len(archive') = n /\ archive'[n] = h
        /\ \A k \in 1 .. Len(archive) : archive'[k] = archive[k]
    BY <2>1, <2>3, <2>4, AppendProperties
  <2>6. Grows
    BY <2>3, <2>5 DEF Grows
  <2>7. Undisturbed
    BY <2>1 DEF Undisturbed, files
  <2>8. Entered \in ToVisit /\ Entered \in Entries /\ todo # <<>>
    BY <2>1, EnteredToVisit, EnteredType DEF Typed, Known
  <2>9. Pending(Entered)
    BY <2>8 DEF NamesInv
  <2>10. name = NameOf(Entered) /\ name # <<>>
    BY <2>8, EntryName DEF EnteredName, NameOf
  <2>11. ToVisit' \subseteq ToVisit
    BY <2>1, <2>8, Same, Fewer DEF Typed
  <2>12. \A e \in ToVisit' : Pending(e)'
    BY <2>1, <2>6, <2>7, <2>11, PendingStays DEF NamesInv
  <2> HIDE DEF name
  <2>13. ASSUME NEW S \in SUBSET Nat
         PROVE  /\ <<Deep, S>> \in job.exclude => Last(name) \notin S
                /\ (<<Deep, S, Deep>> \in job.exclude /\ Entered.kind = "dir") =>
                     Last(name) \notin S
    BY <2>1, NotOut DEF name
  <2>14. Fine(n)'
    <3>1. archive'[n].name = name /\ archive'[n].kind = node.kind /\ job' = job
      BY <2>1, <2>2, <2>5
    <3>2. ClearAbove(archive[n].name)'
      BY <2>9, <2>10, <3>1 DEF Pending, ClearAbove, Ignores
    <3>3. ParentIn(archive[n].name, n - 1)'
      <4>1. n - 1 = Len(archive)
        BY <2>3
      <4>2. Len(name) > 1 => \E i \in 1 .. n - 1 : archive'[i].name = Front(name)
        BY <2>5, <2>9, <2>10, <4>1 DEF Pending, ParentIn
      <4> QED
        BY <3>1, <4>2 DEF ParentIn
    <3>4. touched = {} => Entered.kind = node.kind
      BY <2>1, <2>9 DEF Pending, IsKind, Known
    <3>5. touched' = touched
      BY <2>1 DEF files
    <3> HIDE DEF node
    <3> QED
      BY <2>10, <2>13, <3>1, <3>2, <3>3, <3>4, <3>5 DEF Fine
  <2>15. ASSUME NEW k \in 1 .. Len(archive') PROVE Fine(k)'
    <3>1. CASE k \in 1 .. Len(archive)
      BY <2>1, <2>6, <2>7, <3>1, FineStays DEF NamesInv
    <3>2. CASE k = n
      BY <2>14, <3>2
    <3> QED
      BY <2>3, <2>5, <3>1, <3>2
  <2>16. pc' \in {"copy", "list"} =>
           /\ archive'[Len(archive')].name = NameOf(Entered)'
           /\ Entered'.kind = "dir" =>
                \A S \in SUBSET Nat : Ignores(S)' => Last(NameOf(Entered)') \notin S
    <3> SUFFICES ASSUME pc' \in {"copy", "list"}
                 PROVE  /\ archive'[Len(archive')].name = NameOf(Entered)'
                        /\ Entered'.kind = "dir" =>
                             \A S \in SUBSET Nat : Ignores(S)' => Last(NameOf(Entered)') \notin S
      OBVIOUS
    <3>1. Entered' = Entered /\ NameOf(Entered)' = name
      <4>1. todo' = todo
        BY <2>1
      <4> QED
        BY <2>10, <4>1 DEF Entered, NameOf, TarPath
    <3>2. archive'[Len(archive')].name = name
      BY <2>2, <2>5
    <3>3. \A S \in SUBSET Nat : Ignores(S)' = Ignores(S)
      BY <2>1 DEF Ignores
    <3> QED
      BY <2>13, <3>1, <3>2, <3>3 DEF Ignores
  <2> QED
    BY <2>12, <2>15, <2>16 DEF NamesInv
<1> QED
  BY <1>1, <1>2

(* Only what is in the last entry changes. *)
LEMMA CopyStream ==
  ASSUME Typed, Copy, ~JobFails
  PROVE  /\ archive \in Seq(Headers) /\ Len(archive) \in Nat \ {0}
         /\ Len(archive') = Len(archive)
         /\ \A k \in 1 .. Len(archive) - 1 : archive'[k] = archive[k]
         /\ archive'[Len(archive)] =
              [archive[Len(archive)] EXCEPT !.data = tree[Entered.path].data]
<1> DEFINE n == Len(archive)
           x == [archive[n] EXCEPT !.data = tree[Entered.path].data]
<1>1. archive' = [archive EXCEPT ![n] = x] /\ pc = "copy"
  BY DEF Copy
<1>2. archive \in Seq(Headers) /\ n \in Nat \ {0}
  <2>1. archive \in Seq(Headers) /\ archive # <<>>
    BY <1>1 DEF Typed, WalkTyped
  <2> QED
    BY <2>1, EmptySeq
<1> HIDE DEF x
<1>3. archive' = [k \in 1 .. n |-> IF k = n THEN x ELSE archive[k]]
  <2>1. DOMAIN archive = 1 .. n
    BY <1>2
  <2>2. archive' = [k \in DOMAIN archive |-> IF k = n THEN x ELSE archive[k]]
    BY <1>1
  <2> QED
    BY <2>1, <2>2
<1> HIDE DEF n
<1>4. Len(archive') = n /\ \A k \in 1 .. n : archive'[k] = IF k = n THEN x ELSE archive[k]
  BY <1>2, <1>3
<1>5. \A k \in 1 .. n - 1 : k \in 1 .. n /\ k # n
  BY <1>2
<1>6. n \in 1 .. n
  BY <1>2
<1> QED
  BY <1>2, <1>4, <1>5, <1>6 DEF n, x

LEMMA CopyNames == ASSUME Typed, NamesInv, Copy PROVE NamesInv'
<1>1. CASE JobFails
  BY <1>1, FailsKeepsNames DEF Copy
<1>2. CASE ~JobFails
  <2>1. /\ pc = "copy" /\ UNCHANGED <<job, files>>
        /\ pc' = (IF Entered.kind = "dir" THEN "list" ELSE "walk")
        /\ todo' = (IF Entered.kind = "dir" THEN todo ELSE Tail(todo))
    BY <1>2 DEF Copy
  <2>2. todo # <<>>
    BY <2>1 DEF Typed, WalkTyped
  <2>3. /\ Len(archive) \in Nat \ {0} /\ Len(archive') = Len(archive)
        /\ \A k \in 1 .. Len(archive) - 1 : archive'[k] = archive[k]
        /\ archive'[Len(archive)].name = archive[Len(archive)].name
        /\ archive'[Len(archive)].kind = archive[Len(archive)].kind
    <3>1. archive[Len(archive)] \in Headers
      <4>1. archive \in Seq(Headers) /\ Len(archive) \in 1 .. Len(archive)
        BY <1>2, CopyStream
      <4> QED
        BY <4>1
    <3> QED
      BY <1>2, <3>1, CopyStream DEF Headers
  <2>4. Grows
    BY <2>3 DEF Grows
  <2>5. Undisturbed
    BY <2>1 DEF Undisturbed, files
  <2>6. ToVisit' \subseteq ToVisit
    BY <2>1, <2>2, Same, Fewer DEF Typed
  <2>7. \A e \in ToVisit' : Pending(e)'
    BY <2>1, <2>4, <2>5, <2>6, PendingStays DEF NamesInv
  <2>8. \A k \in 1 .. Len(archive) : Fine(k)'
    BY <2>1, <2>4, <2>5, FineStays DEF NamesInv
  <2>9. pc' \in {"copy", "list"} =>
          /\ archive'[Len(archive')].name = NameOf(Entered)'
          /\ Entered'.kind = "dir" =>
               \A S \in SUBSET Nat : Ignores(S)' => Last(NameOf(Entered)') \notin S
    BY <2>1, <2>3 DEF NamesInv, Entered, NameOf, TarPath, Ignores
  <2> QED
    BY <2>3, <2>7, <2>8, <2>9 DEF NamesInv
<1> QED
  BY <1>1, <1>2

LEMMA ListNames == ASSUME Typed, NamesInv, List PROVE NamesInv'
<1>1. CASE JobFails
  BY <1>1, FailsKeepsNames DEF List
<1>2. CASE ~JobFails
  <2>1. PICK names \in Listings(Entered.path) : todo' = Listed(names) \o Tail(todo)
    BY <1>2 DEF List, Listed
  <2>2. pc = "list" /\ pc' = "walk" /\ UNCHANGED <<job, files, archive>>
    BY <1>2 DEF List
  <2>3. todo # <<>> /\ Entered.kind = "dir" /\ archive # <<>> /\ archive \in Seq(Headers)
    BY <2>2 DEF Typed, WalkTyped
  <2> DEFINE new == Listed(names)
             above == NameOf(Entered)
  <2>4. /\ new \in Seq(Entries) /\ Tail(todo) \in Seq(Entries)
        /\ Len(new) \in Nat /\ Len(Tail(todo)) = Len(todo) - 1 /\ Len(todo) \in Nat \ {0}
        /\ \A k \in 1 .. Len(todo) - 1 : Tail(todo)[k] = todo[k + 1]
    BY <2>3, ListedType, EnteredType DEF Typed
  <2>5. Grows /\ Undisturbed
    BY <2>2, GrowsWhenSame DEF Typed, Undisturbed, files
  <2>6. Entered \in ToVisit /\ Entered \in Entries
    BY <2>3, EnteredToVisit, EnteredType DEF Typed
  <2>7. Pending(Entered) /\ above \in Seq(Nat) /\ above # <<>>
    BY <2>6, EntryName DEF NamesInv, Paths
  <2>8. archive[Len(archive)].name = above /\ Len(archive) \in 1 .. Len(archive)
        /\ \A S \in SUBSET Nat : Ignores(S) => Last(above) \notin S
    BY <2>2, <2>3, EmptySeq DEF NamesInv
  <2>9. Len(above) \in Nat /\ Last(above) = above[Len(above)]
    BY <2>7 DEF Last
  <2>10. ASSUME NEW k \in 1 .. Len(new) PROVE Pending(new[k])
    <3> DEFINE e == new[k]
               m == names[k]
               name == NameOf(e)
    <3>1. /\ m \in Nat /\ e.root = Entered.root /\ e.path = Append(Entered.path, m)
          /\ e.path \in DOMAIN tree /\ e.kind = tree[e.path].kind
      BY <2>3, ListedType
    <3>2. Len(name) = 1 \/ name = Append(above, m)
      <4>1. /\ Entered.root \in [source: Seq(Nat), prefix: Nat] /\ Entered.path \in Seq(Nat)
            /\ Len(Entered.root.source) <= Len(Entered.path)
        BY <2>6 DEF Entries, Roots, Paths
      <4>2. name = TarPath(Entered.root, Append(Entered.path, m))
        BY <3>1 DEF NameOf
      <4> HIDE DEF name, m
      <4> QED
        BY <3>1, <4>1, <4>2, ChildName DEF NameOf
    <3>3. IsKind(tree, e.path, e.kind)
      BY <3>1 DEF IsKind
    <3>4. ClearAbove(name) /\ ParentIn(name, Len(archive))
      <4> HIDE DEF name, m, above
      <4>1. CASE Len(name) = 1
        BY <4>1 DEF ClearAbove, ParentIn
      <4>2. CASE name = Append(above, m)
        <5>1. /\ Len(name) = Len(above) + 1 /\ Front(name) = above
              /\ \A i \in 1 .. Len(above) : name[i] = above[i]
          BY <2>7, <3>1, <4>2, FrontAppend, AppendProperties
        <5>2. ASSUME NEW S \in SUBSET Nat, Ignores(S), NEW i \in 1 .. Len(name) - 1
              PROVE  name[i] \notin S
          <6>1. i \in 1 .. Len(above) /\ name[i] = above[i]
            BY <2>9, <5>1, <5>2
          <6>2. i \in 1 .. Len(above) - 1 => above[i] \notin S
            BY <2>7, <5>2 DEF Pending, ClearAbove, above
          <6>3. i = Len(above) => above[i] \notin S
            BY <2>8, <2>9, <5>2
          <6> QED
            BY <2>9, <6>1, <6>2, <6>3
        <5>3. ParentIn(name, Len(archive))
          BY <2>8, <5>1 DEF ParentIn
        <5> QED
          BY <5>2, <5>3 DEF ClearAbove
      <4> QED
        BY <3>2, <4>1, <4>2
    <3> QED
      BY <3>3, <3>4 DEF Pending
  <2> HIDE DEF new, above
  <2>11. ASSUME NEW e \in ToVisit' PROVE Pending(e)'
    <3>1. PICK k \in 1 .. Len(todo') : e = todo'[k]
      BY <2>11 DEF ToVisit
    <3>2. k \in 1 .. Len(new) + Len(Tail(todo))
          /\ e = IF k <= Len(new) THEN new[k] ELSE Tail(todo)[k - Len(new)]
      BY <2>1, <2>4, <3>1, ConcatProperties DEF new
    <3>3. Pending(e)
      <4>1. CASE k <= Len(new)
        <5>1. k \in 1 .. Len(new) /\ e = new[k]
          BY <2>4, <3>2, <4>1
        <5> QED
          BY <2>10, <5>1
      <4>2. CASE ~(k <= Len(new))
        <5>1. k - Len(new) + 1 \in 1 .. Len(todo) /\ e = todo[k - Len(new) + 1]
          BY <2>4, <3>2, <4>2
        <5> QED
          BY <5>1 DEF NamesInv, ToVisit
      <4> QED
        BY <4>1, <4>2
    <3> QED
      BY <2>2, <2>5, <3>3, PendingStays
  <2>12. \A k \in 1 .. Len(archive) : Fine(k)'
    BY <2>2, <2>5, FineStays DEF NamesInv
  <2> QED
    BY <2>2, <2>11, <2>12 DEF NamesInv
<1> QED
  BY <1>1, <1>2

LEMMA NamesStep == Typed /\ NamesInv /\ [Next]_vars => NamesInv'
<1> SUFFICES ASSUME Typed, NamesInv, [Next]_vars PROVE NamesInv'
  OBVIOUS
<1>1. CASE User
  <2>1. UNCHANGED <<job, pc, todo, archive>> /\ touched' # {}
    BY <1>1, SameWhenUserMoves DEF User, Unlink, MakeDir, WriteFile, Place, Change, walk
  <2> QED
    BY <2>1, Same, NamesStay DEF Undisturbed
<1>2. CASE UNCHANGED vars \/ LstatRoot \/ Finish \/ StartRestore \/ Interrupt \/ Extract \/ EndRestore
  <2>1. UNCHANGED <<job, files, todo, archive>>
    BY <1>2 DEF vars, walk, LstatRoot, Finish, StartRestore, Interrupt, Extract,
                EndRestore, JobFails
  <2>2. pc' \in {"copy", "list"} => pc \in {"copy", "list"}
    BY <1>2 DEF vars, LstatRoot, Finish, StartRestore, Interrupt, Extract,
                EndRestore, JobFails
  <2> QED
    BY <2>1, <2>2, Same, NamesStay DEF Undisturbed, files
<1> QED
  BY <1>1, <1>2, StartWalkNames, BeginRootNames, LeaveOutNames, VisitNames,
     CopyNames, ListNames DEF Next, Client

-----------------------------------------------------------------------------
(* The stream *)

LEMMA VisitStream ==
  ASSUME Typed, Visit, ~JobFails
  PROVE  /\ ~Short /\ Len(archive) \in Nat /\ Len(archive') = Len(archive) + 1
         /\ \A k \in 1 .. Len(archive) : archive'[k] = archive[k]
<1>1. /\ Known /\ CanStart /\ archive \in Seq(Headers)
      /\ archive' = Append(archive, Header(tree[Entered.path]))
  BY DEF Visit, Typed, WalkTyped
<1>2. Header(tree[Entered.path]) \in Headers
  BY <1>1, HeaderType DEF CanStart
<1> DEFINE h == Header(tree[Entered.path])
<1> HIDE DEF h
<1>3. archive' = Append(archive, h) /\ h \in Headers
  BY <1>1, <1>2 DEF h
<1> QED
  BY <1>1, <1>3, AppendProperties DEF CanStart

(* Only Visit and Copy write to the stream. *)
LEMMA OtherSteps ==
  ASSUME [Next]_vars, ~(Visit /\ ~JobFails), ~(Copy /\ ~JobFails)
  PROVE  archive' = archive
  BY DEF Next, Client, User, Unlink, MakeDir, WriteFile, Place, Change, LstatRoot,
         StartWalk, BeginRoot, LeaveOut, Visit, Copy, List, Finish, StartRestore,
         Interrupt, Extract, EndRestore, JobFails, vars, walk

LEMMA ShortStep == Typed /\ OnlyTheLastIsShort /\ [Next]_vars => OnlyTheLastIsShort'
<1> SUFFICES ASSUME Typed, OnlyTheLastIsShort, [Next]_vars PROVE OnlyTheLastIsShort'
  OBVIOUS
<1>1. CASE Visit /\ ~JobFails
  <2>1. ASSUME NEW k \in 1 .. Len(archive') - 1 PROVE ~Truncated(archive'[k])
    <3>1. k \in 1 .. Len(archive) /\ archive'[k] = archive[k] /\ Len(archive) \in Nat
      BY <1>1, VisitStream
    <3>2. CASE k = Len(archive)
      <4>1. archive # <<>>
        BY <3>1, <3>2
      <4> QED
        BY <1>1, <3>1, <3>2, <4>1, VisitStream DEF Short
    <3>3. CASE k # Len(archive)
      <4>1. k \in 1 .. Len(archive) - 1
        BY <3>1, <3>3
      <4> QED
        BY <3>1, <4>1 DEF OnlyTheLastIsShort
    <3> QED
      BY <3>2, <3>3
  <2> QED
    BY <2>1 DEF OnlyTheLastIsShort, Truncated
<1>2. CASE Copy /\ ~JobFails
  BY <1>2, CopyStream DEF OnlyTheLastIsShort, Truncated
<1>3. CASE archive' = archive
  BY <1>3 DEF OnlyTheLastIsShort
<1> QED
  BY <1>1, <1>2, <1>3, OtherSteps

(* Restores.  What is in the directory comes from an entry that was extracted,
   and each entry that was is there. *)
Position == Len(archive) - Len(left)

Origin(n) ==
  \E i \in 1 .. Len(archive) :
    /\ archive[i].name = n /\ archive[i].kind = out[n].kind /\ archive[i].mode = out[n].mode
    /\ attempt = 1 /\ pc = "extract" => i <= Position

RestoreInv ==
  /\ left \in Seq(Headers) /\ Len(left) <= Len(archive)
  /\ \A k \in 1 .. Len(left) : left[k] = archive[Position + k]
  /\ attempt \in 0 .. 2 /\ (attempt = 0 => DOMAIN out = {})
  /\ Early => attempt = 0 /\ left = <<>>
  /\ pc = "saved" => attempt = 0
  /\ pc = "extract" => attempt # 0
  /\ DOMAIN out \subseteq Paths
  /\ \A n \in DOMAIN out : /\ out[n] \in Nodes /\ Origin(n)
                           /\ Len(n) > 1 => IsKind(out, Front(n), "dir")
  /\ pc = "extract" =>
       \A i \in 1 .. Position :
         archive[i].kind \in {"dir", "file", "link"} => archive[i].name \in DOMAIN out

(* While the job runs nothing has been restored. *)
LEMMA EarlyStep ==
  ASSUME RestoreInv, Early, WalkTyped', pc' # "extract", UNCHANGED restore
  PROVE  RestoreInv'
<1>1. attempt = 0 /\ left = <<>> /\ DOMAIN out = {}
  BY DEF RestoreInv
<1>2. UNCHANGED <<left, out, attempt>>
  BY DEF restore
<1>3. Len(left) = 0 /\ Len(archive') \in Nat /\ left \in Seq(Headers)
  BY <1>1, EmptySeq DEF WalkTyped
<1> QED
  BY <1>1, <1>2, <1>3 DEF RestoreInv, Early

LEMMA EarlySteps ==
  ASSUME Typed, User \/ LstatRoot \/ StartWalk \/ BeginRoot \/ LeaveOut \/ Visit
                \/ Copy \/ List \/ Finish
  PROVE  Early /\ pc' # "extract" /\ UNCHANGED restore
<1>1. CASE User
  BY <1>1, SameWhenUserMoves DEF Busy, Early
<1>2. CASE LstatRoot \/ StartWalk \/ BeginRoot \/ LeaveOut
  BY <1>2 DEF LstatRoot, StartWalk, BeginRoot, LeaveOut, Known, Early, JobFails
<1>3. CASE Visit \/ Copy \/ List \/ Finish
  BY <1>3 DEF Visit, Copy, List, Finish, Known, Early, JobFails
<1> QED
  BY <1>1, <1>2, <1>3

LEMMA StartRestoreStep ==
  ASSUME Typed, RestoreInv, StartRestore PROVE RestoreInv'
<1>1. /\ left' = archive /\ attempt' = attempt + 1 /\ pc' = "extract"
      /\ UNCHANGED <<job, archive, out>> /\ attempt < 2
      /\ archive \in Seq(Headers) /\ Len(archive) \in Nat /\ attempt \in 0 .. 2
  BY DEF StartRestore, walk, Typed, WalkTyped, RestoreInv
<1>2. Position' = 0
  BY <1>1 DEF Position
<1>3. attempt' \in 1 .. 2
  BY <1>1
<1>4. ASSUME NEW n \in DOMAIN out PROVE Origin(n)'
  <2>1. attempt # 0 /\ Origin(n)
    BY <1>4 DEF RestoreInv
  <2>2. attempt' # 1
    BY <1>1, <2>1
  <2> QED
    BY <1>1, <2>1, <2>2 DEF Origin
<1>5. \A k \in 1 .. Len(left') : left'[k] = archive'[Position' + k]
  BY <1>1, <1>2
<1>6. \A n \in DOMAIN out' : /\ out'[n] \in Nodes /\ Origin(n)'
                             /\ Len(n) > 1 => IsKind(out', Front(n), "dir")
  BY <1>1, <1>4 DEF RestoreInv
<1>7. ~Early' /\ pc' # "saved"
  BY <1>1 DEF Early
<1>8. \A i \in 1 .. Position' : archive'[i].kind \in {"dir", "file", "link"} =>
         archive'[i].name \in DOMAIN out'
  BY <1>2
<1>9. left' \in Seq(Headers) /\ Len(left') <= Len(archive') /\ DOMAIN out' \subseteq Paths
      /\ attempt' \in 0 .. 2 /\ attempt' # 0
  BY <1>1, <1>3 DEF RestoreInv
<1> QED
  BY <1>5, <1>6, <1>7, <1>8, <1>9 DEF RestoreInv

LEMMA StopStep ==
  ASSUME Typed, RestoreInv, Interrupt \/ EndRestore PROVE RestoreInv'
<1>1. /\ pc = "extract" /\ pc' \in {"cut", "restored"}
      /\ UNCHANGED <<archive, left, out, attempt>>
  BY DEF Interrupt, EndRestore, walk, restore
<1>2. ~Early' /\ pc' # "saved" /\ pc' # "extract"
  BY <1>1 DEF Early
<1>3. \A n : Origin(n) => Origin(n)'
  BY <1>1, <1>2 DEF Origin
<1>4. Position' = Position
  BY <1>1 DEF Position
<1> QED
  BY <1>1, <1>2, <1>3, <1>4 DEF RestoreInv

(* The entry that is extracted *)
LEMMA AheadAt ==
  ASSUME Typed, RestoreInv, left # <<>>
  PROVE  /\ Len(archive) \in Nat /\ Position \in Nat /\ Position + 1 \in 1 .. Len(archive)
         /\ Ahead \in Headers /\ Ahead = archive[Position + 1]
         /\ Len(left) \in Nat \ {0} /\ Tail(left) \in Seq(Headers)
         /\ Len(Tail(left)) = Len(left) - 1
         /\ \A k \in 1 .. Len(left) - 1 : Tail(left)[k] = archive[Position + 1 + k]
<1>1. /\ archive \in Seq(Headers) /\ left \in Seq(Headers) /\ Len(left) <= Len(archive)
      /\ \A k \in 1 .. Len(left) : left[k] = archive[Position + k]
  BY DEF Typed, WalkTyped, RestoreInv
<1>2. Len(left) \in Nat \ {0} /\ Len(archive) \in Nat
  BY <1>1, EmptySeq
<1>3. Position \in Nat /\ Position + 1 \in 1 .. Len(archive)
  BY <1>1, <1>2 DEF Position
<1>4. /\ Ahead \in Headers /\ Tail(left) \in Seq(Headers) /\ Len(Tail(left)) = Len(left) - 1
      /\ \A k \in 1 .. Len(left) - 1 : Tail(left)[k] = left[k + 1]
  BY <1>1, HeadTailProperties DEF Ahead
<1>5. Ahead = left[1]
  BY <1>1 DEF Ahead
<1>6. 1 \in 1 .. Len(left)
  BY <1>2
<1>7. ASSUME NEW k \in 1 .. Len(left) - 1 PROVE Tail(left)[k] = archive[Position + 1 + k]
  <2>1. k + 1 \in 1 .. Len(left) /\ Position + (k + 1) = Position + 1 + k
    BY <1>2, <1>3
  <2>2. left[k + 1] = archive[Position + (k + 1)]
    BY <1>1, <2>1
  <2> QED
    BY <1>4, <2>1, <2>2
<1> QED
  BY <1>1, <1>2, <1>3, <1>4, <1>5, <1>6, <1>7

(* What Extract asks before it writes *)
Possible ==
  CASE Ahead.kind = "dir" -> CanMakeDir
    [] Ahead.kind = "file" -> CanOpen
    [] Ahead.kind = "link" -> CanLink
    [] OTHER -> TRUE
Writes == Possible /\ Ahead.kind \in {"dir", "file", "link"}

LEMMA ExtractedNode ==
  ASSUME Typed, RestoreInv, left # <<>>, Writes
  PROVE  /\ Target \in Paths /\ Extracted \in Nodes /\ Extracted.kind = Ahead.kind
         /\ \/ Extracted.mode = Ahead.mode
            \/ /\ Target \in DOMAIN out /\ out[Target].kind = Ahead.kind
               /\ Extracted.mode = out[Target].mode
<1>1. Ahead \in Headers
  BY AheadAt
<1>2. /\ Target \in Paths /\ Ahead.kind \in Kinds /\ Ahead.mode \in {"rw", "r", "none"}
      /\ Ahead.data \in Seq(Nat)
  BY <1>1 DEF Headers, Target
<1>3. CASE IsKind(out, Target, Ahead.kind) /\ Ahead.kind # "link"
  <2>1. Target \in DOMAIN out /\ out[Target] \in Nodes /\ out[Target].kind = Ahead.kind
    BY <1>3 DEF IsKind, RestoreInv
  <2>2. Extracted = [out[Target] EXCEPT !.data = Ahead.data]
    BY <1>3 DEF Extracted
  <2>3. /\ Extracted \in Nodes /\ Extracted.kind = out[Target].kind
        /\ Extracted.mode = out[Target].mode
    BY <1>2, <2>1, <2>2 DEF Nodes
  <2> QED
    BY <1>2, <2>1, <2>3
<1>4. CASE ~(IsKind(out, Target, Ahead.kind) /\ Ahead.kind # "link")
  <2>1. Extracted = Node(Ahead.kind, Ahead.mode, Ahead.data)
    BY <1>4 DEF Extracted
  <2> QED
    BY <1>2, <2>1 DEF Node, Nodes, Kinds
<1> QED
  BY <1>3, <1>4

(* It is put under a directory, and nothing is below it unless it is one. *)
LEMMA ExtractedPlace ==
  ASSUME Typed, RestoreInv, left # <<>>, Writes
  PROVE  /\ Len(Target) > 1 => IsKind(out, Front(Target), "dir") /\ Front(Target) # Target
         /\ \A n \in DOMAIN out :
              Len(n) > 1 /\ Front(n) = Target => Ahead.kind = "dir"
<1> DEFINE T == Target
<1>1. T \in Seq(Nat) /\ Ahead.kind \in {"dir", "file", "link"}
  BY ExtractedNode DEF Paths, Writes
<1>2. \A n \in DOMAIN out : n \in Seq(Nat) /\ (Len(n) > 1 => IsKind(out, Front(n), "dir"))
  BY DEF RestoreInv, Paths
<1>3. Writable(Front(T)) \/ T \in DOMAIN out
  BY <1>1 DEF Writes, Possible, CanMakeDir, CanOpen, CanLink, IsKind
<1>4. ASSUME Len(T) > 1 PROVE IsKind(out, Front(T), "dir") /\ Front(T) # T
  <2>1. T # <<>> /\ Len(T) \in Nat
    BY <1>1, <1>4
  <2>2. Front(T) # T /\ Len(Front(T)) = Len(T) - 1
    BY <1>1, <2>1, FrontOf
  <2>3. Front(T) # <<>>
    BY <1>4, <2>1, <2>2
  <2> HIDE DEF T
  <2> QED
    BY <1>2, <1>3, <1>4, <2>2, <2>3 DEF Writable
<1>5. ASSUME NEW n \in DOMAIN out, Len(n) > 1, Front(n) = T PROVE Ahead.kind = "dir"
  <2>1. IsKind(out, T, "dir")
    BY <1>2, <1>5
  <2>2. n \in Seq(Nat) /\ n # <<>>
    BY <1>2, <1>5
  <2>3. IsStrictPrefix(T, n)
    BY <1>5, <2>2, FrontOf
  <2>4. ~EmptyDir(T)
    BY <2>3 DEF EmptyDir
  <2> QED
    BY <1>1, <2>1, <2>4 DEF Writes, Possible, CanOpen, CanLink, IsKind
<1> QED
  BY <1>4, <1>5

LEMMA ExtractStep ==
  ASSUME Typed, RestoreInv, Extract PROVE RestoreInv'
<1> DEFINE T == Target
           n1 == Position + 1
<1>1. /\ pc = "extract" /\ left # <<>> /\ attempt # 0 /\ attempt \in 1 .. 2
      /\ UNCHANGED <<job, archive, attempt>>
  BY DEF Extract, RestoreInv, walk
<1>2. /\ Len(archive) \in Nat /\ Position \in Nat /\ Position + 1 \in 1 .. Len(archive)
      /\ Ahead \in Headers /\ Ahead = archive[Position + 1]
      /\ Len(left) \in Nat \ {0} /\ Tail(left) \in Seq(Headers)
      /\ Len(Tail(left)) = Len(left) - 1
      /\ \A k \in 1 .. Len(left) - 1 : Tail(left)[k] = archive[Position + 1 + k]
  BY <1>1, AheadAt
<1>3. /\ out' = IF Writes
                THEN [p \in DOMAIN out \cup {T} |-> IF p = T THEN Extracted ELSE out[p]]
                ELSE out
      /\ \/ Possible /\ ~Truncated(Ahead) /\ left' = Tail(left) /\ pc' = "extract"
         \/ pc' = "broken" /\ left' = left
  BY <1>1 DEF Extract, Possible, Writes
<1>4. \/ pc' = "extract" /\ Position' = Position + 1
      \/ pc' = "broken" /\ Position' = Position
  <2>1. CASE left' = Tail(left) /\ pc' = "extract"
    <3>1. Position' = Len(archive) - (Len(left) - 1)
      BY <1>1, <1>2, <2>1 DEF Position
    <3> QED
      BY <1>2, <2>1, <3>1 DEF Position
  <2>2. CASE left' = left /\ pc' = "broken"
    BY <1>1, <2>2 DEF Position
  <2> QED
    BY <1>3, <2>1, <2>2
<1>5. \A n \in DOMAIN out : out[n] \in Nodes /\ Origin(n) /\ n \in Paths
                            /\ (Len(n) > 1 => IsKind(out, Front(n), "dir"))
  BY DEF RestoreInv
<1>6. /\ DOMAIN out' = IF Writes THEN DOMAIN out \cup {T} ELSE DOMAIN out
      /\ Writes => out'[T] = Extracted
      /\ \A n \in DOMAIN out : ~(Writes /\ n = T) => out'[n] = out[n]
  BY <1>3
<1> HIDE DEF T
(* Where what is in the directory comes from *)
<1>7. ASSUME NEW n \in DOMAIN out', NEW i \in 1 .. Len(archive),
             archive[i].name = n, archive[i].kind = out'[n].kind,
             archive[i].mode = out'[n].mode,
             attempt = 1 => \/ i <= Position + 1 /\ (i = Position + 1 => pc' = "extract")
                            \/ pc' # "extract"
      PROVE  Origin(n)'
  <2>1. (attempt' = 1 /\ pc' = "extract") => i <= Position'
    BY <1>1, <1>2, <1>4, <1>7
  <2> QED
    BY <1>1, <1>7, <2>1 DEF Origin
<1>8. ASSUME NEW n \in DOMAIN out
      PROVE  \E i \in 1 .. Len(archive) :
               /\ archive[i].name = n /\ archive[i].kind = out[n].kind
               /\ archive[i].mode = out[n].mode /\ (attempt = 1 => i <= Position)
  BY <1>1, <1>5 DEF Origin
<1>9. ASSUME NEW n \in DOMAIN out' PROVE out'[n] \in Nodes /\ Origin(n)'
  <2>1. CASE ~(Writes /\ n = T)
    <3>1. n \in DOMAIN out /\ out'[n] = out[n]
      BY <1>6, <1>9, <2>1
    <3>2. PICK i \in 1 .. Len(archive) :
            /\ archive[i].name = n /\ archive[i].kind = out[n].kind
            /\ archive[i].mode = out[n].mode /\ (attempt = 1 => i <= Position)
      BY <1>8, <3>1
    <3>3. attempt = 1 => i <= Position + 1 /\ i # Position + 1
      BY <1>2, <3>2
    <3> QED
      BY <1>5, <1>7, <3>1, <3>2, <3>3
  <2>2. CASE Writes /\ n = T
    <3>1. /\ Extracted \in Nodes /\ Extracted.kind = Ahead.kind
          /\ \/ Extracted.mode = Ahead.mode
             \/ /\ T \in DOMAIN out /\ out[T].kind = Ahead.kind
                /\ Extracted.mode = out[T].mode
      BY <1>1, <2>2, ExtractedNode DEF T
    <3>2. out'[n] = Extracted
      BY <1>6, <2>2
    <3>3. CASE Extracted.mode = Ahead.mode
      <4>1. archive[Position + 1].name = n
        BY <1>2, <2>2 DEF T, Target
      <4> QED
        BY <1>2, <1>4, <1>7, <3>1, <3>2, <3>3, <4>1
    <3>4. CASE /\ T \in DOMAIN out /\ out[T].kind = Ahead.kind
               /\ Extracted.mode = out[T].mode
      <4>1. PICK i \in 1 .. Len(archive) :
              /\ archive[i].name = n /\ archive[i].kind = out[n].kind
              /\ archive[i].mode = out[n].mode /\ (attempt = 1 => i <= Position)
        BY <1>8, <2>2, <3>4
      <4>2. attempt = 1 => i <= Position + 1 /\ i # Position + 1
        BY <1>2, <4>1
      <4> QED
        BY <1>7, <2>2, <3>1, <3>2, <3>4, <4>1, <4>2
    <3> QED
      BY <3>1, <3>2, <3>3, <3>4
  <2> QED
    BY <2>1, <2>2
(* What is above it *)
<1>10. ASSUME NEW n \in DOMAIN out', Len(n) > 1 PROVE IsKind(out', Front(n), "dir")
  <2> DEFINE f == Front(n)
  <2>1. CASE ~Writes
    BY <1>5, <1>6, <1>10, <2>1 DEF IsKind
  <2>2. CASE Writes
    <3>1. /\ Len(T) > 1 => IsKind(out, Front(T), "dir") /\ Front(T) # T
          /\ \A m \in DOMAIN out : Len(m) > 1 /\ Front(m) = T => Ahead.kind = "dir"
      BY <1>1, <2>2, ExtractedPlace DEF T
    <3>2. IsKind(out, f, "dir")
      BY <1>5, <1>6, <1>10, <3>1
    <3>3. CASE f # T
      BY <1>6, <3>2, <3>3 DEF IsKind
    <3>4. CASE f = T
      <4>1. n # T
        BY <1>10, <3>1, <3>4
      <4>2. Ahead.kind = "dir"
        BY <1>6, <1>10, <3>1, <3>4, <4>1
      <4>3. Extracted.kind = "dir"
        BY <1>1, <2>2, <4>2, ExtractedNode
      <4> QED
        BY <1>6, <2>2, <3>4, <4>3 DEF IsKind
    <3> QED
      BY <3>3, <3>4
  <2> QED
    BY <2>1, <2>2
(* What has been extracted is there. *)
<1>11. ASSUME pc' = "extract", NEW i \in 1 .. Position + 1,
              archive[i].kind \in {"dir", "file", "link"}
       PROVE  archive[i].name \in DOMAIN out'
  <2>1. CASE i \in 1 .. Position
    BY <1>1, <1>6, <1>11, <2>1 DEF RestoreInv
  <2>2. CASE i = Position + 1
    <3>1. archive[i] = Ahead /\ Possible
      BY <1>2, <1>3, <1>11, <2>2
    <3>2. Writes
      BY <1>11, <3>1 DEF Writes
    <3> QED
      BY <1>6, <3>1, <3>2 DEF T, Target
  <2> QED
    BY <1>2, <2>1, <2>2
<1>12. /\ left' \in Seq(Headers) /\ Len(left') <= Len(archive')
       /\ \A k \in 1 .. Len(left') : left'[k] = archive'[Position' + k]
  <2>1. CASE left' = left /\ pc' = "broken"
    BY <1>1, <1>4, <2>1 DEF RestoreInv
  <2>2. CASE left' = Tail(left) /\ pc' = "extract"
    <3>1. Len(left) <= Len(archive)
      BY DEF RestoreInv
    <3> QED
      BY <1>1, <1>2, <1>4, <2>2, <3>1
  <2> QED
    BY <1>3, <2>1, <2>2
<1>13. DOMAIN out' \subseteq Paths
  BY <1>1, <1>5, <1>6, ExtractedNode DEF T
<1>14. ~Early' /\ pc' # "saved"
  BY <1>4 DEF Early
<1>15. pc' = "extract" =>
         \A i \in 1 .. Position' : archive'[i].kind \in {"dir", "file", "link"} =>
            archive'[i].name \in DOMAIN out'
  BY <1>1, <1>4, <1>11
<1>16. attempt' \in 0 .. 2 /\ attempt' # 0
  BY <1>1
<1> QED
  BY <1>9, <1>10, <1>12, <1>13, <1>14, <1>15, <1>16 DEF RestoreInv

LEMMA RestoreStep == Typed /\ RestoreInv /\ WalkTyped' /\ [Next]_vars => RestoreInv'
<1> SUFFICES ASSUME Typed, RestoreInv, WalkTyped', [Next]_vars PROVE RestoreInv'
  OBVIOUS
<1>1. CASE UNCHANGED vars
  BY <1>1 DEF vars, walk, restore, RestoreInv, Early, Origin, Position
<1> QED
  BY <1>1, EarlyStep, EarlySteps, StartRestoreStep, StopStep, ExtractStep DEF Next, Client

-----------------------------------------------------------------------------
(* What breaks a restore *)

(* What is in the directory under a name came from an entry of the name and
   kind, an earlier one in the first restore. *)
LEMMA OriginAt ==
  ASSUME RestoreInv, pc = "extract", NEW n \in DOMAIN out
  PROVE  \E i \in 1 .. Len(archive) :
           /\ archive[i].name = n /\ archive[i].kind = out[n].kind
           /\ archive[i].mode = out[n].mode /\ (attempt = 1 => i <= Position)
  BY DEF RestoreInv, Origin

BehindNoDir ==
  \E i, j \in 1 .. Len(archive) :
    /\ archive[i].kind = "dir" => archive[i].mode # "rw"
    /\ IsStrictPrefix(archive[i].name, archive[j].name)
TwoOfOneName ==
  \E i, j \in 1 .. Len(archive) :
    /\ i # j /\ archive[i].name = archive[j].name
    /\ \/ archive[i].kind # archive[j].kind
       \/ archive[i].kind = "file" /\ archive[i].mode # "rw"
FixedAgain ==
  /\ attempt = 2
  /\ \E i \in 1 .. Len(archive) : archive[i].kind = "file" /\ archive[i].mode # "rw"

LEMMA Clash ==
  ASSUME Typed, RestoreInv, pc = "extract", left # <<>>,
         Target \in DOMAIN out, out[Target].kind # Ahead.kind
  PROVE  TwoOfOneName
<1>1. PICK i \in 1 .. Len(archive) :
        archive[i].name = Target /\ archive[i].kind = out[Target].kind
  BY OriginAt
<1>2. Position + 1 \in 1 .. Len(archive) /\ Ahead = archive[Position + 1]
  BY AheadAt
<1> QED
  BY <1>1, <1>2 DEF TwoOfOneName, Target

LEMMA NotWritable ==
  ASSUME Typed, NamesInv, RestoreInv, pc = "extract", left # <<>>,
         ~Writable(Front(Target))
  PROVE  BehindNoDir
<1> DEFINE T == Target
           f == Front(T)
<1>1. PICK j \in 1 .. Len(archive) : j = Position + 1
  BY AheadAt
<1>2. /\ Len(archive) \in Nat /\ Position \in Nat /\ Ahead = archive[j] /\ Ahead \in Headers
  BY <1>1, AheadAt
<1>3. archive[j].name = T /\ T \in Seq(Nat) /\ Fine(j)
  BY <1>2 DEF Headers, Paths, Target, NamesInv
<1>4. T # <<>> /\ ParentIn(T, j - 1)
  BY <1>3 DEF Fine
<1> HIDE DEF T
<1>5. Len(f) = Len(T) - 1 /\ IsStrictPrefix(f, T) /\ Len(T) \in Nat /\ f \in Seq(Nat)
  BY <1>3, <1>4, FrontOf
<1>6. f # <<>>
  BY DEF Writable, T
<1>7. Len(T) > 1
  <2>1. Len(f) > 0
    BY <1>5, <1>6, NoneInEmpty
  <2> QED
    BY <1>5, <2>1
<1>8. PICK i \in 1 .. j - 1 : archive[i].name = f
  BY <1>4, <1>7 DEF ParentIn
<1>9. i \in 1 .. Len(archive) /\ i \in 1 .. Position
  BY <1>1, <1>2, <1>8
<1>10. CASE archive[i].kind # "dir"
  BY <1>3, <1>5, <1>8, <1>9, <1>10 DEF BehindNoDir
<1>11. CASE archive[i].kind = "dir"
  <2>1. f \in DOMAIN out
    BY <1>8, <1>9, <1>11 DEF RestoreInv
  <2>2. PICK k \in 1 .. Len(archive) :
          /\ archive[k].name = f /\ archive[k].kind = out[f].kind
          /\ archive[k].mode = out[f].mode
    BY <2>1, OriginAt
  <2>3. archive[k].kind = "dir" => archive[k].mode # "rw"
    BY <2>1, <2>2 DEF Writable, IsKind, T
  <2> QED
    BY <1>3, <1>5, <2>2, <2>3 DEF BehindNoDir
<1> QED
  BY <1>10, <1>11

LEMMA CauseOfBreak ==
  ASSUME Typed, NamesInv, OnlyTheLastIsShort, RestoreInv, pc = "extract", left # <<>>,
         ~(Possible /\ ~Truncated(Ahead))
  PROVE  Short \/ BehindNoDir \/ TwoOfOneName \/ FixedAgain
<1>1. /\ Len(archive) \in Nat /\ Position \in Nat /\ Position + 1 \in 1 .. Len(archive)
      /\ Ahead \in Headers /\ Ahead = archive[Position + 1]
  BY AheadAt
<1>2. CASE Truncated(Ahead)
  <2>1. Position + 1 \notin 1 .. Len(archive) - 1
    BY <1>1, <1>2 DEF OnlyTheLastIsShort
  <2>2. Position + 1 = Len(archive)
    BY <1>1, <2>1
  <2>3. archive # <<>>
    BY <1>1
  <2> QED
    BY <1>1, <1>2, <2>2, <2>3 DEF Short
<1>3. CASE ~Writable(Front(Target))
  BY <1>3, NotWritable
<1>4. CASE Target \in DOMAIN out /\ out[Target].kind # Ahead.kind
  BY <1>4, Clash
<1>5. CASE /\ Target \in DOMAIN out /\ out[Target].kind = "file" /\ Ahead.kind = "file"
           /\ out[Target].mode # "rw"
  <2>1. PICK i \in 1 .. Len(archive) :
          /\ archive[i].name = Target /\ archive[i].kind = "file"
          /\ archive[i].mode # "rw" /\ (attempt = 1 => i <= Position)
    BY <1>5, OriginAt
  <2>2. CASE i = Position + 1
    <3>1. attempt \in 0 .. 2 /\ attempt # 0
      BY DEF RestoreInv
    <3>2. attempt = 2
      BY <1>1, <2>1, <2>2, <3>1
    <3> QED
      BY <2>1, <3>2 DEF FixedAgain
  <2>3. CASE i # Position + 1
    BY <1>1, <2>1, <2>3 DEF TwoOfOneName, Target
  <2> QED
    BY <2>2, <2>3
<1>6. ASSUME ~Possible, Writable(Front(Target)),
             ~(Target \in DOMAIN out /\ out[Target].kind # Ahead.kind)
      PROVE  /\ Target \in DOMAIN out /\ out[Target].kind = "file" /\ Ahead.kind = "file"
             /\ out[Target].mode # "rw"
  <2>1. Ahead.kind \in {"dir", "file", "link"}
    BY <1>6 DEF Possible
  <2>2. Ahead.kind # "dir"
    BY <1>6 DEF Possible, CanMakeDir, IsKind
  <2>3. Ahead.kind # "link"
    BY <1>6 DEF Possible, CanLink, IsKind
  <2>4. Ahead.kind = "file"
    BY <2>1, <2>2, <2>3
  <2> QED
    BY <1>6, <2>4 DEF Possible, CanOpen, IsKind
<1> QED
  BY <1>2, <1>3, <1>4, <1>5, <1>6

LEMMA BreaksStep ==
  ASSUME Typed, NamesInv, OnlyTheLastIsShort, RestoreInv, BreaksForCause, [Next]_vars
  PROVE  BreaksForCause'
<1>1. BreaksForCause <=>
        (pc = "broken" => Short \/ BehindNoDir \/ TwoOfOneName \/ FixedAgain)
  BY DEF BreaksForCause, BehindNoDir, TwoOfOneName, FixedAgain
<1>2. SUFFICES ASSUME pc' = "broken"
               PROVE  (Short \/ BehindNoDir \/ TwoOfOneName \/ FixedAgain)'
  BY DEF BreaksForCause, BehindNoDir, TwoOfOneName, FixedAgain
<1>3. (pc = "broken" /\ UNCHANGED <<archive, attempt>>) \/ Extract
  <2>1. CASE User
    BY <1>2, <2>1, SameWhenUserMoves DEF walk, restore
  <2>2. CASE ~User /\ ~Extract
    BY <1>2, <2>2 DEF Next, Client, LstatRoot, StartWalk, BeginRoot, LeaveOut, Visit, Copy,
       List, Finish, StartRestore, Interrupt, EndRestore, JobFails, vars, walk, restore
  <2> QED
    BY <2>1, <2>2
<1>4. Short \/ BehindNoDir \/ TwoOfOneName \/ FixedAgain
  <2>1. CASE pc = "broken"
    BY <1>1, <2>1
  <2>2. CASE Extract
    <3>1. pc = "extract" /\ left # <<>> /\ ~(Possible /\ ~Truncated(Ahead))
      BY <1>2, <2>2 DEF Extract, Possible
    <3> QED
      BY <3>1, CauseOfBreak
  <2> QED
    BY <1>3, <2>1, <2>2
<1>5. UNCHANGED <<archive, attempt>>
  BY <1>3 DEF Extract, walk
<1> QED
  BY <1>4, <1>5 DEF Short, Truncated, BehindNoDir, TwoOfOneName, FixedAgain

-----------------------------------------------------------------------------
(* All of it *)

ArchiveInv == Typed /\ NamesInv /\ OnlyTheLastIsShort /\ RestoreInv /\ BreaksForCause

LEMMA InitInv == Init => ArchiveInv
<1> SUFFICES ASSUME Init PROVE ArchiveInv
  OBVIOUS
<1>1. /\ job \in Jobs /\ tree = job.tree /\ budget = job.changes /\ touched = {}
      /\ pc = "roots" /\ roots = <<>> /\ todo = <<>> /\ archive = <<>>
      /\ left = <<>> /\ out = <<>> /\ attempt = 0
  BY DEF Init
<1>2. IsTree(job.tree) /\ job.changes \in Nat /\ job.paths \in Seq(Paths)
  BY <1>1, ArchiveAssumption DEF Paths
<1>3. /\ Len(<<>>) = 0 /\ <<>> \in Seq(Roots) /\ <<>> \in Seq(Entries) /\ <<>> \in Seq(Headers)
      /\ DOMAIN <<>> = {} /\ Len(job.paths) \in Nat
  BY <1>2
<1>4. FilesTyped
  BY <1>1, <1>2 DEF FilesTyped
<1>5. WalkTyped
  BY <1>1, <1>3 DEF WalkTyped
<1>6. NamesInv
  BY <1>1, <1>3 DEF NamesInv, ToVisit
<1>7. OnlyTheLastIsShort
  BY <1>1, <1>3 DEF OnlyTheLastIsShort
<1>8. RestoreInv
  BY <1>1, <1>3 DEF RestoreInv, Early
<1>9. BreaksForCause
  BY <1>1 DEF BreaksForCause
<1> QED
  BY <1>4, <1>5, <1>6, <1>7, <1>8, <1>9 DEF ArchiveInv, Typed

LEMMA InvStep == ArchiveInv /\ [Next]_vars => ArchiveInv'
<1> SUFFICES ASSUME ArchiveInv, [Next]_vars PROVE ArchiveInv'
  OBVIOUS
<1>1. Typed /\ NamesInv /\ OnlyTheLastIsShort /\ RestoreInv /\ BreaksForCause
  BY DEF ArchiveInv
<1>2. FilesTyped' /\ WalkTyped'
  BY <1>1, FilesStep, WalkStep DEF Typed
<1>3. NamesInv' /\ OnlyTheLastIsShort' /\ RestoreInv' /\ BreaksForCause'
  BY <1>1, <1>2, NamesStep, ShortStep, RestoreStep, BreaksStep
<1> QED
  BY <1>2, <1>3 DEF ArchiveInv, Typed

LEMMA InvHolds == Spec => []ArchiveInv
  BY InitInv, InvStep, PTL DEF Spec

(* Of every archive, saved or not, only the last file can be shorter than its
   header says: a saved version is readable up to there, since a job that goes
   on behind a file that shrank fails (main.go:563-582, 664-676). *)
THEOREM ArchiveShortAtEnd == Spec => []OnlyTheLastIsShort
<1>1. ArchiveInv => OnlyTheLastIsShort
  BY DEF ArchiveInv
<1> QED
  BY <1>1, InvHolds, PTL

(* Whatever the user does to the tree meanwhile, nothing the two forms of
   excludes of the README name gets into an archive, and nothing from below a
   directory they name (main.go:638-643, 720-746). *)
THEOREM ArchiveIgnoredStaysOut == Spec => []IgnoredStaysOut
<1>1. ArchiveInv => IgnoredStaysOut
  <2> SUFFICES ASSUME ArchiveInv, NEW k \in 1 .. Len(archive), NEW q \in job.exclude,
                      Len(q) > 1
               PROVE  /\ <<Deep, q[2]>> \in job.exclude =>
                           \A i \in 1 .. Len(archive[k].name) : archive[k].name[i] \notin q[2]
                      /\ <<Deep, q[2], Deep>> \in job.exclude =>
                           /\ \A i \in 1 .. Len(archive[k].name) - 1 :
                                archive[k].name[i] \notin q[2]
                           /\ (archive[k].kind = "dir" /\ touched = {}) =>
                                Last(archive[k].name) \notin q[2]
    BY DEF IgnoredStaysOut
  <2> DEFINE S == q[2]
             name == archive[k].name
  <2>1. S \in SUBSET Nat
    <3>1. q \in Seq(SUBSET Nat)
      BY ArchiveAssumption DEF ArchiveInv, Typed, FilesTyped
    <3> QED
      BY <3>1
  <2>2. Fine(k) /\ name \in Seq(Nat)
    <3>1. archive \in Seq(Headers)
      BY DEF ArchiveInv, Typed, WalkTyped
    <3>2. archive[k] \in Headers
      BY <3>1
    <3> QED
      BY <3>2 DEF ArchiveInv, NamesInv, Headers, Paths
  <2> HIDE DEF S
  <2>3. Ignores(S) => \A i \in 1 .. Len(name) - 1 : name[i] \notin S
    BY <2>1, <2>2 DEF Fine, ClearAbove
  <2>4. /\ <<Deep, S>> \in job.exclude => Last(name) \notin S
        /\ (<<Deep, S, Deep>> \in job.exclude /\ archive[k].kind = "dir" /\ touched = {}) =>
             Last(name) \notin S
    BY <2>1, <2>2 DEF Fine
  <2>5. Len(name) \in Nat /\ Last(name) = name[Len(name)]
    BY <2>2 DEF Last
  <2> HIDE DEF name
  <2>6. ASSUME <<Deep, S>> \in job.exclude, NEW i \in 1 .. Len(name) PROVE name[i] \notin S
    <3>1. CASE i = Len(name)
      BY <2>4, <2>5, <2>6, <3>1
    <3>2. CASE i # Len(name)
      BY <2>3, <2>5, <2>6, <3>2 DEF Ignores
    <3> QED
      BY <3>1, <3>2
  <2> QED
    BY <2>3, <2>4, <2>6 DEF Ignores, S, name
<1> QED
  BY <1>1, InvHolds, PTL

(* A restore of what any job archived, the first or a repeated one, breaks off
   for none but the five causes (main.go:634-657, 664-676, 771-800). *)
THEOREM ArchiveBreaksForCause == Spec => []BreaksForCause
<1>1. ArchiveInv => BreaksForCause
  BY DEF ArchiveInv
<1> QED
  BY <1>1, InvHolds, PTL

(* What has yet to be extracted is the end of the archive. *)
LEMMA LeftIsSuffix == ASSUME Typed, RestoreInv PROVE IsSuffix(left, archive)
<1> DEFINE m == Len(left)
           n == Len(archive)
           u == [i \in 1 .. m |-> left[m - i + 1]]
           v == [i \in 1 .. n |-> archive[n - i + 1]]
<1>1. /\ left \in Seq(Headers) /\ archive \in Seq(Headers) /\ m \in Nat /\ n \in Nat /\ m <= n
      /\ \A k \in 1 .. m : left[k] = archive[n - m + k]
  BY DEF Typed, WalkTyped, RestoreInv, Position
<1>2. u \in Seq(Headers) /\ Len(u) = m /\ \A i \in 1 .. m : u[i] = left[m - i + 1]
  <2>1. \A i \in 1 .. m : left[m - i + 1] \in Headers
    BY <1>1
  <2> QED
    BY <1>1, <2>1
<1>3. v \in Seq(Headers) /\ Len(v) = n /\ \A i \in 1 .. n : v[i] = archive[n - i + 1]
  <2>1. \A i \in 1 .. n : archive[n - i + 1] \in Headers
    BY <1>1
  <2> QED
    BY <1>1, <2>1
<1>4. Reverse(left) = u /\ Reverse(archive) = v
  BY DEF Reverse
<1> HIDE DEF u, v, m, n
<1>5. ASSUME NEW i \in 1 .. m PROVE u[i] = v[i]
  <2>1. m - i + 1 \in 1 .. m /\ i \in 1 .. n /\ n - m + (m - i + 1) = n - i + 1
    BY <1>1
  <2> QED
    BY <1>1, <1>2, <1>3, <2>1
<1>6. SubSeq(u, 1, m) = SubSeq(v, 1, m)
  <2>1. /\ SubSeq(u, 1, m) \in Seq(Headers) /\ Len(SubSeq(u, 1, m)) = m
        /\ \A i \in 1 .. m : SubSeq(u, 1, m)[i] = u[i]
    BY <1>1, <1>2
  <2>2. /\ SubSeq(v, 1, m) \in Seq(Headers) /\ Len(SubSeq(v, 1, m)) = m
        /\ \A i \in 1 .. m : SubSeq(v, 1, m)[i] = v[i]
    BY <1>1, <1>3
  <2> QED
    BY <1>5, <2>1, <2>2
<1>7. Len(u) <= Len(v)
  BY <1>1, <1>2, <1>3
<1>8. IsPrefix(u, v)
  BY <1>2, <1>6, <1>7 DEF IsPrefix
<1> QED
  BY <1>4, <1>8 DEF IsSuffix

(* The tree and what is restored stay trees, and the client reads the archive
   from its beginning to its end. *)
THEOREM ArchiveTypeCorrect == Spec => []ArchiveTypeOK
<1>1. ArchiveInv => ArchiveTypeOK
  BY LeftIsSuffix DEF ArchiveInv, Typed, FilesTyped, WalkTyped, RestoreInv, IsTree,
     ArchiveTypeOK
<1> QED
  BY <1>1, InvHolds, PTL

-----------------------------------------------------------------------------
(* What comes back *)

(* Prefixes, name by name *)
LEMMA Beginning ==
  ASSUME NEW p \in Paths, NEW l \in 0 .. Len(p)
  PROVE  /\ SubSeq(p, 1, l) \in Paths /\ Len(SubSeq(p, 1, l)) = l /\ Len(p) \in Nat
         /\ \A i \in 1 .. l : SubSeq(p, 1, l)[i] = p[i]
<1>1. Len(p) \in Nat /\ p \in Seq(Nat)
  BY DEF Paths
<1>2. \A i \in 1 .. l : p[i] \in Nat /\ (1 + i) - 1 = i
  BY <1>1
<1>3. 1 \in Int /\ l \in Int /\ (l - 1) + 1 = l /\ (1 <= l \/ l = 0)
  BY <1>1
<1>4. /\ SubSeq(p, 1, l) \in Seq(Nat)
      /\ Len(SubSeq(p, 1, l)) = IF 1 <= l THEN (l - 1) + 1 ELSE 0
      /\ \A i \in 1 .. (l - 1) + 1 : SubSeq(p, 1, l)[i] = p[(1 + i) - 1]
  BY <1>2, <1>3, SubSeqProperties
<1>5. Len(SubSeq(p, 1, l)) = l
  BY <1>3, <1>4
<1> QED
  BY <1>1, <1>2, <1>3, <1>4, <1>5 DEF Paths

LEMMA SamePath ==
  ASSUME NEW p \in Paths, NEW q \in Paths, Len(p) = Len(q),
         \A i \in 1 .. Len(p) : p[i] = q[i]
  PROVE  p = q
  BY SeqEqual DEF Paths

LEMMA UnderPoints ==
  ASSUME NEW p \in Paths, NEW q \in Paths
  PROVE  Under(p, q) <=> Len(p) <= Len(q) /\ \A i \in 1 .. Len(p) : p[i] = q[i]
<1>1. Len(p) \in Nat /\ Len(q) \in Nat /\ Len(p) \in 0 .. Len(p)
  BY DEF Paths
<1> DEFINE u == SubSeq(p, 1, Len(p))
           v == SubSeq(q, 1, Len(p))
<1>2. u \in Paths /\ Len(u) = Len(p) /\ \A i \in 1 .. Len(p) : u[i] = p[i]
  BY <1>1, Beginning
<1>3. Len(p) <= Len(q) =>
        v \in Paths /\ Len(v) = Len(p) /\ \A i \in 1 .. Len(p) : v[i] = q[i]
  <2>1. Len(p) <= Len(q) => Len(p) \in 0 .. Len(q)
    BY <1>1
  <2> QED
    BY <2>1, Beginning
<1>4. Under(p, q) <=> Len(p) <= Len(q) /\ u = v
  BY DEF Under, IsPrefix
<1> HIDE DEF u, v
<1>5. Len(p) <= Len(q) /\ u = v => \A i \in 1 .. Len(p) : p[i] = q[i]
  BY <1>2, <1>3
<1>6. Len(p) <= Len(q) /\ (\A i \in 1 .. Len(p) : p[i] = q[i]) => u = v
  <2> HAVE Len(p) <= Len(q) /\ \A i \in 1 .. Len(p) : p[i] = q[i]
  <2>1. \A i \in 1 .. Len(u) : u[i] = v[i]
    BY <1>2, <1>3
  <2> QED
    BY <1>2, <1>3, <2>1, SamePath
<1> QED
  BY <1>4, <1>5, <1>6

LEMMA UnderItself == ASSUME NEW p \in Paths PROVE Under(p, p)
<1>1. Len(p) \in Nat
  BY DEF Paths
<1> QED
  BY <1>1, UnderPoints

LEMMA UnderChain ==
  ASSUME NEW p \in Paths, NEW q \in Paths, NEW r \in Paths, Under(p, q), Under(q, r)
  PROVE  Under(p, r)
<1>1. Len(p) \in Nat /\ Len(q) \in Nat /\ Len(r) \in Nat
  BY DEF Paths
<1>2. /\ Len(p) <= Len(q) /\ Len(q) <= Len(r)
      /\ \A i \in 1 .. Len(p) : p[i] = q[i]
      /\ \A i \in 1 .. Len(q) : q[i] = r[i]
  BY UnderPoints
<1>3. Len(p) <= Len(r) /\ \A i \in 1 .. Len(p) : p[i] = r[i]
  BY <1>1, <1>2
<1> QED
  BY <1>3, UnderPoints

(* The beginnings of a path are the paths it is under. *)
LEMMA UnderBeginning ==
  ASSUME NEW p \in Paths, NEW l \in 0 .. Len(p)
  PROVE  SubSeq(p, 1, l) \in Paths /\ Under(SubSeq(p, 1, l), p)
<1> DEFINE u == SubSeq(p, 1, l)
<1>1. /\ u \in Paths /\ Len(u) = l /\ Len(p) \in Nat
      /\ \A i \in 1 .. l : u[i] = p[i]
  BY Beginning
<1> HIDE DEF u
<1>2. Len(u) <= Len(p)
  BY <1>1
<1>3. Under(u, p)
  BY <1>1, <1>2, UnderPoints
<1> QED
  BY <1>1, <1>3 DEF u

LEMMA SameBeginning ==
  ASSUME NEW p \in Paths, NEW q \in Paths, Under(p, q), NEW l \in 0 .. Len(p)
  PROVE  SubSeq(q, 1, l) = SubSeq(p, 1, l) /\ l \in 0 .. Len(q)
<1>1. Len(p) <= Len(q) /\ Len(p) \in Nat /\ Len(q) \in Nat
      /\ \A i \in 1 .. Len(p) : p[i] = q[i]
  BY UnderPoints DEF Paths
<1>2. l \in 0 .. Len(q)
  BY <1>1
<1> DEFINE u == SubSeq(p, 1, l)
           v == SubSeq(q, 1, l)
<1>3. u \in Paths /\ Len(u) = l /\ \A i \in 1 .. l : u[i] = p[i]
  BY Beginning
<1>4. v \in Paths /\ Len(v) = l /\ \A i \in 1 .. l : v[i] = q[i]
  BY <1>2, Beginning
<1> HIDE DEF u, v
<1>5. \A i \in 1 .. l : u[i] = v[i]
  BY <1>1, <1>3, <1>4
<1>6. u = v
  BY <1>3, <1>4, <1>5, SamePath
<1> QED
  BY <1>2, <1>6 DEF u, v

LEMMA WholeBeginning == ASSUME NEW p \in Paths PROVE SubSeq(p, 1, Len(p)) = p
<1>1. Len(p) \in 0 .. Len(p)
  BY DEF Paths
<1> DEFINE u == SubSeq(p, 1, Len(p))
<1>2. u \in Paths /\ Len(u) = Len(p) /\ \A i \in 1 .. Len(p) : u[i] = p[i]
  BY <1>1, Beginning
<1> HIDE DEF u
<1>3. u = p
  BY <1>2, SamePath
<1> QED
  BY <1>3 DEF u

(* The entry of a directory that leads to what lies further down *)
LEMMA NextBelow ==
  ASSUME NEW p \in Paths, NEW q \in Paths, Under(p, q), p # q
  PROVE  \E n \in Nat : Append(p, n) \in Paths /\ Under(Append(p, n), q)
<1>1. Len(p) <= Len(q) /\ Len(p) \in Nat /\ Len(q) \in Nat
      /\ \A i \in 1 .. Len(p) : p[i] = q[i]
  BY UnderPoints DEF Paths
<1>2. Len(p) # Len(q)
  BY <1>1, SamePath
<1>3. Len(p) + 1 \in 1 .. Len(q)
  BY <1>1, <1>2
<1>4. PICK n \in Nat : n = q[Len(p) + 1]
  BY <1>3 DEF Paths
<1> DEFINE c == Append(p, n)
<1>5. /\ c \in Paths /\ Len(c) = Len(p) + 1 /\ c[Len(p) + 1] = n
      /\ \A i \in 1 .. Len(p) : c[i] = p[i]
  BY AppendProperties DEF Paths
<1> HIDE DEF c
<1>6. \A i \in 1 .. Len(c) : i \in 1 .. Len(p) \/ i = Len(p) + 1
  BY <1>1, <1>5
<1>7. Len(c) <= Len(q) /\ \A i \in 1 .. Len(c) : c[i] = q[i]
  BY <1>1, <1>3, <1>4, <1>5, <1>6
<1>8. Under(c, q)
  BY <1>5, <1>7, UnderPoints
<1> QED
  BY <1>5, <1>8 DEF c

LEMMA UnderFront ==
  ASSUME NEW p \in Paths, NEW q \in Paths, Under(p, q), p # q
  PROVE  /\ q # <<>> /\ Front(q) \in Paths /\ Under(p, Front(q))
         /\ Len(Front(q)) = Len(q) - 1 /\ Len(p) < Len(q)
<1>1. Len(p) <= Len(q) /\ Len(p) \in Nat /\ Len(q) \in Nat
      /\ \A i \in 1 .. Len(p) : p[i] = q[i]
  BY UnderPoints DEF Paths
<1>2. Len(p) # Len(q)
  BY <1>1, SamePath
<1>3. Len(q) > 0 /\ q # <<>>
  BY <1>1, <1>2, NoneInEmpty DEF Paths
<1> DEFINE f == Front(q)
<1>4. f \in Paths /\ Len(f) = Len(q) - 1 /\ \A i \in 1 .. Len(q) - 1 : f[i] = q[i]
  BY <1>3, FrontOf DEF Paths
<1> HIDE DEF f
<1>5. Len(p) <= Len(f) /\ \A i \in 1 .. Len(p) : p[i] = f[i]
  BY <1>1, <1>2, <1>4
<1>6. Under(p, f)
  BY <1>4, <1>5, UnderPoints
<1> QED
  BY <1>1, <1>2, <1>3, <1>4, <1>6 DEF f

(* Everything above an entry of a tree is a directory of it. *)
LEMMA DirectoryAbove ==
  ASSUME NEW t, IsTree(t), NEW q \in DOMAIN t, NEW p \in Paths, Under(p, q), p # q
  PROVE  IsKind(t, p, "dir")
<1> DEFINE C == {n \in Nat : \A r \in DOMAIN t : (Under(p, r) /\ p # r /\ Len(r) <= n)
                               => IsKind(t, p, "dir")}
<1>1. \A r \in DOMAIN t : r \in Paths /\ Len(r) \in Nat /\ Len(p) \in Nat
  BY DEF IsTree, Paths
<1>2. 0 \in C
  <2>1. ASSUME NEW r \in DOMAIN t, Under(p, r), p # r, Len(r) <= 0 PROVE FALSE
    <3>1. Len(p) < Len(r)
      BY <1>1, <2>1, UnderFront
    <3> QED
      BY <1>1, <2>1, <3>1
  <2> QED
    BY <2>1
<1>3. ASSUME NEW n \in Nat, n \in C PROVE n + 1 \in C
  <2>1. ASSUME NEW r \in DOMAIN t, Under(p, r), p # r, Len(r) <= n + 1
        PROVE  IsKind(t, p, "dir")
    <3>1. /\ r # <<>> /\ Front(r) \in Paths /\ Under(p, Front(r))
          /\ Len(Front(r)) = Len(r) - 1
      BY <1>1, <2>1, UnderFront
    <3>2. IsKind(t, Front(r), "dir")
      BY <2>1, <3>1 DEF IsTree
    <3>3. Front(r) \in DOMAIN t /\ Len(Front(r)) <= n
      BY <1>1, <2>1, <3>1, <3>2 DEF IsKind
    <3> QED
      BY <1>3, <3>1, <3>2, <3>3
  <2>2. n + 1 \in Nat
    BY <1>3
  <2> QED
    BY <2>1, <2>2
<1>4. Nat \subseteq C
  <2> HIDE DEF C
  <2> QED
    BY <1>2, <1>3, SetOfNaturals
<1>5. PICK n \in Nat : n = Len(q)
  BY <1>1
<1>6. n \in C /\ Len(q) <= n
  BY <1>4, <1>5
<1> QED
  BY <1>6

-----------------------------------------------------------------------------
(* What nobody touched: the job has seen it as it was, and each such path that
   is not ignored is in the stream or below what is still to be visited.

   A path of a root *)
Below(r, p) == Under(r.source, p)

(* No directory of the job at or above p, from the root down, is ignored; p has
   been shortened to m names. *)
Clear(r, p, m) ==
  \A l \in Len(r.source) .. m :
    LET q == SubSeq(p, 1, l) IN ~Matched(TarPath(r, q), job.tree[q].kind = "dir")

(* Where nobody was, the tree is that of the job. *)
Seen ==
  \A p \in Paths : Untouched(p) /\ p \in DOMAIN tree \cup DOMAIN job.tree =>
    p \in DOMAIN tree \cap DOMAIN job.tree /\ tree[p] = job.tree[p]

(* What is to be visited *)
Genuine(e) ==
  /\ \E k \in 1 .. Len(roots) : e.root = roots[k]
  /\ Below(e.root, e.path)
  /\ Untouched(e.path) =>
       /\ Clear(e.root, e.path, Len(e.path) - 1)
       /\ e.kind # "unknown" => e.path \in DOMAIN job.tree /\ e.kind = job.tree[e.path].kind

(* An entry is what the job has there, if nobody was there. *)
Likeness(x, r, p) ==
  /\ Below(r, p) /\ x.name = TarPath(r, p)
  /\ Untouched(p) =>
       /\ p \in DOMAIN job.tree /\ Clear(r, p, Len(p))
       /\ x.kind = job.tree[p].kind /\ x.kind # "socket" /\ x.mode = job.tree[p].mode
Faithful(x) ==
  \E k \in 1 .. Len(roots) : \E p \in Paths :
    Likeness(x, roots[k], p) /\ (Untouched(p) => x.data = job.tree[p].data)

StreamInv ==
  \A i \in 1 .. Len(archive) :
    \/ Faithful(archive[i])
    \/ i = Len(archive) /\ pc \in {"copy", "failed"}
AtHand ==
  pc \in {"copy", "list"} =>
    ~Out /\ (pc = "copy" => Likeness(archive[Len(archive)], Entered.root, Entered.path))

(* What must be archived, is or will be. *)
Wanted(r, p) ==
  p \in DOMAIN job.tree /\ Below(r, p) /\ Untouched(p) /\ Clear(r, p, Len(p))
Covered(r, p) ==
  \/ \E i \in 1 .. Len(archive) : archive[i].name = TarPath(r, p)
  \/ \E e \in ToVisit : e.root = r /\ Under(e.path, p)
Complete ==
  pc \notin {"roots", "failed"} =>
    \A k \in 1 .. Len(roots) : \A p \in Paths : Wanted(roots[k], p) => Covered(roots[k], p)

Stages ==
  /\ pc = "roots" => todo = <<>> /\ archive = <<>>
  /\ pc \in {"saved", "extract", "cut", "restored", "broken"} => todo = <<>>

SightInv ==
  /\ Seen /\ StreamInv /\ AtHand /\ Complete /\ Stages
  /\ \A e \in ToVisit : Genuine(e)

(* What has been restored: where all entries of a name are the same, that is there. *)
Restorable == {"dir", "file", "link"}
Alike(n, v) ==
  \A i \in 1 .. Len(archive) :
    archive[i].name = n /\ archive[i].kind \in Restorable =>
      archive[i].kind = v.kind /\ archive[i].mode = v.mode /\ archive[i].data = v.data
OutInv ==
  /\ \A n \in DOMAIN out :
       out[n].kind \in Restorable /\ \A v \in Nodes : Alike(n, v) => out[n] = v
  /\ pc = "restored" =>
       \A i \in 1 .. Len(archive) :
         archive[i].kind \in Restorable => archive[i].name \in DOMAIN out

(* What was touched stays so, and what a path is compared with does not change. *)
LEMMA UntouchedBefore ==
  ASSUME touched \subseteq touched', NEW p, Untouched(p)' PROVE Untouched(p)
  BY DEF Untouched

LEMMA UntouchedAbove ==
  ASSUME FilesTyped, NEW p \in Paths, NEW q \in Paths, Under(p, q), Untouched(q)
  PROVE  Untouched(p)
<1> SUFFICES ASSUME NEW u \in touched, Under(u, p) PROVE FALSE
  BY DEF Untouched
<1>1. u \in Paths
  BY ArchiveAssumption DEF FilesTyped, Paths
<1> QED
  BY <1>1, UnderChain DEF Untouched

LEMMA ClearStays ==
  ASSUME job' = job, NEW r, NEW p, NEW m PROVE Clear(r, p, m)' <=> Clear(r, p, m)
  BY DEF Clear, Matched

Kept == job' = job /\ roots' = roots /\ touched \subseteq touched'

LEMMA GenuineStays == ASSUME Kept, NEW e, Genuine(e) PROVE Genuine(e)'
<1>1. Untouched(e.path)' => Untouched(e.path)
  BY UntouchedBefore DEF Kept
<1>2. Clear(e.root, e.path, Len(e.path) - 1)' <=> Clear(e.root, e.path, Len(e.path) - 1)
  BY ClearStays DEF Kept
<1> QED
  BY <1>1, <1>2 DEF Genuine, Kept, Below

LEMMA LikenessStays ==
  ASSUME Kept, NEW x, NEW r, NEW p, Likeness(x, r, p) PROVE Likeness(x, r, p)'
<1>1. Untouched(p)' => Untouched(p)
  BY UntouchedBefore DEF Kept
<1>2. Clear(r, p, Len(p))' <=> Clear(r, p, Len(p))
  BY ClearStays DEF Kept
<1> QED
  BY <1>1, <1>2 DEF Likeness, Kept, Below

LEMMA FaithfulStays == ASSUME Kept, NEW x, Faithful(x) PROVE Faithful(x)'
<1>1. PICK k \in 1 .. Len(roots), p \in Paths :
        Likeness(x, roots[k], p) /\ (Untouched(p) => x.data = job.tree[p].data)
  BY DEF Faithful
<1>2. Likeness(x, roots[k], p)'
  <2> DEFINE r == roots[k]
  <2>1. r' = r /\ Likeness(x, r, p)
    BY <1>1 DEF Kept
  <2> HIDE DEF r
  <2>2. PICK s : s = r
    OBVIOUS
  <2>3. Likeness(x, s, p)
    BY <2>1, <2>2
  <2>4. Likeness(x, s, p)'
    BY <2>3, LikenessStays
  <2>5. s = r'
    BY <2>1, <2>2
  <2>6. Likeness(x, r, p)'
    BY <2>4, <2>5 DEF Likeness
  <2> QED
    BY <2>6 DEF r
<1>3. Untouched(p)' => x.data = job'.tree[p].data
  BY <1>1, UntouchedBefore DEF Kept
<1>4. k \in 1 .. Len(roots')
  BY DEF Kept
<1> QED
  BY <1>2, <1>3, <1>4 DEF Faithful

LEMMA WantedBefore ==
  ASSUME Kept, NEW r, NEW p, Wanted(r, p)' PROVE Wanted(r, p)
<1>1. Clear(r, p, Len(p))' <=> Clear(r, p, Len(p))
  BY ClearStays DEF Kept
<1> QED
  BY <1>1, UntouchedBefore DEF Wanted, Kept, Below

LEMMA UserSees == ASSUME FilesTyped, Seen, User PROVE Seen' /\ Kept
<1>1. PICK p \in Places : Unlink(p) \/ MakeDir(p) \/ \E data \in Contents : WriteFile(p, data)
  BY DEF User
<1>2. p \in Paths
  BY ArchiveAssumption DEF Paths
<1>3. /\ job' = job /\ roots' = roots /\ touched' = touched \cup {p}
      /\ \A q \in Paths : ~Under(p, q) =>
           (q \in DOMAIN tree' <=> q \in DOMAIN tree) /\ (q \in DOMAIN tree => tree'[q] = tree[q])
  <2>1. CASE Unlink(p)
    BY <2>1 DEF Unlink, Change, walk
  <2>2. CASE \E node : Place(p, node)
    <3>1. PICK node : Place(p, node)
      BY <2>2
    <3>2. \A q \in Paths : ~Under(p, q) => q # p
      BY <1>2, UnderItself
    <3> QED
      BY <3>1, <3>2 DEF Place, Change, walk
  <2>3. (MakeDir(p) \/ \E data \in Contents : WriteFile(p, data)) => \E node : Place(p, node)
    BY DEF MakeDir, WriteFile
  <2> QED
    BY <1>1, <2>1, <2>2, <2>3
<1>4. ASSUME NEW q \in Paths, Untouched(q)', q \in DOMAIN tree' \cup DOMAIN job'.tree
      PROVE  q \in DOMAIN tree' \cap DOMAIN job'.tree /\ tree'[q] = job'.tree[q]
  <2>1. ~Under(p, q) /\ Untouched(q)
    BY <1>3, <1>4 DEF Untouched
  <2> QED
    BY <1>3, <1>4, <2>1 DEF Seen
<1> QED
  BY <1>3, <1>4 DEF Seen, Kept

LEMMA SeenStays == ASSUME Seen, UNCHANGED <<job, files>> PROVE Seen'
  BY DEF Seen, files, Untouched

Restoring == {"saved", "extract", "cut", "restored", "broken"}

(* Nothing new is to be visited or in the stream. *)
LEMMA SightStays ==
  ASSUME Typed, SightInv, Kept, Seen', UNCHANGED <<todo, archive>>,
         \/ pc' = pc \/ pc' = "failed"
         \/ todo = <<>> /\ pc = "walk" /\ pc' = "saved"
         \/ pc \in Restoring /\ pc' \in Restoring
  PROVE  SightInv'
<1>1. StreamInv'
  <2>1. ASSUME NEW i \in 1 .. Len(archive)
        PROVE  Faithful(archive[i])' \/ (i = Len(archive) /\ pc' \in {"copy", "failed"})
    <3>1. CASE Faithful(archive[i])
      <4>1. PICK x : x = archive[i]
        OBVIOUS
      <4>2. Faithful(x)'
        BY <3>1, <4>1, FaithfulStays
      <4>3. x = (archive[i])'
        BY <4>1
      <4> QED
        BY <4>2, <4>3 DEF Faithful, Likeness
    <3>2. CASE i = Len(archive) /\ pc \in {"copy", "failed"}
      BY <3>2 DEF Restoring
    <3> QED
      BY <3>1, <3>2 DEF SightInv, StreamInv
  <2> QED
    BY <2>1 DEF StreamInv
<1>2. AtHand'
  <2>1. SUFFICES ASSUME pc' \in {"copy", "list"}
                 PROVE  ~Out' /\ (pc' = "copy" => Likeness(archive[Len(archive)], Entered.root, Entered.path)')
    BY DEF AtHand
  <2>2. pc' = pc /\ ~Out
    BY <2>1 DEF SightInv, AtHand, Restoring
  <2>3. Out' = Out
    BY DEF Out, EnteredName, Entered, Matched, Kept
  <2>4. PICK x, r, p : x = archive[Len(archive)] /\ r = Entered.root /\ p = Entered.path
    OBVIOUS
  <2>5. pc' = "copy" => Likeness(x, r, p)'
    BY <2>1, <2>2, <2>4, LikenessStays DEF SightInv, AtHand
  <2>6. x = archive'[Len(archive')] /\ r = (Entered.root)' /\ p = (Entered.path)'
    BY <2>4 DEF Entered
  <2>7. pc' = "copy" => Likeness(archive[Len(archive)], Entered.root, Entered.path)'
    BY <2>5, <2>6 DEF Likeness
  <2> QED
    BY <2>2, <2>3, <2>7
<1>3. Complete'
  <2>1. SUFFICES ASSUME pc' \notin {"roots", "failed"}, NEW k \in 1 .. Len(roots'),
                        NEW p \in Paths, Wanted(roots[k], p)'
                 PROVE  Covered(roots[k], p)'
    BY DEF Complete
  <2>2. PICK r : r = roots[k] /\ r = roots'[k]
    BY DEF Kept
  <2>3. Wanted(r, p)'
    BY <2>1, <2>2 DEF Wanted, Below, Clear
  <2>4. Covered(r, p)
    <3>1. pc \notin {"roots", "failed"} /\ k \in 1 .. Len(roots)
      BY <2>1 DEF Restoring, Kept
    <3> QED
      BY <2>2, <2>3, <3>1, WantedBefore DEF SightInv, Complete
  <2>5. Covered(r, p)'
    BY <2>4 DEF Covered, ToVisit
  <2> QED
    BY <2>2, <2>5 DEF Covered
<1>4. Stages'
  BY DEF Stages, SightInv, Restoring
<1>5. \A e \in ToVisit' : Genuine(e)'
  BY Same, GenuineStays DEF SightInv
<1> QED
  BY <1>1, <1>2, <1>3, <1>4, <1>5 DEF SightInv

(* What must be archived stays covered if what was to be visited does. *)
LEMMA CompleteStays ==
  ASSUME Complete, Kept, Grows, pc \notin {"roots", "failed"},
         \A e \in ToVisit : \A p \in Paths :
           Wanted(e.root, p) /\ Under(e.path, p) => Covered(e.root, p)'
  PROVE  Complete'
<1> SUFFICES ASSUME NEW k \in 1 .. Len(roots'), NEW p \in Paths, Wanted(roots[k], p)'
             PROVE  Covered(roots[k], p)'
  BY DEF Complete
<1>1. PICK r : r = roots[k] /\ r = roots'[k] /\ k \in 1 .. Len(roots)
  BY DEF Kept
<1>2. Wanted(r, p)'
  BY <1>1 DEF Wanted, Below, Clear
<1>3. Wanted(r, p) /\ Covered(r, p)
  BY <1>1, <1>2, WantedBefore DEF Complete
<1>4. Covered(r, p)'
  <2>1. CASE \E i \in 1 .. Len(archive) : archive[i].name = TarPath(r, p)
    <3>1. PICK i \in 1 .. Len(archive) : archive[i].name = TarPath(r, p)
      BY <2>1
    <3>2. i \in 1 .. Len(archive') /\ archive'[i].name = TarPath(r, p)
      BY <3>1 DEF Grows
    <3> QED
      BY <3>2 DEF Covered, TarPath
  <2>2. CASE \E e \in ToVisit : e.root = r /\ Under(e.path, p)
    BY <1>3, <2>2
  <2> QED
    BY <1>3, <2>1, <2>2 DEF Covered
<1> QED
  BY <1>1, <1>4 DEF Covered, TarPath

LEMMA StreamStays ==
  ASSUME StreamInv, Kept, archive' = archive, pc \notin {"copy", "failed"}
  PROVE  StreamInv'
<1>1. ASSUME NEW i \in 1 .. Len(archive) PROVE Faithful(archive[i])'
  <2>1. PICK x : x = archive[i]
    OBVIOUS
  <2>2. Faithful(x)
    BY <2>1 DEF StreamInv
  <2>3. Faithful(x)'
    BY <2>2, FaithfulStays
  <2>4. x = (archive[i])'
    BY <2>1
  <2> QED
    BY <2>3, <2>4 DEF Faithful, Likeness
<1> QED
  BY <1>1 DEF StreamInv

LEMMA SightAtFirst == Init => SightInv
<1> SUFFICES ASSUME Init PROVE SightInv
  OBVIOUS
<1>1. Len(<<>>) = 0 /\ todo = <<>> /\ archive = <<>> /\ pc = "roots" /\ tree = job.tree
  BY DEF Init
<1>2. ToVisit = {}
  BY <1>1 DEF ToVisit
<1> QED
  BY <1>1, <1>2 DEF SightInv, Seen, StreamInv, AtHand, Complete, Stages

LEMMA LstatRootSees == ASSUME Typed, SightInv, LstatRoot PROVE SightInv'
<1>1. UNCHANGED <<job, files, todo, archive>> /\ pc = "roots"
  BY DEF LstatRoot, JobFails, walk
<1>2. Seen'
  BY <1>1, SeenStays DEF SightInv
<1>3. CASE JobFails
  BY <1>1, <1>2, <1>3, SightStays DEF JobFails, Kept, walk, files
<1>4. CASE ~JobFails
  <2>1. pc' = pc
    BY <1>4 DEF LstatRoot
  <2>2. todo' = <<>> /\ archive' = <<>> /\ Len(<<>>) = 0
    BY <1>1 DEF SightInv, Stages
  <2>3. ToVisit' = {}
    BY <2>2 DEF ToVisit
  <2> QED
    BY <1>1, <1>2, <2>1, <2>2, <2>3 DEF SightInv, StreamInv, AtHand, Complete, Stages
<1> QED
  BY <1>3, <1>4

(* A sorting of the numbers from 1 to n has all of them. *)
LEMMA OntoNumbers ==
  ASSUME NEW n \in Nat, NEW f \in [1 .. n -> 1 .. n],
         \A i, j \in 1 .. n : i < j => f[i] # f[j], NEW k \in 1 .. n
  PROVE  \E i \in 1 .. n : f[i] = k
<1>1. \A i, j \in 1 .. n : f[i] = f[j] => i = j
  BY Z3
<1>2. f \in Injection(1 .. n, 1 .. n)
  BY <1>1 DEF Injection, IsInjective
<1>3. IsFiniteSet(1 .. n)
  BY FS_Interval
<1>4. f \in Surjection(1 .. n, 1 .. n)
  BY <1>2, <1>3, FS_Injection, Zenon
<1> QED
  BY <1>4 DEF Surjection

LEMMA StartWalkSees == ASSUME Typed, SightInv, StartWalk PROVE SightInv'
<1>1. PICK f \in Sortings :
        todo' = [k \in 1 .. Len(roots) |->
                   LET root == roots[f[k]] IN Entry(root, root.source, "unknown")]
  BY DEF StartWalk
<1>2. roots \in Seq(Roots) /\ Len(roots) \in Nat /\ DOMAIN roots = 1 .. Len(roots)
  BY DEF Typed, WalkTyped
<1>3. pc = "roots" /\ pc' = "walk" /\ UNCHANGED <<job, files, roots, archive>>
  BY DEF StartWalk
<1>4. Kept /\ archive' = <<>> /\ Len(<<>>) = 0
  BY <1>3 DEF Kept, files, SightInv, Stages
<1>5. \A k \in 1 .. Len(roots) : f[k] \in 1 .. Len(roots) /\ roots[f[k]] \in Roots
  BY <1>2 DEF Sortings
<1>6. /\ Len(todo') = Len(roots)
      /\ \A k \in 1 .. Len(roots) :
           todo'[k] = Entry(roots[f[k]], roots[f[k]].source, "unknown")
  BY <1>1, <1>2
<1>7. ASSUME NEW e \in ToVisit' PROVE Genuine(e)'
  <2>1. PICK k \in 1 .. Len(roots) : e = Entry(roots[f[k]], roots[f[k]].source, "unknown")
    BY <1>6 DEF ToVisit
  <2>2. PICK r \in Roots : r = roots[f[k]]
    BY <1>5
  <2>3. e.root = r /\ e.path = r.source /\ e.kind = "unknown" /\ r.source \in Paths
    BY <2>1, <2>2 DEF Entry, Roots
  <2>4. Below(r, r.source)
    BY <2>3, UnderItself DEF Below
  <2>5. Len(r.source) \in Nat
    BY <2>3 DEF Paths
  <2>6. Clear(r, r.source, Len(r.source) - 1)
    BY <2>5 DEF Clear
  <2>7. Genuine(e)
    BY <1>5, <2>2, <2>3, <2>4, <2>6 DEF Genuine
  <2> QED
    BY <1>4, <2>7, GenuineStays
<1>8. Complete'
  <2>1. SUFFICES ASSUME NEW k \in 1 .. Len(roots'), NEW p \in Paths, Wanted(roots[k], p)'
                 PROVE  Covered(roots[k], p)'
    BY DEF Complete
  <2>2. k \in 1 .. Len(roots) /\ roots'[k] = roots[k]
    BY <1>3
  <2>3. f \in [1 .. Len(roots) -> 1 .. Len(roots)]
        /\ \A i, j \in 1 .. Len(roots) : i < j => f[i] # f[j]
    BY <1>2 DEF Sortings
  <2>4. PICK i \in 1 .. Len(roots) : f[i] = k
    BY <1>2, <2>2, <2>3, OntoNumbers
  <2>5. PICK e : e = todo'[i]
    OBVIOUS
  <2>6. e.root = roots'[k] /\ e.path = roots'[k].source
    <3>1. e = Entry(roots[f[i]], roots[f[i]].source, "unknown")
      BY <1>6, <2>5
    <3>2. roots[f[i]] = roots'[k]
      BY <2>2, <2>4
    <3> QED
      BY <3>1, <3>2 DEF Entry
  <2>7. e \in ToVisit'
    BY <1>6, <2>5 DEF ToVisit
  <2>8. Under(e.path, p)
    BY <2>1, <2>6 DEF Wanted, Below
  <2> QED
    BY <2>6, <2>7, <2>8 DEF Covered
<1>9. Seen'
  BY <1>3, SeenStays DEF SightInv
<1>10. StreamInv' /\ AtHand' /\ Stages'
  BY <1>3, <1>4 DEF StreamInv, AtHand, Stages
<1> QED
  BY <1>7, <1>8, <1>9, <1>10 DEF SightInv

LEMMA BeginRootSees == ASSUME Typed, SightInv, BeginRoot PROVE SightInv'
<1>1. UNCHANGED <<job, files, roots, archive>> /\ pc = "walk" /\ todo # <<>>
  BY DEF BeginRoot, JobFails, walk
<1>2. Seen' /\ Kept
  BY <1>1, SeenStays DEF SightInv, Kept, files
<1>3. CASE JobFails
  BY <1>1, <1>2, <1>3, SightStays DEF JobFails, walk
<1>4. CASE ~JobFails
  <2> DEFINE kind == tree[Entered.path].kind
             x == [todo[1] EXCEPT !.kind = kind]
  <2>1. /\ Entered.path \in DOMAIN tree /\ pc' = "walk"
        /\ todo' = [todo EXCEPT ![1].kind = kind]
    BY <1>1, <1>4 DEF BeginRoot
  <2>2. /\ todo \in Seq(Entries) /\ Len(todo) \in Nat \ {0}
        /\ Entered = todo[1] /\ Entered \in Entries
    BY <1>1, EnteredType DEF Typed, WalkTyped
  <2>3. todo' = [todo EXCEPT ![1] = x]
    BY <2>1
  <2>4. Len(todo') = Len(todo) /\ todo'[1] = x
        /\ \A k \in 1 .. Len(todo) : k # 1 => todo'[k] = todo[k]
    <3> HIDE DEF x
    <3>1. DOMAIN todo = 1 .. Len(todo)
      BY <2>2
    <3>2. todo' = [k \in 1 .. Len(todo) |-> IF k = 1 THEN x ELSE todo[k]]
      BY <2>3, <3>1
    <3> QED
      BY <2>2, <3>2
  <2>5. x.root = Entered.root /\ x.path = Entered.path /\ x.kind = kind /\ x.path \in Paths
    BY <2>2 DEF Entries
  <2>6. Genuine(Entered)
    BY <1>1, EnteredToVisit DEF SightInv, Typed
  <2>7. Genuine(x)
    <3> HIDE DEF x
    <3>1. Untouched(x.path) => x.path \in DOMAIN job.tree /\ x.kind = job.tree[x.path].kind
      BY <2>1, <2>5 DEF SightInv, Seen
    <3> QED
      BY <2>5, <2>6, <3>1 DEF Genuine
  <2> HIDE DEF x, kind
  <2>8. ASSUME NEW e \in ToVisit' PROVE Genuine(e)'
    <3>1. PICK k \in 1 .. Len(todo) : e = todo'[k]
      BY <2>4 DEF ToVisit
    <3>2. Genuine(e)
      <4>1. CASE k = 1
        BY <2>4, <2>7, <3>1, <4>1
      <4>2. CASE k # 1
        BY <2>4, <3>1, <4>2 DEF SightInv, ToVisit
      <4> QED
        BY <4>1, <4>2
    <3> QED
      BY <1>2, <3>2, GenuineStays
  <2>9. ASSUME NEW e \in ToVisit, NEW p \in Paths, Wanted(e.root, p), Under(e.path, p)
        PROVE  Covered(e.root, p)'
    <3>1. PICK k \in 1 .. Len(todo) : e = todo[k]
      BY DEF ToVisit
    <3>2. PICK d : d = todo'[k] /\ d.root = e.root /\ d.path = e.path
      BY <2>2, <2>4, <2>5, <3>1
    <3>3. d \in ToVisit'
      BY <2>4, <3>1, <3>2 DEF ToVisit
    <3> QED
      BY <2>9, <3>2, <3>3 DEF Covered
  <2>10. Complete'
    BY <1>1, <1>2, <2>9, CompleteStays, GrowsWhenSame DEF SightInv, Typed
  <2>11. StreamInv'
    BY <1>1, <1>2, StreamStays DEF SightInv
  <2>12. AtHand' /\ Stages'
    BY <2>1 DEF AtHand, Stages
  <2> QED
    BY <1>2, <2>8, <2>10, <2>11, <2>12 DEF SightInv
<1> QED
  BY <1>3, <1>4

(* What is not the next to be visited still is to be. *)
LEMMA OthersStay ==
  ASSUME WalkTyped, todo # <<>>, todo' = Tail(todo), NEW e \in ToVisit
  PROVE  e = Entered \/ e \in ToVisit'
<1>1. PICK k \in 1 .. Len(todo) : e = todo[k]
  BY DEF ToVisit
<1>2. /\ Entered = todo[1] /\ Len(todo) \in Nat \ {0} /\ Len(todo') = Len(todo) - 1
      /\ \A i \in 1 .. Len(todo) - 1 : todo'[i] = todo[i + 1]
  BY EnteredType
<1>3. CASE k = 1
  BY <1>1, <1>2, <1>3
<1>4. CASE k # 1
  <2>1. k - 1 \in 1 .. Len(todo') /\ k - 1 + 1 = k
    BY <1>1, <1>2, <1>4
  <2>2. todo'[k - 1] = e
    BY <1>1, <1>2, <2>1
  <2> QED
    BY <2>1, <2>2 DEF ToVisit
<1> QED
  BY <1>3, <1>4

LEMMA FewerGenuine ==
  ASSUME Typed, SightInv, Kept, todo # <<>>, todo' = Tail(todo), NEW e \in ToVisit'
  PROVE  Genuine(e)'
<1>1. e \in ToVisit
  BY Fewer DEF Typed
<1> QED
  BY <1>1, GenuineStays DEF SightInv

(* The directory entered is not ignored, or all below it is. *)
LEMMA ClearAtEntered ==
  ASSUME Typed, SightInv, todo # <<>>, Entered.kind # "unknown", Untouched(Entered.path)
  PROVE  /\ Entered.path \in Paths /\ Entered.path \in DOMAIN job.tree
         /\ Entered.kind = job.tree[Entered.path].kind /\ Below(Entered.root, Entered.path)
         /\ Len(Entered.root.source) \in Nat /\ Len(Entered.root.source) <= Len(Entered.path)
         /\ Out <=> Matched(TarPath(Entered.root, SubSeq(Entered.path, 1, Len(Entered.path))),
                            job.tree[SubSeq(Entered.path, 1, Len(Entered.path))].kind = "dir")
         /\ ~Out => Clear(Entered.root, Entered.path, Len(Entered.path))
<1>1. Entered \in Entries /\ Entered \in ToVisit
  BY EnteredType, EnteredToVisit DEF Typed
<1>2. Genuine(Entered)
  BY <1>1 DEF SightInv
<1> DEFINE p == Entered.path
           r == Entered.root
<1>3. p \in Paths /\ Len(p) \in Nat /\ Len(r.source) \in Nat /\ Len(r.source) <= Len(p)
  BY <1>1 DEF Entries, Roots, Paths
<1>4. /\ p \in DOMAIN job.tree /\ Entered.kind = job.tree[p].kind /\ Below(r, p)
      /\ Clear(r, p, Len(p) - 1)
  BY <1>2 DEF Genuine
<1>5. SubSeq(p, 1, Len(p)) = p
  BY <1>3, WholeBeginning
<1>6. Out <=> Matched(TarPath(r, p), job.tree[p].kind = "dir")
  BY <1>4 DEF Out, EnteredName
<1>7. ASSUME ~Out PROVE Clear(r, p, Len(p))
  <2> HIDE DEF p, r
  <2>1. ASSUME NEW l \in Len(r.source) .. Len(p)
        PROVE  ~Matched(TarPath(r, SubSeq(p, 1, l)), job.tree[SubSeq(p, 1, l)].kind = "dir")
    <3>1. CASE l = Len(p)
      BY <1>5, <1>6, <1>7, <3>1
    <3>2. CASE l # Len(p)
      <4>1. l \in Len(r.source) .. Len(p) - 1
        BY <1>3, <3>2
      <4> QED
        BY <1>4, <4>1 DEF Clear
    <3> QED
      BY <3>1, <3>2
  <2> QED
    BY <2>1 DEF Clear
<1> HIDE DEF p, r
<1>8. Out <=> Matched(TarPath(r, SubSeq(p, 1, Len(p))), job.tree[SubSeq(p, 1, Len(p))].kind = "dir")
  BY <1>5, <1>6
<1> QED
  BY <1>3, <1>4, <1>7, <1>8 DEF p, r

LEMMA LeaveOutSees == ASSUME Typed, SightInv, LeaveOut PROVE SightInv'
<1>1. /\ UNCHANGED <<job, files, pc, roots, archive>> /\ Known /\ Out
      /\ todo # <<>> /\ todo' = Tail(todo) /\ pc = "walk" /\ Entered.kind # "unknown"
  BY DEF LeaveOut, Known
<1>2. Seen' /\ Kept
  BY <1>1, SeenStays DEF SightInv, Kept, files
<1>3. ASSUME NEW e \in ToVisit, NEW p \in Paths, Wanted(e.root, p), Under(e.path, p)
      PROVE  Covered(e.root, p)'
  <2>1. CASE e \in ToVisit'
    BY <1>3, <2>1 DEF Covered
  <2>2. CASE e = Entered
    <3> DEFINE q == Entered.path
               r == Entered.root
    <3>1. q \in Paths
      BY <1>1, EnteredType DEF Typed, Entries
    <3>2. Untouched(q)
      BY <1>3, <2>2, <3>1, UntouchedAbove DEF Wanted, Typed
    <3>3. /\ Len(r.source) \in Nat /\ Len(r.source) <= Len(q)
          /\ Matched(TarPath(r, SubSeq(q, 1, Len(q))), job.tree[SubSeq(q, 1, Len(q))].kind = "dir")
      BY <1>1, <3>2, ClearAtEntered
    <3>4. Clear(r, p, Len(p)) /\ Under(q, p)
      BY <1>3, <2>2 DEF Wanted
    <3> HIDE DEF q, r
    <3>5. Len(q) \in Nat /\ Len(q) \in 0 .. Len(q)
      BY <3>1 DEF Paths
    <3>6. SubSeq(p, 1, Len(q)) = SubSeq(q, 1, Len(q)) /\ Len(q) \in 0 .. Len(p)
      BY <3>1, <3>4, <3>5, SameBeginning
    <3>7. Len(p) \in Nat
      BY DEF Paths
    <3>8. Len(q) \in Len(r.source) .. Len(p)
      BY <3>3, <3>5, <3>6, <3>7
    <3> QED
      BY <3>3, <3>4, <3>6, <3>8 DEF Clear
  <2> QED
    BY <1>1, <2>1, <2>2, OthersStay DEF Typed
<1>4. Complete'
  BY <1>1, <1>2, <1>3, CompleteStays, GrowsWhenSame DEF SightInv, Typed
<1>5. StreamInv'
  BY <1>1, <1>2, StreamStays DEF SightInv
<1>6. AtHand' /\ Stages'
  BY <1>1 DEF AtHand, Stages
<1>7. \A e \in ToVisit' : Genuine(e)'
  BY <1>1, <1>2, FewerGenuine
<1> QED
  BY <1>2, <1>4, <1>5, <1>6, <1>7 DEF SightInv

(* What is not a directory has nothing below it that must be archived. *)
LEMMA NothingBelow ==
  ASSUME Typed, SightInv, todo # <<>>, Entered.kind \notin {"unknown", "dir"},
         NEW p \in Paths, Wanted(Entered.root, p), Under(Entered.path, p)
  PROVE  p = Entered.path
<1> SUFFICES ASSUME p # Entered.path PROVE FALSE
  OBVIOUS
<1>1. Entered.path \in Paths
  BY EnteredType DEF Typed, Entries
<1>2. Untouched(Entered.path) /\ p \in DOMAIN job.tree
  BY <1>1, UntouchedAbove DEF Wanted, Typed
<1>3. Entered.kind = job.tree[Entered.path].kind
  BY <1>2, ClearAtEntered
<1>4. IsTree(job.tree)
  BY ArchiveAssumption DEF Typed, FilesTyped
<1>5. PICK t, q : t = job.tree /\ q = Entered.path
  OBVIOUS
<1>6. IsKind(t, q, "dir")
  BY <1>1, <1>2, <1>4, <1>5, DirectoryAbove
<1> QED
  BY <1>3, <1>5, <1>6 DEF IsKind

(* Leaving what was archived, and is no directory, behind *)
LEMMA CoveredBehind ==
  ASSUME Typed, SightInv, todo # <<>>, Entered.kind # "unknown",
         \/ todo' = todo
         \/ todo' = Tail(todo) /\ Entered.kind # "dir",
         \E i \in 1 .. Len(archive') : archive'[i].name = NameOf(Entered),
         NEW e \in ToVisit, NEW p \in Paths, Wanted(e.root, p), Under(e.path, p)
  PROVE  Covered(e.root, p)'
<1>1. CASE e \in ToVisit'
  BY <1>1 DEF Covered
<1>2. CASE todo' = todo
  <2>1. e \in ToVisit'
    BY <1>2, Same
  <2> QED
    BY <2>1 DEF Covered
<1>3. CASE todo' = Tail(todo) /\ e = Entered /\ Entered.kind # "dir"
  <2>1. p = Entered.path
    BY <1>3, NothingBelow
  <2>2. NameOf(Entered) = TarPath(e.root, p)
    BY <1>3, <2>1 DEF NameOf
  <2> QED
    BY <2>2 DEF Covered, TarPath
<1> QED
  BY <1>1, <1>2, <1>3, OthersStay DEF Typed

LEMMA VisitSees == ASSUME Typed, SightInv, Visit PROVE SightInv'
<1>1. UNCHANGED <<job, files, roots>> /\ Known /\ ~Out
  BY DEF Visit, JobFails, walk
<1>2. pc = "walk" /\ todo # <<>> /\ Entered.kind # "unknown"
  BY <1>1 DEF Known
<1>3. Seen' /\ Kept
  BY <1>1, SeenStays DEF SightInv, Kept, files
<1>4. CASE JobFails
  BY <1>1, <1>3, <1>4, SightStays DEF JobFails, walk
<1>5. CASE ~JobFails
  <2> DEFINE p == Entered.path
             r == Entered.root
             node == tree[p]
             n == Len(archive)
  <2>1. /\ p \in DOMAIN tree /\ node.kind # "socket" /\ archive' = Append(archive, Header(node))
        /\ \/ pc' = "copy" /\ node.kind = "file" /\ todo' = todo
           \/ pc' = "list" /\ node.kind # "file" /\ Entered.kind = "dir" /\ todo' = todo
           \/ pc' = "walk" /\ node.kind # "file" /\ Entered.kind # "dir" /\ todo' = Tail(todo)
    BY <1>5 DEF Visit, CanStart
  <2>2. archive \in Seq(Headers) /\ n \in Nat
    BY DEF Typed, WalkTyped
  <2>3. Header(node) \in Headers
    BY <1>1, <2>1, HeaderType
  <2>4. /\ Len(archive') = n + 1 /\ archive'[n + 1] = Header(node)
        /\ \A k \in 1 .. n : archive'[k] = archive[k]
    <3> DEFINE h == Header(node)
    <3> HIDE DEF h
    <3>1. archive' = Append(archive, h) /\ h \in Headers
      BY <2>1, <2>3 DEF h
    <3> QED
      BY <2>2, <3>1, AppendProperties DEF h
  <2>5. /\ Header(node).name = TarPath(r, p) /\ Header(node).kind = node.kind
        /\ Header(node).mode = node.mode /\ (node.kind # "file" => Header(node).data = node.data)
    BY DEF Header, EnteredName
  <2>6. Genuine(Entered) /\ p \in Paths
    BY <1>2, EnteredToVisit, EnteredType DEF SightInv, Typed, Entries
  <2>7. Untouched(p) => p \in DOMAIN job.tree /\ node = job.tree[p]
    BY <2>1, <2>6 DEF SightInv, Seen
  <2>8. Untouched(p) => Clear(r, p, Len(p))
    BY <1>1, <1>2, ClearAtEntered
  <2>9. Likeness(Header(node), r, p)
    BY <2>1, <2>5, <2>6, <2>7, <2>8 DEF Likeness, Genuine
  <2>10. PICK x : x = Header(node)
    OBVIOUS
  <2>11. PICK k \in 1 .. Len(roots) : r = roots[k]
    BY <2>6 DEF Genuine
  <2>12. node.kind # "file" => Faithful(x)
    BY <2>5, <2>6, <2>7, <2>9, <2>10, <2>11 DEF Faithful
  <2> HIDE DEF node
  <2>13. StreamInv'
    <3>1. ASSUME NEW i \in 1 .. n + 1
          PROVE  Faithful(archive[i])' \/ (i = n + 1 /\ pc' \in {"copy", "failed"})
      <4>1. CASE i = n + 1
        <5>1. CASE node.kind = "file"
          BY <2>1, <4>1, <5>1
        <5>2. CASE node.kind # "file"
          <6>1. Faithful(x)'
            BY <1>3, <2>12, <5>2, FaithfulStays
          <6>2. x = archive'[i]
            BY <2>4, <2>10, <4>1
          <6> QED
            BY <6>1, <6>2 DEF Faithful, Likeness
        <5> QED
          BY <5>1, <5>2
      <4>2. CASE i # n + 1
        <5>1. i \in 1 .. n
          BY <2>2, <4>2
        <5>2. PICK y : y = archive[i]
          OBVIOUS
        <5>3. Faithful(y)
          BY <1>2, <5>1, <5>2 DEF SightInv, StreamInv
        <5>4. Faithful(y)'
          BY <1>3, <5>3, FaithfulStays
        <5>5. y = archive'[i]
          BY <2>4, <5>1, <5>2
        <5> QED
          BY <5>4, <5>5 DEF Faithful, Likeness
      <4> QED
        BY <4>1, <4>2
    <3> QED
      BY <2>4, <3>1 DEF StreamInv
  <2>14. AtHand'
    <3>1. SUFFICES ASSUME pc' \in {"copy", "list"}
                   PROVE  ~Out' /\ Likeness(archive[Len(archive)], Entered.root, Entered.path)'
      BY DEF AtHand
    <3>2. todo' = todo
      BY <2>1, <3>1
    <3>3. Out' = Out
      BY <1>1, <3>2 DEF Out, EnteredName, Entered, Matched
    <3>4. PICK s, q : s = r /\ q = p
      OBVIOUS
    <3>5. Likeness(x, s, q)'
      BY <1>3, <2>9, <2>10, <3>4, LikenessStays
    <3>6. x = (archive[Len(archive)])' /\ s = (Entered.root)' /\ q = (Entered.path)'
      BY <2>4, <2>10, <3>2, <3>4 DEF Entered
    <3>7. Likeness(archive[Len(archive)], Entered.root, Entered.path)'
      BY <3>5, <3>6 DEF Likeness
    <3> QED
      BY <1>1, <3>3, <3>7
  <2>15. Complete'
    <3>1. Grows
      BY <2>2, <2>4 DEF Grows
    <3>2. \E i \in 1 .. Len(archive') : archive'[i].name = NameOf(Entered)
      BY <2>2, <2>4, <2>5 DEF NameOf
    <3>3. \A e \in ToVisit : \A q \in Paths :
            Wanted(e.root, q) /\ Under(e.path, q) => Covered(e.root, q)'
      BY <1>2, <2>1, <3>2, CoveredBehind
    <3> QED
      BY <1>2, <1>3, <3>1, <3>3, CompleteStays DEF SightInv
  <2>16. Stages'
    BY <2>1 DEF Stages
  <2>17. ASSUME NEW e \in ToVisit' PROVE Genuine(e)'
    <3>1. CASE todo' = todo
      BY <1>3, <3>1, Same, GenuineStays DEF SightInv
    <3>2. CASE todo' = Tail(todo)
      BY <1>2, <1>3, <3>2, FewerGenuine
    <3> QED
      BY <2>1, <3>1, <3>2
  <2> QED
    BY <1>3, <2>13, <2>14, <2>15, <2>16, <2>17 DEF SightInv
<1> QED
  BY <1>4, <1>5

LEMMA CopySees == ASSUME Typed, NamesInv, SightInv, Copy PROVE SightInv'
<1>1. UNCHANGED <<job, files, roots>> /\ pc = "copy"
  BY DEF Copy, JobFails, walk
<1>2. todo # <<>> /\ Entered.kind # "unknown" /\ archive # <<>>
  BY <1>1 DEF Typed, WalkTyped
<1>3. Seen' /\ Kept
  BY <1>1, SeenStays DEF SightInv, Kept, files
<1>4. CASE JobFails
  BY <1>1, <1>3, <1>4, SightStays DEF JobFails, walk
<1>5. CASE ~JobFails
  <2> DEFINE p == Entered.path
             r == Entered.root
             n == Len(archive)
  <2>1. /\ IsKind(tree, p, "file")
        /\ \/ pc' = "list" /\ Entered.kind = "dir" /\ todo' = todo
           \/ pc' = "walk" /\ Entered.kind # "dir" /\ todo' = Tail(todo)
    BY <1>5 DEF Copy
  <2>2. /\ archive \in Seq(Headers) /\ n \in Nat \ {0} /\ Len(archive') = n
        /\ \A k \in 1 .. n - 1 : archive'[k] = archive[k]
        /\ archive'[n] = [archive[n] EXCEPT !.data = tree[p].data]
    BY <1>5, CopyStream
  <2>3. archive[n] \in Headers
    BY <2>2
  <2>4. PICK x : x = archive'[n]
    OBVIOUS
  <2>5. x.name = archive[n].name /\ x.kind = archive[n].kind /\ x.mode = archive[n].mode
        /\ x.data = tree[p].data
    BY <2>2, <2>3, <2>4 DEF Headers
  <2>6. ~Out /\ Likeness(archive[n], r, p)
    BY <1>1 DEF SightInv, AtHand
  <2>7. Entered \in ToVisit /\ Genuine(Entered) /\ p \in Paths
    BY <1>2, EnteredToVisit, EnteredType DEF SightInv, Typed, Entries
  <2>8. Faithful(x)
    <3>1. Likeness(x, r, p)
      BY <2>5, <2>6 DEF Likeness
    <3>2. Untouched(p) => x.data = job.tree[p].data
      BY <2>1, <2>5, <2>7 DEF SightInv, Seen, IsKind
    <3>3. PICK k \in 1 .. Len(roots) : r = roots[k]
      BY <2>7 DEF Genuine
    <3> QED
      BY <2>7, <3>1, <3>2, <3>3 DEF Faithful
  <2>9. StreamInv'
    <3>1. ASSUME NEW i \in 1 .. n PROVE Faithful(archive[i])'
      <4>1. PICK y : y = archive'[i]
        OBVIOUS
      <4>2. Faithful(y)
        <5>1. CASE i = n
          BY <2>4, <2>8, <4>1, <5>1
        <5>2. CASE i # n
          <6>1. i \in 1 .. n - 1
            BY <2>2, <5>2
          <6>2. archive[i] = y /\ i # Len(archive) /\ i \in 1 .. Len(archive)
            BY <2>2, <4>1, <5>2, <6>1
          <6> QED
            BY <6>2 DEF SightInv, StreamInv
        <5> QED
          BY <5>1, <5>2
      <4>3. Faithful(y)'
        BY <1>3, <4>2, FaithfulStays
      <4> QED
        BY <4>1, <4>3 DEF Faithful, Likeness
    <3> QED
      BY <2>2, <3>1 DEF StreamInv
  <2>10. AtHand'
    <3>1. SUFFICES ASSUME pc' \in {"copy", "list"} PROVE ~Out' /\ pc' # "copy"
      BY DEF AtHand
    <3>2. todo' = todo
      BY <2>1, <3>1
    <3>3. Out' = Out
      BY <1>1, <3>2 DEF Out, EnteredName, Entered, Matched
    <3> QED
      BY <2>1, <2>6, <3>3
  <2>11. Complete'
    <3>1. \A i \in 1 .. n : archive'[i].name = archive[i].name /\ archive'[i].kind = archive[i].kind
      <4> SUFFICES ASSUME NEW i \in 1 .. n
                   PROVE  archive'[i].name = archive[i].name /\ archive'[i].kind = archive[i].kind
        OBVIOUS
      <4>1. CASE i = n
        BY <2>4, <2>5, <4>1
      <4>2. CASE i # n
        <5>1. i \in 1 .. n - 1
          BY <2>2, <4>2
        <5> QED
          BY <2>2, <5>1
      <4> QED
        BY <4>1, <4>2
    <3>2. Grows
      BY <2>2, <3>1 DEF Grows
    <3>3. archive[n].name = NameOf(Entered)
      BY <1>1 DEF NamesInv
    <3>4. \E i \in 1 .. Len(archive') : archive'[i].name = NameOf(Entered)
      <4>1. n \in 1 .. Len(archive') /\ archive'[n].name = NameOf(Entered)
        <5>1. n \in 1 .. Len(archive')
          BY <2>2
        <5>2. x.name = NameOf(Entered)
          BY <2>5, <3>3
        <5> QED
          BY <2>4, <5>1, <5>2
      <4> QED
        BY <4>1
    <3>5. \A e \in ToVisit : \A q \in Paths :
            Wanted(e.root, q) /\ Under(e.path, q) => Covered(e.root, q)'
      BY <1>2, <2>1, <3>4, CoveredBehind
    <3> QED
      BY <1>1, <1>3, <3>2, <3>5, CompleteStays DEF SightInv
  <2>12. Stages'
    BY <2>1 DEF Stages
  <2>13. ASSUME NEW e \in ToVisit' PROVE Genuine(e)'
    <3>1. CASE todo' = todo
      BY <1>3, <3>1, Same, GenuineStays DEF SightInv
    <3>2. CASE todo' = Tail(todo)
      BY <1>2, <1>3, <3>2, FewerGenuine
    <3> QED
      BY <2>1, <3>1, <3>2
  <2> QED
    BY <1>3, <2>9, <2>10, <2>11, <2>12, <2>13 DEF SightInv
<1> QED
  BY <1>4, <1>5

(* A listing has every name there is. *)
LEMMA OntoNames ==
  ASSUME NEW S \in SUBSET Nat, IsFiniteSet(S), NEW n \in Nat, n = Cardinality(S),
         NEW f \in [1 .. n -> S], \A i, j \in 1 .. n : i < j => f[i] < f[j], NEW c \in S
  PROVE  \E i \in 1 .. n : f[i] = c
<1>1. n \in Nat
  OBVIOUS
<1>2. \A i \in 1 .. n : f[i] \in Nat
  OBVIOUS
<1>3. ASSUME NEW i \in 1 .. n, NEW j \in 1 .. n, f[i] = f[j] PROVE i = j
  <2>1. ~(f[i] < f[j]) /\ ~(f[j] < f[i])
    BY <1>2, <1>3
  <2>2. ~(i < j) /\ ~(j < i)
    BY <2>1
  <2> QED
    BY <1>1, <2>2
<1>4. f \in Injection(1 .. n, S)
  BY <1>3 DEF Injection, IsInjective
<1>5. IsFiniteSet(1 .. n) /\ Cardinality(1 .. n) = n
  BY <1>1, FS_Interval
<1>6. f \in Surjection(1 .. n, S)
  BY <1>4, <1>5, FS_Injection, Zenon
<1> QED
  BY <1>6 DEF Surjection

LEMMA ListingHasAll ==
  ASSUME Typed, todo # <<>>, Entered.kind = "dir", NEW names \in Listings(Entered.path),
         NEW q \in DOMAIN tree, NEW m \in Nat, q = Append(Entered.path, m)
  PROVE  \E k \in 1 .. Len(Listed(names)) : Listed(names)[k] = Entry(Entered.root, q, tree[q].kind)
<1>1. Entered.path \in Paths
  BY EnteredType DEF Typed, Entries
<1>2. Last(q) = m /\ q # <<>>
  BY <1>1, FrontAppend DEF Paths
<1>3. m \in Children(Entered.path)
  BY <1>2 DEF Children
<1>4. Children(Entered.path) \in SUBSET Nat /\ IsFiniteSet(Children(Entered.path))
  BY <1>1, ChildrenFinite DEF Typed
<1>5. PICK S, n : S = Children(Entered.path) /\ n = Cardinality(S)
  OBVIOUS
<1>6. names \in [1 .. n -> S] /\ \A i, j \in DOMAIN names : i < j => names[i] < names[j]
  BY <1>5 DEF Listings
<1>7. PICK k \in 1 .. n : names[k] = m
  <2>1. S \in SUBSET Nat /\ IsFiniteSet(S) /\ m \in S /\ n = Cardinality(S) /\ n \in Nat
    BY <1>3, <1>4, <1>5, FS_CardinalityType
  <2>2. names \in [1 .. n -> S]
    BY <1>6
  <2>3. \A i, j \in 1 .. n : i < j => names[i] < names[j]
    BY <1>6, <2>2
  <2> QED
    BY <2>1, <2>2, <2>3, OntoNames
<1>8. Listed(names)[k] = Entry(Entered.root, q, tree[q].kind)
  BY <1>5, <1>7 DEF Listed
<1>9. Len(Listed(names)) = n
  BY <1>5, ListedType
<1> QED
  BY <1>7, <1>8, <1>9

LEMMA ListSees == ASSUME Typed, NamesInv, SightInv, List PROVE SightInv'
<1>1. UNCHANGED <<job, files, roots, archive>> /\ pc = "list"
  BY DEF List, JobFails, walk
<1>2. todo # <<>> /\ Entered.kind = "dir" /\ archive # <<>> /\ archive \in Seq(Headers)
  BY <1>1 DEF Typed, WalkTyped
<1>3. Seen' /\ Kept
  BY <1>1, SeenStays DEF SightInv, Kept, files
<1>4. CASE JobFails
  BY <1>1, <1>3, <1>4, SightStays DEF JobFails, walk
<1>5. CASE ~JobFails
  <2>1. PICK names \in Listings(Entered.path) : todo' = Listed(names) \o Tail(todo)
    BY <1>5 DEF List, Listed
  <2>2. pc' = "walk"
    BY <1>5 DEF List
  <2> DEFINE new == Listed(names)
             p == Entered.path
             r == Entered.root
  <2>3. /\ new \in Seq(Entries) /\ Tail(todo) \in Seq(Entries)
        /\ Len(new) \in Nat /\ Len(Tail(todo)) = Len(todo) - 1 /\ Len(todo) \in Nat \ {0}
        /\ \A k \in 1 .. Len(todo) - 1 : Tail(todo)[k] = todo[k + 1]
        /\ Entered = todo[1]
    BY <1>2, ListedType, EnteredType DEF Typed
  <2>4. Entered \in ToVisit /\ Genuine(Entered) /\ p \in Paths /\ ~Out
    BY <1>1, <1>2, EnteredToVisit, EnteredType DEF SightInv, AtHand, Typed, Entries
  <2>5. ASSUME NEW k \in 1 .. Len(new) PROVE Genuine(new[k])
    <3>1. PICK e, m : e = new[k] /\ m = names[k]
      OBVIOUS
    <3>2. /\ m \in Nat /\ e.root = r /\ e.path = Append(p, m) /\ e.path \in DOMAIN tree
          /\ e.kind = tree[e.path].kind
      BY <1>2, <3>1, ListedType
    <3>3. PICK q : q = Append(p, m)
      OBVIOUS
    <3>4. /\ q \in Paths /\ Len(q) - 1 = Len(p) /\ Len(p) \in Nat /\ Len(p) <= Len(q)
          /\ \A i \in 1 .. Len(p) : p[i] = q[i]
      BY <2>4, <3>2, <3>3 DEF Paths
    <3>5. Under(p, q)
      BY <2>4, <3>4, UnderPoints
    <3>6. r.source \in Paths
      BY <1>2, EnteredType DEF Typed, Entries, Roots
    <3>7. Below(r, q)
      BY <2>4, <3>4, <3>5, <3>6, UnderChain DEF Below, Genuine
    <3>8. ASSUME Untouched(q)
          PROVE  q \in DOMAIN job.tree /\ e.kind = job.tree[q].kind /\ Clear(r, q, Len(q) - 1)
      <4>1. Untouched(p)
        BY <2>4, <3>4, <3>5, <3>8, UntouchedAbove DEF Typed
      <4>2. Clear(r, p, Len(p))
        BY <1>2, <2>4, <4>1, ClearAtEntered
      <4>3. Len(r.source) \in Nat
        BY <3>6 DEF Paths
      <4>4. ASSUME NEW l \in Len(r.source) .. Len(p) PROVE SubSeq(q, 1, l) = SubSeq(p, 1, l)
        <5>1. l \in 0 .. Len(p)
          BY <3>4, <4>3
        <5> QED
          BY <2>4, <3>4, <3>5, <5>1, SameBeginning
      <4>5. Clear(r, q, Len(p))
        BY <4>2, <4>4 DEF Clear
      <4> QED
        BY <3>2, <3>3, <3>4, <3>8, <4>5 DEF SightInv, Seen
    <3>9. \E j \in 1 .. Len(roots) : r = roots[j]
      BY <2>4 DEF Genuine
    <3>10. Genuine(e)
      <4>1. e.path = q /\ e.root = r
        BY <3>2, <3>3
      <4> QED
        BY <3>7, <3>8, <3>9, <4>1 DEF Genuine
    <3> QED
      BY <3>1, <3>10
  <2>6. ASSUME NEW e \in ToVisit, NEW s \in Paths, Wanted(e.root, s), Under(e.path, s)
        PROVE  Covered(e.root, s)'
    <3>1. PICK k \in 1 .. Len(todo) : e = todo[k]
      BY <2>6 DEF ToVisit
    <3>2. CASE k # 1
      <4>1. /\ k - 1 \in 1 .. Len(Tail(todo)) /\ k - 1 + 1 = k
            /\ Len(new) + (k - 1) \in 1 .. Len(new) + Len(Tail(todo))
            /\ ~(Len(new) + (k - 1) <= Len(new)) /\ Len(new) + (k - 1) - Len(new) = k - 1
        BY <2>3, <3>2
      <4>2. Tail(todo)[k - 1] = e
        <5>1. k - 1 \in 1 .. Len(todo) - 1
          BY <2>3, <4>1
        <5> QED
          BY <2>3, <3>1, <4>1, <5>1
      <4>3. /\ Len(todo') = Len(new) + Len(Tail(todo))
            /\ todo'[Len(new) + (k - 1)] = e
        BY <2>1, <2>3, <4>1, <4>2, ConcatProperties
      <4>4. e \in ToVisit'
        BY <4>1, <4>3 DEF ToVisit
      <4> QED
        BY <2>6, <4>4 DEF Covered
    <3>3. CASE k = 1 /\ s = p
      <4>1. archive[Len(archive)].name = TarPath(e.root, s) /\ Len(archive) \in 1 .. Len(archive)
        BY <1>1, <1>2, <2>3, <3>1, <3>3, EmptySeq DEF NamesInv, NameOf
      <4> QED
        BY <1>1, <4>1 DEF Covered, TarPath
    <3>4. CASE k = 1 /\ s # p
      <4>1. e = Entered /\ Under(p, s)
        BY <2>3, <2>6, <3>1, <3>4
      <4>2. PICK m \in Nat : Append(p, m) \in Paths /\ Under(Append(p, m), s)
        BY <2>4, <3>4, <4>1, NextBelow
      <4>3. PICK q : q = Append(p, m)
        OBVIOUS
      <4>4. Untouched(q) /\ q \in Paths /\ Under(q, s)
        BY <2>6, <4>2, <4>3, UntouchedAbove DEF Wanted, Typed
      <4>5. q \in DOMAIN job.tree
        <5>1. CASE q = s
          BY <2>6, <5>1 DEF Wanted
        <5>2. CASE q # s
          <6>1. PICK t : t = job.tree
            OBVIOUS
          <6>2. IsTree(t) /\ s \in DOMAIN t
            BY <2>6, <6>1, ArchiveAssumption DEF Typed, FilesTyped, Wanted
          <6>3. IsKind(t, q, "dir")
            BY <4>4, <5>2, <6>2, DirectoryAbove
          <6> QED
            BY <6>1, <6>3 DEF IsKind
        <5> QED
          BY <5>1, <5>2
      <4>6. q \in DOMAIN tree
        BY <4>4, <4>5 DEF SightInv, Seen
      <4>7. PICK j \in 1 .. Len(new) : new[j] = Entry(r, q, tree[q].kind)
        BY <1>2, <4>3, <4>6, ListingHasAll
      <4>8. /\ j \in 1 .. Len(new) + Len(Tail(todo)) /\ j <= Len(new)
            /\ Len(todo') = Len(new) + Len(Tail(todo)) /\ todo'[j] = new[j]
        <5>1. j \in 1 .. Len(new) + Len(Tail(todo)) /\ j <= Len(new)
          BY <2>3
        <5> QED
          BY <2>1, <2>3, <5>1, ConcatProperties
      <4>9. new[j] \in ToVisit' /\ new[j].root = e.root /\ Under(new[j].path, s)
        BY <4>1, <4>4, <4>7, <4>8 DEF ToVisit, Entry
      <4> QED
        BY <4>9 DEF Covered
    <3> QED
      BY <3>2, <3>3, <3>4
  <2>7. Complete'
    BY <1>1, <1>3, <2>6, CompleteStays, GrowsWhenSame DEF SightInv, Typed
  <2>8. StreamInv'
    BY <1>1, <1>3, StreamStays DEF SightInv
  <2>9. AtHand' /\ Stages'
    BY <2>2 DEF AtHand, Stages
  <2> HIDE DEF new, p, r
  <2>10. ASSUME NEW e \in ToVisit' PROVE Genuine(e)'
    <3>1. PICK k \in 1 .. Len(todo') : e = todo'[k]
      BY <2>10 DEF ToVisit
    <3>2. k \in 1 .. Len(new) + Len(Tail(todo))
          /\ e = IF k <= Len(new) THEN new[k] ELSE Tail(todo)[k - Len(new)]
      BY <2>1, <2>3, <3>1, ConcatProperties DEF new
    <3>3. Genuine(e)
      <4>1. CASE k <= Len(new)
        <5>1. k \in 1 .. Len(new) /\ e = new[k]
          BY <2>3, <3>2, <4>1
        <5> QED
          BY <2>5, <5>1
      <4>2. CASE ~(k <= Len(new))
        <5>1. k - Len(new) + 1 \in 1 .. Len(todo) /\ e = todo[k - Len(new) + 1]
          BY <2>3, <3>2, <4>2
        <5> QED
          BY <5>1 DEF SightInv, ToVisit
      <4> QED
        BY <4>1, <4>2
    <3> QED
      BY <1>3, <3>3, GenuineStays
  <2> QED
    BY <1>3, <2>7, <2>8, <2>9, <2>10 DEF SightInv
<1> QED
  BY <1>4, <1>5

LEMMA SightStep == Typed /\ NamesInv /\ SightInv /\ [Next]_vars => SightInv'
<1> SUFFICES ASSUME Typed, NamesInv, SightInv, [Next]_vars PROVE SightInv'
  OBVIOUS
<1>1. CASE User
  <2>1. Seen' /\ Kept
    BY <1>1, UserSees DEF Typed, SightInv
  <2> QED
    BY <1>1, <2>1, SameWhenUserMoves, SightStays DEF walk
<1>2. CASE UNCHANGED vars \/ Finish \/ StartRestore \/ Interrupt \/ Extract \/ EndRestore
  <2>1. /\ UNCHANGED <<job, files, roots, todo, archive>>
        /\ \/ pc' = pc
           \/ todo = <<>> /\ pc = "walk" /\ pc' = "saved"
           \/ pc \in Restoring /\ pc' \in Restoring
    BY <1>2 DEF vars, walk, Finish, StartRestore, Interrupt, Extract, EndRestore, Restoring
  <2>2. Seen' /\ Kept
    BY <2>1, SeenStays DEF SightInv, Kept, files
  <2> QED
    BY <2>1, <2>2, SightStays
<1> QED
  BY <1>1, <1>2, LstatRootSees, StartWalkSees, BeginRootSees, LeaveOutSees, VisitSees,
     CopySees, ListSees DEF Next, Client

(* Each restored entry is as the archive has it. *)
LEMMA OutStays ==
  ASSUME OutInv, UNCHANGED <<out, archive>>, pc' # "restored" \/ pc' = pc PROVE OutInv'
  BY DEF OutInv, Alike

LEMMA ExtractKeepsOut == ASSUME Typed, RestoreInv, OutInv, Extract PROVE OutInv'
<1> DEFINE T == Target
<1>1. pc = "extract" /\ left # <<>> /\ archive' = archive
  BY DEF Extract, walk
<1>2. /\ Position + 1 \in 1 .. Len(archive) /\ Ahead \in Headers /\ Ahead = archive[Position + 1]
  BY <1>1, AheadAt
<1>3. /\ out' = IF Writes
                THEN [p \in DOMAIN out \cup {T} |-> IF p = T THEN Extracted ELSE out[p]]
                ELSE out
      /\ pc' # "restored"
  BY <1>1 DEF Extract, Possible, Writes
<1>4. CASE ~Writes
  BY <1>1, <1>3, <1>4, OutStays
<1>5. CASE Writes
  <2>1. /\ DOMAIN out' = DOMAIN out \cup {T} /\ out'[T] = Extracted
        /\ \A n \in DOMAIN out : n # T => out'[n] = out[n]
    BY <1>3, <1>5
  <2>2. Ahead.kind \in Restorable /\ Ahead.name = T
    BY <1>5 DEF Writes, Restorable, Target
  <2>3. ASSUME NEW v \in Nodes, Alike(T, v) PROVE Extracted = v
    <3>1. Ahead.kind = v.kind /\ Ahead.mode = v.mode /\ Ahead.data = v.data
      BY <1>2, <2>2, <2>3 DEF Alike
    <3>2. v = Node(v.kind, v.mode, v.data)
      BY DEF Nodes, Node
    <3>3. T \in DOMAIN out => out[T] = v
      BY <2>3 DEF OutInv
    <3>4. [v EXCEPT !.data = v.data] = v
      BY DEF Nodes
    <3>5. CASE IsKind(out, T, Ahead.kind) /\ Ahead.kind # "link"
      <4>1. Extracted = [out[T] EXCEPT !.data = Ahead.data]
        BY <3>5 DEF Extracted
      <4> QED
        BY <3>1, <3>3, <3>4, <3>5, <4>1 DEF IsKind
    <3>6. CASE ~(IsKind(out, T, Ahead.kind) /\ Ahead.kind # "link")
      <4>1. Extracted = Node(Ahead.kind, Ahead.mode, Ahead.data)
        BY <3>6 DEF Extracted
      <4> QED
        BY <3>1, <3>2, <4>1
    <3> QED
      BY <3>5, <3>6
  <2>4. Extracted.kind \in Restorable
    BY <1>1, <1>5, <2>2, ExtractedNode
  <2> HIDE DEF T
  <2>5. ASSUME NEW n \in DOMAIN out'
        PROVE  out'[n].kind \in Restorable /\ \A v \in Nodes : Alike(n, v) => out'[n] = v
    <3>1. CASE n = T
      BY <2>1, <2>3, <2>4, <3>1
    <3>2. CASE n # T
      BY <2>1, <2>5, <3>2 DEF OutInv
    <3> QED
      BY <3>1, <3>2
  <2>6. \A n, v : Alike(n, v)' <=> Alike(n, v)
    BY <1>1 DEF Alike
  <2> QED
    BY <1>3, <2>5, <2>6 DEF OutInv
<1> QED
  BY <1>4, <1>5

LEMMA OutStep ==
  Typed /\ RestoreInv /\ RestoreInv' /\ OutInv /\ [Next]_vars => OutInv'
<1> SUFFICES ASSUME Typed, RestoreInv, RestoreInv', OutInv, [Next]_vars PROVE OutInv'
  OBVIOUS
<1>1. CASE User \/ LstatRoot \/ StartWalk \/ BeginRoot \/ LeaveOut \/ Visit
           \/ Copy \/ List \/ Finish
  <2>1. Early /\ UNCHANGED restore
    BY <1>1, EarlySteps
  <2>2. attempt = 0 /\ attempt' = 0
    BY <2>1 DEF RestoreInv, restore
  <2>3. DOMAIN out' = {}
    BY <2>2 DEF RestoreInv
  <2>4. pc' # "restored"
    <3>1. CASE User
      BY <2>1, <3>1, SameWhenUserMoves DEF Early
    <3>2. CASE ~User
      BY <1>1, <2>1, <3>2 DEF Early, LstatRoot, StartWalk, BeginRoot, LeaveOut, Visit, Copy,
         List, Finish, JobFails
    <3> QED
      BY <3>1, <3>2
  <2> QED
    BY <2>3, <2>4 DEF OutInv
<1>2. CASE UNCHANGED vars \/ StartRestore \/ Interrupt
  <2>1. UNCHANGED <<out, archive>> /\ (pc' # "restored" \/ pc' = pc)
    BY <1>2 DEF vars, walk, restore, StartRestore, Interrupt
  <2> QED
    BY <2>1, OutStays
<1>3. CASE EndRestore
  <2>1. pc = "extract" /\ left = <<>> /\ UNCHANGED <<out, archive>>
    BY <1>3 DEF EndRestore, walk, restore
  <2>2. archive \in Seq(Headers) /\ Len(archive) \in Nat /\ Len(<<>>) = 0
    BY DEF Typed, WalkTyped
  <2>3. Position = Len(archive)
    BY <2>1, <2>2 DEF Position
  <2>4. \A i \in 1 .. Len(archive) : archive[i].kind \in Restorable => archive[i].name \in DOMAIN out
    BY <2>1, <2>3 DEF RestoreInv, Restorable
  <2> QED
    BY <2>1, <2>4 DEF OutInv, Alike
<1> QED
  BY <1>1, <1>2, <1>3, ExtractKeepsOut DEF Next, Client

BackInv == ArchiveInv /\ SightInv /\ OutInv

LEMMA BackHolds == Spec => []BackInv
<1>1. Init => BackInv
  <2> SUFFICES ASSUME Init PROVE BackInv
    OBVIOUS
  <2>1. ArchiveInv /\ SightInv
    BY InitInv, SightAtFirst
  <2>2. OutInv
    BY DEF Init, OutInv
  <2> QED
    BY <2>1, <2>2 DEF BackInv
<1>2. BackInv /\ [Next]_vars => BackInv'
  <2> SUFFICES ASSUME BackInv, [Next]_vars PROVE BackInv'
    OBVIOUS
  <2>1. ArchiveInv /\ ArchiveInv' /\ SightInv /\ OutInv
    BY InvStep DEF BackInv
  <2>2. SightInv' /\ OutInv'
    BY <2>1, SightStep, OutStep DEF ArchiveInv
  <2> QED
    BY <2>1, <2>2 DEF BackInv
<1> QED
  BY <1>1, <1>2, PTL DEF Spec

(* A path below a root that is not that of the file system, and its name *)
Named(s, r, p, m) ==
  /\ m \in Nat \ {0} /\ Len(p) \in Nat /\ m <= Len(p) /\ Len(s) = Len(p) - m + 1
  /\ \A i \in 1 .. m : p[i] = r.source[i]
  /\ \A i \in m .. Len(p) : s[i - m + 1] = p[i]
  /\ s[1] = Base(r.source)

LEMMA NameBelow ==
  ASSUME NEW r \in Roots, r.source # <<>>, NEW p \in Paths, Below(r, p)
  PROVE  Named(TarPath(r, p), r, p, Len(r.source))
<1>1. PICK m \in Nat : m = Len(r.source)
  BY DEF Roots, Paths
<1>2. r.source \in Seq(Nat) /\ m # 0 /\ Base(r.source) = r.source[m]
  BY <1>1, NoneInEmpty DEF Roots, Paths, Base, Last
<1>3. m <= Len(p) /\ Len(p) \in Nat /\ \A i \in 1 .. m : p[i] = r.source[i]
  BY <1>1, <1>2, UnderPoints DEF Below, Paths
<1>4. p # <<>>
  BY <1>2, <1>3
<1>5. PICK n \in Nat : n = Len(p)
  BY <1>3
<1>6. TarPath(r, p) = SubSeq(p, m, n)
  <2>1. m - 1 + 1 = m
    OBVIOUS
  <2> QED
    BY <1>1, <1>2, <1>4, <1>5, <2>1 DEF TarPath
<1>7. /\ Len(SubSeq(p, m, n)) = n - m + 1
      /\ \A i \in m .. n : SubSeq(p, m, n)[i - m + 1] = p[i]
  <2>1. \A i \in m .. n : p[i] \in Nat
    BY <1>2, <1>5 DEF Paths
  <2>2. m \in Int /\ n \in Int /\ m <= n
    BY <1>3, <1>5
  <2> DEFINE s == SubSeq(p, m, n)
  <2>3. /\ Len(s) = IF m <= n THEN n - m + 1 ELSE 0
        /\ \A j \in 1 .. n - m + 1 : s[j] = p[m + j - 1]
    BY <2>1, <2>2, SubSeqProperties
  <2> HIDE DEF s
  <2>4. ASSUME NEW i \in m .. n PROVE s[i - m + 1] = p[i]
    <3>1. i - m + 1 \in 1 .. n - m + 1 /\ m + (i - m + 1) - 1 = i
      OBVIOUS
    <3>2. s[i - m + 1] = p[m + (i - m + 1) - 1]
      BY <2>3, <3>1
    <3> QED
      BY <3>1, <3>2
  <2>5. Len(s) = n - m + 1
    BY <2>2, <2>3
  <2> QED
    BY <2>4, <2>5 DEF s
<1>8. SubSeq(p, m, n)[1] = Base(r.source)
  <2>1. m \in m .. n /\ m - m + 1 = 1 /\ m \in 1 .. m
    BY <1>2, <1>3, <1>5
  <2>2. SubSeq(p, m, n)[1] = p[m]
    BY <1>7, <2>1
  <2> QED
    BY <1>2, <1>3, <2>1, <2>2
<1> QED
  BY <1>1, <1>2, <1>3, <1>5, <1>6, <1>7, <1>8 DEF Named

LEMMA SameBelow ==
  ASSUME NEW r \in Roots, r.source # <<>>, NEW p \in Paths, NEW q \in Paths,
         Below(r, p), Below(r, q), TarPath(r, p) = TarPath(r, q)
  PROVE  p = q
<1>1. PICK m, s : m = Len(r.source) /\ s = TarPath(r, p)
  OBVIOUS
<1>2. Named(s, r, p, m)
  BY <1>1, NameBelow
<1>3. Named(s, r, q, m)
  <2>1. Named(TarPath(r, q), r, q, Len(r.source))
    BY NameBelow
  <2> QED
    BY <1>1, <2>1
<1>4. Len(p) = Len(q)
  BY <1>2, <1>3 DEF Named
<1>5. \A i \in 1 .. Len(p) : i \in 1 .. m \/ i \in m .. Len(p)
  BY <1>2 DEF Named
<1>6. \A i \in 1 .. Len(p) : p[i] = q[i]
  BY <1>2, <1>3, <1>4, <1>5 DEF Named
<1> QED
  BY <1>4, <1>6, SamePath

(* An entry whose name an untouched path of the job has is that path's. *)
LEMMA SameName ==
  ASSUME Typed, DistinctRoots, NEW k \in 1 .. Len(roots), NEW l \in 1 .. Len(roots),
         NEW p \in Paths, NEW q \in Paths, Below(roots[k], p), Below(roots[l], q),
         p \in DOMAIN job.tree, Untouched(p), Untouched(q) => q \in DOMAIN job.tree,
         TarPath(roots[k], p) = TarPath(roots[l], q)
  PROVE  k = l /\ p = q
<1>1. roots[k] \in Roots /\ roots[l] \in Roots /\ Len(roots) \in Nat
  BY DEF Typed, WalkTyped
<1>2. PICK r, s \in Roots : r = roots[k] /\ s = roots[l]
  BY <1>1
<1>3. CASE r.source # <<>> /\ s.source # <<>>
  <2>1. TarPath(r, p)[1] = Base(r.source) /\ TarPath(s, q)[1] = Base(s.source)
    BY <1>2, <1>3, NameBelow DEF Named
  <2>2. k = l
    BY <1>2, <2>1 DEF DistinctRoots
  <2>3. r = s
    BY <1>2, <2>2
  <2>4. p = q
    BY <1>2, <1>3, <2>3, SameBelow
  <2> QED
    BY <2>2, <2>4
<1>4. CASE r.source = <<>> \/ s.source = <<>>
  <2>1. ~(Len(roots) > 1)
    BY <1>2, <1>4 DEF DistinctRoots
  <2>2. k = l
    BY <1>1, <2>1
  <2>3. s = r /\ r.source = <<>>
    BY <1>2, <1>4, <2>2
  <2>4. /\ TarPath(r, p) = IF p = <<>> THEN <<r.prefix>> ELSE p
        /\ TarPath(r, q) = IF q = <<>> THEN <<r.prefix>> ELSE q
    BY <2>3 DEF TarPath
  <2>5. <<r.prefix>> \notin DOMAIN job.tree /\ <<r.prefix>> \notin touched
    BY <1>2, <2>3 DEF DistinctRoots
  <2>6. CASE p = <<>> /\ q # <<>>
    <3>1. q = <<r.prefix>> /\ Len(q) = 1
      <4>1. TarPath(r, p) = TarPath(r, q)
        BY <1>2, <2>2
      <4>2. q = <<r.prefix>>
        BY <2>4, <2>6, <4>1
      <4> QED
        BY <4>2
    <3>2. ASSUME NEW u \in touched PROVE ~Under(u, q)
      <4> SUFFICES ASSUME Under(u, q) PROVE FALSE
        OBVIOUS
      <4>1. u \in Paths
        BY ArchiveAssumption DEF Typed, FilesTyped, Paths
      <4>2. Len(u) \in Nat /\ Len(u) <= 1 /\ \A i \in 1 .. Len(u) : u[i] = q[i]
        <5>1. Len(u) \in Nat
          BY <4>1 DEF Paths
        <5>2. Len(u) <= Len(q) /\ \A i \in 1 .. Len(u) : u[i] = q[i]
          BY <4>1, UnderPoints
        <5> QED
          BY <3>1, <5>1, <5>2
      <4>3. u # <<>>
        BY <2>6, UnderItself DEF Untouched
      <4>4. Len(u) = 1
        <5>1. Len(u) > 0
          BY <4>1, <4>3, NoneInEmpty DEF Paths
        <5>2. \A n \in Nat : n <= 1 /\ n > 0 => n = 1
          OBVIOUS
        <5> QED
          BY <4>2, <5>1, <5>2
      <4>5. u = q
        BY <3>1, <4>1, <4>2, <4>4, SamePath
      <4> QED
        BY <2>5, <3>1, <4>5
    <3> QED
      BY <2>5, <3>1, <3>2 DEF Untouched
  <2>7. CASE p # <<>> /\ q = <<>>
    BY <1>2, <2>2, <2>4, <2>5, <2>7
  <2>8. (p = <<>>) = (q = <<>>) => p = q
    BY <1>2, <2>2, <2>4
  <2> QED
    BY <2>2, <2>6, <2>7, <2>8
<1> QED
  BY <1>3, <1>4

(* What of a name there is in the archive *)
LEMMA NamedSo ==
  ASSUME Typed, SightInv, DistinctRoots, pc = "restored", NEW k \in 1 .. Len(roots),
         NEW p \in DOMAIN job.tree, Below(roots[k], p), Untouched(p),
         NEW i \in 1 .. Len(archive), archive[i].name = TarPath(roots[k], p)
  PROVE  /\ Clear(roots[k], p, Len(p)) /\ archive[i].kind # "socket"
         /\ archive[i].kind = job.tree[p].kind /\ archive[i].mode = job.tree[p].mode
         /\ archive[i].data = job.tree[p].data
<1>1. p \in Paths
  BY ArchiveAssumption DEF Typed, FilesTyped, IsTree, Paths
<1>2. Faithful(archive[i])
  BY DEF SightInv, StreamInv
<1>3. PICK l \in 1 .. Len(roots), q \in Paths :
        Likeness(archive[i], roots[l], q) /\ (Untouched(q) => archive[i].data = job.tree[q].data)
  BY <1>2 DEF Faithful
<1>4. /\ Below(roots[l], q) /\ TarPath(roots[k], p) = TarPath(roots[l], q)
      /\ Untouched(q) => q \in DOMAIN job.tree
  BY <1>3 DEF Likeness
<1>5. k = l /\ p = q
  BY <1>1, <1>4, SameName
<1> QED
  BY <1>3, <1>5 DEF Likeness

(* What is restored is what nobody touched, as the job saw it, and what an
   entry of the archive names, whatever the user did to the rest of the tree
   meanwhile and however often the restore was interrupted
   (main.go:563-702, 744-822). *)
THEOREM ArchiveUntouchedComesBack == Spec => []UntouchedComesBack
<1>1. ASSUME BackInv PROVE UntouchedComesBack
  <2>1. Typed /\ RestoreInv /\ SightInv /\ OutInv
    BY <1>1 DEF BackInv, ArchiveInv
  <2>2. SUFFICES ASSUME pc = "restored", DistinctRoots
        PROVE  /\ \A k \in 1 .. Len(roots) :
                    \A p \in {q \in DOMAIN job.tree : Under(roots[k].source, q) /\ Untouched(q)} :
                      LET name == TarPath(roots[k], p)
                      IN  IF Ignored(roots[k], p) \/ job.tree[p].kind = "fifo"
                          THEN name \notin DOMAIN out
                          ELSE name \in DOMAIN out /\ out[name] = job.tree[p]
               /\ \A n \in DOMAIN out : \E i \in 1 .. Len(archive) : archive[i].name = n
    BY DEF UntouchedComesBack
  <2>3. ASSUME NEW n \in DOMAIN out
        PROVE  \E i \in 1 .. Len(archive) :
                 archive[i].name = n /\ archive[i].kind = out[n].kind /\ out[n].kind \in Restorable
    BY <2>1 DEF RestoreInv, Origin, OutInv
  <2>4. ASSUME NEW k \in 1 .. Len(roots), NEW p \in DOMAIN job.tree,
               Under(roots[k].source, p), Untouched(p)
        PROVE  IF Ignored(roots[k], p) \/ job.tree[p].kind = "fifo"
               THEN TarPath(roots[k], p) \notin DOMAIN out
               ELSE TarPath(roots[k], p) \in DOMAIN out /\ out[TarPath(roots[k], p)] = job.tree[p]
    <3> DEFINE r == roots[k]
               n == TarPath(r, p)
               v == job.tree[p]
    <3>1. Below(r, p)
      BY <2>4 DEF Below
    <3>2. ASSUME NEW i \in 1 .. Len(archive), archive[i].name = n
          PROVE  /\ Clear(r, p, Len(p)) /\ archive[i].kind # "socket"
                 /\ archive[i].kind = v.kind /\ archive[i].mode = v.mode /\ archive[i].data = v.data
      BY <2>1, <2>2, <2>4, <3>1, <3>2, NamedSo
    <3>3. v \in Nodes /\ p \in Paths
      BY <2>1, ArchiveAssumption DEF Typed, FilesTyped, IsTree, Paths
    <3>4. Ignored(r, p) <=> ~Clear(r, p, Len(p))
      BY DEF Ignored, Clear
    <3> HIDE DEF r, n, v
    <3>5. CASE Ignored(r, p) \/ v.kind = "fifo"
      <4> SUFFICES ASSUME n \in DOMAIN out PROVE FALSE
        BY <3>5 DEF r, n, v
      <4>1. PICK i \in 1 .. Len(archive) :
              archive[i].name = n /\ archive[i].kind = out[n].kind /\ out[n].kind \in Restorable
        BY <2>3
      <4> QED
        BY <3>2, <3>4, <3>5, <4>1 DEF Restorable
    <3>6. CASE ~Ignored(r, p) /\ v.kind # "fifo"
      <4>1. Wanted(r, p)
        BY <2>4, <3>1, <3>4, <3>6 DEF Wanted
      <4>2. Covered(r, p)
        BY <2>1, <2>2, <3>3, <4>1 DEF SightInv, Complete, r
      <4>3. ToVisit = {}
        <5>1. todo = <<>> /\ Len(<<>>) = 0
          BY <2>1, <2>2 DEF SightInv, Stages
        <5> QED
          BY <5>1 DEF ToVisit
      <4>4. PICK i \in 1 .. Len(archive) : archive[i].name = n
        BY <4>2, <4>3 DEF Covered, n
      <4>5. archive[i].kind \in Restorable
        BY <3>2, <3>3, <3>6, <4>4 DEF Nodes, Restorable
      <4>6. n \in DOMAIN out
        BY <2>1, <2>2, <4>4, <4>5 DEF OutInv
      <4>7. Alike(n, v)
        BY <3>2 DEF Alike
      <4>8. out[n] = v
        BY <2>1, <3>3, <4>6, <4>7 DEF OutInv
      <4> QED
        BY <3>6, <4>6, <4>8 DEF r, n, v
    <3> QED
      BY <3>5, <3>6
  <2> QED
    BY <2>3, <2>4
<1> QED
  BY <1>1, BackHolds, PTL
=============================================================================
