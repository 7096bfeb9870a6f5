----------------------------- MODULE IntakeProofs -----------------------------
(***************************************************************************)
(* What the chunks of an upload are, for every body, every chunk size and  *)
(* every gear table: they are the body, a pair of landmarks is a cut       *)
(* whatever comes before it, and what is put in front of a body moves no   *)
(* cut behind the first pair.  And what the server knows of the space of   *)
(* the nodes, for every number of them and every order of uploads,         *)
(* deletions and heartbeats.                                               *)
(***************************************************************************)
EXTENDS Intake, Sums, SequenceTheorems

LEMMA Sizes == MinSize \in Nat \ {0} /\ MaxSize \in Nat \ {0} /\ MinSize <= MaxSize
<1>1. Target \div 4 \in Nat /\ 4 * Target \in Nat
  BY ChunkerAssumption
<1>2. MinSize \in Nat \ {0}
  BY <1>1, ChunkerAssumption DEF MinSize, Larger
<1>3. QED
  BY <1>1, <1>2 DEF MaxSize, Larger

(* A cut is no farther than the largest size, and nearer than the smallest
   only at the end. *)
LEMMA CutSize ==
  ASSUME NEW s \in Seq(Byte), NEW i \in 0 .. Len(s), NEW p \in i + 1 .. Len(s),
         IsCut(s, i, p)
  PROVE  /\ p - i \in 1 .. MaxSize
         /\ p < Len(s) => p - i >= MinSize
<1>1. p - i <= MaxSize
  <2>1. SUFFICES ASSUME p - i > MaxSize PROVE FALSE
    BY Sizes
  <2>2. i + MaxSize \in i + 1 .. p - 1
    BY <2>1, Sizes
  <2>3. Stops(s, i, i + MaxSize)
    BY Sizes DEF Stops
  <2>4. QED BY <2>2, <2>3 DEF IsCut
<1>2. p < Len(s) => p - i >= MinSize
  BY Sizes DEF IsCut, Stops
<1>3. QED BY <1>1, <1>2, Sizes

(* No cut jumps over a pair of landmarks, and the second is one. *)
LEMMA CutAtLandmark ==
  ASSUME NEW s \in Seq(Byte), NEW a \in 1 .. Len(s), NEW b \in 1 .. Len(s),
         Landmark(s, a, b), NEW i \in 0 .. a, NEW p \in i + 1 .. Len(s),
         IsCut(s, i, p)
  PROVE  p <= a \/ p = b
<1> USE Sizes
<1>1. a + MinSize <= b /\ b + MinSize <= a + MaxSize
  BY DEF Landmark
<1>2. CASE i + MinSize <= a
  <2>1. Natural(s, i, a)
    BY <1>2 DEF Landmark, Magnet
  <2>2. Stops(s, i, a)
    BY <1>2, <2>1 DEF Stops
  <2>3. QED BY <1>2, <2>2 DEF IsCut
<1>3. CASE i + MinSize > a
  <2>1. Natural(s, i, b)
    BY <1>1 DEF Landmark, Magnet
  <2>2. Stops(s, i, b)
    BY <1>1, <2>1 DEF Stops
  <2>3. p <= b
    BY <1>1, <2>2 DEF IsCut
  <2>4. ASSUME p \in a + 1 .. b - 1 PROVE FALSE
    <3>1. p - i < MaxSize /\ p < Len(s)
      BY <1>1, <1>3, <2>4
    <3>2. p - i >= MinSize /\ Natural(s, i, p)
      BY <3>1 DEF IsCut, Stops
    <3>3. i \in 0 .. p - MinSize
      BY <3>2
    <3>4. QED BY <2>4, <3>2, <3>3 DEF Landmark, Plain
  <2>5. QED BY <2>3, <2>4
<1>4. QED BY <1>2, <1>3

-----------------------------------------------------------------------------
(* Powers of two and remainders *)

LEMMA PowerDef ==
  PowerOf2 = [k \in Nat |-> IF k = 0 THEN 1 ELSE 2 * PowerOf2[k - 1]]
<1> DEFINE Upto(n, f) == f = [k \in 0 .. n |-> IF k = 0 THEN 1 ELSE 2 * f[k - 1]]
           C == {n \in Nat : \E f : Upto(n, f)}
<1>1. 0 \in C
  <2> DEFINE f == [k \in 0 .. 0 |-> 1]
  <2>1. Upto(0, f)
    OBVIOUS
  <2> QED
    BY <2>1
<1>2. ASSUME NEW n \in Nat, n \in C PROVE n + 1 \in C
  <2>1. PICK f : Upto(n, f)
    BY <1>2
  <2> DEFINE g == [k \in 0 .. n + 1 |-> IF k = n + 1 THEN 2 * f[n] ELSE f[k]]
  <2>2. \A k \in 0 .. n + 1 : g[k] = IF k = 0 THEN 1 ELSE 2 * g[k - 1]
    BY <2>1
  <2>3. g = [k \in 0 .. n + 1 |-> g[k]]
    OBVIOUS
  <2>4. Upto(n + 1, g)
    <3> HIDE DEF g
    <3> QED
      BY <2>2, <2>3
  <2> HIDE DEF g
  <2>5. \E ff : Upto(n + 1, ff)
    BY <2>4, Zenon
  <2>6. n + 1 \in Nat
    OBVIOUS
  <2> QED
    BY <2>5, <2>6, Zenon
<1>3. Nat \subseteq C
  <2> HIDE DEF C
  <2> QED
    BY <1>1, <1>2, SetOfNaturals
<1> DEFINE F == [n \in Nat |-> CHOOSE f : Upto(n, f)]
           h == [n \in Nat |-> F[n][n]]
<1>4. \A n \in Nat : Upto(n, F[n])
  BY <1>3
<1>5. \A n \in Nat : \A k \in 0 .. n : F[n][k] = IF k = 0 THEN 1 ELSE 2 * F[n][k - 1]
  <2> SUFFICES ASSUME NEW n \in Nat, NEW k \in 0 .. n
               PROVE  F[n][k] = IF k = 0 THEN 1 ELSE 2 * F[n][k - 1]
    OBVIOUS
  <2>1. Upto(n, F[n])
    BY <1>4
  <2> HIDE DEF F
  <2> QED
    BY <2>1
<1>6. \A n \in Nat : \A k \in 0 .. n : F[n + 1][k] = F[n][k]
  <2> SUFFICES ASSUME NEW n \in Nat PROVE \A k \in 0 .. n : F[n + 1][k] = F[n][k]
    OBVIOUS
  <2> DEFINE D == {k \in Nat : k <= n => F[n + 1][k] = F[n][k]}
  <2> HIDE DEF F
  <2>1. 0 \in D
    BY <1>5
  <2>2. ASSUME NEW k \in Nat, k \in D PROVE k + 1 \in D
    <3> SUFFICES ASSUME k + 1 <= n PROVE F[n + 1][k + 1] = F[n][k + 1]
      OBVIOUS
    <3>1. F[n + 1][k] = F[n][k]
      BY <2>2
    <3>2. F[n + 1][k + 1] = 2 * F[n + 1][k] /\ F[n][k + 1] = 2 * F[n][k]
      BY <1>5
    <3> QED
      BY <3>1, <3>2
  <2>3. Nat \subseteq D
    <3> HIDE DEF D
    <3> QED
      BY <2>1, <2>2, SetOfNaturals
  <2> QED
    BY <2>3
<1>7. \A k \in Nat : h[k] = IF k = 0 THEN 1 ELSE 2 * h[k - 1]
  <2> SUFFICES ASSUME NEW k \in Nat PROVE h[k] = IF k = 0 THEN 1 ELSE 2 * h[k - 1]
    OBVIOUS
  <2> HIDE DEF F
  <2>1. CASE k = 0
    BY <1>5, <2>1
  <2>2. CASE k # 0
    <3>1. k - 1 \in Nat /\ (k - 1) + 1 = k
      BY <2>2
    <3>2. F[k][k] = 2 * F[k][k - 1]
      BY <1>5, <2>2
    <3>3. F[k][k - 1] = F[k - 1][k - 1]
      BY <1>6, <3>1
    <3> QED
      BY <2>2, <3>1, <3>2, <3>3
  <2> QED
    BY <2>1, <2>2
<1>8. h = [k \in Nat |-> IF k = 0 THEN 1 ELSE 2 * h[k - 1]]
  <2> HIDE DEF F
  <2> QED
    BY <1>7
<1> HIDE DEF h
<1> QED
  BY <1>8 DEF PowerOf2
LEMMA Powers ==
  /\ PowerOf2[0] = 1
  /\ \A n \in Nat : PowerOf2[n + 1] = 2 * PowerOf2[n] /\ PowerOf2[n] \in Nat \ {0}
<1>1. PowerOf2[0] = 1
  BY PowerDef
<1>2. \A n \in Nat : PowerOf2[n + 1] = 2 * PowerOf2[n]
  <2> SUFFICES ASSUME NEW n \in Nat PROVE PowerOf2[n + 1] = 2 * PowerOf2[n]
    OBVIOUS
  <2>1. n + 1 \in Nat /\ n + 1 # 0 /\ (n + 1) - 1 = n
    OBVIOUS
  <2> QED
    BY <2>1, PowerDef
<1> DEFINE C == {n \in Nat : PowerOf2[n] \in Nat \ {0}}
<1>3. Nat \subseteq C
  <2>1. 0 \in C /\ \A n \in Nat : n \in C => n + 1 \in C
    BY <1>1, <1>2
  <2> HIDE DEF C
  <2> QED
    BY <2>1, SetOfNaturals
<1> QED
  BY <1>1, <1>2, <1>3

LEMMA PowersMultiply ==
  ASSUME NEW a \in Nat, NEW b \in Nat
  PROVE  PowerOf2[a + b] = PowerOf2[a] * PowerOf2[b]
<1> DEFINE C == {n \in Nat : PowerOf2[a + n] = PowerOf2[a] * PowerOf2[n]}
<1>1. 0 \in C
  BY Powers
<1>2. ASSUME NEW n \in Nat, n \in C PROVE n + 1 \in C
  <2>1. PowerOf2[a + n] = PowerOf2[a] * PowerOf2[n]
    BY <1>2
  <2>2. PowerOf2[(a + n) + 1] = 2 * PowerOf2[a + n] /\ PowerOf2[n + 1] = 2 * PowerOf2[n]
    BY Powers
  <2>3. PowerOf2[a] \in Nat /\ PowerOf2[n] \in Nat
    BY Powers
  <2>4. \A x, y \in Nat : 2 * (x * y) = x * (2 * y)
    OBVIOUS
  <2>5. (a + n) + 1 = a + (n + 1)
    OBVIOUS
  <2>6. 2 * (PowerOf2[a] * PowerOf2[n]) = PowerOf2[a] * (2 * PowerOf2[n])
    BY <2>3, <2>4
  <2>7. PowerOf2[a + (n + 1)] = PowerOf2[a] * PowerOf2[n + 1]
    BY <2>1, <2>2, <2>5, <2>6
  <2> QED
    BY <2>7
<1>3. Nat \subseteq C
  <2> HIDE DEF C
  <2> QED
    BY <1>1, <1>2, SetOfNaturals
<1> QED
  BY <1>3

(* Remainders *)
LEMMA Remainder ==
  ASSUME NEW a \in Nat, NEW m \in Nat \ {0}
  PROVE  /\ a % m \in 0 .. m - 1
         /\ \E q \in Int : a = m * q + (a % m)
<1>1. a % m \in 0 .. m - 1
  OBVIOUS
<1>2. a = m * (a \div m) + (a % m)
  OBVIOUS
<1>3. a \div m \in Int
  OBVIOUS
<1> QED
  BY <1>1, <1>2, <1>3

LEMMA RemainderZero ==
  ASSUME NEW a \in Nat, NEW b \in Nat, NEW m \in Nat \ {0}, NEW q \in Int,
         a - b = m * q
  PROVE  a % m = 0 <=> b % m = 0
<1>1. \A c \in Nat, r \in Int : c = m * r => c % m = 0
  OBVIOUS
<1>2. \A c \in Nat : c % m = 0 => \E r \in Int : c = m * r
  <2> TAKE c \in Nat
  <2> HAVE c % m = 0
  <2>1. PICK r \in Int : c = m * r + (c % m)
    BY Remainder
  <2>2. c = m * r
    BY <2>1
  <2> QED
    BY <2>2
<1>3. \A x, y \in Int : m * x + m * y = m * (x + y) /\ m * x - m * y = m * (x - y)
  OBVIOUS
<1>4. ASSUME b % m = 0 PROVE a % m = 0
  <2>1. PICK r \in Int : b = m * r
    BY <1>2, <1>4
  <2>2. a = m * q + m * r /\ q + r \in Int
    BY <2>1
  <2> QED
    BY <1>1, <1>3, <2>2
<1>5. ASSUME a % m = 0 PROVE b % m = 0
  <2>1. PICK r \in Int : a = m * r
    BY <1>2, <1>5
  <2>2. b = m * r - m * q /\ r - q \in Int
    BY <2>1
  <2> QED
    BY <1>1, <1>3, <2>2
<1> QED
  BY <1>4, <1>5

-----------------------------------------------------------------------------
(* The rolling hash *)

LEMMA RollingDef ==
  ASSUME NEW s \in Seq(Byte), NEW i \in 0 .. Len(s)
  PROVE  Rolling(s, i) = [p \in i .. Len(s) |-> IF p = i THEN 0
            ELSE (2 * Rolling(s, i)[p - 1] + Gear[s[p]]) % PowerOf2[Width]]
<1> DEFINE Upto(n, f) == f = [p \in i .. i + n |-> IF p = i THEN 0
                           ELSE (2 * f[p - 1] + Gear[s[p]]) % PowerOf2[Width]]
           C == {n \in Nat : \E f : Upto(n, f)}
<1>1. 0 \in C
  <2> DEFINE f == [p \in i .. i + 0 |-> 0]
  <2>1. Upto(0, f)
    OBVIOUS
  <2> QED
    BY <2>1
<1>2. ASSUME NEW n \in Nat, n \in C PROVE n + 1 \in C
  <2>1. PICK f : Upto(n, f)
    BY <1>2
  <2> DEFINE r == (2 * f[i + n] + Gear[s[i + n + 1]]) % PowerOf2[Width]
             g == [p \in i .. i + (n + 1) |-> IF p = i + n + 1 THEN r ELSE f[p]]
  <2>2. \A p \in i .. i + (n + 1) : g[p] = IF p = i THEN 0
                           ELSE (2 * g[p - 1] + Gear[s[p]]) % PowerOf2[Width]
    <3> HIDE DEF r
    <3>1. \A p \in i .. i + n : g[p] = f[p]
      OBVIOUS
    <3>2. \A p \in i .. i + n : f[p] = IF p = i THEN 0
                           ELSE (2 * f[p - 1] + Gear[s[p]]) % PowerOf2[Width]
      BY <2>1
    <3>3. \A p \in i .. i + n : p # i => p - 1 \in i .. i + n
      OBVIOUS
    <3>4. /\ g[i + n + 1] = r /\ g[i + n] = f[i + n]
          /\ (i + n + 1) - 1 = i + n /\ i + n + 1 # i
      OBVIOUS
    <3>5. r = (2 * g[(i + n + 1) - 1] + Gear[s[i + n + 1]]) % PowerOf2[Width]
      BY <3>4 DEF r
    <3>6. \A p \in i .. i + (n + 1) : p \in i .. i + n \/ p = i + n + 1
      OBVIOUS
    <3> HIDE DEF g
    <3>7. \A p \in i .. i + n : g[p] = IF p = i THEN 0
                           ELSE (2 * g[p - 1] + Gear[s[p]]) % PowerOf2[Width]
      BY <3>1, <3>2, <3>3
    <3> QED
      BY <3>4, <3>5, <3>6, <3>7
  <2>3. g = [p \in i .. i + (n + 1) |-> g[p]]
    OBVIOUS
  <2> HIDE DEF g
  <2>4. Upto(n + 1, g)
    BY <2>2, <2>3
  <2>5. \E ff : Upto(n + 1, ff)
    BY <2>4, Zenon
  <2>6. n + 1 \in Nat
    OBVIOUS
  <2> QED
    BY <2>5, <2>6, Zenon
<1>3. Nat \subseteq C
  <2> HIDE DEF C
  <2> QED
    BY <1>1, <1>2, SetOfNaturals
<1>4. PICK f : Upto(Len(s) - i, f)
  <2>1. Len(s) - i \in Nat
    OBVIOUS
  <2>2. \A n \in Nat : \E f : Upto(n, f)
    BY <1>3, Zenon
  <2> QED
    BY <2>1, <2>2, Zenon
<1>5. i + (Len(s) - i) = Len(s)
  OBVIOUS
<1>6. f = [p \in i .. Len(s) |-> IF p = i THEN 0
             ELSE (2 * f[p - 1] + Gear[s[p]]) % PowerOf2[Width]]
  BY <1>4, <1>5
<1> QED
  BY <1>6 DEF Rolling

LEMMA RollingType ==
  ASSUME NEW s \in Seq(Byte), NEW i \in 0 .. Len(s)
  PROVE  /\ Rolling(s, i)[i] = 0
         /\ \A p \in i .. Len(s) : Rolling(s, i)[p] \in Nat
         /\ \A p \in i .. Len(s) - 1 : Rolling(s, i)[p + 1] =
              (2 * Rolling(s, i)[p] + Gear[s[p + 1]]) % PowerOf2[Width]
<1> DEFINE R == Rolling(s, i)
<1>1. \A p \in i .. Len(s) : R[p] = IF p = i THEN 0
            ELSE (2 * R[p - 1] + Gear[s[p]]) % PowerOf2[Width]
  BY RollingDef
<1> HIDE DEF R
<1>2. \A p \in i .. Len(s) - 1 : R[p + 1] = (2 * R[p] + Gear[s[p + 1]]) % PowerOf2[Width]
  <2> TAKE p \in i .. Len(s) - 1
  <2>1. p + 1 \in i .. Len(s) /\ p + 1 # i /\ (p + 1) - 1 = p
    OBVIOUS
  <2> QED
    BY <1>1, <2>1
<1>3. R[i] = 0
  BY <1>1
<1> DEFINE C == {n \in Nat : i + n <= Len(s) => R[i + n] \in Nat}
<1>4. 0 \in C
  BY <1>3
<1>5. ASSUME NEW n \in Nat, n \in C PROVE n + 1 \in C
  <2> SUFFICES ASSUME i + (n + 1) <= Len(s) PROVE R[i + (n + 1)] \in Nat
    OBVIOUS
  <2>1. i + n \in i .. Len(s) - 1 /\ i + (n + 1) = (i + n) + 1
    OBVIOUS
  <2>2. R[i + n] \in Nat
    BY <1>5
  <2>3. Gear[s[(i + n) + 1]] \in Nat
    BY <2>1, ChunkerAssumption
  <2>4. 2 * R[i + n] + Gear[s[(i + n) + 1]] \in Nat
    BY <2>2, <2>3, SMTT(30)
  <2>5. (2 * R[i + n] + Gear[s[(i + n) + 1]]) % PowerOf2[Width] \in Nat
    <3>1. PowerOf2[Width] \in Nat \ {0}
      BY Powers, ChunkerAssumption
    <3>2. \A a \in Nat, m \in Nat \ {0} : a % m \in Nat
      OBVIOUS
    <3> QED
      BY <2>4, <3>1, <3>2
  <2> QED
    BY <1>2, <2>1, <2>5
<1>6. Nat \subseteq C
  <2> HIDE DEF C
  <2> QED
    BY <1>4, <1>5, SetOfNaturals
<1>7. \A p \in i .. Len(s) : p - i \in Nat /\ i + (p - i) = p
  OBVIOUS
<1>8. \A p \in i .. Len(s) : R[p] \in Nat
  BY <1>6, <1>7
<1> QED
  BY <1>2, <1>3, <1>8 DEF R

Congruent(x, y, m) == \E z \in Int : x - y = m * z

LEMMA Scaled ==
  ASSUME NEW x \in Nat, NEW y \in Nat, NEW e \in Nat, NEW h \in Nat, NEW d \in Nat,
         NEW w \in Nat \ {0}, NEW q \in Int, x - y = 2 * (e * q), h = 2 * e, w = h * d
  PROVE  Congruent(x % w, y % w, h)
<1>1. PICK u \in Int : x = w * u + (x % w)
  BY Remainder
<1>2. PICK v \in Int : y = w * v + (y % w)
  BY Remainder
<1>3. x - y = h * q
  <2>1. 2 * (e * q) = (2 * e) * q
    OBVIOUS
  <2> QED
    BY <2>1
<1>4. w * u - w * v = h * (d * (u - v))
  <2>1. w * u - w * v = w * (u - v)
    OBVIOUS
  <2>2. (h * d) * (u - v) = h * (d * (u - v))
    OBVIOUS
  <2> QED
    BY <2>1, <2>2
<1>5. PICK z \in Int : z = d * (u - v)
  OBVIOUS
<1>6. h * q - h * z = h * (q - z) /\ q - z \in Int
  OBVIOUS
<1>7. PICK a \in Int : a = x % w
  OBVIOUS
<1>8. PICK b \in Int : b = y % w
  OBVIOUS
<1>9. PICK f \in Int : f = w * u
  OBVIOUS
<1>10. PICK g \in Int : g = w * v
  OBVIOUS
<1>11. a - b = (x - y) - (f - g)
  <2>1. x = f + a /\ y = g + b
    BY <1>1, <1>2, <1>7, <1>8, <1>9, <1>10
  <2> QED
    BY <2>1
<1>12. a - b = h * (q - z)
  BY <1>3, <1>4, <1>5, <1>6, <1>9, <1>10, <1>11
<1> QED
  BY <1>6, <1>7, <1>8, <1>12 DEF Congruent

(* A step of the hash doubles a difference, up to multiples of the word. *)
LEMMA HashStep ==
  ASSUME NEW n \in Nat, n + 1 <= Width, NEW a \in Nat, NEW b \in Nat, NEW g \in Nat,
         Congruent(a, b, PowerOf2[n])
  PROVE  Congruent((2 * a + g) % PowerOf2[Width], (2 * b + g) % PowerOf2[Width],
                   PowerOf2[n + 1])
<1>1. Width \in Nat /\ n + 1 \in Nat /\ Width - (n + 1) \in Nat
      /\ (n + 1) + (Width - (n + 1)) = Width
  BY ChunkerAssumption
<1>2. PICK e \in Nat : e = PowerOf2[n]
  BY Powers
<1>3. PowerOf2[n + 1] = 2 * PowerOf2[n]
  BY Powers
<1>4. PICK h \in Nat : h = PowerOf2[n + 1]
  BY <1>1, Powers
<1>5. PICK d \in Nat : d = PowerOf2[Width - (n + 1)]
  BY <1>1, Powers
<1>6. PICK w \in Nat \ {0} : w = PowerOf2[Width]
  BY <1>1, Powers
<1>7. PowerOf2[(n + 1) + (Width - (n + 1))] = PowerOf2[n + 1] * PowerOf2[Width - (n + 1)]
  BY <1>1, PowersMultiply
<1>8. w = h * d /\ h = 2 * e
  BY <1>1, <1>2, <1>3, <1>4, <1>5, <1>6, <1>7
<1>9. PICK q \in Int : a - b = e * q
  BY <1>2 DEF Congruent
<1>10. (2 * a + g) - (2 * b + g) = 2 * (e * q)
  BY <1>9
<1>11. PICK x \in Nat : x = 2 * a + g
  OBVIOUS
<1>12. PICK y \in Nat : y = 2 * b + g
  OBVIOUS
<1>13. x - y = 2 * (e * q)
  BY <1>10, <1>11, <1>12
<1>14. Congruent(x % w, y % w, h)
  BY <1>8, <1>13, Scaled
<1> QED
  BY <1>4, <1>6, <1>11, <1>12, <1>14

(* What two hashes have in front is a multiple of 2^n after n bytes that are
   the same. *)
LEMMA Forgets ==
  ASSUME NEW s \in Seq(Byte), NEW t \in Seq(Byte),
         NEW i \in 0 .. Len(s), NEW j \in 0 .. Len(t),
         NEW p \in i .. Len(s), NEW r \in j .. Len(t),
         NEW k \in 0 .. Width, p + k <= Len(s), r + k <= Len(t),
         \A m \in 1 .. k : s[p + m] = t[r + m]
  PROVE  Congruent(Rolling(s, i)[p + k], Rolling(t, j)[r + k], PowerOf2[k])
<1> DEFINE F == Rolling(s, i)
           G == Rolling(t, j)
           W == PowerOf2[Width]
           Off(n) == Congruent(F[p + n], G[r + n], PowerOf2[n])
           C == {n \in Nat : n <= k => Off(n)}
<1> Width \in Nat
  BY ChunkerAssumption
<1>1. \A x \in i .. Len(s) : F[x] \in Nat
  BY RollingType
<1>2. \A x \in i .. Len(s) - 1 : F[x + 1] = (2 * F[x] + Gear[s[x + 1]]) % W
  BY RollingType
<1>3. \A x \in j .. Len(t) : G[x] \in Nat
  BY RollingType
<1>4. \A x \in j .. Len(t) - 1 : G[x + 1] = (2 * G[x] + Gear[t[x + 1]]) % W
  BY RollingType
<1> HIDE DEF F, G, W
<1>5. 0 \in C
  <2>1. p + 0 = p /\ r + 0 = r /\ p \in i .. Len(s) /\ r \in j .. Len(t)
    OBVIOUS
  <2>2. F[p] - G[r] \in Int /\ F[p] - G[r] = 1 * (F[p] - G[r])
    BY <1>1, <1>3, <2>1
  <2>3. PowerOf2[0] = 1
    BY Powers
  <2>4. Off(0)
    BY <2>1, <2>2, <2>3 DEF Congruent
  <2> QED
    BY <2>4
<1>6. ASSUME NEW n \in Nat, n \in C PROVE n + 1 \in C
  <2> SUFFICES ASSUME n + 1 <= k PROVE Off(n + 1)
    OBVIOUS
  <2>1. /\ p + n \in i .. Len(s) - 1 /\ r + n \in j .. Len(t) - 1
        /\ p + (n + 1) = (p + n) + 1 /\ r + (n + 1) = (r + n) + 1
        /\ n + 1 \in 1 .. k /\ n + 1 <= Width
    OBVIOUS
  <2>2. PICK g \in Nat : g = Gear[s[p + (n + 1)]]
    <3>1. s[p + (n + 1)] \in Byte
      BY <2>1
    <3> QED
      BY <3>1, ChunkerAssumption
  <2>3. PICK a \in Nat : a = F[p + n]
    <3>1. p + n \in i .. Len(s)
      BY <2>1
    <3> QED
      BY <1>1, <3>1
  <2>4. PICK b \in Nat : b = G[r + n]
    <3>1. r + n \in j .. Len(t)
      BY <2>1
    <3> QED
      BY <1>3, <3>1
  <2>5. F[p + (n + 1)] = (2 * a + g) % W
    BY <1>2, <2>1, <2>2, <2>3
  <2>6. G[r + (n + 1)] = (2 * b + g) % W
    <3>1. g = Gear[t[r + (n + 1)]]
      BY <2>1, <2>2
    <3> QED
      BY <1>4, <2>1, <2>4, <3>1
  <2>7. Congruent(a, b, PowerOf2[n])
    BY <1>6, <2>3, <2>4
  <2>8. Congruent((2 * a + g) % W, (2 * b + g) % W, PowerOf2[n + 1])
    BY <2>1, <2>7, HashStep DEF W
  <2> QED
    BY <2>5, <2>6, <2>8
<1>7. Nat \subseteq C
  <2> HIDE DEF C
  <2> QED
    BY <1>5, <1>6, SetOfNaturals
<1>8. Off(k)
  BY <1>7
<1> QED
  BY <1>8 DEF F, G

(* So where the last bytes are the same, and enough of them, two readers agree
   on what a natural place is. *)
LEMMA NaturalIsLocal ==
  ASSUME NEW s \in Seq(Byte), NEW t \in Seq(Byte),
         NEW i \in 0 .. Len(s), NEW j \in 0 .. Len(t),
         NEW p \in i .. Len(s), NEW r \in j .. Len(t),
         i + MinSize <= p, j + MinSize <= r, MinSize \in Nat,
         \A m \in 1 .. MinSize : s[p - MinSize + m] = t[r - MinSize + m]
  PROVE  Natural(s, i, p) <=> Natural(t, j, r)
<1>1. PICK k \in 0 .. Width : k <= MinSize /\ Modulus = PowerOf2[k]
  BY MaskAssumption
<1>2. k \in Nat
  BY ChunkerAssumption
<1>3. /\ p - k \in i .. Len(s) /\ (p - k) + k = p
      /\ r - k \in j .. Len(t) /\ (r - k) + k = r
  BY <1>1, <1>2
<1>4. \A m \in 1 .. k : s[(p - k) + m] = t[(r - k) + m]
  <2> TAKE m \in 1 .. k
  <2>1. /\ m + (MinSize - k) \in 1 .. MinSize
        /\ p - MinSize + (m + (MinSize - k)) = (p - k) + m
        /\ r - MinSize + (m + (MinSize - k)) = (r - k) + m
    BY <1>1, <1>2
  <2>2. s[p - MinSize + (m + (MinSize - k))] = t[r - MinSize + (m + (MinSize - k))]
    BY <2>1
  <2> QED
    BY <2>1, <2>2
<1>5. Congruent(Rolling(s, i)[(p - k) + k], Rolling(t, j)[(r - k) + k], PowerOf2[k])
  <2>1. (p - k) + k <= Len(s) /\ (r - k) + k <= Len(t)
    BY <1>3
  <2> QED
    BY <1>3, <1>4, <2>1, Forgets
<1>6. PICK a \in Nat : a = Rolling(s, i)[p]
  BY RollingType
<1>7. PICK b \in Nat : b = Rolling(t, j)[r]
  BY RollingType
<1>8. PICK m \in Nat \ {0} : m = Modulus
  BY <1>1, <1>2, Powers
<1>9. PICK q \in Int : a - b = m * q
  BY <1>1, <1>3, <1>5, <1>6, <1>7, <1>8 DEF Congruent
<1>10. a % m = 0 <=> b % m = 0
  BY <1>9, RemainderZero
<1> QED
  BY <1>6, <1>7, <1>8, <1>10 DEF Natural

-----------------------------------------------------------------------------
(* The same bytes behind different beginnings *)

(* From position d on, t is s; the reader of t is d ahead. *)
Behind(s, t, d) ==
  /\ s \in Seq(Byte) /\ t \in Seq(Byte) /\ d \in Nat /\ Len(t) = d + Len(s)
  /\ \A p \in 1 .. Len(s) : t[d + p] = s[p]

LEMMA StopsAlike ==
  ASSUME NEW s, NEW t, NEW d, Behind(s, t, d), MinSize \in Nat \ {0}, MaxSize \in Nat,
         NEW i \in 0 .. Len(s), NEW p \in i + 1 .. Len(s)
  PROVE  Stops(t, d + i, d + p) <=> Stops(s, i, p)
<1> s \in Seq(Byte) /\ t \in Seq(Byte) /\ d \in Nat /\ Len(t) = d + Len(s)
  BY DEF Behind
<1>1. CASE p - i >= MinSize
  <2>1. \A m \in 1 .. MinSize : t[(d + p) - MinSize + m] = s[p - MinSize + m]
    <3> TAKE m \in 1 .. MinSize
    <3>1. p - MinSize + m \in 1 .. Len(s) /\ (d + p) - MinSize + m = d + (p - MinSize + m)
      BY <1>1
    <3> QED
      BY <3>1 DEF Behind
  <2>2. /\ d + i \in 0 .. Len(t) /\ d + p \in d + i .. Len(t) /\ p \in i .. Len(s)
        /\ (d + i) + MinSize <= d + p /\ i + MinSize <= p
    BY <1>1
  <2>3. Natural(t, d + i, d + p) <=> Natural(s, i, p)
    BY <2>1, <2>2, NaturalIsLocal
  <2> QED
    BY <2>3 DEF Stops
<1>2. CASE ~(p - i >= MinSize)
  <2>1. (d + p) - (d + i) = p - i /\ (d + p = Len(t) <=> p = Len(s))
    OBVIOUS
  <2> QED
    BY <1>2, <2>1 DEF Stops
<1> QED
  BY <1>1, <1>2

LEMMA CutsAlike ==
  ASSUME NEW s, NEW t, NEW d, Behind(s, t, d), MinSize \in Nat \ {0}, MaxSize \in Nat,
         NEW i \in 0 .. Len(s), NEW p \in i + 1 .. Len(s), IsCut(s, i, p)
  PROVE  IsCut(t, d + i, d + p)
<1> s \in Seq(Byte) /\ t \in Seq(Byte) /\ d \in Nat /\ Len(t) = d + Len(s)
  BY DEF Behind
<1>1. d + p \in (d + i) + 1 .. Len(t)
  OBVIOUS
<1>2. Stops(t, d + i, d + p)
  BY StopsAlike DEF IsCut
<1>3. ASSUME NEW q \in (d + i) + 1 .. (d + p) - 1 PROVE ~Stops(t, d + i, q)
  <2>1. q - d \in i + 1 .. p - 1 /\ q - d \in i + 1 .. Len(s) /\ d + (q - d) = q
    OBVIOUS
  <2>2. ~Stops(s, i, q - d)
    BY <2>1 DEF IsCut
  <2>3. ~Stops(t, d + i, d + (q - d))
    BY <2>1, <2>2, StopsAlike
  <2> QED
    BY <2>1, <2>3
<1> QED
  BY <1>1, <1>2, <1>3 DEF IsCut

(* The landmarks of a text are landmarks of what it is the end of, if the bytes
   that matter for the first one are its own. *)
LEMMA LandmarkBehind ==
  ASSUME NEW s, NEW t, NEW d, Behind(s, t, d), MinSize \in Nat \ {0}, MaxSize \in Nat,
         NEW a \in 1 .. Len(s), NEW b \in 1 .. Len(s), Landmark(s, a, b), a >= MinSize
  PROVE  Landmark(t, d + a, d + b)
<1> s \in Seq(Byte) /\ t \in Seq(Byte) /\ d \in Nat /\ Len(t) = d + Len(s)
  BY DEF Behind
<1>1. a + MinSize <= b /\ b + MinSize <= a + MaxSize
  BY DEF Landmark
<1>2. ASSUME NEW p \in a .. b, NEW i \in 0 .. (d + p) - MinSize
      PROVE  Natural(t, i, d + p) <=> Natural(s, 0, p)
  <2>1. \A m \in 1 .. MinSize : t[(d + p) - MinSize + m] = s[p - MinSize + m]
    <3> TAKE m \in 1 .. MinSize
    <3>1. p - MinSize + m \in 1 .. Len(s) /\ (d + p) - MinSize + m = d + (p - MinSize + m)
      OBVIOUS
    <3> QED
      BY <3>1 DEF Behind
  <2>2. /\ i \in 0 .. Len(t) /\ d + p \in i .. Len(t) /\ p \in 0 .. Len(s)
        /\ i + MinSize <= d + p /\ 0 + MinSize <= p /\ 0 \in 0 .. Len(s)
    OBVIOUS
  <2> QED
    BY <2>1, <2>2, NaturalIsLocal
<1>3. Magnet(s, a) => Natural(s, 0, a)
  BY DEF Magnet
<1>4. Magnet(s, b) => Natural(s, 0, b)
  BY <1>1 DEF Magnet
<1>5. Plain(s, a, b) => \A p \in a + 1 .. b - 1 : ~Natural(s, 0, p)
  BY DEF Plain
<1>6. Magnet(t, d + a)
  BY <1>1, <1>2, <1>3 DEF Landmark, Magnet
<1>7. Magnet(t, d + b)
  BY <1>1, <1>2, <1>4 DEF Landmark, Magnet
<1>8. Plain(t, d + a, d + b)
  <2> SUFFICES ASSUME NEW p \in (d + a) + 1 .. (d + b) - 1, NEW i \in 0 .. p - MinSize
               PROVE  ~Natural(t, i, p)
    BY DEF Plain
  <2>1. p - d \in a .. b /\ p - d \in a + 1 .. b - 1 /\ d + (p - d) = p
    OBVIOUS
  <2>2. ~Natural(s, 0, p - d)
    BY <1>5, <2>1 DEF Landmark
  <2>3. i \in 0 .. (d + (p - d)) - MinSize
    BY <2>1
  <2> QED
    BY <1>2, <2>1, <2>2, <2>3
<1> QED
  BY <1>1, <1>6, <1>7, <1>8 DEF Landmark

-----------------------------------------------------------------------------
(* All cuts *)

LEMMA OneCut ==
  ASSUME NEW s \in Seq(Byte), NEW i \in 0 .. Len(s) - 1
  PROVE  /\ NextCut(s, i) \in i + 1 .. Len(s) /\ IsCut(s, i, NextCut(s, i))
         /\ \A p \in i + 1 .. Len(s) : IsCut(s, i, p) => NextCut(s, i) = p
<1> DEFINE T == {p \in i + 1 .. Len(s) : Stops(s, i, p)}
<1>1. T \in SUBSET Nat /\ Len(s) \in T
  BY DEF Stops
<1>2. PICK p \in T : \A q \in T : p <= q
  <2> HIDE DEF T
  <2> QED
    BY <1>1, LeastNumber
<1>3. \A q \in i + 1 .. p - 1 : ~Stops(s, i, q)
  <2> TAKE q \in i + 1 .. p - 1
  <2>1. q \in i + 1 .. Len(s) /\ ~(p <= q)
    BY <1>1
  <2> QED
    BY <1>2, <2>1
<1>4. p \in i + 1 .. Len(s) /\ IsCut(s, i, p)
  BY <1>3 DEF IsCut
<1>5. \A x, y \in i + 1 .. Len(s) : IsCut(s, i, x) /\ IsCut(s, i, y) => x = y
  <2> SUFFICES ASSUME NEW x \in i + 1 .. Len(s), NEW y \in i + 1 .. Len(s),
                      IsCut(s, i, x), IsCut(s, i, y)
               PROVE  ~(x < y)
    OBVIOUS
  <2> QED
    BY DEF IsCut
<1>6. NextCut(s, i) \in i + 1 .. Len(s) /\ IsCut(s, i, NextCut(s, i))
  BY <1>4 DEF NextCut
<1> QED
  BY <1>5, <1>6

LEMMA CutsUnfold ==
  ASSUME NEW s \in Seq(Byte)
  PROVE  \E R : /\ Cuts(s) = R[0] /\ R[Len(s)] = {}
               /\ \A i \in 0 .. Len(s) - 1 : R[i] = {NextCut(s, i)} \cup R[NextCut(s, i)]
<1> DEFINE L == Len(s)
           From(n, r) == r = [i \in L - n .. L |->
               IF i = L THEN {} ELSE {NextCut(s, i)} \cup r[NextCut(s, i)]]
           C == {n \in Nat : n <= L => \E r : From(n, r)}
<1> L \in Nat
  OBVIOUS
<1>1. 0 \in C
  <2> DEFINE f == [i \in L - 0 .. L |-> {}]
  <2>1. From(0, f)
    OBVIOUS
  <2> QED
    BY <2>1
<1>2. ASSUME NEW n \in Nat, n \in C PROVE n + 1 \in C
  <2>1. n + 1 <= L => \E r : From(n + 1, r)
    <3> SUFFICES ASSUME n + 1 <= L PROVE \E r : From(n + 1, r)
      OBVIOUS
    <3>1. n <= L
      OBVIOUS
    <3>2. PICK f : From(n, f)
      BY <1>2, <3>1, Zenon
    <3> DEFINE k == L - (n + 1)
               c == NextCut(s, k)
               g == [i \in k .. L |-> IF i = k THEN {c} \cup f[c] ELSE f[i]]
    <3>3. c \in k + 1 .. L
      BY OneCut
    <3>4. \A i \in k + 1 .. L : g[i] = f[i]
      OBVIOUS
    <3>5. g[k] = {c} \cup f[c] /\ k # L
      OBVIOUS
    <3>6. k + 1 = L - n
      OBVIOUS
    <3>7. \A i \in k + 1 .. L :
            f[i] = IF i = L THEN {} ELSE {NextCut(s, i)} \cup f[NextCut(s, i)]
      BY <3>2, <3>6
    <3>8. \A i \in k + 1 .. L : i # L => NextCut(s, i) \in k + 1 .. L
      <4> SUFFICES ASSUME NEW i \in k + 1 .. L, i # L PROVE NextCut(s, i) \in k + 1 .. L
        OBVIOUS
      <4>1. i \in 0 .. L - 1
        OBVIOUS
      <4>2. NextCut(s, i) \in i + 1 .. L
        BY <4>1, OneCut
      <4> QED
        BY <4>2
    <3>9. g = [i \in k .. L |-> g[i]]
      OBVIOUS
    <3> HIDE DEF g, c
    <3>10. \A i \in k .. L :
             g[i] = IF i = L THEN {} ELSE {NextCut(s, i)} \cup g[NextCut(s, i)]
      <4>1. \A i \in k + 1 .. L :
             g[i] = IF i = L THEN {} ELSE {NextCut(s, i)} \cup g[NextCut(s, i)]
        BY <3>4, <3>7, <3>8
      <4>2. g[k] = {NextCut(s, k)} \cup g[NextCut(s, k)]
        BY <3>3, <3>4, <3>5 DEF c
      <4>3. \A i \in k .. L : i = k \/ i \in k + 1 .. L
        OBVIOUS
      <4> QED
        BY <3>5, <4>1, <4>2, <4>3
    <3>11. From(n + 1, g)
      BY <3>9, <3>10
    <3> QED
      BY <3>11, Zenon
  <2>2. n + 1 \in Nat
    OBVIOUS
  <2> QED
    BY <2>1, <2>2, Zenon
<1>3. Nat \subseteq C
  <2> HIDE DEF C
  <2> QED
    BY <1>1, <1>2, SetOfNaturals
<1>4. \E r : From(L, r)
  <2>1. L <= L
    OBVIOUS
  <2> QED
    BY <1>3, <2>1, Zenon
<1>5. L - L = 0
  OBVIOUS
<1>6. \E r : r = [i \in 0 .. L |->
                   IF i = L THEN {} ELSE {NextCut(s, i)} \cup r[NextCut(s, i)]]
  BY <1>4, <1>5
<1> DEFINE R == CHOOSE r : r = [i \in 0 .. L |->
                   IF i = L THEN {} ELSE {NextCut(s, i)} \cup r[NextCut(s, i)]]
<1>7. R = [i \in 0 .. L |-> IF i = L THEN {} ELSE {NextCut(s, i)} \cup R[NextCut(s, i)]]
  BY <1>6
<1>8. Cuts(s) = R[0]
  BY DEF Cuts
<1> HIDE DEF R
<1>9. R[L] = {} /\ \A i \in 0 .. L - 1 : R[i] = {NextCut(s, i)} \cup R[NextCut(s, i)]
  BY <1>7
<1> QED
  BY <1>8, <1>9

-----------------------------------------------------------------------------
(* The reader: its variables, and what is known of the chunks so far.  The
   last one may be short if the reader has reached the end. *)
ReaderOK ==
  /\ request \in Requests
  /\ read \in 0 .. Len(body) /\ manifest \in Seq(Nat \X Nat)
  /\ pc = "saved" => read = Len(body)

Chained ==
  /\ manifest = <<>> => read = 0
  /\ manifest # <<>> => manifest[Len(manifest)][2] = read
  /\ \A k \in 1 .. Len(manifest) :
       /\ manifest[k][1] = IF k = 1 THEN 0 ELSE manifest[k - 1][2]
       /\ manifest[k][2] - manifest[k][1] \in 1 .. MaxSize
       /\ (k < Len(manifest) \/ read < Len(body)) =>
            manifest[k][2] - manifest[k][1] >= MinSize

LEMMA BodyType == ASSUME request \in Requests PROVE body \in Seq(Byte)
  BY IntakeAssumption DEF body

(* All other steps leave the reader alone. *)
LEMMA OtherSteps ==
  ASSUME [Next]_vars, ~ReadChunk
  PROVE  /\ UNCHANGED <<request, read, manifest>>
         /\ pc' = "saved" => pc = "saved" \/ read = Len(body)
<1>1. CASE UNCHANGED vars
  BY <1>1 DEF vars, upload
<1>2. CASE UploadStep
  BY <1>2 DEF UploadStep, Plan, Put, Refused, Confirm, Save
<1>3. ASSUME NEW n \in Node, Sample(n) \/ Deliver(n) PROVE UNCHANGED upload
  BY <1>3 DEF Sample, Deliver
<1>4. ASSUME NEW n \in Node, NEW c \in Dealt, OtherStep(c, n) PROVE UNCHANGED upload
  BY <1>4 DEF OtherStep, OtherPut, OtherConfirm, OtherErase, OtherForget
<1>5. UNCHANGED upload => /\ UNCHANGED <<request, read, manifest>>
                          /\ pc' = "saved" => pc = "saved"
  BY DEF upload
<1>6. QED BY <1>1, <1>2, <1>3, <1>4, <1>5 DEF Next

LEMMA ReaderInit == Init => ReaderOK /\ Chained /\ LandmarksAreCuts
<1> SUFFICES ASSUME Init PROVE ReaderOK /\ Chained /\ LandmarksAreCuts
  OBVIOUS
<1>1. body \in Seq(Byte)
  BY BodyType DEF Init
<1>2. QED BY <1>1 DEF Init, ReaderOK, Chained, LandmarksAreCuts

LEMMA ReaderStep ==
  ASSUME ReaderOK, Chained, LandmarksAreCuts, [Next]_vars
  PROVE  ReaderOK' /\ Chained' /\ LandmarksAreCuts'
<1> body \in Seq(Byte) /\ Len(body) \in Nat
  BY BodyType DEF ReaderOK
<1>1. CASE ReadChunk
  <2>1. PICK p \in read + 1 .. Len(body) :
          /\ IsCut(body, read, p) /\ read' = p
          /\ manifest' = Append(manifest, <<read, p>>)
    BY <1>1 DEF ReadChunk
  <2>2. request' = request /\ body' = body /\ pc' # "saved"
    BY <1>1 DEF ReadChunk, body
  <2>3. ReaderOK'
    BY <2>1, <2>2 DEF ReaderOK
  <2>4. /\ Len(manifest') = Len(manifest) + 1
        /\ manifest'[Len(manifest')] = <<read, p>>
        /\ \A k \in 1 .. Len(manifest) : manifest'[k] = manifest[k]
    BY <2>1 DEF ReaderOK
  <2>5. /\ p - read \in 1 .. MaxSize
        /\ p < Len(body) => p - read >= MinSize
    BY <2>1, CutSize DEF ReaderOK
  <2>6. Chained'
    <3>1. manifest' # <<>> /\ manifest'[Len(manifest')][2] = read'
      BY <2>1, <2>4 DEF ReaderOK
    <3>2. ASSUME NEW k \in 1 .. Len(manifest')
          PROVE  /\ manifest'[k][1] = IF k = 1 THEN 0 ELSE manifest'[k - 1][2]
                 /\ manifest'[k][2] - manifest'[k][1] \in 1 .. MaxSize
                 /\ (k < Len(manifest') \/ read' < Len(body')) =>
                      manifest'[k][2] - manifest'[k][1] >= MinSize
      <4>1. CASE k \in 1 .. Len(manifest)
        <5>1. read < Len(body)
          BY <2>1 DEF ReaderOK
        <5>2. manifest'[k] = manifest[k]
          BY <4>1, <2>4
        <5>3. CASE k = 1
          BY <4>1, <5>1, <5>2, <5>3 DEF Chained
        <5>4. CASE k # 1
          <6>1. Len(manifest) \in Nat
            BY DEF ReaderOK
          <6>2. k - 1 \in 1 .. Len(manifest)
            BY <4>1, <5>4, <6>1
          <6>3. manifest'[k - 1] = manifest[k - 1]
            BY <6>2, <2>4
          <6>4. QED BY <4>1, <5>1, <5>2, <5>4, <6>3 DEF Chained
        <5>5. QED BY <5>3, <5>4
      <4>2. CASE k = Len(manifest) + 1
        <5>1. k > 1 => manifest'[k - 1][2] = read
          BY <4>2, <2>4 DEF Chained, ReaderOK
        <5>2. k = 1 => read = 0
          BY <4>2 DEF Chained, ReaderOK
        <5>3. QED BY <4>2, <5>1, <5>2, <2>1, <2>2, <2>4, <2>5
      <4>3. QED BY <4>1, <4>2, <2>4 DEF ReaderOK
    <3>3. QED BY <3>1, <3>2 DEF Chained
  <2>7. LandmarksAreCuts'
    <3>1. SUFFICES ASSUME NEW a \in 1 .. Len(body), NEW b \in 1 .. Len(body),
                          Landmark(body, a, b), p > a
                   PROVE  /\ p >= b
                          /\ \E k \in 1 .. Len(manifest') : manifest'[k][2] = b
      BY <2>1, <2>2 DEF LandmarksAreCuts, ReaderOK
    <3>2. CASE read > a
      <4>1. PICK k \in 1 .. Len(manifest) : manifest[k][2] = b
        BY <3>1, <3>2 DEF LandmarksAreCuts, ReaderOK
      <4>2. read >= b
        BY <3>1, <3>2 DEF LandmarksAreCuts, ReaderOK
      <4>3. manifest'[k][2] = b /\ k \in 1 .. Len(manifest')
        BY <4>1, <2>4 DEF ReaderOK
      <4>4. QED BY <4>2, <4>3, <2>1 DEF ReaderOK
    <3>3. CASE read <= a
      <4>1. p = b
        BY <3>1, <3>3, <2>1, CutAtLandmark DEF ReaderOK
      <4>2. QED BY <4>1, <2>4 DEF ReaderOK
    <3>4. QED BY <3>2, <3>3 DEF ReaderOK
  <2>8. QED BY <2>3, <2>6, <2>7
<1>2. CASE ~ReadChunk
  <2>1. UNCHANGED <<request, read, manifest, body>>
    BY <1>2, OtherSteps DEF body
  <2>2. pc' = "saved" => read = Len(body)
    BY <1>2, OtherSteps DEF ReaderOK
  <2>3. ReaderOK'
    BY <2>1, <2>2 DEF ReaderOK
  <2>4. Chained' /\ LandmarksAreCuts'
    BY <2>1 DEF Chained, LandmarksAreCuts
  <2>5. QED BY <2>3, <2>4
<1>3. QED BY <1>1, <1>2

LEMMA ReaderCorrect == Spec => [](ReaderOK /\ Chained /\ LandmarksAreCuts)
<1>1. QED BY ReaderInit, ReaderStep, PTL DEF Spec

(* Each piece ends where the chunker cuts. *)
Proper ==
  \A k \in 1 .. Len(manifest) :
    /\ manifest[k][2] \in manifest[k][1] + 1 .. Len(body)
    /\ IsCut(body, manifest[k][1], manifest[k][2])

LEMMA ProperStep ==
  ASSUME ReaderOK, Proper, [Next]_vars
  PROVE  Proper'
<1> body \in Seq(Byte) /\ Len(body) \in Nat
  BY BodyType DEF ReaderOK
<1>1. CASE ReadChunk
  <2>1. PICK p \in read + 1 .. Len(body) :
          IsCut(body, read, p) /\ manifest' = Append(manifest, <<read, p>>)
    BY <1>1 DEF ReadChunk
  <2>2. body' = body
    BY <1>1 DEF ReadChunk, body
  <2>3. /\ Len(manifest') = Len(manifest) + 1 /\ Len(manifest) \in Nat
        /\ manifest'[Len(manifest) + 1] = <<read, p>>
        /\ \A k \in 1 .. Len(manifest) : manifest'[k] = manifest[k]
    <3>1. manifest \in Seq(Nat \X Nat) /\ <<read, p>> \in Nat \X Nat
      BY DEF ReaderOK
    <3> QED
      BY <2>1, <3>1, AppendProperties
  <2> SUFFICES ASSUME NEW k \in 1 .. Len(manifest')
               PROVE  /\ manifest'[k][2] \in manifest'[k][1] + 1 .. Len(body)
                      /\ IsCut(body, manifest'[k][1], manifest'[k][2])
    BY <2>2 DEF Proper
  <2> QED
    BY <2>1, <2>3 DEF Proper
<1>2. CASE ~ReadChunk
  <2>1. UNCHANGED <<manifest, body>>
    BY <1>2, OtherSteps DEF body
  <2> QED
    BY <2>1 DEF Proper
<1> QED
  BY <1>1, <1>2

(* E are the ends of the N pieces of s. *)
PieceEnds(s, N, E) ==
  /\ E \in [1 .. N -> 1 .. Len(s)]
  /\ N > 0 => E[N] = Len(s)
  /\ \A j \in 1 .. N - 1 : E[j] < E[j + 1] /\ IsCut(s, E[j], E[j + 1])

(* From b on, the cuts of t are those ends, d further on. *)
SameCuts(t, d, b, N, E) ==
  {p \in Cuts(t) : p >= d + b} = {d + E[j] : j \in {i \in 1 .. N : E[i] >= b}}

(* Behind the first pair of landmarks the cuts of a text with something in
   front of it are those of the text. *)
LEMMA CutsBehind ==
  ASSUME NEW s, NEW t, NEW d, Behind(s, t, d),
         NEW a \in 1 .. Len(s), NEW b \in 1 .. Len(s), Landmark(s, a, b), a >= MinSize,
         NEW N \in Nat, NEW E, PieceEnds(s, N, E), NEW k \in 1 .. N, E[k] = b
  PROVE  SameCuts(t, d, b, N, E)
<1> USE Sizes
<1> /\ E \in [1 .. N -> 1 .. Len(s)]
    /\ N > 0 => E[N] = Len(s)
    /\ \A j \in 1 .. N - 1 : E[j] < E[j + 1] /\ IsCut(s, E[j], E[j + 1])
  BY DEF PieceEnds
<1>1. s \in Seq(Byte) /\ Len(s) \in Nat /\ d \in Nat
  BY DEF Behind
<1>3. t \in Seq(Byte) /\ Len(t) = d + Len(s) /\ Len(t) \in Nat
  BY <1>1 DEF Behind
<1>4. Landmark(t, d + a, d + b)
  BY LandmarkBehind
<1>5. a + MinSize <= b
  BY DEF Landmark
<1>7. PICK R : /\ Cuts(t) = R[0] /\ R[Len(t)] = {}
               /\ \A i \in 0 .. Len(t) - 1 : R[i] = {NextCut(t, i)} \cup R[NextCut(t, i)]
  BY <1>3, CutsUnfold
<1>8. \A i \in 0 .. Len(t) - 1 : NextCut(t, i) \in i + 1 .. Len(t)
  BY <1>3, OneCut
<1>9. \A i \in 0 .. Len(t) : \A p \in R[i] : p \in i + 1 .. Len(t)
  <2> DEFINE C == {n \in Nat : \A i \in 0 .. Len(t) : Len(t) - i <= n =>
                                  \A p \in R[i] : p \in i + 1 .. Len(t)}
  <2>1. 0 \in C
    BY <1>3, <1>7
  <2>2. ASSUME NEW n \in Nat, n \in C PROVE n + 1 \in C
    <3> SUFFICES ASSUME NEW i \in 0 .. Len(t), Len(t) - i <= n + 1, NEW p \in R[i]
                 PROVE  p \in i + 1 .. Len(t)
      OBVIOUS
    <3>1. i # Len(t)
      BY <1>7
    <3>2. i \in 0 .. Len(t) - 1
      BY <1>3, <3>1
    <3>3. PICK c \in i + 1 .. Len(t) : c = NextCut(t, i)
      BY <1>8, <3>2
    <3>4. p = c \/ p \in R[c]
      BY <1>7, <3>2, <3>3
    <3>5. c \in 0 .. Len(t) /\ Len(t) - c <= n
      BY <1>3
    <3>6. p \in R[c] => p \in c + 1 .. Len(t)
      BY <2>2, <3>5
    <3> QED
      BY <1>3, <3>4, <3>6, SMTT(30)
  <2>3. Nat \subseteq C
    <3> HIDE DEF C
    <3> QED
      BY <2>1, <2>2, SetOfNaturals
  <2> TAKE i \in 0 .. Len(t)
  <2>4. PICK n \in Nat : n = Len(t) - i
    BY <1>3
  <2>5. n \in C
    BY <2>3
  <2>6. Len(t) - i <= n
    BY <1>3, <2>4
  <2> QED
    BY <2>5, <2>6
<1>10. \A j \in 1 .. N : E[j] \in 1 .. Len(s) /\ E[j] \in Nat
  OBVIOUS
<1>11. \A j \in 1 .. N : R[d + E[j]] = {d + E[l] : l \in j + 1 .. N}
  <2> DEFINE Later(j) == {d + E[l] : l \in j + 1 .. N}
             C == {n \in Nat : \A j \in 1 .. N : N - j <= n => R[d + E[j]] = Later(j)}
  <2>1. 0 \in C
    <3> SUFFICES ASSUME NEW j \in 1 .. N, N - j <= 0 PROVE R[d + E[j]] = Later(j)
      OBVIOUS
    <3>1. j = N /\ E[j] = Len(s)
      OBVIOUS
    <3>2. Later(j) = {}
      BY <3>1
    <3> QED
      BY <1>3, <1>7, <3>1, <3>2
  <2>2. ASSUME NEW n \in Nat, n \in C PROVE n + 1 \in C
    <3> SUFFICES ASSUME NEW j \in 1 .. N, N - j = n + 1 PROVE R[d + E[j]] = Later(j)
      <4> HIDE DEF Later
      <4>1. \A j \in 1 .. N : N - j <= n => R[d + E[j]] = Later(j)
        BY <2>2
      <4>2. SUFFICES ASSUME NEW j \in 1 .. N, N - j <= n + 1
                     PROVE  R[d + E[j]] = Later(j)
        OBVIOUS
      <4>3. N - j <= n \/ N - j = n + 1
        <5> HIDE DEF C
        <5> QED
          BY <4>2
      <4> QED
        BY <4>1, <4>3
    <3>1. j + 1 \in 1 .. N /\ N - (j + 1) <= n
      OBVIOUS
    <3>2. R[d + E[j + 1]] = Later(j + 1)
      BY <2>2, <3>1
    <3>4. PICK u \in 0 .. Len(s) : u = E[j]
      BY <1>10
    <3>5. PICK v \in u + 1 .. Len(s) : v = E[j + 1] /\ IsCut(s, u, v)
      <4>1. j \in 1 .. N - 1
        BY <3>1
      <4> QED
        BY <1>10, <3>1, <3>4, <4>1
    <3>6. IsCut(t, d + u, d + v)
      BY <3>5, CutsAlike
    <3>7. d + u \in 0 .. Len(t) - 1 /\ d + v \in (d + u) + 1 .. Len(t)
      BY <1>1, <1>3
    <3>8. NextCut(t, d + u) = d + v
      BY <1>3, <3>6, <3>7, OneCut
    <3>9. R[d + u] = {d + v} \cup R[d + v]
      BY <1>7, <3>7, <3>8
    <3>10. Later(j) = {d + E[j + 1]} \cup Later(j + 1)
      <4>1. \A l : l \in j + 1 .. N <=> l = j + 1 \/ l \in (j + 1) + 1 .. N
        BY <3>1
      <4> QED
        BY <4>1
    <3> QED
      BY <3>2, <3>4, <3>5, <3>9, <3>10
  <2>3. Nat \subseteq C
    <3> HIDE DEF C
    <3> QED
      BY <2>1, <2>2, SetOfNaturals
  <2> TAKE j \in 1 .. N
  <2>4. PICK n \in Nat : n = N - j
    OBVIOUS
  <2>5. n \in C
    BY <2>3
  <2>6. N - j <= n
    BY <2>4
  <2>7. R[d + E[j]] = Later(j)
    <3> HIDE DEF Later
    <3> QED
      BY <2>5, <2>6
  <2> QED
    BY <2>7
<1> DEFINE A == d + a
           B == d + b
<1>12. A \in 0 .. Len(t) - 1 /\ B \in 1 .. Len(t) /\ A < B
  BY <1>1, <1>3, <1>5
<1>13. \A i \in 0 .. A : {p \in R[i] : p >= B} = {B} \cup R[B]
  <2> DEFINE C == {n \in Nat : \A i \in 0 .. A : A - i < n =>
                                  {p \in R[i] : p >= B} = {B} \cup R[B]}
  <2> HIDE DEF A, B
  <2>1. 0 \in C
    BY <1>12
  <2>2. ASSUME NEW n \in Nat, n \in C PROVE n + 1 \in C
    <3> SUFFICES ASSUME NEW i \in 0 .. A, A - i < n + 1
                 PROVE  {p \in R[i] : p >= B} = {B} \cup R[B]
      OBVIOUS
    <3>1. i \in 0 .. Len(t) - 1
      BY <1>3, <1>12
    <3>2. PICK c \in i + 1 .. Len(t) : c = NextCut(t, i) /\ IsCut(t, i, c)
      BY <1>3, <3>1, OneCut
    <3>3. R[i] = {c} \cup R[c]
      BY <1>7, <3>1, <3>2
    <3>4. c <= A \/ c = B
      <4>1. A \in 1 .. Len(t) /\ B \in 1 .. Len(t) /\ Landmark(t, A, B)
        BY <1>1, <1>3, <1>4, <1>12 DEF A, B
      <4> QED
        BY <1>3, <3>2, <4>1, CutAtLandmark
    <3>5. CASE c <= A
      <4>1. c \in 0 .. A /\ A - c < n /\ ~(c >= B)
        BY <1>12, <3>1, <3>5
      <4>2. {p \in R[c] : p >= B} = {B} \cup R[B]
        BY <2>2, <4>1
      <4>3. {p \in R[i] : p >= B} = {p \in R[c] : p >= B}
        BY <3>3, <4>1
      <4> QED
        BY <4>2, <4>3
    <3>6. CASE c = B
      <4>1. \A p \in R[B] : p >= B
        BY <1>9, <1>12
      <4> QED
        BY <1>12, <3>3, <3>6, <4>1
    <3> QED
      BY <3>4, <3>5, <3>6
  <2>3. Nat \subseteq C
    <3> HIDE DEF C
    <3> QED
      BY <2>1, <2>2, SetOfNaturals
  <2>4. \A i \in 0 .. A : (A - i) + 1 \in Nat /\ A - i < (A - i) + 1
    BY <1>12
  <2> QED
    BY <2>3, <2>4
<1>14. {p \in Cuts(t) : p >= d + b} = {d + b} \cup R[d + b]
  BY <1>7, <1>12, <1>13
<1>15. R[d + b] = {d + E[l] : l \in k + 1 .. N}
  BY <1>11
<1>16. \A j \in 1 .. N : E[j] >= b <=> j \in k .. N
  <2>1. ASSUME NEW i \in 1 .. N, NEW j \in i + 1 .. N PROVE E[i] < E[j]
    <3>1. d + E[j] \in R[d + E[i]]
      BY <1>11
    <3>2. d + E[i] \in 0 .. Len(t) /\ j \in 1 .. N
      BY <1>1, <1>3, <1>10
    <3>3. d + E[j] \in (d + E[i]) + 1 .. Len(t)
      BY <1>9, <3>1, <3>2
    <3>4. PICK u \in Nat : u = E[i]
      BY <1>10
    <3>5. PICK v \in Nat : v = E[j]
      BY <1>10, <3>2
    <3>6. d + v \in (d + u) + 1 .. Len(t) /\ d \in Nat /\ Len(t) \in Nat
      BY <1>1, <1>3, <3>3, <3>4, <3>5
    <3>7. u < v
      BY <3>6
    <3> QED
      BY <3>4, <3>5, <3>7
  <2> TAKE j \in 1 .. N
  <2>2. CASE j < k
    <3>1. k \in j + 1 .. N
      BY <2>2
    <3>2. E[j] < b
      BY <2>1, <3>1
    <3> QED
      BY <1>10, <2>2, <3>2
  <2>3. CASE j = k
    BY <2>3
  <2>4. CASE j > k
    <3>1. j \in k + 1 .. N
      BY <2>4
    <3>2. b < E[j]
      BY <2>1, <3>1
    <3> QED
      BY <1>10, <2>4, <3>2
  <2> QED
    BY <2>2, <2>3, <2>4
<1>17. {j \in 1 .. N : E[j] >= b} = k .. N
  BY <1>16
<1>18. {d + E[l] : l \in k .. N} = {d + b} \cup {d + E[l] : l \in k + 1 .. N}
  <2>1. \A l : l \in k .. N <=> l = k \/ l \in k + 1 .. N
    OBVIOUS
  <2> QED
    BY <2>1
<1> QED
  BY <1>14, <1>15, <1>17, <1>18 DEF SameCuts

LEMMA InsertionLeavesCuts ==
  ASSUME ReaderOK, Chained, Proper, LandmarksAreCuts, pc = "saved",
         NEW x \in Insertions, NEW a \in 1 .. Len(body), NEW b \in 1 .. Len(body),
         Landmark(body, a, b), a >= MinSize
  PROVE  {p \in Cuts(x \o body) : p >= Len(x) + b} =
           {Len(x) + manifest[k][2] : k \in {j \in 1 .. Len(manifest) : manifest[j][2] >= b}}
<1>1. PICK s \in Seq(Byte) : s = body
  BY BodyType DEF ReaderOK
<1>2. PICK N \in Nat : N = Len(manifest)
  BY DEF ReaderOK
<1>3. x \in Seq(Byte) /\ Len(x) \in Nat
  BY IntakeAssumption
<1>4. Behind(s, x \o s, Len(x))
  BY <1>3, ConcatProperties DEF Behind
<1>5. \A j \in 1 .. N : /\ manifest[j][1] \in Nat
                       /\ manifest[j][2] \in manifest[j][1] + 1 .. Len(s)
                       /\ IsCut(s, manifest[j][1], manifest[j][2])
  BY <1>1, <1>2 DEF Proper, ReaderOK
<1>6. PICK E \in [1 .. N -> 1 .. Len(s)] : \A j \in 1 .. N : E[j] = manifest[j][2]
  <2> DEFINE E == [j \in 1 .. N |-> manifest[j][2]]
  <2>1. \A j \in 1 .. N : manifest[j][2] \in 1 .. Len(s)
    BY <1>5, SMTT(30)
  <2>2. E \in [1 .. N -> 1 .. Len(s)]
    BY <2>1
  <2> QED
    BY <2>2
<1>7. N > 0 => E[N] = Len(s)
  <2>1. N > 0 => manifest # <<>> /\ N \in 1 .. N
    BY <1>2
  <2> QED
    BY <1>1, <1>2, <1>6, <2>1 DEF Chained, ReaderOK
<1>8. \A j \in 1 .. N - 1 : E[j] < E[j + 1] /\ IsCut(s, E[j], E[j + 1])
  <2> TAKE j \in 1 .. N - 1
  <2>1. j \in 1 .. N /\ j + 1 \in 1 .. N /\ j + 1 # 1 /\ (j + 1) - 1 = j
    OBVIOUS
  <2>2. manifest[j + 1][1] = manifest[j][2]
    BY <1>2, <2>1 DEF Chained
  <2>3. E[j] = manifest[j + 1][1] /\ E[j + 1] = manifest[j + 1][2]
    BY <1>6, <2>1, <2>2
  <2> QED
    BY <1>5, <2>1, <2>3
<1>9. PICK k \in 1 .. N : E[k] = b
  <2>1. a + MinSize <= b /\ MinSize > 0 /\ MinSize \in Nat /\ read = Len(body)
    BY Sizes DEF Landmark, ReaderOK
  <2>2. ~(read <= a)
    BY <1>1, <2>1
  <2> QED
    BY <1>2, <1>6, <2>2 DEF LandmarksAreCuts
<1>10. a \in 1 .. Len(s) /\ b \in 1 .. Len(s) /\ Landmark(s, a, b)
  BY <1>1
<1>11. SameCuts(x \o s, Len(x), b, N, E)
  <2>1. PieceEnds(s, N, E)
    BY <1>7, <1>8 DEF PieceEnds
  <2> QED
    BY <1>4, <1>9, <1>10, <2>1, CutsBehind
<1>12. {j \in 1 .. N : E[j] >= b} = {j \in 1 .. N : manifest[j][2] >= b}
  BY <1>6
<1> QED
  BY <1>1, <1>2, <1>6, <1>11, <1>12 DEF SameCuts

(* An upload of the same content with something in front of it is cut at the
   same places from the first pair of landmarks on, for every body, insertion,
   gear table and chunk size. *)
THEOREM IntakeInsertionShiftsNothing == Spec => []InsertionShiftsNothing
<1>1. Init => Proper
  BY DEF Init, Proper
<1>2. ReaderOK /\ Chained /\ LandmarksAreCuts /\ Proper => InsertionShiftsNothing
  BY InsertionLeavesCuts DEF InsertionShiftsNothing
<1>3. ReaderOK /\ Proper /\ [Next]_vars => Proper'
  BY ProperStep
<1> QED
  BY <1>1, <1>2, <1>3, ReaderCorrect, PTL DEF Spec

(* Wherever the reader comes from, it cuts at the second of two landmarks: an
   insertion or a change before them does not reach the chunks behind. *)
THEOREM IntakeCutsAtLandmarks == Spec => []LandmarksAreCuts
  BY ReaderCorrect, PTL

(* The chunks of a saved manifest follow one another from the first byte of
   the body to its last, each within the bounds. *)
THEOREM IntakeKeepsBody == Spec => []ManifestIsBody
<1>1. ReaderOK /\ Chained => ManifestIsBody
  BY DEF ReaderOK, Chained, ManifestIsBody
<1>2. QED BY <1>1, ReaderCorrect, PTL
-----------------------------------------------------------------------------
(* The bytes of a set of files are a sum. *)

Files == Seq(Byte) \X Node
Lengths(S) == [p \in S |-> Len(p[1])]

LEMMA LengthsAreNat ==
  ASSUME NEW S \in SUBSET Files, NEW T \in SUBSET S
  PROVE  \A p \in T : Lengths(S)[p] \in Nat
  BY DEF Files, Lengths

LEMMA WeightIsSum ==
  ASSUME NEW S \in SUBSET Files, IsFiniteSet(S)
  PROVE  Weight(S) = SumFunctionOnSet(Lengths(S), S)
<1> DEFINE it == CHOOSE iter : iter = [s \in SUBSET S |-> IF s = {} THEN 0
                     ELSE Len((CHOOSE x \in s : TRUE)[1])
                            + iter[s \ {CHOOSE x \in s : TRUE}]]
           f == Lengths(S)
<1>1. Weight(S) = it[S]
  BY DEF Weight, MapThenSumSet, MapThenFoldSet
<1>2. Picks(Pick(S), S)
  BY PickPicks
<1>3. PICK g : FoldsBy(g, f, Pick(S), S)
  BY <1>2, FoldExists
<1>4. \A s \in SUBSET S : s # {} =>
        f[Pick(S)[s]] = Len((CHOOSE x \in s : TRUE)[1])
  BY DEF Lengths, Pick
<1>5. \A h : FoldsBy(h, f, Pick(S), S) <=>
        h = [s \in SUBSET S |-> IF s = {} THEN 0
               ELSE Len((CHOOSE x \in s : TRUE)[1]) + h[s \ {CHOOSE x \in s : TRUE}]]
  <2> HIDE DEF f
  <2> SUFFICES ASSUME NEW h
               PROVE  [T \in SUBSET S |-> IF T = {} THEN 0
                         ELSE f[Pick(S)[T]] + h[T \ {Pick(S)[T]}]]
                      = [s \in SUBSET S |-> IF s = {} THEN 0
                           ELSE Len((CHOOSE x \in s : TRUE)[1])
                                  + h[s \ {CHOOSE x \in s : TRUE}]]
    BY DEF FoldsBy
  <2>1. \A T \in SUBSET S : T # {} => Pick(S)[T] = CHOOSE x \in T : TRUE
    BY DEF Pick
  <2>2. \A T \in SUBSET S :
          (IF T = {} THEN 0 ELSE f[Pick(S)[T]] + h[T \ {Pick(S)[T]}])
            = IF T = {} THEN 0
              ELSE Len((CHOOSE x \in T : TRUE)[1]) + h[T \ {CHOOSE x \in T : TRUE}]
    BY <1>4, <2>1
  <2> QED
    BY <2>2, Zenon
<1>6. FoldsBy(it, f, Pick(S), S)
  <2>1. \E iter : iter = [s \in SUBSET S |-> IF s = {} THEN 0
                     ELSE Len((CHOOSE x \in s : TRUE)[1])
                            + iter[s \ {CHOOSE x \in s : TRUE}]]
    <3>1. g = [s \in SUBSET S |-> IF s = {} THEN 0
                 ELSE Len((CHOOSE x \in s : TRUE)[1]) + g[s \ {CHOOSE x \in s : TRUE}]]
      BY <1>3, <1>5
    <3> QED
      BY <3>1
  <2>2. it = [s \in SUBSET S |-> IF s = {} THEN 0
                ELSE Len((CHOOSE x \in s : TRUE)[1]) + it[s \ {CHOOSE x \in s : TRUE}]]
    BY <2>1
  <2> HIDE DEF it
  <2> QED
    BY <1>5, <2>2
<1>7. \A p \in S : f[p] \in Int
  BY LengthsAreNat
<1> HIDE DEF it, f
<1>8. AnyOrder(it, f, S)
  BY <1>2, <1>6, <1>7, FoldTakesAny
<1>9. PICK k : AnyOrder(k, f, S) /\ SumFunctionOnSet(f, S) = k[S]
  BY <1>7, SumAnyOrder
<1>10. it[S] = k[S]
  BY <1>8, <1>9, FoldsAgree
<1> QED
  BY <1>1, <1>9, <1>10 DEF f

LEMMA WeightType ==
  ASSUME NEW S \in SUBSET Files, IsFiniteSet(S)
  PROVE  Weight(S) \in Nat
<1>1. \A p \in S : Lengths(S)[p] \in Nat
  BY LengthsAreNat
<1> QED
  BY <1>1, WeightIsSum, SumNat

(* A file that comes, a file that goes *)
LEMMA WeightRemove ==
  ASSUME NEW S \in SUBSET Files, IsFiniteSet(S), NEW p \in S
  PROVE  Weight(S \ {p}) = Weight(S) - Len(p[1])
<1> DEFINE R == S \ {p}
           f == Lengths(S)
<1>1. R \in SUBSET Files /\ IsFiniteSet(R)
  BY FS_RemoveElement
<1>2. \A q \in S : f[q] \in Int
  BY LengthsAreNat
<1>3. SumFunctionOnSet(f, S) = f[p] + SumFunctionOnSet(f, R)
  <2> HIDE DEF f
  <2> QED
    BY <1>2, SumRemove
<1>4. SumFunctionOnSet(Lengths(R), R) = SumFunctionOnSet(f, R)
  <2>1. (\A q \in R : f[q] \in Int) /\ (\A q \in R : Lengths(R)[q] = f[q])
    BY <1>2 DEF Lengths
  <2>2. (\A q \in R : f[q] \in Int) /\ (\A q \in R : f[q] = Lengths(R)[q])
    BY <2>1
  <2>3. \A q \in R : Lengths(R)[q] \in Int
    BY <2>1
  <2> HIDE DEF R, f
  <2> QED
    BY <1>1, <2>1, <2>2, <2>3, SumsAgree
<1>5. f[p] = Len(p[1]) /\ Len(p[1]) \in Nat
  BY DEF Lengths, Files
<1>6. SumFunctionOnSet(f, R) \in Int
  <2>1. \A q \in R : f[q] \in Int
    BY <1>2
  <2> HIDE DEF R, f
  <2> QED
    BY <1>1, <2>1, SumType
<1>7. Weight(S) = SumFunctionOnSet(f, S)
  BY WeightIsSum
<1>8. Weight(R) = SumFunctionOnSet(Lengths(R), R)
  <2> HIDE DEF R
  <2> QED
    BY <1>1, WeightIsSum
<1> HIDE DEF R, f
<1>9. Weight(R) = Weight(S) - Len(p[1])
  BY <1>3, <1>4, <1>5, <1>6, <1>7, <1>8
<1> QED
  BY <1>9 DEF R

LEMMA WeightAdd ==
  ASSUME NEW S \in SUBSET Files, IsFiniteSet(S), NEW p \in Files, p \notin S
  PROVE  Weight(S \cup {p}) = Weight(S) + Len(p[1])
<1> DEFINE R == S \cup {p}
<1>1. R \in SUBSET Files /\ IsFiniteSet(R) /\ p \in R
  BY FS_AddElement
<1>2. R \ {p} = S
  OBVIOUS
<1> HIDE DEF R
<1>3. Weight(R \ {p}) = Weight(R) - Len(p[1])
  BY <1>1, WeightRemove
<1>4. Weight(S) \in Nat /\ Weight(R) \in Nat /\ Len(p[1]) \in Nat
  BY <1>1, WeightType DEF Files
<1>5. Weight(S) = Weight(R) - Len(p[1])
  BY <1>2, <1>3, Zenon
<1>6. Weight(R) = Weight(S) + Len(p[1])
  BY <1>4, <1>5
<1> QED
  BY <1>6 DEF R

-----------------------------------------------------------------------------
(* The plan: the eligible nodes have different ranks, so there is one for each
   rank. *)

Ranks == (\A n \in Node : free[n] \in Int) /\ (\A n \in Node : counts[n] \in Int)

LEMMA BetterOrders ==
  ASSUME Ranks
  PROVE  /\ \A n \in Node : ~Better(n, n)
         /\ \A m, n \in Node : m = n \/ Better(m, n) \/ Better(n, m)
         /\ \A l, m, n \in Node : Better(l, m) /\ Better(m, n) => Better(l, n)
<1>1. Node \subseteq Int
  BY IntakeAssumption
<1> QED
  BY <1>1 DEF Ranks, Better, MoreFree

LEMMA Ranked ==
  ASSUME Ranks, NEW c, NEW r \in 1 .. Cardinality(Eligible(c))
  PROVE  \E n \in Eligible(c) :
           1 + Cardinality({m \in Eligible(c) : Better(m, n)}) = r
<1> DEFINE E == Eligible(c)
           Ahead(n) == {m \in E : Better(m, n)}
           f == [n \in E |-> 1 + Cardinality(Ahead(n))]
<1>1. E \subseteq Node /\ IsFiniteSet(E) /\ Cardinality(E) \in Nat
  BY IntakeAssumption, FS_Subset, FS_CardinalityType DEF Eligible
<1> HIDE DEF E
<1>2. ASSUME NEW n \in E
      PROVE  /\ IsFiniteSet(Ahead(n)) /\ Cardinality(Ahead(n)) \in Nat
             /\ Cardinality(Ahead(n)) < Cardinality(E)
  <2>1. n \notin Ahead(n)
    BY <1>1, BetterOrders
  <2>2. Ahead(n) \in SUBSET (E \ {n})
    BY <2>1
  <2>3. IsFiniteSet(E \ {n}) /\ Cardinality(E \ {n}) = Cardinality(E) - 1
    BY <1>1, FS_RemoveElement
  <2> HIDE DEF Ahead
  <2>4. /\ IsFiniteSet(Ahead(n)) /\ Cardinality(Ahead(n)) \in Nat
        /\ Cardinality(Ahead(n)) <= Cardinality(E \ {n})
    BY <2>2, <2>3, FS_Subset, FS_CardinalityType
  <2> QED
    BY <1>1, <2>3, <2>4
<1>3. ASSUME NEW m \in E, NEW n \in E, Better(m, n)
      PROVE  Cardinality(Ahead(m)) < Cardinality(Ahead(n))
  <2>1. m \notin Ahead(m) /\ m \in Ahead(n)
    BY <1>1, <1>3, BetterOrders
  <2>2. Ahead(m) \in SUBSET (Ahead(n) \ {m})
    BY <1>1, <1>3, <2>1, BetterOrders
  <2>3. IsFiniteSet(Ahead(n)) /\ Cardinality(Ahead(n)) \in Nat
    BY <1>2
  <2>4. Cardinality(Ahead(m)) \in Nat
    BY <1>2
  <2> HIDE DEF Ahead
  <2>5. /\ IsFiniteSet(Ahead(n) \ {m})
        /\ Cardinality(Ahead(n) \ {m}) = Cardinality(Ahead(n)) - 1
    BY <2>1, <2>3, FS_RemoveElement
  <2>6. Cardinality(Ahead(m)) <= Cardinality(Ahead(n) \ {m})
    BY <2>2, <2>5, FS_Subset
  <2> QED
    BY <2>3, <2>4, <2>5, <2>6
<1>4. \A n \in E : f[n] = 1 + Cardinality(Ahead(n))
  OBVIOUS
<1> HIDE DEF Ahead
<1>5. f \in [E -> 1 .. Cardinality(E)]
  BY <1>1, <1>2
<1> HIDE DEF f
<1>6. ASSUME NEW m \in E, NEW n \in E, m # n PROVE f[m] # f[n]
  <2>1. Better(m, n) \/ Better(n, m)
    BY <1>1, <1>6, BetterOrders
  <2> QED
    BY <1>2, <1>3, <1>4, <2>1
<1>7. f \in Injection(E, 1 .. Cardinality(E))
  BY <1>5, <1>6 DEF Injection, IsInjective
<1>8. /\ IsFiniteSet(1 .. Cardinality(E))
      /\ Cardinality(1 .. Cardinality(E)) = Cardinality(E)
  BY <1>1, FS_Interval
<1>9. f \in Surjection(E, 1 .. Cardinality(E))
  BY <1>7, <1>8, FS_Injection
<1>10. PICK n \in E : f[n] = r
  BY <1>9 DEF Surjection, E
<1> QED
  BY <1>4, <1>10 DEF Ahead, E

LEMMA MinOfTwo ==
  ASSUME NEW a \in Int, NEW b \in Int
  PROVE  Min({a, b}) = IF a <= b THEN a ELSE b
<1>1. \A x \in {a, b} : (\A y \in {a, b} : x <= y) <=> x = IF a <= b THEN a ELSE b
  OBVIOUS
<1>2. (IF a <= b THEN a ELSE b) \in {a, b}
  OBVIOUS
<1> QED
  BY <1>1, <1>2 DEF Min

LEMMA PlanIsNodes ==
  ASSUME Ranks, NEW c, NEW k \in Nat
  PROVE  PlanChunkSpread(c, k) \in Seq(Node)
<1> DEFINE E == Eligible(c)
           last == Min({k, Cardinality(E)})
           Rank(n) == 1 + Cardinality({m \in E : Better(m, n)})
<1>1. Cardinality(E) \in Nat /\ E \subseteq Node
  BY IntakeAssumption, FS_Subset, FS_CardinalityType DEF Eligible
<1>2. last \in Nat /\ last <= Cardinality(E)
  <2> HIDE DEF E
  <2> QED
    BY <1>1, MinOfTwo
<1>3. ASSUME NEW r \in 1 .. last
      PROVE  (CHOOSE n \in E : Rank(n) = r) \in Node
  <2>1. r \in 1 .. Cardinality(E)
    <3> HIDE DEF E, last
    <3> QED
      BY <1>1, <1>2
  <2>2. \E n \in E : Rank(n) = r
    BY <2>1, Ranked
  <2> HIDE DEF E, Rank
  <2> QED
    BY <1>1, <2>2
<1>4. PlanChunkSpread(c, k) = [r \in 1 .. last |-> CHOOSE n \in E : Rank(n) = r]
  BY DEF PlanChunkSpread
<1> HIDE DEF E, Rank, last
<1> QED
  BY <1>2, <1>3, <1>4

-----------------------------------------------------------------------------
(* The nodes' space: what the tables and the files hold, and what is known of
   the free space of a node of which the server has not lost track.  A node
   that adds nothing to a chunk is never over-full. *)

SpaceTyped ==
  /\ capacity \in Capacities /\ free \in [Node -> Nat]
  /\ \A n \in Node : free[n] <= capacity[n]
  /\ beat \in [Node -> [free: Int, exact: BOOLEAN]]
  /\ \A n \in Node : beat[n] # NoBeat => beat[n].free \in 0 .. capacity[n]
  /\ disk \in SUBSET Files /\ IsFiniteSet(disk)
  /\ locs \in SUBSET Files /\ IsFiniteSet(locs)
  /\ muddled \subseteq Node

Counted ==
  \A n \in Node : Overhead[n] = 0 =>
    /\ Weight(Stored(n)) <= capacity[n]
    /\ n \notin muddled => free[n] + Weight(Placed(n)) = capacity[n]
    /\ beat[n].exact => beat[n].free + Weight(Placed(n)) = capacity[n]

Of(S, n) == {p \in S : p[2] = n}

LEMMA OfType ==
  ASSUME NEW S \in SUBSET Files, IsFiniteSet(S), NEW n \in Node
  PROVE  /\ Of(S, n) \in SUBSET Files /\ IsFiniteSet(Of(S, n))
         /\ Weight(Of(S, n)) \in Nat /\ Cardinality(Of(S, n)) \in Nat
<1>1. Of(S, n) \in SUBSET S
  BY DEF Of
<1>2. Of(S, n) \in SUBSET Files /\ IsFiniteSet(Of(S, n))
  BY <1>1, FS_Subset
<1> QED
  BY <1>2, WeightType, FS_CardinalityType

(* T is S with or without the file of chunk c on node n. *)
Gains(S, T, c, n) ==
  /\ T \in SUBSET Files /\ IsFiniteSet(T)
  /\ \A m \in Node : m # n => Of(T, m) = Of(S, m)
  /\ Weight(Of(T, n)) = IF <<c, n>> \in S THEN Weight(Of(S, n))
                        ELSE Weight(Of(S, n)) + Len(c)

Loses(S, T, c, n) ==
  /\ T \in SUBSET Files /\ IsFiniteSet(T)
  /\ \A m \in Node : m # n => Of(T, m) = Of(S, m)
  /\ Weight(Of(T, n)) = IF <<c, n>> \in S THEN Weight(Of(S, n)) - Len(c)
                        ELSE Weight(Of(S, n))

LEMMA OfAdd ==
  ASSUME NEW S \in SUBSET Files, IsFiniteSet(S), NEW c \in Seq(Byte), NEW n \in Node,
         NEW T, T = S \cup {<<c, n>>}
  PROVE  Gains(S, T, c, n)
<1> USE DEF Gains
<1> DEFINE p == <<c, n>>
<1>1. p \in Files /\ p[1] = c
  BY DEF Files
<1>2. T \in SUBSET Files /\ IsFiniteSet(T)
  BY <1>1, FS_AddElement
<1>3. \A m \in Node : m # n => Of(T, m) = Of(S, m)
  BY DEF Of
<1>4. Of(T, n) = Of(S, n) \cup {p}
  BY DEF Of
<1>5. p \in Of(S, n) <=> p \in S
  BY DEF Of
<1>6. CASE p \in S
  <2>1. Of(T, n) = Of(S, n)
    BY <1>6 DEF Of
  <2> QED
    BY <1>2, <1>3, <1>6, <2>1
<1>7. CASE p \notin S
  <2>1. Of(S, n) \in SUBSET Files /\ IsFiniteSet(Of(S, n))
    BY OfType
  <2> HIDE DEF p
  <2>2. Weight(Of(S, n) \cup {p}) = Weight(Of(S, n)) + Len(p[1])
    BY <1>1, <1>5, <1>7, <2>1, WeightAdd
  <2>3. Weight(Of(T, n)) = Weight(Of(S, n)) + Len(c)
    BY <1>1, <1>4, <2>2, Zenon
  <2> QED
    BY <1>2, <1>3, <1>7, <2>3 DEF p
<1> QED
  BY <1>6, <1>7

LEMMA OfRemove ==
  ASSUME NEW S \in SUBSET Files, IsFiniteSet(S), NEW c \in Seq(Byte), NEW n \in Node,
         NEW T, T = S \ {<<c, n>>}
  PROVE  Loses(S, T, c, n)
<1> USE DEF Loses
<1> DEFINE p == <<c, n>>
<1>1. p[1] = c
  OBVIOUS
<1>2. T \in SUBSET Files /\ IsFiniteSet(T)
  BY FS_RemoveElement
<1>3. \A m \in Node : m # n => Of(T, m) = Of(S, m)
  BY DEF Of
<1>4. Of(T, n) = Of(S, n) \ {p}
  BY DEF Of
<1>5. p \in Of(S, n) <=> p \in S
  BY DEF Of
<1>6. CASE p \notin S
  <2>1. Of(T, n) = Of(S, n)
    BY <1>6 DEF Of
  <2> QED
    BY <1>2, <1>3, <1>6, <2>1
<1>7. CASE p \in S
  <2>1. Of(S, n) \in SUBSET Files /\ IsFiniteSet(Of(S, n))
    BY OfType
  <2> HIDE DEF p
  <2>2. Weight(Of(S, n) \ {p}) = Weight(Of(S, n)) - Len(p[1])
    BY <1>5, <1>7, <2>1, WeightRemove
  <2>3. Weight(Of(T, n)) = Weight(Of(S, n)) - Len(c)
    BY <1>1, <1>4, <2>2, Zenon
  <2> QED
    BY <1>2, <1>3, <1>7, <2>3 DEF p
<1> QED
  BY <1>6, <1>7

(* What is known of the space in other words *)
CountedAt(n) ==
  Overhead[n] = 0 =>
    /\ Weight(Of(disk, n)) <= capacity[n]
    /\ n \notin muddled => free[n] + Weight(Of(locs, n)) = capacity[n]
    /\ beat[n].exact => beat[n].free + Weight(Of(locs, n)) = capacity[n]

LEMMA CountedOf == Counted <=> \A n \in Node : CountedAt(n)
  BY DEF Counted, CountedAt, Stored, Placed, Of

LEMMA CountedNext == Counted' <=> \A n \in Node : CountedAt(n)'
  BY DEF Counted, CountedAt, Stored, Placed, Of

(* A step that leaves a node alone *)
LEMMA NodeKept ==
  ASSUME NEW n \in Node, CountedAt(n),
         /\ Of(disk', n) = Of(disk, n) /\ Of(locs', n) = Of(locs, n)
         /\ capacity' = capacity /\ free'[n] = free[n]
         /\ n \in muddled => n \in muddled'
         /\ beat'[n] = beat[n] \/ ~beat'[n].exact
  PROVE  CountedAt(n)'
<1>1. /\ Weight(Of(disk', n)) = Weight(Of(disk, n))
      /\ Weight(Of(locs', n)) = Weight(Of(locs, n))
  BY Zenon
<1> QED
  BY <1>1 DEF CountedAt

LEMMA CapacityType ==
  ASSUME SpaceTyped
  PROVE  \A n \in Node : capacity[n] \in Nat /\ free[n] \in Nat
  BY IntakeAssumption DEF SpaceTyped

LEMMA WeightsType ==
  ASSUME SpaceTyped, NEW n \in Node
  PROVE  /\ Weight(Of(disk, n)) \in Nat /\ Weight(Of(locs, n)) \in Nat
         /\ Used(n) \in Nat
         /\ Overhead[n] = 0 => Used(n) = Weight(Of(disk, n))
<1>1. Stored(n) = Of(disk, n)
  BY DEF Stored, Of
<1>2. Weight(Of(disk, n)) \in Nat /\ Cardinality(Of(disk, n)) \in Nat
  BY OfType DEF SpaceTyped
<1>3. Weight(Of(locs, n)) \in Nat
  BY OfType DEF SpaceTyped
<1>4. Used(n) = Weight(Of(disk, n)) + Overhead[n] * Cardinality(Of(disk, n))
  BY <1>1 DEF Used
<1>5. Overhead[n] \in Nat
  BY IntakeAssumption
<1>6. Overhead[n] * Cardinality(Of(disk, n)) \in Nat
  BY <1>2, <1>5
<1>7. Overhead[n] = 0 => Overhead[n] * Cardinality(Of(disk, n)) = 0
  BY <1>2
<1> QED
  BY <1>2, <1>3, <1>4, <1>6, <1>7

LEMMA TouchTyped ==
  ASSUME SpaceTyped, NEW n \in Node, Touch(n), capacity' = capacity
  PROVE  /\ beat' \in [Node -> [free: Int, exact: BOOLEAN]]
         /\ \A m \in Node : beat'[m] # NoBeat => beat'[m].free \in 0 .. capacity'[m]
         /\ ~beat'[n].exact
         /\ \A m \in Node : m # n => beat'[m] = beat[m]
<1>1. /\ beat' = [beat EXCEPT ![n].exact = FALSE]
      /\ beat \in [Node -> [free: Int, exact: BOOLEAN]]
  BY DEF Touch, SpaceTyped
<1>2. beat'[n] = [beat[n] EXCEPT !.exact = FALSE] /\ beat[n] \in [free: Int, exact: BOOLEAN]
  BY <1>1
<1>3. beat'[n] = [free |-> beat[n].free, exact |-> FALSE]
  BY <1>2
<1>4. beat[n] = NoBeat => beat'[n] = NoBeat
  <2>1. beat[n] = NoBeat => beat[n].free = -1
    BY DEF NoBeat
  <2> QED
    BY <1>3, <2>1, Zenon DEF NoBeat
<1>5. \A m \in Node : m # n => beat'[m] = beat[m]
  BY <1>1
<1>6. \A m \in Node : beat'[m] # NoBeat => beat'[m].free \in 0 .. capacity'[m]
  <2> SUFFICES ASSUME NEW m \in Node, beat'[m] # NoBeat
               PROVE  beat'[m].free \in 0 .. capacity[m]
    BY Zenon
  <2>1. CASE m = n
    <3>1. beat[m] # NoBeat
      BY <1>4, <2>1, Zenon
    <3>2. beat'[m].free = beat[m].free
      BY <1>3, <2>1
    <3> QED
      BY <3>1, <3>2 DEF SpaceTyped
  <2>2. CASE m # n
    BY <1>5, <2>2, Zenon DEF SpaceTyped
  <2> QED
    BY <2>1, <2>2
<1> QED
  BY <1>1, <1>3, <1>5, <1>6

(* Each change of the tables or the files keeps the books. *)
LEMMA ConfirmCounts ==
  ASSUME SpaceTyped, Counted, NEW c \in Seq(Byte), NEW n \in Node,
         ConfirmChunk(c, n), UNCHANGED <<capacity, disk>>
  PROVE  SpaceTyped' /\ Counted'
<1>1. /\ locs' \in SUBSET Files /\ IsFiniteSet(locs')
      /\ \A m \in Node : m # n => Of(locs', m) = Of(locs, m)
      /\ Weight(Of(locs', n)) = IF <<c, n>> \in locs THEN Weight(Of(locs, n))
                                ELSE Weight(Of(locs, n)) + Len(c)
  <2>1. locs' = locs \cup {<<c, n>>}
    BY DEF ConfirmChunk
  <2>2. locs \in SUBSET Files /\ IsFiniteSet(locs)
    BY DEF SpaceTyped
  <2>3. Gains(locs, locs', c, n)
    BY <2>1, <2>2, OfAdd, Zenon
  <2> QED
    BY <2>3 DEF Gains
<1>2. Len(c) \in Nat /\ \A m \in Node : capacity[m] \in Nat /\ free[m] \in Nat
  BY CapacityType
<1>3. /\ free' \in [Node -> Nat]
      /\ \A m \in Node : m # n => free'[m] = free[m]
      /\ IF <<c, n>> \in locs THEN free'[n] = free[n]
         ELSE free'[n] = Larger(0, free[n] - Len(c))
  <2>1. free \in [Node -> Nat]
    BY DEF SpaceTyped
  <2>2. CASE <<c, n>> \in locs
    BY <2>1, <2>2 DEF ConfirmChunk
  <2>3. CASE <<c, n>> \notin locs
    <3>1. free' = [free EXCEPT ![n] = Larger(0, free[n] - Len(c))]
      BY <2>3 DEF ConfirmChunk
    <3>2. Larger(0, free[n] - Len(c)) \in Nat
      BY <1>2 DEF Larger
    <3> QED
      BY <2>1, <2>3, <3>1, <3>2
  <2> QED
    BY <2>2, <2>3
<1>4. free'[n] <= capacity[n]
  BY <1>2, <1>3 DEF SpaceTyped, Larger
<1>5. /\ muddled' \subseteq Node
      /\ muddled \subseteq muddled'
      /\ n \notin muddled' => n \notin muddled /\ (<<c, n>> \in locs \/ Len(c) <= free[n])
  BY <1>2 DEF ConfirmChunk, SpaceTyped
<1>6. Touch(n)
  BY DEF ConfirmChunk
<1>7. SpaceTyped'
  BY <1>1, <1>3, <1>4, <1>5, <1>6, TouchTyped DEF SpaceTyped
<1>8. ASSUME NEW m \in Node, m # n PROVE CountedAt(m)'
  BY <1>1, <1>3, <1>5, <1>6, <1>8, TouchTyped, CountedOf, NodeKept
<1>9. CountedAt(n)'
  <2>1. CountedAt(n) /\ ~beat'[n].exact
    BY <1>6, CountedOf, TouchTyped
  <2>2. Weight(Of(locs, n)) \in Nat
    BY WeightsType
  <2> QED
    BY <1>1, <1>2, <1>3, <1>5, <2>1, <2>2 DEF CountedAt, Larger
<1>10. Counted'
  <2>1. \A m \in Node : CountedAt(m)'
    BY <1>8, <1>9
  <2> QED
    BY <2>1, CountedNext
<1> QED
  BY <1>7, <1>10

LEMMA RemoveCounts ==
  ASSUME SpaceTyped, Counted, NEW c \in Seq(Byte), NEW n \in Node,
         RemoveChunkLocation(c, n), UNCHANGED <<capacity, disk>>
  PROVE  SpaceTyped' /\ Counted'
<1>1. /\ locs' \in SUBSET Files /\ IsFiniteSet(locs')
      /\ \A m \in Node : m # n => Of(locs', m) = Of(locs, m)
      /\ Weight(Of(locs', n)) = IF <<c, n>> \in locs THEN Weight(Of(locs, n)) - Len(c)
                                ELSE Weight(Of(locs, n))
  <2>1. locs' = locs \ {<<c, n>>}
    BY DEF RemoveChunkLocation
  <2>2. locs \in SUBSET Files /\ IsFiniteSet(locs)
    BY DEF SpaceTyped
  <2>3. Loses(locs, locs', c, n)
    BY <2>1, <2>2, OfRemove, Zenon
  <2> QED
    BY <2>3 DEF Loses
<1>2. Len(c) \in Nat /\ \A m \in Node : capacity[m] \in Nat /\ free[m] \in Nat
  BY CapacityType
<1>3. Min({free[n] + Len(c), capacity[n]})
        = IF free[n] + Len(c) <= capacity[n] THEN free[n] + Len(c) ELSE capacity[n]
  BY <1>2, MinOfTwo
<1>4. /\ free' \in [Node -> Nat]
      /\ \A m \in Node : m # n => free'[m] = free[m]
      /\ IF <<c, n>> \notin locs THEN free'[n] = free[n]
         ELSE free'[n] = IF free[n] + Len(c) <= capacity[n] THEN free[n] + Len(c)
                         ELSE capacity[n]
  BY <1>2, <1>3 DEF RemoveChunkLocation, SpaceTyped
<1>5. free'[n] <= capacity[n]
  BY <1>2, <1>4 DEF SpaceTyped
<1>6. /\ muddled' \subseteq Node
      /\ muddled \subseteq muddled'
      /\ n \notin muddled' =>
           n \notin muddled /\ (<<c, n>> \notin locs \/ free[n] + Len(c) <= capacity[n])
  BY <1>2 DEF RemoveChunkLocation, SpaceTyped
<1>7. Touch(n)
  BY DEF RemoveChunkLocation
<1>8. SpaceTyped'
  BY <1>1, <1>4, <1>5, <1>6, <1>7, TouchTyped DEF SpaceTyped
<1>9. ASSUME NEW m \in Node, m # n PROVE CountedAt(m)'
  BY <1>1, <1>4, <1>6, <1>7, <1>9, TouchTyped, CountedOf, NodeKept
<1>10. CountedAt(n)'
  <2>1. CountedAt(n) /\ ~beat'[n].exact
    BY <1>7, CountedOf, TouchTyped
  <2>2. Weight(Of(locs, n)) \in Nat
    BY WeightsType
  <2> QED
    BY <1>1, <1>2, <1>4, <1>6, <2>1, <2>2 DEF CountedAt
<1>11. Counted'
  <2>1. \A m \in Node : CountedAt(m)'
    BY <1>9, <1>10
  <2> QED
    BY <2>1, CountedNext
<1> QED
  BY <1>8, <1>11

LEMMA StoreCounts ==
  ASSUME SpaceTyped, Counted, NEW c \in Seq(Byte), NEW n \in Node,
         StoreFile(c, n), UNCHANGED <<capacity, free, locs, muddled>>
  PROVE  SpaceTyped' /\ Counted'
<1>1. /\ disk' \in SUBSET Files /\ IsFiniteSet(disk')
      /\ \A m \in Node : m # n => Of(disk', m) = Of(disk, m)
      /\ Weight(Of(disk', n)) = IF <<c, n>> \in disk THEN Weight(Of(disk, n))
                                ELSE Weight(Of(disk, n)) + Len(c)
  <2>1. disk' = disk \cup {<<c, n>>}
    BY DEF StoreFile
  <2>2. disk \in SUBSET Files /\ IsFiniteSet(disk)
    BY DEF SpaceTyped
  <2>3. Gains(disk, disk', c, n)
    BY <2>1, <2>2, OfAdd, Zenon
  <2> QED
    BY <2>3 DEF Gains
<1>2. Touch(n) /\ Used(n) + Len(c) <= capacity[n]
  BY DEF StoreFile, Accepts
<1>3. SpaceTyped'
  BY <1>1, <1>2, TouchTyped DEF SpaceTyped
<1>4. ASSUME NEW m \in Node, m # n PROVE CountedAt(m)'
  BY <1>1, <1>2, <1>4, TouchTyped, CountedOf, NodeKept
<1>5. CountedAt(n)'
  <2>1. CountedAt(n) /\ ~beat'[n].exact
    BY <1>2, CountedOf, TouchTyped
  <2>2. Weight(Of(disk, n)) \in Nat /\ (Overhead[n] = 0 => Used(n) = Weight(Of(disk, n)))
    BY WeightsType
  <2>3. Len(c) \in Nat /\ capacity[n] \in Nat
    BY CapacityType
  <2> QED
    BY <1>1, <1>2, <2>1, <2>2, <2>3 DEF CountedAt
<1>6. Counted'
  <2>1. \A m \in Node : CountedAt(m)'
    BY <1>4, <1>5
  <2> QED
    BY <2>1, CountedNext
<1> QED
  BY <1>3, <1>6

LEMMA EraseCounts ==
  ASSUME SpaceTyped, Counted, NEW c \in Seq(Byte), NEW n \in Node,
         disk' = disk \ {<<c, n>>}, Touch(n),
         UNCHANGED <<capacity, free, locs, muddled>>
  PROVE  SpaceTyped' /\ Counted'
<1>1. /\ disk' \in SUBSET Files /\ IsFiniteSet(disk')
      /\ \A m \in Node : m # n => Of(disk', m) = Of(disk, m)
      /\ Weight(Of(disk', n)) = IF <<c, n>> \in disk THEN Weight(Of(disk, n)) - Len(c)
                                ELSE Weight(Of(disk, n))
  <2>1. disk \in SUBSET Files /\ IsFiniteSet(disk)
    BY DEF SpaceTyped
  <2>2. Loses(disk, disk', c, n)
    BY <2>1, OfRemove, Zenon
  <2> QED
    BY <2>2 DEF Loses
<1>2. SpaceTyped'
  BY <1>1, TouchTyped DEF SpaceTyped
<1>3. ASSUME NEW m \in Node, m # n PROVE CountedAt(m)'
  BY <1>1, <1>3, TouchTyped, CountedOf, NodeKept
<1>4. CountedAt(n)'
  <2>1. CountedAt(n) /\ ~beat'[n].exact
    BY CountedOf, TouchTyped
  <2>2. Weight(Of(disk, n)) \in Nat
    BY WeightsType
  <2>3. Len(c) \in Nat /\ capacity[n] \in Nat
    BY CapacityType
  <2> QED
    BY <1>1, <2>1, <2>2, <2>3 DEF CountedAt
<1>5. Counted'
  <2>1. \A m \in Node : CountedAt(m)'
    BY <1>3, <1>4
  <2> QED
    BY <2>1, CountedNext
<1> QED
  BY <1>2, <1>5

LEMMA SampleCounts ==
  ASSUME SpaceTyped, Counted, NEW n \in Node, Sample(n)
  PROVE  SpaceTyped' /\ Counted'
<1>1. UNCHANGED <<capacity, free, locs, disk, muddled>>
  BY DEF Sample
<1> DEFINE report == [free |-> Larger(0, capacity[n] - Used(n)),
                      exact |-> Stored(n) = Placed(n)]
<1>2. beat' = [beat EXCEPT ![n] = report]
  BY DEF Sample
<1>3. Used(n) \in Nat /\ capacity[n] \in Nat
  BY WeightsType, CapacityType
<1>4. report \in [free: Int, exact: BOOLEAN] /\ report.free \in 0 .. capacity[n]
  BY <1>3 DEF Larger
<1> HIDE DEF report
<1>5. /\ beat' \in [Node -> [free: Int, exact: BOOLEAN]]
      /\ beat'[n] = report /\ \A m \in Node : m # n => beat'[m] = beat[m]
  BY <1>2, <1>4 DEF SpaceTyped
<1>6. SpaceTyped'
  BY <1>1, <1>4, <1>5 DEF SpaceTyped
<1>7. ASSUME NEW m \in Node, m # n PROVE CountedAt(m)'
  BY <1>1, <1>5, <1>7, CountedOf, NodeKept
<1>8. CountedAt(n)'
  <2>1. CountedAt(n)
    BY CountedOf
  <2>2. Overhead[n] = 0 => Used(n) = Weight(Of(disk, n))
    BY WeightsType
  <2>3. report.exact => Weight(Of(disk, n)) = Weight(Of(locs, n))
    <3>1. report.exact => Of(disk, n) = Of(locs, n)
      BY DEF report, Stored, Placed, Of
    <3> QED
      BY <3>1, Zenon
  <2>4. report.free = Larger(0, capacity[n] - Used(n))
    BY DEF report
  <2>5. Weight(Of(locs, n)) \in Nat
    BY WeightsType
  <2> QED
    BY <1>1, <1>3, <1>5, <2>1, <2>2, <2>3, <2>4, <2>5 DEF CountedAt, Larger
<1>9. Counted'
  <2>1. \A m \in Node : CountedAt(m)'
    BY <1>7, <1>8
  <2> QED
    BY <2>1, CountedNext
<1> QED
  BY <1>6, <1>9

LEMMA DeliverCounts ==
  ASSUME SpaceTyped, Counted, NEW n \in Node, Deliver(n)
  PROVE  SpaceTyped' /\ Counted'
<1>1. /\ beat[n] # NoBeat /\ UNCHANGED <<capacity, locs, disk>>
      /\ free' = [free EXCEPT ![n] = beat[n].free]
      /\ beat' = [beat EXCEPT ![n] = NoBeat]
      /\ muddled' = IF beat[n].exact THEN muddled \ {n} ELSE muddled \cup {n}
  BY DEF Deliver
<1>2. beat[n].free \in 0 .. capacity[n] /\ capacity[n] \in Nat
  BY <1>1, CapacityType DEF SpaceTyped
<1>3. NoBeat \in [free: Int, exact: BOOLEAN] /\ ~NoBeat.exact
  BY DEF NoBeat
<1>4. /\ beat' \in [Node -> [free: Int, exact: BOOLEAN]]
      /\ beat'[n] = NoBeat /\ \A m \in Node : m # n => beat'[m] = beat[m]
  BY <1>1, <1>3 DEF SpaceTyped
<1>5. /\ free' \in [Node -> Nat]
      /\ free'[n] = beat[n].free /\ \A m \in Node : m # n => free'[m] = free[m]
  BY <1>1, <1>2 DEF SpaceTyped
<1>6. muddled' \subseteq Node /\ \A m \in Node : m # n => (m \in muddled <=> m \in muddled')
  BY <1>1 DEF SpaceTyped
<1>7. SpaceTyped'
  BY <1>1, <1>2, <1>4, <1>5, <1>6 DEF SpaceTyped
<1>8. ASSUME NEW m \in Node, m # n PROVE CountedAt(m)'
  BY <1>1, <1>4, <1>5, <1>6, <1>8, CountedOf, NodeKept
<1>9. CountedAt(n)'
  <2>1. CountedAt(n)
    BY CountedOf
  <2>2. n \notin muddled' => beat[n].exact
    BY <1>1
  <2> QED
    BY <1>1, <1>3, <1>4, <1>5, <2>1, <2>2 DEF CountedAt
<1>10. Counted'
  <2>1. \A m \in Node : CountedAt(m)'
    BY <1>8, <1>9
  <2> QED
    BY <2>1, CountedNext
<1> QED
  BY <1>7, <1>10

-----------------------------------------------------------------------------
(* The upload and the others *)

UploadTyped ==
  /\ pc \in {"read", "plan", "put", "confirm", "saved", "failed"}
  /\ targets \in Seq(Node) /\ counts \in [Node -> Nat]
  /\ pc \in {"plan", "put", "confirm"} => manifest # <<>>
  /\ pc \in {"put", "confirm"} => targets # <<>>

OthersTyped ==
  /\ others \subseteq [does: {"put", "erase"}, chunk: Seq(Byte), node: Node]
  /\ budget \in 0 .. request.others

LEMMA TailLeft ==
  ASSUME NEW S, NEW s \in Seq(S), s # <<>>, Len(s) # 1
  PROVE  Tail(s) # <<>>
<1>1. Len(s) \in Nat /\ Len(s) # 0
  BY EmptySeq
<1>2. Len(Tail(s)) = Len(s) - 1
  BY HeadTailProperties
<1>3. Len(<<>>) = 0
  OBVIOUS
<1>4. Len(Tail(s)) # Len(<<>>)
  BY <1>1, <1>2, <1>3
<1> QED
  BY <1>4, Zenon

LEMMA PieceType ==
  ASSUME NEW s \in Seq(Byte), NEW i \in Nat, NEW p \in Nat, p <= Len(s)
  PROVE  Piece(s, <<i, p>>) \in Seq(Byte)
  BY DEF Piece

LEMMA CurrentType ==
  ASSUME ReaderOK, Chained, manifest # <<>>
  PROVE  Current \in Seq(Byte)
<1>1. body \in Seq(Byte)
  BY BodyType DEF ReaderOK
<1> DEFINE m == manifest[Len(manifest)]
<1>2. m \in Nat \X Nat /\ m[2] = read /\ read <= Len(body)
  BY <1>1 DEF ReaderOK, Chained
<1> HIDE DEF m
<1>3. m[1] \in Nat /\ m[2] \in Nat /\ m = <<m[1], m[2]>>
  BY <1>2
<1>4. Piece(body, <<m[1], m[2]>>) \in Seq(Byte)
  BY <1>1, <1>2, <1>3, PieceType
<1> QED
  BY <1>3, <1>4, Zenon DEF Current, m

LEMMA DealtType ==
  ASSUME request \in Requests
  PROVE  Dealt \subseteq Seq(Byte)
<1>1. body \in Seq(Byte) /\ Foreign \in Seq(Byte)
  BY BodyType, IntakeAssumption
<1>2. \A p \in 1 .. Len(body) : Piece(body, <<0, p>>) \in Seq(Byte)
  BY <1>1, PieceType
<1> QED
  BY <1>1, <1>2 DEF Dealt, First

(* The first chunk on the nodes is a finite set of files. *)
LEMMA FirstFiles ==
  ASSUME request \in Requests, NEW S \in SUBSET Node
  PROVE  First \X S \in SUBSET Files /\ IsFiniteSet(First \X S)
<1> DEFINE P == {q \in 1 .. Len(body) : IsCut(body, 0, q)}
           f == [p \in P |-> Piece(body, <<0, p>>)]
<1>1. body \in Seq(Byte)
  BY BodyType
<1>2. IsFiniteSet(P)
  <2>1. IsFiniteSet(1 .. Len(body))
    BY <1>1, FS_Interval
  <2> QED
    BY <2>1, FS_Subset
<1>3. First = {f[p] : p \in P}
  BY DEF First
<1> HIDE DEF P, f
<1>4. f \in Surjection(P, First)
  <2>1. DOMAIN f = P /\ f = [p \in P |-> f[p]]
    BY DEF f
  <2> QED
    BY <1>3, <2>1 DEF Surjection
<1>5. IsFiniteSet(First)
  BY <1>2, <1>4, FS_Surjection
<1>6. IsFiniteSet(S)
  BY IntakeAssumption, FS_Subset
<1>7. First \subseteq Seq(Byte)
  BY DealtType DEF Dealt
<1> QED
  BY <1>5, <1>6, <1>7, FS_Product DEF Files

SpaceInv == UploadTyped /\ OthersTyped /\ SpaceTyped /\ Counted

LEMMA SpaceInit == Init => SpaceInv
<1> SUFFICES ASSUME Init PROVE SpaceInv
  OBVIOUS
<1>1. request \in Requests /\ capacity \in Capacities /\ capacity \in [Node -> Nat]
  BY IntakeAssumption DEF Init
<1>2. UploadTyped /\ OthersTyped
  BY <1>1, IntakeAssumption DEF Init, UploadTyped, OthersTyped
<1>3. /\ disk \in SUBSET Files /\ IsFiniteSet(disk)
      /\ locs \in SUBSET Files /\ IsFiniteSet(locs)
  <2>1. PICK S \in SUBSET Node : disk = First \X S
    BY DEF Init
  <2>2. First \X S \in SUBSET Files /\ IsFiniteSet(First \X S)
    BY <1>1, FirstFiles
  <2> QED
    BY <2>1, <2>2, Zenon DEF Init
<1>4. ASSUME NEW n \in Node
      PROVE  /\ Used(n) \in Nat /\ Weight(Of(disk, n)) \in Nat
             /\ Overhead[n] = 0 => Used(n) = Weight(Of(disk, n))
  <2>1. Weight(Of(disk, n)) \in Nat /\ Cardinality(Of(disk, n)) \in Nat
    BY <1>3, OfType
  <2>2. Used(n) = Weight(Of(disk, n)) + Overhead[n] * Cardinality(Of(disk, n))
    <3>1. Stored(n) = Of(disk, n)
      BY DEF Stored, Of
    <3> QED
      BY <3>1 DEF Used
  <2>3. Overhead[n] \in Nat
    BY IntakeAssumption
  <2>4. Overhead[n] * Cardinality(Of(disk, n)) \in Nat
    BY <2>1, <2>3
  <2>5. Overhead[n] = 0 => Overhead[n] * Cardinality(Of(disk, n)) = 0
    BY <2>1
  <2> QED
    BY <2>1, <2>2, <2>4, <2>5
<1>5. \A n \in Node : Used(n) <= capacity[n] /\ free[n] = capacity[n] - Used(n)
  BY DEF Init
<1>6. free \in [Node -> Nat] /\ \A n \in Node : free[n] <= capacity[n]
  <2>1. \A n \in Node : free[n] \in Nat /\ free[n] <= capacity[n]
    BY <1>1, <1>4, <1>5
  <2>2. free = [n \in Node |-> free[n]]
    BY DEF Init
  <2> QED
    BY <2>1, <2>2
<1>7. /\ beat \in [Node -> [free: Int, exact: BOOLEAN]]
      /\ \A n \in Node : beat[n] = NoBeat /\ ~beat[n].exact
  BY DEF Init, NoBeat
<1>8. SpaceTyped
  BY <1>1, <1>3, <1>6, <1>7 DEF SpaceTyped, Init
<1>9. \A n \in Node : CountedAt(n)
  <2> SUFFICES ASSUME NEW n \in Node PROVE CountedAt(n)
    OBVIOUS
  <2>1. Weight(Of(locs, n)) = Weight(Of(disk, n))
    <3>1. locs = disk
      BY DEF Init
    <3> QED
      BY <3>1, Zenon
  <2>2. capacity[n] \in Nat
    BY <1>1
  <2> QED
    BY <1>4, <1>5, <1>7, <2>1, <2>2 DEF CountedAt
<1> QED
  BY <1>2, <1>8, <1>9, CountedOf DEF SpaceInv

(* A step that leaves the space alone *)
LEMMA SpaceKept ==
  ASSUME SpaceTyped, Counted, UNCHANGED <<capacity, free, locs, disk, beat, muddled>>
  PROVE  SpaceTyped' /\ Counted'
<1>1. SpaceTyped'
  BY DEF SpaceTyped
<1>2. ASSUME NEW n \in Node PROVE CountedAt(n)'
  BY CountedOf, NodeKept
<1> QED
  BY <1>1, <1>2, CountedNext

LEMMA SpaceStep ==
  ASSUME ReaderOK, Chained, SpaceInv, [Next]_vars
  PROVE  SpaceInv'
<1>1. UploadTyped /\ OthersTyped /\ SpaceTyped /\ Counted
  BY DEF SpaceInv
<1>2. request' = request
  <2>1. CASE ReadChunk
    BY <2>1 DEF ReadChunk
  <2>2. CASE ~ReadChunk
    BY <2>2, OtherSteps
  <2> QED
    BY <2>1, <2>2
<1>3. UNCHANGED <<others, budget>> => OthersTyped'
  BY <1>1, <1>2 DEF OthersTyped
<1>4. UNCHANGED upload => UploadTyped'
  BY <1>1 DEF UploadTyped, upload
<1>5. UNCHANGED space => OthersTyped' /\ SpaceTyped' /\ Counted'
  BY <1>1, <1>3, SpaceKept DEF space
<1>6. manifest # <<>> => Current \in Seq(Byte)
  BY CurrentType
<1>7. targets # <<>> => Head(targets) \in Node /\ Tail(targets) \in Seq(Node)
  BY <1>1 DEF UploadTyped
<1>8. CASE UNCHANGED vars
  BY <1>4, <1>5, <1>8 DEF vars, SpaceInv
<1>9. CASE ReadChunk
  <2>1. manifest' # <<>>
    BY <1>9 DEF ReadChunk, ReaderOK
  <2>2. UploadTyped'
    BY <1>1, <1>9, <2>1 DEF ReadChunk, UploadTyped
  <2>3. UNCHANGED space
    BY <1>9 DEF ReadChunk
  <2> QED
    BY <1>5, <2>2, <2>3 DEF SpaceInv
<1>10. CASE Plan
  <2> DEFINE k == Missing(Current)
             plan == PlanChunkSpread(Current, k)
  <2>1. k \in Int
    <3>1. Cardinality({n \in Node : <<Current, n>> \in locs}) \in Nat
      BY IntakeAssumption, FS_Subset, FS_CardinalityType
    <3>2. request.repl \in Int
      BY IntakeAssumption DEF ReaderOK
    <3> QED
      BY <3>1, <3>2 DEF Missing
  <2>2. k > 0 => plan \in Seq(Node)
    <3>1. Ranks
      BY <1>1 DEF Ranks, UploadTyped, SpaceTyped
    <3> HIDE DEF k
    <3> QED
      BY <2>1, <3>1, PlanIsNodes
  <2>3. /\ pc = "plan"
        /\ \/ k <= 0 /\ pc' = "read" /\ targets' = <<>>
           \/ k > 0 /\ pc' = "failed" /\ targets' = <<>>
           \/ k > 0 /\ Len(plan) >= k /\ pc' = "put" /\ targets' = plan
        /\ UNCHANGED <<manifest, counts, space>>
    <3>1. /\ pc = "plan"
          /\ IF k <= 0 THEN pc' = "read" /\ targets' = <<>>
             ELSE IF Len(plan) < k THEN pc' = "failed" /\ targets' = <<>>
             ELSE pc' = "put" /\ targets' = plan
          /\ UNCHANGED <<manifest, counts, space>>
      BY <1>10 DEF Plan
    <3>2. k > 0 => Len(plan) \in Nat
      <4> HIDE DEF plan, k
      <4> QED
        BY <2>2
    <3> HIDE DEF k, plan
    <3> QED
      BY <2>1, <3>1, <3>2
  <2> HIDE DEF k, plan
  <2>4. k > 0 /\ Len(plan) >= k => plan # <<>>
    BY <2>1, <2>2
  <2>5. UploadTyped'
    <3>1. pc' \in {"read", "failed", "put"} /\ manifest' # <<>> /\ counts' \in [Node -> Nat]
      BY <1>1, <2>3 DEF UploadTyped
    <3>2. targets' \in Seq(Node) /\ (pc' = "put" => targets' # <<>>)
      <4>1. <<>> \in Seq(Node)
        OBVIOUS
      <4>2. CASE pc' # "put"
        BY <2>3, <4>1, <4>2, Zenon
      <4>3. CASE pc' = "put"
        <5>1. k > 0 /\ Len(plan) >= k /\ targets' = plan
          BY <2>3, <4>3
        <5> QED
          BY <2>2, <2>4, <5>1, Zenon
      <4> QED
        BY <4>2, <4>3
    <3> QED
      BY <3>1, <3>2 DEF UploadTyped
  <2> QED
    BY <1>5, <2>3, <2>5 DEF SpaceInv
<1>11. CASE Put
  <2>1. manifest # <<>> /\ targets # <<>>
    BY <1>1, <1>11 DEF Put, UploadTyped
  <2>2. /\ StoreFile(Current, Head(targets))
        /\ UNCHANGED <<capacity, free, locs, others, budget, muddled>>
    BY <1>11 DEF Put
  <2>3. SpaceTyped' /\ Counted'
    BY <1>1, <1>6, <1>7, <2>1, <2>2, StoreCounts
  <2>4. UploadTyped'
    BY <1>1, <1>11, <2>1 DEF Put, UploadTyped
  <2> QED
    BY <1>3, <2>2, <2>3, <2>4 DEF SpaceInv
<1>12. CASE Refused
  <2>1. UploadTyped' /\ UNCHANGED space
    BY <1>1, <1>12 DEF Refused, UploadTyped
  <2> QED
    BY <1>5, <2>1 DEF SpaceInv
<1>13. CASE Confirm
  <2>1. manifest # <<>> /\ targets # <<>>
    BY <1>1, <1>13 DEF Confirm, UploadTyped
  <2>2. /\ ConfirmChunk(Current, Head(targets))
        /\ UNCHANGED <<capacity, disk, others, budget>>
    BY <1>13 DEF Confirm
  <2>3. SpaceTyped' /\ Counted'
    BY <1>1, <1>6, <1>7, <2>1, <2>2, ConfirmCounts
  <2>4. UploadTyped'
    <3>1. /\ counts' = [counts EXCEPT ![Head(targets)] = @ + 1]
          /\ targets' = Tail(targets) /\ manifest' = manifest
          /\ pc' = IF Len(targets) = 1 THEN "read" ELSE "put"
      BY <1>13 DEF Confirm
    <3>2. counts' \in [Node -> Nat]
      BY <1>1, <1>7, <2>1, <3>1 DEF UploadTyped
    <3>3. Len(targets) # 1 => Tail(targets) # <<>>
      <4>1. targets \in Seq(Node) /\ targets # <<>>
        BY <1>1, <2>1 DEF UploadTyped
      <4> QED
        BY <4>1, TailLeft
    <3> QED
      BY <1>7, <2>1, <3>1, <3>2, <3>3 DEF UploadTyped
  <2> QED
    BY <1>3, <2>2, <2>3, <2>4 DEF SpaceInv
<1>14. CASE Save
  <2>1. UploadTyped' /\ UNCHANGED space
    BY <1>1, <1>14 DEF Save, UploadTyped
  <2> QED
    BY <1>5, <2>1 DEF SpaceInv
<1>15. ASSUME NEW n \in Node, Sample(n) PROVE SpaceInv'
  <2>1. SpaceTyped' /\ Counted'
    BY <1>1, <1>15, SampleCounts
  <2>2. UNCHANGED <<upload, others, budget>>
    BY <1>15 DEF Sample
  <2> QED
    BY <1>3, <1>4, <2>1, <2>2 DEF SpaceInv
<1>16. ASSUME NEW n \in Node, Deliver(n) PROVE SpaceInv'
  <2>1. SpaceTyped' /\ Counted'
    BY <1>1, <1>16, DeliverCounts
  <2>2. UNCHANGED <<upload, others, budget>>
    BY <1>16 DEF Deliver
  <2> QED
    BY <1>3, <1>4, <2>1, <2>2 DEF SpaceInv
<1>17. ASSUME NEW n \in Node, NEW c \in Dealt, OtherStep(c, n) PROVE SpaceInv'
  <2>1. c \in Seq(Byte)
    BY DealtType DEF ReaderOK
  <2>2. request.others \in Nat
    BY IntakeAssumption DEF ReaderOK
  <2>3. CASE OtherPut(c, n)
    <3>1. StoreFile(c, n) /\ UNCHANGED <<upload, capacity, free, locs, muddled>>
      BY <2>3 DEF OtherPut
    <3>2. OthersTyped'
      BY <1>1, <1>2, <2>1, <2>2, <2>3 DEF OtherPut, Starts, OthersTyped
    <3> QED
      BY <1>1, <1>4, <2>1, <3>1, <3>2, StoreCounts DEF SpaceInv
  <2>4. CASE OtherConfirm(c, n)
    <3>1. ConfirmChunk(c, n) /\ UNCHANGED <<upload, capacity, disk>>
      BY <2>4 DEF OtherConfirm
    <3>2. OthersTyped'
      BY <1>1, <1>2, <2>4 DEF OtherConfirm, Ends, OthersTyped
    <3> QED
      BY <1>1, <1>4, <2>1, <3>1, <3>2, ConfirmCounts DEF SpaceInv
  <2>5. CASE OtherErase(c, n)
    <3>1. /\ disk' = disk \ {<<c, n>>} /\ Touch(n)
          /\ UNCHANGED <<upload, capacity, free, locs, muddled>>
      BY <2>5 DEF OtherErase
    <3>2. OthersTyped'
      BY <1>1, <1>2, <2>1, <2>2, <2>5 DEF OtherErase, Starts, OthersTyped
    <3> QED
      BY <1>1, <1>4, <2>1, <3>1, <3>2, EraseCounts DEF SpaceInv
  <2>6. CASE OtherForget(c, n)
    <3>1. RemoveChunkLocation(c, n) /\ UNCHANGED <<upload, capacity, disk>>
      BY <2>6 DEF OtherForget
    <3>2. OthersTyped'
      BY <1>1, <1>2, <2>6 DEF OtherForget, Ends, OthersTyped
    <3> QED
      BY <1>1, <1>4, <2>1, <3>1, <3>2, RemoveCounts DEF SpaceInv
  <2> QED
    BY <1>17, <2>3, <2>4, <2>5, <2>6 DEF OtherStep
<1> QED
  BY <1>8, <1>9, <1>10, <1>11, <1>12, <1>13, <1>14, <1>15, <1>16, <1>17
     DEF Next, UploadStep

LEMMA SpaceCorrect == Spec => [](ReaderOK /\ Chained /\ LandmarksAreCuts /\ SpaceInv)
<1>1. QED BY ReaderInit, ReaderStep, SpaceInit, SpaceStep, PTL DEF Spec

(* The variables have their types: free never leaves the range from 0 to the
   capacity, whichever of the credits, debits and reports comes last. *)
THEOREM IntakeTypeCorrect == Spec => []IntakeTypeOK
<1>1. ReaderOK /\ SpaceInv => IntakeTypeOK
  <2> SUFFICES ASSUME ReaderOK, SpaceInv PROVE IntakeTypeOK
    OBVIOUS
  <2>1. \A n \in Node : free[n] \in 0 .. capacity[n]
    BY CapacityType DEF SpaceInv, SpaceTyped
  <2> QED
    BY <2>1 DEF ReaderOK, SpaceInv, UploadTyped, OthersTyped, SpaceTyped, IntakeTypeOK
<1>2. QED BY <1>1, SpaceCorrect, PTL

(* The free space in the table is that of a node that has just the files the
   tables place there, unless the server has lost track of it: for every number
   of nodes, every body and every order of uploads, deletions and heartbeats. *)
THEOREM IntakeFreeExact == Spec => []FreeExact
<1>1. SpaceInv => FreeExact
  <2> SUFFICES ASSUME SpaceInv, NEW n \in Node \ muddled,
                      Overhead[n] = 0, Stored(n) = Placed(n)
               PROVE  free[n] = capacity[n] - Used(n)
    BY DEF FreeExact
  <2>1. CountedAt(n)
    BY CountedOf DEF SpaceInv
  <2>2. Weight(Of(disk, n)) = Weight(Of(locs, n))
    <3>1. Of(disk, n) = Of(locs, n)
      BY DEF Stored, Placed, Of
    <3> QED
      BY <3>1, Zenon
  <2>3. Used(n) = Weight(Of(disk, n)) /\ Weight(Of(disk, n)) \in Nat
    BY WeightsType DEF SpaceInv
  <2>4. capacity[n] \in Nat /\ free[n] \in Nat
    BY CapacityType DEF SpaceInv
  <2> QED
    BY <2>1, <2>2, <2>3, <2>4 DEF CountedAt
<1>2. QED BY <1>1, SpaceCorrect, PTL
=============================================================================
