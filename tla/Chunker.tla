-------------------------------- MODULE Chunker --------------------------------
(***************************************************************************)
(* Content-defined chunking (readContentDefinedChunk, internal/server/     *)
(* handlers.go:638-703): where the bytes of an upload are cut.             *)
(*                                                                         *)
(* A position is the number of bytes before it.  The hash is started again *)
(* at each cut; whether the loop stops at a position is nevertheless a     *)
(* matter of the last few bytes, because the mask keeps the low bits only  *)
(* and no chunk is shorter than that many bytes.                           *)
(***************************************************************************)
EXTENDS Integers, Sequences

CONSTANTS
  Byte,           \* 0 .. 255 in the code
  Gear,           \* gearTable
  Width,          \* bits of the rolling hash, 64 in the code
  Target,         \* the chunk_size of the request
  Smallest,       \* no chunk but the last is shorter, 8 * 1024 in the code
  DefaultTarget   \* defaultChunkSize

ASSUME ChunkerAssumption ==
  /\ Gear \in [Byte -> Nat] /\ Width \in Nat
  /\ Target \in Nat \ {0} /\ Smallest \in Nat \ {0} /\ DefaultTarget \in Nat \ {0}

Larger(a, b) == IF a >= b THEN a ELSE b

MinSize == Larger(Target \div 4, Smallest)
MaxSize == Larger(4 * Target, MinSize)

PowerOf2[k \in Nat] == IF k = 0 THEN 1 ELSE 2 * PowerOf2[k - 1]

NextPowerOfTwo(v) ==
  PowerOf2[CHOOSE k \in 0 .. v :
             PowerOf2[k] >= v /\ \A j \in 0 .. k - 1 : PowerOf2[j] < v]

(* mask + 1; hash & mask is hash % (mask + 1).  The mask must not be 0. *)
Modulus == IF NextPowerOfTwo(Target) > 1 THEN NextPowerOfTwo(Target)
           ELSE DefaultTarget

(* The mask keeps low bits of the hash, no more of them than the smallest chunk
   has bytes: 63 at most, of 64. *)
ASSUME MaskAssumption ==
  \E k \in 0 .. Width : k <= MinSize /\ Modulus = PowerOf2[k]

(* The hash at each position of a chunk of s that starts at i *)
Rolling(s, i) ==
  LET H[p \in i .. Len(s)] ==
        IF p = i THEN 0 ELSE (2 * H[p - 1] + Gear[s[p]]) % PowerOf2[Width]
  IN  H

Natural(s, i, p) == Rolling(s, i)[p] % Modulus = 0

(* Where the loop that has started at i returns: at the end of the input, at
   the largest size, or at a natural place that is not too early. *)
StopsEarly(s, i, p) == p = Len(s) \/ p - i = MaxSize \/ Natural(s, i, p)
StopsLate(s, i, p) ==
  \/ p = Len(s) \/ p - i = MaxSize
  \/ p - i > MinSize /\ Natural(s, i, p)
Stops(s, i, p) ==
  \/ p = Len(s) \/ p - i = MaxSize
  \/ p - i >= MinSize /\ Natural(s, i, p)

IsCut(s, i, p) ==
  /\ p \in i + 1 .. Len(s) /\ Stops(s, i, p)
  /\ \A q \in i + 1 .. p - 1 : ~Stops(s, i, q)

NextCut(s, i) == CHOOSE p \in i + 1 .. Len(s) : IsCut(s, i, p)

Piece(s, c) == SubSeq(s, c[1] + 1, c[2])

-----------------------------------------------------------------------------
(* Landmarks *)

(* Whatever chunk reaches a with at least MinSize bytes is cut there, and no
   chunk is cut at a natural place strictly between a and b. *)
Magnet(s, a) == \A i \in 0 .. a - MinSize : Natural(s, i, a)
Plain(s, a, b) ==
  \A p \in a + 1 .. b - 1 : \A i \in 0 .. p - MinSize : ~Natural(s, i, p)

(* Two neighbouring natural places, far enough apart for a chunk and near
   enough to be reached before the largest size *)
Landmark(s, a, b) ==
  /\ a \in 1 .. Len(s) /\ b \in 1 .. Len(s)
  /\ a + MinSize <= b /\ b + MinSize <= a + MaxSize
  /\ Magnet(s, a) /\ Magnet(s, b) /\ Plain(s, a, b)
=============================================================================
