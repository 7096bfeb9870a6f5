---------------------------- MODULE DownloadProofs ----------------------------
(***************************************************************************)
(* When a download may give up, what it may report as restored and how     *)
(* many steps it can take, for every manifest, every number of nodes and   *)
(* anything that happens to them meanwhile.                                *)
(***************************************************************************)
EXTENDS Download, Sums, SequenceTheorems, FiniteSetTheorems

(* While the handler asks for a chunk, the nodes that could have served it
   all the time are still on its list: none of them has been passed over. *)
SteadyListed ==
  pc = "ask" => /\ steady \subseteq sources
                /\ \A n \in steady : Serves(n, Wanted)

LEMMA SteadyListedStep ==
  ASSUME SteadyListed, [DownloadNext]_vars
  PROVE  SteadyListed'
<1> USE DEF SteadyListed, Wanted, Serves, handler, reply, storage
<1>1. ASSUME Request \/ NotFound \/ ReadChunks \/ Finish
      PROVE  SteadyListed'
  BY <1>1 DEF Request, NotFound, ReadChunks, Finish
<1>2. CASE Locate
  BY <1>2 DEF Locate
<1>3. CASE Exhausted
  BY <1>3 DEF Exhausted, Fail
<1>4. ASSUME NEW n \in Node, Deliver(n) \/ WriteFails(n) \/ Mismatch(n)
      PROVE  SteadyListed'
  BY <1>4 DEF Deliver, WriteFails, Mismatch, Fail
<1>5. ASSUME NEW n \in Node, Skip(n)
      PROVE  SteadyListed'
  <2>1. n \notin steady
    BY <1>5 DEF Skip, Answers
  <2>2. QED
    BY <1>5, <2>1 DEF Skip
<1>6. CASE Crash
  BY <1>6 DEF Crash
<1>7. CASE Others
  BY <1>7 DEF Others, Observed
<1>8. CASE UNCHANGED vars
  BY <1>8 DEF vars
<1>9. QED
  BY <1>1, <1>2, <1>3, <1>4, <1>5, <1>6, <1>7, <1>8 DEF DownloadNext, HandlerStep

(* Giving up is the end of the list or a failed comparison. *)
LEMMA GivesUpStep ==
  ASSUME [DownloadNext]_vars, GivesUp
  PROVE  Exhausted \/ \E n \in Node : Mismatch(n)
<1> USE DEF GivesUp, handler, reply, storage
<1>1. ~(Request \/ NotFound \/ ReadChunks \/ Locate \/ Finish \/ Crash)
  BY DEF Request, NotFound, ReadChunks, Locate, Finish, Crash
<1>2. \A n \in Node : ~(Deliver(n) \/ WriteFails(n) \/ Skip(n))
  BY DEF Deliver, WriteFails, Skip
<1>3. ~Others /\ ~UNCHANGED vars
  BY DEF Others, Observed, vars
<1>4. QED
  BY <1>1, <1>2, <1>3 DEF DownloadNext, HandlerStep

LEMMA AlwaysSteadyListed == DownloadSpec => []SteadyListed
<1>1. DownloadInit => SteadyListed
  BY DEF DownloadInit, SteadyListed
<1>2. SteadyListed /\ [DownloadNext]_vars => SteadyListed'
  BY SteadyListedStep
<1>3. QED
  BY <1>1, <1>2, PTL DEF DownloadSpec

(* A download gives up on a chunk only when no listed node has been able to
   serve it since it was looked up, or when it read a damaged copy in
   plaintext (handlers.go:405-411, 571-597). *)
THEOREM DownloadGivesUpForCause == DownloadSpec => GivesUpForCause
<1>1. SteadyListed /\ [DownloadNext]_vars
        => (GivesUp => steady = {} \/ DamagedListed)
  <2> SUFFICES ASSUME SteadyListed, [DownloadNext]_vars, GivesUp
               PROVE  steady = {} \/ DamagedListed
    OBVIOUS
  <2>1. CASE Exhausted
    BY <2>1 DEF Exhausted, SteadyListed
  <2>2. ASSUME NEW n \in Node, Mismatch(n)
        PROVE  DamagedListed
    BY <2>2 DEF Mismatch, Answers, Serves, DamagedListed
  <2>3. QED
    BY <2>1, <2>2, GivesUpStep
<1>2. QED
  BY <1>1, AlwaysSteadyListed, PTL DEF DownloadSpec, GivesUpForCause

(* When all nodes encrypt, one copy that stays good is enough for every chunk:
   a damaged one is refused by its node (store.go:242-248). *)
THEOREM SealedIntactCopyServes ==
  ASSUME Sealed = Node
  PROVE  DownloadSpec => IntactCopyServes
<1>1. SteadyListed /\ [DownloadNext]_vars => (GivesUp => steady = {})
  <2> SUFFICES ASSUME SteadyListed, [DownloadNext]_vars, GivesUp
               PROVE  steady = {}
    OBVIOUS
  <2>1. \A n \in Node : ~Mismatch(n)
    BY DEF Mismatch, Answers, Serves
  <2>2. Exhausted
    BY <2>1, GivesUpStep
  <2>3. QED
    BY <2>2 DEF Exhausted, SteadyListed
<1>2. QED
  BY <1>1, AlwaysSteadyListed, PTL DEF DownloadSpec, IntactCopyServes

-----------------------------------------------------------------------------
(* Lengths *)

LEMMA LengthOfNothing == LengthOf(<<>>) = 0
<1>1. DOMAIN <<>> = {}
  OBVIOUS
<1> QED
  BY <1>1, SumEmpty DEF LengthOf

LEMMA LengthOfTail ==
  ASSUME NEW s \in Seq(Hash), s # <<>>
  PROVE  /\ LengthOf(s) = Size[Head(s)] + LengthOf(Tail(s))
         /\ LengthOf(Tail(s)) \in Nat /\ Size[Head(s)] \in Nat \ {0}
<1> DEFINE n == Len(s)
           t == Tail(s)
           f == [i \in DOMAIN s |-> Size[s[i]]]
           g == [i \in DOMAIN t |-> Size[t[i]]]
<1>1. n \in Nat /\ n > 0 /\ DOMAIN s = 1 .. n /\ Head(s) = s[1] /\ 1 \in 1 .. n
  BY EmptySeq
<1>2. /\ t \in Seq(Hash) /\ Len(t) = n - 1 /\ DOMAIN t = 1 .. n - 1
      /\ \A i \in 1 .. n - 1 : t[i] = s[i + 1]
  BY <1>1, HeadTailProperties
<1>3. \A h \in Hash : Size[h] \in Nat \ {0}
  BY DownloadAssumption
<1> HIDE DEF n, t
<1>4. \A i \in 1 .. n : f[i] = Size[s[i]] /\ f[i] \in Nat \ {0}
  BY <1>1, <1>3 DEF n
<1>5. \A i \in 1 .. n - 1 : g[i] = Size[t[i]] /\ g[i] \in Nat /\ g[i] = f[i + 1]
  <2> SUFFICES ASSUME NEW i \in 1 .. n - 1
               PROVE  g[i] = Size[t[i]] /\ g[i] \in Nat /\ g[i] = f[i + 1]
    OBVIOUS
  <2>1. i + 1 \in 1 .. n /\ g[i] = Size[t[i]] /\ t[i] = s[i + 1]
    BY <1>1, <1>2
  <2> QED
    BY <1>4, <2>1
<1>6. LengthOf(s) = SumFunctionOnSet(f, 1 .. n) /\ LengthOf(t) = SumFunctionOnSet(g, 1 .. n - 1)
  BY <1>1, <1>2 DEF LengthOf
<1> HIDE DEF f, g
<1>7. SumFunctionOnSet(f, 1 .. n) = f[1] + SumFunctionOnSet(g, 1 .. n - 1)
  <2>1. (\A i \in 1 .. n : f[i] \in Int) /\ (\A i \in 1 .. n - 1 : g[i] = f[i + 1])
    BY <1>4, <1>5
  <2> QED
    BY <1>1, <2>1, SumBehindFirst
<1>8. SumFunctionOnSet(g, 1 .. n - 1) \in Nat
  <2>1. 1 \in Int /\ n - 1 \in Int
    BY <1>1
  <2>2. IsFiniteSet(1 .. n - 1) /\ \A i \in 1 .. n - 1 : g[i] \in Nat
    BY <1>5, <2>1, FS_Interval
  <2> QED
    BY <2>2, SumNat
<1>9. f[1] = Size[Head(s)] /\ Size[Head(s)] \in Nat \ {0}
  BY <1>1, <1>4
<1> QED
  BY <1>6, <1>7, <1>8, <1>9 DEF t

LEMMA LengthType == ASSUME NEW s \in Seq(Hash) PROVE LengthOf(s) \in Nat
<1>1. CASE s = <<>>
  BY <1>1, LengthOfNothing
<1>2. CASE s # <<>>
  BY <1>2, LengthOfTail
<1> QED
  BY <1>1, <1>2

-----------------------------------------------------------------------------
(* What has been sent and what has not *)

StorageTyped ==
  /\ sources \subseteq Node /\ steady \subseteq Node
  /\ saved \in BOOLEAN /\ rows \in [Hash -> SUBSET Node]
  /\ copy \in [Hash -> [Node -> {"none", "intact", "damaged"}]] /\ up \subseteq Node

Parts == Seq(Hash \cup {"junk", "text"})

(* Of the first k chunks, and of the others *)
Beginning(k) == SubSeq(Manifest, 1, k)
Rest(k) == SubSeq(Manifest, k + 1, Len(Manifest))

(* Under way the body is a beginning of the manifest and the rest is due.  If
   the backup was deleted before its chunks were read, all is due. *)
Sending ==
  \E k \in 0 .. Len(Manifest) :
    /\ body = Beginning(k) /\ chunks = Rest(k) /\ due = LengthOf(chunks)
    /\ status = IF k = 0 THEN 0 ELSE 200
Emptied == body = <<>> /\ chunks = <<>> /\ due = LengthOf(Manifest) /\ status = 0

Fits ==
  \/ body = Manifest
  \/ \E k \in 1 .. Len(Manifest) - 1 :
       body = Append(Beginning(k), "text") /\ LengthOf(Rest(k)) \in TextLengths

ReplyTyped ==
  /\ pc \in {"idle", "read", "locate", "ask", "done"}
  /\ chunks \in Seq(Hash) /\ body \in Parts /\ due \in Nat
  /\ status \in {0, 200, 404, 502} /\ cut \in BOOLEAN

ReplyInv ==
  /\ pc \in {"idle", "read"} => body = <<>> /\ chunks = <<>> /\ status = 0
  /\ pc = "read" => due = LengthOf(Manifest)
  /\ pc = "locate" => Sending \/ Emptied
  /\ pc = "ask" => chunks # <<>> /\ Sending
  /\ pc = "done" => (status = 200 /\ due = 0 /\ ~cut => Fits)

DownloadInv == StorageTyped /\ ReplyTyped /\ ReplyInv

LEMMA Ends ==
  /\ Manifest \in Seq(Hash) /\ Len(Manifest) \in Nat
  /\ Beginning(0) = <<>> /\ Rest(0) = Manifest
  /\ Beginning(Len(Manifest)) = Manifest /\ Rest(Len(Manifest)) = <<>>
<1>1. Manifest \in Seq(Hash) /\ Len(Manifest) \in Nat
  BY DownloadAssumption
<1>2. Beginning(0) = <<>> /\ Rest(Len(Manifest)) = <<>>
  BY <1>1, SubSeqEmpty DEF Beginning, Rest
<1>3. 0 + 1 = 1 /\ SubSeq(Manifest, 1, Len(Manifest)) = Manifest
  BY <1>1, SubSeqFull
<1> QED
  BY <1>1, <1>2, <1>3 DEF Beginning, Rest

(* Something of the manifest is left before its end *)
LEMMA RestIsLeft ==
  ASSUME NEW k \in 0 .. Len(Manifest), k < Len(Manifest)
  PROVE  Rest(k) # <<>>
<1> DEFINE m == Manifest
           n == Len(Manifest)
<1>1. m \in Seq(Hash) /\ n \in Nat /\ k \in Nat
  BY Ends
<1>2. /\ \A i \in k + 1 .. n : m[i] \in Hash
      /\ k + 1 \in Int /\ n \in Int /\ k + 1 <= n /\ n - (k + 1) + 1 # 0
  BY <1>1
<1> HIDE DEF m, n
<1>3. Len(SubSeq(m, k + 1, n)) = n - (k + 1) + 1
  BY <1>2, SubSeqProperties
<1>4. Len(SubSeq(m, k + 1, n)) # 0
  BY <1>2, <1>3
<1>5. Len(<<>>) = 0
  OBVIOUS
<1>6. SubSeq(m, k + 1, n) # <<>>
  BY <1>4, <1>5
<1> QED
  BY <1>6 DEF Rest, m, n

(* The first of the rest moves to the end of the beginning. *)
LEMMA Advance ==
  ASSUME NEW k \in 0 .. Len(Manifest), Rest(k) # <<>>
  PROVE  /\ k < Len(Manifest) /\ k + 1 \in 1 .. Len(Manifest)
         /\ Rest(k) \in Seq(Hash) /\ Beginning(k) \in Seq(Hash)
         /\ Tail(Rest(k)) = Rest(k + 1)
         /\ Append(Beginning(k), Head(Rest(k))) = Beginning(k + 1)
<1> DEFINE m == Manifest
           n == Len(Manifest)
<1>1. m \in Seq(Hash) /\ n \in Nat /\ k \in Nat /\ k <= n
  BY Ends
<1>2. k < n
  <2>1. k = n => Rest(k) = <<>>
    BY Ends
  <2> QED
    BY <1>1, <2>1
<1>3. k + 1 \in 1 .. n /\ n \in (k + 1) .. n
  BY <1>1, <1>2
<1>4. Rest(k) \in Seq(Hash) /\ Beginning(k) \in Seq(Hash)
  <2>1. (\A i \in k + 1 .. n : m[i] \in Hash) /\ (\A i \in 1 .. k : m[i] \in Hash)
    BY <1>1
  <2>2. k + 1 \in Int /\ n \in Int /\ k \in Int /\ 1 \in Int
    BY <1>1
  <2> HIDE DEF m, n
  <2>3. SubSeq(m, k + 1, n) \in Seq(Hash) /\ SubSeq(m, 1, k) \in Seq(Hash)
    BY <2>1, <2>2, SubSeqProperties
  <2> QED
    BY <2>3 DEF Rest, Beginning, m, n
<1>5. Head(Rest(k)) = m[k + 1] /\ Tail(Rest(k)) = Rest(k + 1)
  <2> HIDE DEF m, n
  <2>1. Head(SubSeq(m, k + 1, n)) = m[k + 1]
        /\ Tail(SubSeq(m, k + 1, n)) = SubSeq(m, (k + 1) + 1, n)
    BY <1>1, <1>3, HeadTailOfSubSeq
  <2> QED
    BY <2>1 DEF Rest, m, n
<1>6. \A i \in 1 .. n : m[i] \in Hash
  BY <1>1
<1>7. Append(Beginning(k), m[k + 1]) = Beginning(k + 1)
  <2> HIDE DEF m, n
  <2>1. 1 \in 1 .. n /\ k + 1 \in 1 .. n /\ k + 1 \in 1 .. k + 1 /\ (k + 1) - 1 = k
    BY <1>1, <1>3
  <2>2. SubSeq(m, 1, k + 1) = SubSeq(m, 1, (k + 1) - 1) \o <<m[k + 1]>>
    BY <1>1, <2>1, SubSeqRecursiveSecond DEF n
  <2>3. Beginning(k) \o <<m[k + 1]>> = Append(Beginning(k), m[k + 1])
    <3>1. m[k + 1] \in Hash
      BY <1>6, <2>1
    <3> QED
      BY <1>4, <3>1
  <2> QED
    BY <2>1, <2>2, <2>3 DEF Beginning, m
<1> QED
  BY <1>2, <1>3, <1>4, <1>5, <1>7

(* The chunk that is asked for *)
LEMMA WantedType ==
  ASSUME ReplyTyped, chunks # <<>>
  PROVE  Wanted \in Hash /\ Tail(chunks) \in Seq(Hash)
  BY HeadTailProperties DEF ReplyTyped, Wanted

LEMMA OthersStore ==
  ASSUME StorageTyped, Others
  PROVE  StorageTyped' /\ UNCHANGED <<handler, reply>>
<1> USE DEF StorageTyped
<1>1. UNCHANGED <<handler, reply>> /\ steady' \subseteq steady /\ sources' = sources
  BY DEF Others, Observed, handler
<1>2. CASE DeleteFile
  BY <1>1, <1>2 DEF DeleteFile
<1>3. ASSUME NEW n \in Node, GoesDown(n) \/ ComesUp(n) PROVE StorageTyped'
  BY <1>1, <1>3 DEF GoesDown, ComesUp
<1>4. ASSUME NEW h \in Hash, NEW n \in Node, RecordCopy(h, n) \/ ForgetCopy(h, n)
      PROVE  StorageTyped'
  <2>1. rows' \in [Hash -> SUBSET Node]
    BY <1>4 DEF RecordCopy, ForgetCopy
  <2> QED
    BY <1>1, <1>4, <2>1 DEF RecordCopy, ForgetCopy
<1>5. ASSUME NEW h \in Hash, NEW n \in Node,
             StoreCopy(h, n) \/ EraseCopy(h, n) \/ Damage(h, n)
      PROVE  StorageTyped'
  <2>1. PICK c \in {"none", "intact", "damaged"} : copy' = [copy EXCEPT ![h][n] = c]
    BY <1>5 DEF StoreCopy, EraseCopy, Damage
  <2>2. [copy[h] EXCEPT ![n] = c] \in [Node -> {"none", "intact", "damaged"}]
    OBVIOUS
  <2>3. copy' = [copy EXCEPT ![h] = [copy[h] EXCEPT ![n] = c]]
    BY <2>1
  <2>4. copy' \in [Hash -> [Node -> {"none", "intact", "damaged"}]]
    BY <2>2, <2>3
  <2> QED
    BY <1>1, <1>5, <2>4 DEF StoreCopy, EraseCopy, Damage
<1> QED
  BY <1>1, <1>2, <1>3, <1>4, <1>5 DEF Others

LEMMA StorageStep == StorageTyped /\ ReplyTyped /\ [DownloadNext]_vars => StorageTyped'
<1> SUFFICES ASSUME StorageTyped, ReplyTyped, [DownloadNext]_vars PROVE StorageTyped'
  OBVIOUS
<1>1. CASE UNCHANGED vars
  BY <1>1 DEF StorageTyped, vars, handler, storage
<1>2. CASE Request \/ NotFound \/ ReadChunks \/ Finish \/ Exhausted \/ Crash
  BY <1>2 DEF Request, NotFound, ReadChunks, Finish, Exhausted, Fail, Crash,
              StorageTyped, storage
<1>3. CASE Locate
  <2>1. /\ sources' = rows[Wanted] /\ steady' \subseteq rows[Wanted]
        /\ UNCHANGED storage /\ Wanted \in Hash
    BY <1>3, WantedType DEF Locate
  <2> QED
    BY <2>1 DEF StorageTyped, storage
<1>4. ASSUME NEW n \in Node, Deliver(n) \/ WriteFails(n) \/ Mismatch(n) \/ Skip(n)
      PROVE  StorageTyped'
  BY <1>4 DEF Deliver, WriteFails, Mismatch, Skip, Fail, StorageTyped, storage
<1> QED
  BY <1>1, <1>2, <1>3, <1>4, OthersStore DEF DownloadNext, HandlerStep

(* An error text: nothing that can pass for the backup but where it is as long
   as what is due. *)
LEMMA FailStep ==
  ASSUME ReplyTyped, ReplyInv, pc = "ask", Fail PROVE ReplyTyped' /\ ReplyInv'
<1>1. pc' = "done" /\ chunks' = chunks /\ cut' = cut
  BY DEF Fail
<1>2. PICK t \in TextLengths : Says(t)
  BY DEF Fail
<1>3. t \in Nat \ {0}
  BY DownloadAssumption
<1>4. chunks # <<>> /\ due \in Nat /\ body \in Parts /\ status \in {0, 200, 404, 502}
  BY DEF ReplyTyped, ReplyInv
<1>5. PICK k \in 0 .. Len(Manifest) :
        /\ body = Beginning(k) /\ chunks = Rest(k) /\ due = LengthOf(chunks)
        /\ status = IF k = 0 THEN 0 ELSE 200
  BY DEF ReplyInv, Sending
<1>6. CASE status = 0 /\ body' = <<"text">> /\ due' = 0 /\ status' = 502
  <2>1. <<"text">> \in Parts
    BY DEF Parts
  <2> QED
    BY <1>1, <1>6, <2>1 DEF ReplyTyped, ReplyInv
<1>7. CASE /\ status = 200 /\ t <= due
           /\ body' = Append(body, "text") /\ due' = due - t /\ status' = status
  <2>1. body' \in Parts /\ due' \in Nat
    BY <1>3, <1>4, <1>7 DEF Parts
  <2>2. ASSUME due' = 0 PROVE Fits'
    <3>1. LengthOf(Rest(k)) = t
      BY <1>3, <1>4, <1>5, <1>7, <2>2
    <3>2. k \in 1 .. Len(Manifest) - 1
      <4>1. k < Len(Manifest) /\ Len(Manifest) \in Nat
        BY <1>4, <1>5, Advance, Ends
      <4>2. k # 0
        BY <1>5, <1>7
      <4> QED
        BY <4>1, <4>2
    <3> QED
      BY <1>5, <1>7, <3>1, <3>2 DEF Fits
  <2> QED
    BY <1>1, <1>4, <1>7, <2>1, <2>2 DEF ReplyTyped, ReplyInv
<1>8. CASE status = 200 /\ t > due /\ UNCHANGED <<body, due, status>>
  <2>1. LengthOf(chunks) > 0
    <3>1. chunks \in Seq(Hash)
      BY DEF ReplyTyped
    <3>2. LengthOf(chunks) = Size[Head(chunks)] + LengthOf(Tail(chunks))
          /\ LengthOf(Tail(chunks)) \in Nat /\ Size[Head(chunks)] \in Nat \ {0}
      BY <1>4, <3>1, LengthOfTail
    <3> QED
      BY <3>2
  <2>2. due' # 0
    BY <1>5, <1>8, <2>1
  <2> QED
    BY <1>1, <1>8, <2>2 DEF ReplyTyped, ReplyInv
<1> QED
  BY <1>2, <1>6, <1>7, <1>8 DEF Says

LEMMA DeliverStep ==
  ASSUME ReplyTyped, ReplyInv, NEW n \in Node, Deliver(n)
  PROVE  ReplyTyped' /\ ReplyInv'
<1>1. /\ pc = "ask" /\ pc' = "locate" /\ body' = Append(body, Wanted)
      /\ due' = due - Size[Wanted] /\ status' = 200 /\ chunks' = Tail(chunks) /\ cut' = cut
  BY DEF Deliver
<1>2. chunks # <<>> /\ chunks \in Seq(Hash) /\ due \in Nat /\ body \in Parts
  BY <1>1 DEF ReplyTyped, ReplyInv
<1>3. PICK k \in 0 .. Len(Manifest) :
        body = Beginning(k) /\ chunks = Rest(k) /\ due = LengthOf(chunks)
  BY <1>1 DEF ReplyInv, Sending
<1>4. /\ LengthOf(chunks) = Size[Wanted] + LengthOf(Tail(chunks))
      /\ LengthOf(Tail(chunks)) \in Nat /\ Size[Wanted] \in Nat \ {0}
  BY <1>2, LengthOfTail DEF Wanted
<1>5. /\ k + 1 \in 1 .. Len(Manifest) /\ Tail(chunks) = Rest(k + 1)
      /\ Append(body, Wanted) = Beginning(k + 1)
  BY <1>2, <1>3, Advance DEF Wanted
<1>6. due' = LengthOf(chunks') /\ due' \in Nat
  BY <1>1, <1>3, <1>4
<1>7. Sending'
  <2>1. k + 1 \in 0 .. Len(Manifest) /\ k + 1 # 0
    BY <1>5
  <2> QED
    BY <1>1, <1>5, <1>6, <2>1 DEF Sending
<1>8. body' \in Parts /\ chunks' \in Seq(Hash)
  <2>1. Wanted \in Hash /\ Tail(chunks) \in Seq(Hash)
    BY <1>2, WantedType
  <2> QED
    BY <1>1, <1>2, <2>1 DEF Parts
<1> QED
  BY <1>1, <1>6, <1>7, <1>8 DEF ReplyTyped, ReplyInv

LEMMA ReplyStep ==
  StorageTyped /\ ReplyTyped /\ ReplyInv /\ [DownloadNext]_vars => ReplyTyped' /\ ReplyInv'
<1> SUFFICES ASSUME StorageTyped, ReplyTyped, ReplyInv, [DownloadNext]_vars
             PROVE  ReplyTyped' /\ ReplyInv'
  OBVIOUS
<1>1. CASE UNCHANGED vars \/ Others
  <2>1. UNCHANGED <<pc, chunks, body, due, status, cut>>
    BY <1>1, OthersStore DEF vars, handler, reply
  <2> QED
    BY <2>1 DEF ReplyTyped, ReplyInv, Sending, Emptied, Fits
<1>2. CASE Request
  <2>1. /\ pc = "idle" /\ pc' = "read" /\ due' = LengthOf(Manifest)
        /\ UNCHANGED <<chunks, body, status, cut>>
    BY <1>2 DEF Request
  <2>2. due' \in Nat
    BY <2>1, Ends, LengthType
  <2> QED
    BY <2>1, <2>2 DEF ReplyTyped, ReplyInv
<1>3. CASE NotFound
  BY <1>3 DEF NotFound, ReplyTyped, ReplyInv
<1>4. CASE ReadChunks
  <2>1. /\ pc = "read" /\ pc' = "locate" /\ chunks' = (IF saved THEN Manifest ELSE <<>>)
        /\ UNCHANGED <<body, due, status, cut>>
    BY <1>4 DEF ReadChunks, reply
  <2>2. body = <<>> /\ status = 0 /\ due = LengthOf(Manifest)
    BY <2>1 DEF ReplyInv
  <2>3. chunks' \in Seq(Hash)
    BY <2>1, Ends, EmptySeq
  <2>4. CASE saved
    <3>1. 0 \in 0 .. Len(Manifest)
      BY Ends
    <3>2. Sending'
      BY <2>1, <2>2, <2>4, <3>1, Ends DEF Sending
    <3> QED
      BY <2>1, <2>3, <3>2 DEF ReplyTyped, ReplyInv
  <2>5. CASE ~saved
    BY <2>1, <2>2, <2>3, <2>5 DEF ReplyTyped, ReplyInv, Emptied
  <2> QED
    BY <2>4, <2>5
<1>5. CASE Locate
  <2>1. /\ pc = "locate" /\ chunks # <<>> /\ pc' = "ask"
        /\ UNCHANGED <<chunks, body, due, status, cut>>
    BY <1>5 DEF Locate, reply
  <2>2. Sending
    BY <2>1 DEF ReplyInv, Emptied
  <2> QED
    BY <2>1, <2>2 DEF ReplyTyped, ReplyInv, Sending
<1>6. CASE Finish
  <2>1. /\ pc = "locate" /\ chunks = <<>> /\ pc' = "done" /\ status' = 200
        /\ UNCHANGED <<chunks, body, due, cut>>
    BY <1>6 DEF Finish
  <2>2. ASSUME due = 0 PROVE body = Manifest
    <3>1. CASE Emptied
      <4>1. Manifest = <<>>
        <5>1. Manifest # <<>> => LengthOf(Manifest) # 0
          <6> SUFFICES ASSUME Manifest # <<>> PROVE LengthOf(Manifest) # 0
            OBVIOUS
          <6>1. LengthOf(Manifest) = Size[Head(Manifest)] + LengthOf(Tail(Manifest))
                /\ LengthOf(Tail(Manifest)) \in Nat /\ Size[Head(Manifest)] \in Nat \ {0}
            BY Ends, LengthOfTail
          <6> QED
            BY <6>1
        <5> QED
          BY <2>2, <3>1, <5>1 DEF Emptied
      <4> QED
        BY <3>1, <4>1 DEF Emptied
    <3>2. CASE Sending
      <4>1. PICK k \in 0 .. Len(Manifest) : body = Beginning(k) /\ chunks = Rest(k)
        BY <3>2 DEF Sending
      <4>2. k = Len(Manifest)
        <5>1. CASE k < Len(Manifest)
          <6>1. Rest(k) # <<>>
            BY <5>1, RestIsLeft
          <6> QED
            BY <2>1, <4>1, <6>1
        <5> QED
          BY <5>1, Ends
      <4> QED
        BY <4>1, <4>2, Ends
    <3> QED
      BY <2>1, <3>1, <3>2 DEF ReplyInv
  <2> QED
    BY <2>1, <2>2 DEF ReplyTyped, ReplyInv, Fits
<1>7. CASE Exhausted \/ \E n \in Node : Mismatch(n)
  BY <1>7, FailStep DEF Exhausted, Mismatch
<1>8. ASSUME NEW n \in Node, Skip(n) PROVE ReplyTyped' /\ ReplyInv'
  BY <1>8 DEF Skip, reply, ReplyTyped, ReplyInv, Sending
<1>9. ASSUME Crash \/ \E n \in Node : WriteFails(n) PROVE ReplyTyped' /\ ReplyInv'
  <2>1. pc' = "done" /\ cut' = TRUE /\ UNCHANGED <<chunks, body, due, status>>
    BY <1>9 DEF Crash, WriteFails
  <2>2. ReplyTyped'
    BY <2>1 DEF ReplyTyped
  <2> QED
    BY <2>1, <2>2 DEF ReplyInv
<1> QED
  BY <1>1, <1>2, <1>3, <1>4, <1>5, <1>6, <1>7, <1>8, <1>9, DeliverStep
     DEF DownloadNext, HandlerStep

LEMMA DownloadInvHolds == DownloadSpec => []DownloadInv
<1>1. DownloadInit => DownloadInv
  <2> SUFFICES ASSUME DownloadInit PROVE DownloadInv
    OBVIOUS
  <2>1. StorageTyped
    BY DEF DownloadInit, StorageTyped
  <2>2. <<>> \in Seq(Hash) /\ <<>> \in Parts
    BY DEF Parts
  <2>3. ReplyTyped /\ ReplyInv
    BY <2>2 DEF DownloadInit, ReplyTyped, ReplyInv
  <2> QED
    BY <2>1, <2>3 DEF DownloadInv
<1>2. DownloadInv /\ [DownloadNext]_vars => DownloadInv'
  BY StorageStep, ReplyStep DEF DownloadInv
<1> QED
  BY <1>1, <1>2, PTL DEF DownloadSpec

(* Every step of the handler and of anybody else keeps the types: the reply is
   never longer than it was announced (handlers.go:377-425). *)
THEOREM DownloadTypeCorrect == DownloadSpec => []DownloadTypeOK
<1>1. DownloadInv => DownloadTypeOK
  BY DEF DownloadInv, StorageTyped, ReplyTyped, Parts, DownloadTypeOK
<1> QED
  BY <1>1, DownloadInvHolds, PTL

(* What a restore reports as restored is the backup, chunk by chunk and in
   order, or a beginning of it and an error text exactly as long as the rest,
   for every manifest, any sizes and whatever happens to the copies, the
   locations and the backup meanwhile (handlers.go:377-425, main.go:274-282). *)
THEOREM DownloadRestoresOrTextFits == DownloadSpec => []RestoredOrTextFits
<1>1. DownloadInv => RestoredOrTextFits
  BY DEF DownloadInv, ReplyInv, Restored, RestoredOrTextFits, Fits, Beginning, Rest
<1> QED
  BY <1>1, DownloadInvHolds, PTL

-----------------------------------------------------------------------------
(* How long a download can take *)

(* An upper bound of the steps the handler has before it: for every chunk one
   to look its nodes up, one for each node that may be asked in vain, and one to
   deliver it. *)
Visit == Cardinality(Node) + 2
Visits(k) == k * Visit
StepsLeft ==
  CASE pc = "idle"   -> Visits(Len(Manifest)) + 3
    [] pc = "read"   -> Visits(Len(Manifest)) + 2
    [] pc = "locate" -> Visits(Len(chunks)) + 1
    [] pc = "ask"    -> Visits(Len(chunks) - 1) + Cardinality(sources) + 2
    [] OTHER         -> 0

LEMMA VisitIsNat == Visit \in Nat
BY DownloadFinite, FS_CardinalityType DEF Visit

LEMMA VisitsAdd ==
  ASSUME NEW k \in Nat
  PROVE  Visits(k) \in Nat /\ (k > 0 => Visits(k - 1) \in Nat /\ Visits(k) = Visits(k - 1) + Visit)
<1>1. \A n \in Nat : Visits(n) \in Nat
  BY VisitIsNat DEF Visits
<1>2. Visits(k) = Visits(k - 1) + Visit
  BY VisitIsNat DEF Visits
<1>3. k > 0 => k - 1 \in Nat
  OBVIOUS
<1> QED
  BY <1>1, <1>2, <1>3

LEMMA SomeSources ==
  ASSUME NEW S \in SUBSET Node
  PROVE  IsFiniteSet(S) /\ Cardinality(S) \in Nat /\ Cardinality(S) + 2 <= Visit
BY DownloadFinite, FS_Subset, FS_CardinalityType DEF Visit

(* What the bound is made of, in every state of a run. *)
LEMMA StepsLeftParts ==
  ASSUME DownloadInv
  PROVE  /\ pc \in {"idle", "read", "locate", "ask", "done"}
         /\ sources \in SUBSET Node /\ IsFiniteSet(sources) /\ Cardinality(sources) \in Nat
         /\ Len(chunks) \in Nat /\ Len(Manifest) \in Nat
         /\ Visits(0) \in Nat /\ Visits(Len(chunks)) \in Nat /\ Visits(Len(Manifest)) \in Nat
         /\ pc = "ask" => /\ chunks # <<>> /\ Len(chunks) > 0
                          /\ Visits(Len(chunks) - 1) \in Nat
<1>1. /\ pc \in {"idle", "read", "locate", "ask", "done"}
      /\ sources \in SUBSET Node /\ chunks \in Seq(Hash)
  BY DEF DownloadInv, ReplyTyped, StorageTyped
<1>2. pc = "ask" => chunks # <<>>
  BY DEF DownloadInv, ReplyInv
<1>3. Len(chunks) \in Nat /\ (chunks # <<>> => Len(chunks) > 0) /\ Len(Manifest) \in Nat
  BY <1>1, DownloadAssumption
<1> QED
  BY <1>1, <1>2, <1>3, VisitsAdd, SomeSources

LEMMA StepsLeftIsNat ==
  ASSUME DownloadInv
  PROVE  StepsLeft \in Nat /\ (pc # "done" => StepsLeft > 0)
BY StepsLeftParts DEF StepsLeft

LEMMA HandlerMovesOn ==
  ASSUME DownloadInv, HandlerStep
  PROVE  StepsLeft' < StepsLeft
<1>0. StepsLeft \in Nat /\ (pc # "done" => StepsLeft > 0) /\ Visit \in Nat
  BY StepsLeftIsNat, VisitIsNat
<1>4. ASSUME pc' = "done", pc # "done" PROVE StepsLeft' < StepsLeft
  BY <1>0, <1>4 DEF StepsLeft
<1>5. CASE Request
  BY <1>5, StepsLeftParts DEF Request, StepsLeft
<1>6. CASE NotFound \/ Finish \/ Exhausted \/ \E n \in Node : WriteFails(n) \/ Mismatch(n)
  BY <1>4, <1>6 DEF NotFound, Finish, Exhausted, WriteFails, Mismatch, Fail
<1>7. CASE ReadChunks
  <2>1. pc = "read" /\ pc' = "locate" /\ chunks' \in {Manifest, <<>>}
    BY <1>7 DEF ReadChunks
  <2>2. Visits(0) <= Visits(Len(Manifest))
    BY StepsLeftParts, VisitIsNat DEF Visits
  <2>3. /\ StepsLeft' = Visits(Len(Manifest)) + 1 \/ StepsLeft' = Visits(0) + 1
        /\ StepsLeft = Visits(Len(Manifest)) + 2
    BY <2>1 DEF StepsLeft
  <2> QED
    BY <2>2, <2>3, StepsLeftParts
<1>8. CASE Locate
  <2>1. /\ pc = "locate" /\ pc' = "ask" /\ chunks' = chunks /\ chunks # <<>>
        /\ sources' = rows[Wanted]
    BY <1>8 DEF Locate
  <2>2. chunks \in Seq(Hash) /\ Wanted \in Hash /\ rows \in [Hash -> SUBSET Node] /\ Len(chunks) > 0
    BY <2>1 DEF DownloadInv, StorageTyped, ReplyTyped, Wanted
  <2>3. rows[Wanted] \in SUBSET Node
    BY <2>2
  <2>4. Cardinality(sources') \in Nat /\ Cardinality(sources') + 2 <= Visit
    BY <2>1, <2>3, SomeSources
  <2>5. /\ Visits(Len(chunks) - 1) \in Nat
        /\ Visits(Len(chunks)) = Visits(Len(chunks) - 1) + Visit
    BY <2>2, StepsLeftParts, VisitsAdd
  <2>6. /\ StepsLeft' = Visits(Len(chunks) - 1) + Cardinality(sources') + 2
        /\ StepsLeft = Visits(Len(chunks)) + 1
    BY <2>1 DEF StepsLeft, Visits, Visit
  <2> QED
    BY <1>0, <2>4, <2>5, <2>6
<1>9. ASSUME NEW n \in Node, Deliver(n) PROVE StepsLeft' < StepsLeft
  <2>1. pc = "ask" /\ pc' = "locate" /\ chunks' = Tail(chunks)
    BY <1>9 DEF Deliver
  <2>2. chunks \in Seq(Hash) /\ chunks # <<>>
    BY <2>1, StepsLeftParts DEF DownloadInv, ReplyTyped, StorageTyped
  <2>3. Len(Tail(chunks)) = Len(chunks) - 1
    BY <2>2
  <2>4. StepsLeft' = Visits(Len(chunks) - 1) + 1
    BY <2>1, <2>3 DEF StepsLeft, Visits, Visit
  <2>5. StepsLeft = Visits(Len(chunks) - 1) + Cardinality(sources) + 2
    BY <2>1 DEF StepsLeft
  <2> QED
    BY <2>1, <2>4, <2>5, StepsLeftParts
<1>10. ASSUME NEW n \in Node, Skip(n) PROVE StepsLeft' < StepsLeft
  <2>1. /\ pc = "ask" /\ pc' = "ask" /\ chunks' = chunks
        /\ n \in sources /\ sources' = sources \ {n}
    BY <1>10 DEF Skip
  <2>2. Cardinality(sources \ {n}) = Cardinality(sources) - 1
    BY <2>1, StepsLeftParts, FS_RemoveElement
  <2>3. StepsLeft' = Visits(Len(chunks) - 1) + Cardinality(sources \ {n}) + 2
    BY <2>1 DEF StepsLeft, Visits, Visit
  <2>4. StepsLeft = Visits(Len(chunks) - 1) + Cardinality(sources) + 2
    BY <2>1 DEF StepsLeft
  <2> QED
    BY <2>1, <2>2, <2>3, <2>4, StepsLeftParts
<1> QED
  BY <1>5, <1>6, <1>7, <1>8, <1>9, <1>10 DEF HandlerStep

(* Whatever happens to nodes, copies and locations meanwhile, a download takes
   at most Visit steps for each chunk and three more, and each step of the
   handler takes it nearer to its end: no node is asked twice for one chunk, and
   no chunk is gone back to (handlers.go:377-425, 571-597). *)
THEOREM DownloadStepsBounded ==
  DownloadSpec => /\ StepsLeft = Visits(Len(Manifest)) + 3
                  /\ [](StepsLeft \in Nat)
                  /\ [][/\ StepsLeft' <= StepsLeft
                        /\ HandlerStep => StepsLeft' < StepsLeft]_vars
<1>1. DownloadInit => StepsLeft = Visits(Len(Manifest)) + 3
  BY DEF DownloadInit, StepsLeft
<1>2. DownloadInv => StepsLeft \in Nat
  BY StepsLeftIsNat
<1>3. DownloadInv /\ (StepsLeft \in Nat)' /\ [DownloadNext]_vars
        => [/\ StepsLeft' <= StepsLeft
            /\ HandlerStep => StepsLeft' < StepsLeft]_vars
  <2> SUFFICES ASSUME DownloadInv, StepsLeft' \in Nat, DownloadNext
               PROVE  /\ StepsLeft' <= StepsLeft
                      /\ HandlerStep => StepsLeft' < StepsLeft
    OBVIOUS
  <2>1. StepsLeft \in Nat /\ (pc # "done" => StepsLeft > 0)
    BY StepsLeftIsNat
  <2>2. HandlerStep => StepsLeft' < StepsLeft
    BY HandlerMovesOn
  <2>3. CASE HandlerStep
    BY <2>1, <2>2, <2>3
  <2>4. CASE Crash
    BY <2>1, <2>2, <2>4 DEF Crash, StepsLeft
  <2>5. CASE Others
    <3>1. pc' = pc /\ chunks' = chunks /\ sources' = sources
      BY <2>5 DEF Others, Observed, handler
    <3>2. StepsLeft' = StepsLeft
      BY <3>1 DEF StepsLeft, Visits, Visit
    <3> QED
      BY <2>1, <2>2, <3>2
  <2> QED
    BY <2>3, <2>4, <2>5 DEF DownloadNext
<1> QED
  BY <1>1, <1>2, <1>3, DownloadInvHolds, PTL DEF DownloadSpec
=============================================================================
