------------------------------- MODULE Download -------------------------------
(***************************************************************************)
(* One download: downloadFile and fetchFromAny (handlers.go) fetch the     *)
(* chunks of a manifest one after the other, each from the first node that *)
(* answers, and write them to a reply whose length was announced at the    *)
(* start; backupctl's restore copies the reply to a file.  Nothing is      *)
(* locked: while it runs, backups are deleted, locations come and go, and  *)
(* copies are put, erased and damaged, by anybody and in any order.        *)
(*                                                                         *)
(* net/http (external) matters in four places.  The first byte of a body   *)
(* sends status 200 and the length; http.Error takes the length back while *)
(* nothing was sent, and only appends its text once something was; a write *)
(* past the announced length writes nothing; a reply that ends short of it *)
(* is an error for its reader.                                             *)
(***************************************************************************)
EXTENDS Integers, Sequences, FiniteSets, SequencesExt

CONSTANTS
  Node, Hash,
  Manifest,     \* the chunks of the backup, in order
  Size,         \* the length of each chunk
  TextLengths,  \* the lengths an error text may have
  Sealed        \* the nodes that encrypt their chunks

ASSUME DownloadAssumption ==
  /\ Manifest \in Seq(Hash) /\ Size \in [Hash -> Nat \ {0}]
  /\ TextLengths \subseteq Nat \ {0} /\ TextLengths # {} /\ Sealed \subseteq Node
ASSUME DownloadFinite == IsFiniteSet(Node)

VARIABLES
  pc,       \* where the handler is
  chunks,   \* the part of the manifest that is still to be sent
  sources,  \* the nodes fetchFromAny has not asked yet
  body,     \* what was written: hashes, "junk" for other bytes, "text"
  due,      \* announced bytes that were not written
  status,   \* the status the client has seen, 0 before the first byte
  cut,      \* the connection broke
  saved,    \* the row of the file exists
  rows,     \* chunk_locations
  copy,     \* what each node has under each hash
  up,       \* nodes that answer within the timeout
  steady    \* history: nodes able to serve the chunk ever since it was looked up

handler == <<pc, chunks, sources>>
reply == <<body, due, status, cut>>
storage == <<saved, rows, copy, up>>
vars == <<handler, reply, storage, steady>>

LengthOf(s) == SumFunctionOnSet([i \in DOMAIN s |-> Size[s[i]]], DOMAIN s)
Wanted == Head(chunks)
Serves(n, h) == n \in up /\ copy[h][n] = "intact"

(* GET /chunks/<hash> on a node: plaintext is sent as it is, whatever it is;
   a sealed chunk that was altered does not open and is refused. *)
Answers(n, h) == /\ n \in up
                 /\ \/ copy[h][n] = "intact"
                    \/ copy[h][n] = "damaged" /\ n \notin Sealed

DownloadInit ==
  /\ pc = "idle" /\ chunks = <<>> /\ sources = {}
  /\ body = <<>> /\ due = 0 /\ status = 0 /\ cut = FALSE
  /\ saved = TRUE /\ rows = [h \in Hash |-> Node]
  /\ copy = [h \in Hash |-> [n \in Node |-> "intact"]] /\ up = Node
  /\ steady = {}

-----------------------------------------------------------------------------
(* The handler *)

Request ==
  /\ pc = "idle" /\ saved
  /\ pc' = "read" /\ due' = LengthOf(Manifest)
  /\ UNCHANGED <<chunks, sources, body, status, cut, storage, steady>>

NotFound ==
  /\ pc = "idle" /\ ~saved
  /\ pc' = "done" /\ status' = 404
  /\ UNCHANGED <<chunks, sources, body, due, cut, storage, steady>>

(* File reads the row and the chunks in two statements: the backup may be
   deleted in between, and then it has a length and no chunks. *)
ReadChunks ==
  /\ pc = "read"
  /\ pc' = "locate" /\ chunks' = IF saved THEN Manifest ELSE <<>>
  /\ UNCHANGED <<sources, reply, storage, steady>>

Locate ==
  /\ pc = "locate" /\ chunks # <<>>
  /\ pc' = "ask" /\ sources' = rows[Wanted]
  /\ steady' = {n \in rows[Wanted] : Serves(n, Wanted)}
  /\ UNCHANGED <<chunks, reply, storage>>

Finish ==
  /\ pc = "locate" /\ chunks = <<>>
  /\ pc' = "done" /\ status' = 200
  /\ UNCHANGED <<chunks, sources, body, due, cut, storage, steady>>

(* http.Error with a text of length t: a reply of its own, more of the body,
   or nothing when it is longer than what was announced. *)
Says(t) ==
  \/ status = 0 /\ body' = <<"text">> /\ due' = 0 /\ status' = 502
  \/ /\ status = 200 /\ t <= due
     /\ body' = Append(body, "text") /\ due' = due - t /\ status' = status
  \/ status = 200 /\ t > due /\ UNCHANGED <<body, due, status>>

Fail == /\ pc' = "done" /\ \E t \in TextLengths : Says(t)
        /\ UNCHANGED <<chunks, sources, cut, storage, steady>>

(* fetchFromAny takes the first answer below 300. *)
DeliverUnchecked(n) ==
  /\ pc = "ask" /\ n \in sources /\ Answers(n, Wanted)
  /\ body' = Append(body, IF Serves(n, Wanted) THEN Wanted ELSE "junk")
  /\ due' = due - Size[Wanted] /\ status' = 200
  /\ pc' = "locate" /\ chunks' = Tail(chunks) /\ sources' = {} /\ steady' = {}
  /\ UNCHANGED <<cut, storage>>
DeliverAgain(n) ==
  /\ pc = "ask" /\ n \in sources /\ Serves(n, Wanted)
  /\ body' = Append(body, Wanted)
  /\ due' = due - Size[Wanted] /\ status' = 200
  /\ pc' = "locate" /\ sources' = {} /\ steady' = {}
  /\ UNCHANGED <<chunks, cut, storage>>
Deliver(n) ==
  /\ pc = "ask" /\ n \in sources /\ Serves(n, Wanted)
  /\ body' = Append(body, Wanted)
  /\ due' = due - Size[Wanted] /\ status' = 200
  /\ pc' = "locate" /\ chunks' = Tail(chunks) /\ sources' = {} /\ steady' = {}
  /\ UNCHANGED <<cut, storage>>

(* The client is gone when the chunk is written. *)
WriteFails(n) ==
  /\ pc = "ask" /\ n \in sources /\ Serves(n, Wanted)
  /\ pc' = "done" /\ cut' = TRUE
  /\ UNCHANGED <<chunks, sources, body, due, status, storage, steady>>

(* The hash is compared after fetchFromAny has returned: no other node is asked. *)
Mismatch(n) ==
  /\ pc = "ask" /\ n \in sources /\ Answers(n, Wanted) /\ ~Serves(n, Wanted)
  /\ Fail

(* No answer, 404, 400, or an answer that breaks off. *)
SkipKeeps(n) ==
  /\ pc = "ask" /\ n \in sources /\ ~Answers(n, Wanted)
  /\ UNCHANGED vars
SkipFails(n) ==
  /\ pc = "ask" /\ n \in sources /\ ~Answers(n, Wanted)
  /\ Fail
Skip(n) ==
  /\ pc = "ask" /\ n \in sources /\ ~Answers(n, Wanted)
  /\ sources' = sources \ {n}
  /\ UNCHANGED <<pc, chunks, reply, storage, steady>>

Exhausted == pc = "ask" /\ sources = {} /\ Fail

HandlerStep ==
  \/ Request \/ NotFound \/ ReadChunks \/ Locate \/ Finish \/ Exhausted
  \/ \E n \in Node : Deliver(n) \/ WriteFails(n) \/ Mismatch(n) \/ Skip(n)

(* The server stops. *)
Crash ==
  /\ pc \in {"read", "locate", "ask"}
  /\ pc' = "done" /\ cut' = TRUE
  /\ UNCHANGED <<chunks, sources, body, due, status, storage, steady>>

-----------------------------------------------------------------------------
(* The rest of the system *)

Observed == /\ UNCHANGED <<handler, reply>>
            /\ steady' = {n \in steady : Serves(n, Wanted)'}

StoreCopy(h, n) ==
  /\ n \in up /\ copy[h][n] # "intact"
  /\ copy' = [copy EXCEPT ![h][n] = "intact"]
  /\ UNCHANGED <<saved, rows, up>>

EraseCopy(h, n) ==
  /\ n \in up /\ copy[h][n] # "none"
  /\ copy' = [copy EXCEPT ![h][n] = "none"]
  /\ UNCHANGED <<saved, rows, up>>

(* The disk of a node loses or alters bytes. *)
Damage(h, n) ==
  /\ copy[h][n] = "intact"
  /\ copy' = [copy EXCEPT ![h][n] = "damaged"]
  /\ UNCHANGED <<saved, rows, up>>

RecordCopy(h, n) ==
  /\ n \notin rows[h] /\ rows' = [rows EXCEPT ![h] = @ \cup {n}]
  /\ UNCHANGED <<saved, copy, up>>

ForgetCopy(h, n) ==
  /\ n \in rows[h] /\ rows' = [rows EXCEPT ![h] = @ \ {n}]
  /\ UNCHANGED <<saved, copy, up>>

DeleteFile == saved /\ saved' = FALSE /\ UNCHANGED <<rows, copy, up>>

GoesDown(n) == n \in up /\ up' = up \ {n} /\ UNCHANGED <<saved, rows, copy>>
ComesUp(n) == n \notin up /\ up' = up \cup {n} /\ UNCHANGED <<saved, rows, copy>>

Others ==
  /\ \/ DeleteFile
     \/ \E n \in Node : GoesDown(n) \/ ComesUp(n)
     \/ \E h \in Hash, n \in Node :
          \/ StoreCopy(h, n) \/ EraseCopy(h, n) \/ Damage(h, n)
          \/ RecordCopy(h, n) \/ ForgetCopy(h, n)
  /\ Observed

DownloadNext == HandlerStep \/ Crash \/ Others

(* A node answers or fails within nodeHTTPClient's timeout (handlers.go:24),
   and the client reads or is gone, so no step of the handler waits for ever. *)
DownloadSpec == DownloadInit /\ [][DownloadNext]_vars /\ WF_vars(HandlerStep)

-----------------------------------------------------------------------------
(* Properties *)

DownloadTypeOK ==
  /\ pc \in {"idle", "read", "locate", "ask", "done"}
  /\ chunks \in Seq(Hash) /\ sources \subseteq Node /\ steady \subseteq Node
  /\ body \in Seq(Hash \cup {"junk", "text"}) /\ due \in Nat
  /\ status \in {0, 200, 404, 502} /\ cut \in BOOLEAN
  /\ saved \in BOOLEAN /\ rows \in [Hash -> SUBSET Node]
  /\ copy \in [Hash -> [Node -> {"none", "intact", "damaged"}]] /\ up \subseteq Node

(* backupctl's restore says "restored": the status is below 300 and the reply
   does not end before its announced length (main.go:274-282). *)
Restored == pc = "done" /\ status = 200 /\ due = 0 /\ ~cut

(* What a restore reports as restored is the backup, chunk by chunk and in
   order, whatever was damaged, deleted or down while it ran; or it is a
   beginning of it and the text of an error that was exactly as long as the
   rest (handlers.go:409-416), and nothing else. *)
RestoredOrTextFits ==
  Restored =>
    \/ body = Manifest
    \/ \E k \in 1 .. Len(Manifest) - 1 :
         /\ body = Append(SubSeq(Manifest, 1, k), "text")
         /\ LengthOf(SubSeq(Manifest, k + 1, Len(Manifest))) \in TextLengths

(* The handler gives up while it asks for a chunk, the client still there. *)
GivesUp == pc = "ask" /\ pc' = "done" /\ ~cut'

DamagedListed ==
  \E n \in sources \ Sealed : n \in up /\ copy[Wanted][n] = "damaged"

(* A download gives up on a chunk only when no node that was listed has been
   able to serve it all the time, or when a damaged copy was read in
   plaintext: nodes that are down, have lost the chunk or cannot open it never
   stop it (handlers.go:571-597). *)
GivesUpForCause == [][GivesUp => steady = {} \/ DamagedListed]_vars

(* A download gives up on a chunk only when no node that was listed has been
   able to serve it all the time: one good copy is enough, as
   pomysl-rozproszony-backup.md:54 says. *)
IntactCopyServes == [][GivesUp => steady = {}]_vars

(* Every download that was let in ends. *)
Answered == pc = "read" ~> pc = "done"
=============================================================================
