--------------------------------- MODULE Blobs ---------------------------------
(***************************************************************************)
(* The retention sweep and the collection of blobs that ends it            *)
(* (createRetention, gcBlobs), against the queues and logs that it reads.  *)
(*                                                                         *)
(* The collector lists a directory, then reads what it listed, one queue   *)
(* after the other and the logs last, while records go on moving.  A blob  *)
(* that nothing was found to refer to, and that is past the age floor, is  *)
(* unlinked.                                                               *)
(*                                                                         *)
(* Left out: contents, and crashes: they end a sweep, which holds nothing. *)
(* What makes a record move is in Dispatcher, what a log does in History.  *)
(***************************************************************************)
EXTENDS Integers, Sequences, FiniteSets

CONSTANTS
  Stored,   \* the blobs
  Posts,    \* the records
  RefTo,    \* [Posts -> Stored]
  QueueNo,  \* [Posts -> 1..Queues]: the queue a record is sent to
  Queues,
  Logs      \* the number of chats and journals

ASSUME BlobsAssumption ==
  /\ {Queues, Logs} \subseteq Nat
  /\ RefTo \in [Posts -> Stored] /\ QueueNo \in [Posts -> 1..Queues]

VARIABLES
  store,    \* a blob: not uploaded, younger or older than the floor, collected
  lies,     \* the directory a record lies in
  logged,   \* the records in each log
  gc,       \* the await the sweep is at, the blobs that are old enough and those
            \* found referred to, the directory or log, what is listed and unread
  exposed   \* history: records that a sweep cannot be relied on to see

blVars == <<store, lies, logged, gc, exposed>>

SubsBackwards == <<"failed", "done", "cur", "pending">>

Subs == <<"pending", "cur", "done", "failed">>
Queued == {Subs[i] : i \in DOMAIN Subs}
NoSweep == [at |-> "idle", old |-> {}, found |-> {}, step |-> 0, listed |-> {}]

BlTypeOK ==
  /\ store \in [Stored -> {"absent", "young", "old", "gone"}]
  /\ lies \in [Posts -> Queued \union {"none", "gone"}]
  /\ logged \in [1..Logs -> SUBSET Posts]
  /\ gc.at \in {"idle", "prune", "scan", "read", "unlink"}
  /\ gc.old \subseteq Stored /\ gc.found \subseteq gc.old
  /\ gc.listed \subseteq Posts /\ gc.step \in 0..4 * Queues + Logs + 1
  /\ exposed \subseteq Posts

BlIdle == logged = [l \in 1..Logs |-> {}] /\ gc = NoSweep /\ exposed = {}

BlStart == BlIdle /\ store = [b \in Stored |-> "absent"] /\ lies = [r \in Posts |-> "none"]

-----------------------------------------------------------------------------
(* People and agents. *)

\* A blob is in the store before anybody can name it.
Upload(b) ==
  /\ store[b] = "absent"
  /\ store' = [store EXCEPT ![b] = "young"]
  /\ UNCHANGED <<lies, logged, gc, exposed>>

BlobAges(b) ==
  /\ store[b] = "young"
  /\ store' = [store EXCEPT ![b] = "old"]
  /\ UNCHANGED <<lies, logged, gc, exposed>>

\* A send goes by what is remembered of the upload, or by a chat that shows the blob;
\* whether the blob is there is not looked at.
Post(r) ==
  /\ lies[r] = "none" /\ store[RefTo[r]] # "absent"
  /\ lies' = [lies EXCEPT ![r] = "pending"]
  /\ exposed' = IF store[RefTo[r]] = "young" THEN exposed ELSE exposed \union {r}
  /\ UNCHANGED <<store, logged, gc>>

\* The sender's chat and the journal take what was just sent, which takes less time
\* than the floor; the recipient's chat takes what is being delivered.
LogPost(l, r) ==
  /\ r \notin logged[l]
  /\ \/ lies[r] = "cur"
     \/ lies[r] # "none" /\ (store[RefTo[r]] = "young" \/ r \in exposed)
  /\ logged' = [logged EXCEPT ![l] = @ \union {r}]
  /\ UNCHANGED <<store, lies, gc, exposed>>

\* Cleared, or past a cap of the log: also between two sweeps.
LogForgets(l, r) ==
  /\ r \in logged[l]
  /\ logged' = [logged EXCEPT ![l] = @ \ {r}]
  /\ UNCHANGED <<store, lies, gc, exposed>>

\* Claimed, completed, cancelled: the way on from each directory.
Onward == {<<"pending", "cur">>, <<"pending", "gone">>, <<"cur", "done">>, <<"cur", "failed">>}

Move(r) ==
  /\ \E step \in Onward :
       /\ lies[r] = step[1]
       /\ step[2] = "cur" => \A q \in Posts : QueueNo[q] = QueueNo[r] => lies[q] # "cur"
       /\ lies' = [lies EXCEPT ![r] = step[2]]
  /\ UNCHANGED <<store, logged, gc, exposed>>

\* Back against the order in which the directories are read.
RequeuePost(r) ==
  /\ lies[r] = "failed"
  /\ lies' = [lies EXCEPT ![r] = "pending"]
  /\ exposed' = IF gc.at \in {"scan", "read"} THEN exposed \union {r} ELSE exposed
  /\ UNCHANGED <<store, logged, gc>>

-----------------------------------------------------------------------------
(* The sweep. *)

RetentionStarts ==
  /\ gc.at = "idle"
  /\ \/ \E r \in Posts : lies[r] \in {"done", "failed"}
     \/ \E b \in Stored : store[b] = "old"
  /\ gc' = [NoSweep EXCEPT !.at = "prune"]
  /\ UNCHANGED <<store, lies, logged, exposed>>

\* What is past its age or its cap.
PruneArchive(r) ==
  /\ gc.at = "prune" /\ lies[r] \in {"done", "failed"}
  /\ lies' = [lies EXCEPT ![r] = "gone"]
  /\ UNCHANGED <<store, logged, gc, exposed>>

Candidates ==
  /\ gc.at = "prune"
  /\ LET old == {b \in Stored : store[b] = "old"}
     IN  gc' = IF old = {} THEN NoSweep ELSE [gc EXCEPT !.at = "scan", !.old = old, !.step = 1]
  /\ UNCHANGED <<store, lies, logged, exposed>>

LiesIn(r, step) == QueueNo[r] = (step - 1) \div 4 + 1 /\ lies[r] = Subs[((step - 1) % 4) + 1]

ReadDir ==
  /\ gc.at = "scan" /\ gc.step <= 4 * Queues
  /\ gc' = [gc EXCEPT !.at = "read", !.listed = {r \in Posts : LiesIn(r, gc.step)}]
  /\ UNCHANGED <<store, lies, logged, exposed>>

WithRefs(rs) == gc.found \union (gc.old \cap {RefTo[r] : r \in rs})

\* A record that has moved on is not read here.
ReadPost(r) ==
  /\ gc.at = "read" /\ r \in gc.listed
  /\ gc' = [gc EXCEPT !.listed = @ \ {r}, !.found = WithRefs(IF LiesIn(r, gc.step) THEN {r} ELSE {})]
  /\ UNCHANGED <<store, lies, logged, exposed>>

DirEnds ==
  /\ gc.at = "read" /\ gc.listed = {}
  /\ gc' = [gc EXCEPT !.at = "scan", !.step = @ + 1]
  /\ UNCHANGED <<store, lies, logged, exposed>>

ReadLogFile ==
  /\ gc.at = "scan" /\ gc.step - 4 * Queues \in 1..Logs
  /\ gc' = [gc EXCEPT !.found = WithRefs(logged[gc.step - 4 * Queues]), !.step = @ + 1]
  /\ UNCHANGED <<store, lies, logged, exposed>>

ScanEnds ==
  /\ gc.at = "scan" /\ gc.step > 4 * Queues + Logs
  /\ gc' = [gc EXCEPT !.at = "unlink"]
  /\ UNCHANGED <<store, lies, logged, exposed>>

UnlinkBlob(b) ==
  /\ gc.at = "unlink" /\ b \in gc.old \ gc.found
  /\ store' = [store EXCEPT ![b] = "gone"]
  /\ gc' = [gc EXCEPT !.old = @ \ {b}]
  /\ UNCHANGED <<lies, logged, exposed>>

RetentionEnds ==
  /\ gc.at = "unlink" /\ gc.old \subseteq gc.found
  /\ gc' = NoSweep
  /\ UNCHANGED <<store, lies, logged, exposed>>

-----------------------------------------------------------------------------
BlNext ==
  \/ \E b \in Stored : Upload(b) \/ BlobAges(b) \/ UnlinkBlob(b)
  \/ \E r \in Posts :
       \/ Post(r) \/ Move(r) \/ RequeuePost(r) \/ PruneArchive(r) \/ ReadPost(r)
       \/ \E l \in 1..Logs : LogPost(l, r) \/ LogForgets(l, r)
  \/ RetentionStarts \/ Candidates \/ ReadDir \/ DirEnds \/ ReadLogFile \/ ScanEnds \/ RetentionEnds

(***************************************************************************)
(* Properties.                                                             *)
(***************************************************************************)

Refers(r) == lies[r] \in Queued \/ \E l \in 1..Logs : r \in logged[l]

\* A blob outlives every record that refers to it, in a queue, a chat or the journal,
\* however the records move while the collector reads.  (Unless the record was sent
\* when the blob was already past the age floor, or given back from failed/ to
\* pending/ while the queues were being read.)
ReferencedKept ==
  \A r \in Posts \ exposed : Refers(r) => store[RefTo[r]] # "gone"

BlSpec == BlStart /\ [][BlNext]_blVars
=============================================================================
