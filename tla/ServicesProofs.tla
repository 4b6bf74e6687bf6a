---------------------------- MODULE ServicesProofs ----------------------------
(***************************************************************************)
(* Proofs about services that many callers share: the blob collector,      *)
(* against records that move while it reads (Blobs), the two gates of      *)
(* local delivery, against callers and queues that overtake them (Gates),  *)
(* the orphan sweep and the nudge, against turns that begin, end and are   *)
(* lost while they look (Exchange), the chain of schedules, against the    *)
(* people and the restarts that rewrite its file while the scheduler acts  *)
(* on a copy (Schedules), and the routines, against restarts, a late loop  *)
(* and those who switch them (Routines).                                   *)
(***************************************************************************)
EXTENDS Blobs, Gates, Exchange, Schedules, Routines, FiniteSetTheorems, WellFoundedInduction, TLAPS

(***************************************************************************)
(* The blob collector.                                                     *)
(***************************************************************************)

GcSteps == 0..4 * Queues + Logs + 1

Sweep ==
  [at : {"idle", "prune", "scan", "read", "unlink"}, old : SUBSET Stored, found : SUBSET Stored,
   step : GcSteps, listed : SUBSET Posts]

BlTyped ==
  /\ store \in [Stored -> {"absent", "young", "old", "gone"}]
  /\ lies \in [Posts -> Queued \union {"none", "gone"}]
  /\ logged \in [1..Logs -> SUBSET Posts]
  /\ gc \in Sweep
  /\ exposed \subseteq Posts

\* The place of a directory in the order in which the collector reads them.
DirNo(d) == CASE d = "pending" -> 1 [] d = "cur" -> 2 [] d = "done" -> 3 [] d = "failed" -> 4

PlaceOf(r) == 4 * (QueueNo[r] - 1) + DirNo(lies[r])

\* The collector is past a directory, or past the record in it.
PassedBy(r) ==
  /\ lies[r] \in Queued
  /\ \/ gc.at \in {"scan", "unlink"} /\ PlaceOf(r) < gc.step
     \/ gc.at = "read" /\ PlaceOf(r) < gc.step
     \/ gc.at = "read" /\ PlaceOf(r) = gc.step /\ r \notin gc.listed

PassedLog(l, r) == gc.at \in {"scan", "read", "unlink"} /\ r \in logged[l] /\ 4 * Queues + l < gc.step

\* What the collector has passed it has found; and what it may unlink is old.
SweepSound ==
  /\ gc.at \in {"idle", "prune"} => gc.old = {}
  /\ gc.found \subseteq gc.old
  /\ \A b \in gc.old : store[b] = "old"
  /\ gc.at \in {"scan", "read"} => gc.step >= 1
  /\ gc.at = "read" => gc.step <= 4 * Queues
  /\ gc.at = "unlink" => gc.step = 4 * Queues + Logs + 1
  /\ \A r \in Posts \ exposed : RefTo[r] \in gc.old =>
       /\ PassedBy(r) => RefTo[r] \in gc.found
       /\ \A l \in 1..Logs : PassedLog(l, r) => RefTo[r] \in gc.found

\* Only what was sent is in a log, and only what was uploaded is referred to.
SentFirst ==
  /\ \A r \in Posts : lies[r] # "none" => store[RefTo[r]] # "absent"
  /\ \A l \in 1..Logs : \A r \in logged[l] : lies[r] # "none"

BlInv == BlTyped /\ SweepSound /\ SentFirst /\ ReferencedKept

\* A directory's records are those at its place.
LEMMA PlaceIs ==
  ASSUME BlTyped, NEW r \in Posts, lies[r] \in Queued
  PROVE  /\ PlaceOf(r) \in 1..4 * Queues
         /\ \A s \in Nat \ {0} : LiesIn(r, s) <=> PlaceOf(r) = s
<1>1. QueueNo[r] \in 1..Queues /\ Queues \in Nat
  BY BlobsAssumption
<1>2. lies[r] \in {"pending", "cur", "done", "failed"}
  BY DEF Queued, Subs
<1>3. DirNo(lies[r]) \in 1..4
  BY <1>2 DEF DirNo
<1>4. PlaceOf(r) \in 1..4 * Queues
  BY <1>1, <1>3 DEF PlaceOf
<1>5. ASSUME NEW s \in Nat \ {0} PROVE LiesIn(r, s) <=> PlaceOf(r) = s
  <2> DEFINE q == (s - 1) \div 4
             m == (s - 1) % 4
  <2>1. q \in Nat /\ m \in 0..3 /\ s = 4 * q + m + 1
    OBVIOUS
  <2>2. lies[r] = Subs[m + 1] <=> DirNo(lies[r]) = m + 1
    <3>1. \A d \in {"pending", "cur", "done", "failed"}, k \in 0..3 : d = Subs[k + 1] <=> DirNo(d) = k + 1
      <4> SUFFICES ASSUME NEW d \in {"pending", "cur", "done", "failed"}, NEW k \in 0..3
                   PROVE  d = Subs[k + 1] <=> DirNo(d) = k + 1
        OBVIOUS
      <4>1. CASE k = 0
        BY <4>1 DEF DirNo, Subs
      <4>2. CASE k = 1
        BY <4>2 DEF DirNo, Subs
      <4>3. CASE k = 2
        BY <4>3 DEF DirNo, Subs
      <4>4. CASE k = 3
        BY <4>4 DEF DirNo, Subs
      <4> QED
        BY <4>1, <4>2, <4>3, <4>4
    <3> QED
      BY <1>2, <2>1, <3>1
  <2>3. LiesIn(r, s) <=> QueueNo[r] = q + 1 /\ DirNo(lies[r]) = m + 1
    BY <2>2 DEF LiesIn
  <2> HIDE DEF q, m
  <2> QED
    BY <1>1, <1>3, <2>1, <2>3 DEF PlaceOf
<1> QED
  BY <1>4, <1>5

\* Which directory follows which.
LEMMA WayOn ==
  ASSUME BlTyped, NEW r \in Posts, lies[r] # "none", Move(r)
  PROVE  /\ lies' \in [Posts -> Queued \union {"none", "gone"}]
         /\ \A q \in Posts \ {r} : lies'[q] = lies[q]
         /\ lies[r] \in Queued /\ lies'[r] \in Queued \union {"gone"}
         /\ lies'[r] \in Queued => DirNo(lies'[r]) > DirNo(lies[r])
  BY DEF Move, Onward, BlTyped, Queued, Subs, DirNo

\* Types.
LEMMA BlTypes ==
  ASSUME BlTyped, SweepSound, BlNext
  PROVE  BlTyped'
<1> USE BlobsAssumption DEF BlTyped, Queued, Subs
<1>1. 0 \in GcSteps /\ 1 \in GcSteps /\ \A s \in GcSteps : s # 4 * Queues + Logs + 1 => s + 1 \in GcSteps
  BY DEF GcSteps
<1>2. NoSweep \in Sweep
  BY <1>1 DEF NoSweep, Sweep
<1>3. CASE \E b \in Stored : Upload(b) \/ BlobAges(b)
  BY <1>3 DEF Upload, BlobAges
<1>4. ASSUME NEW b \in Stored, UnlinkBlob(b) PROVE BlTyped'
  <2>1. gc' \in Sweep
    BY <1>4 DEF UnlinkBlob, Sweep
  <2> QED
    BY <1>4, <2>1 DEF UnlinkBlob
<1>5. ASSUME NEW r \in Posts, Post(r) \/ RequeuePost(r) \/ PruneArchive(r) PROVE BlTyped'
  <2>1. exposed' \subseteq Posts /\ UNCHANGED <<store, logged, gc>>
    BY <1>5 DEF Post, RequeuePost, PruneArchive
  <2>2. lies' \in [Posts -> Queued \union {"none", "gone"}]
    BY <1>5 DEF Post, RequeuePost, PruneArchive
  <2> QED
    BY <2>1, <2>2
<1>6. ASSUME NEW r \in Posts, Move(r) PROVE BlTyped'
  BY <1>6 DEF Move, Onward
<1>7. ASSUME NEW r \in Posts, NEW l \in 1..Logs, LogPost(l, r) \/ LogForgets(l, r) PROVE BlTyped'
  <2>1. UNCHANGED <<store, lies, gc, exposed>>
    BY <1>7 DEF LogPost, LogForgets
  <2>2. logged[l] \union {r} \in SUBSET Posts /\ logged[l] \ {r} \in SUBSET Posts
    OBVIOUS
  <2>3. logged' \in [1..Logs -> SUBSET Posts]
    BY <1>7, <2>2 DEF LogPost, LogForgets
  <2> QED
    BY <2>1, <2>3
<1>8. \A rs : WithRefs(rs) \in SUBSET Stored
  BY DEF WithRefs, Sweep
<1>9. ASSUME NEW r \in Posts, ReadPost(r) PROVE BlTyped'
  <2>1. gc' \in Sweep
    BY <1>8, <1>9 DEF ReadPost, Sweep
  <2> QED
    BY <1>9, <2>1 DEF ReadPost
<1>10. CASE RetentionStarts \/ RetentionEnds
  <2>1. gc' \in Sweep
    BY <1>2, <1>10 DEF RetentionStarts, RetentionEnds, Sweep
  <2> QED
    BY <1>10, <2>1 DEF RetentionStarts, RetentionEnds
<1>11. CASE Candidates
  <2>1. gc' \in Sweep
    BY <1>1, <1>2, <1>11 DEF Candidates, Sweep
  <2> QED
    BY <1>11, <2>1 DEF Candidates
<1>12. CASE ReadDir \/ ScanEnds
  <2>1. {r \in Posts : LiesIn(r, gc.step)} \in SUBSET Posts
    OBVIOUS
  <2>2. ReadDir => gc' \in Sweep
    BY <2>1 DEF ReadDir, Sweep
  <2>3. ScanEnds => gc' \in Sweep
    BY DEF ScanEnds, Sweep
  <2> QED
    BY <1>12, <2>2, <2>3 DEF ReadDir, ScanEnds
<1>13. CASE DirEnds
  <2>1. gc.step + 1 \in GcSteps
    BY <1>13 DEF DirEnds, SweepSound, Sweep, GcSteps
  <2>2. gc' \in Sweep
    BY <1>13, <2>1 DEF DirEnds, Sweep
  <2> QED
    BY <1>13, <2>2 DEF DirEnds
<1>14. CASE ReadLogFile
  <2>1. gc.step + 1 \in GcSteps
    BY <1>14 DEF ReadLogFile, Sweep, GcSteps
  <2>2. gc' \in Sweep
    BY <1>8, <1>14, <2>1 DEF ReadLogFile, Sweep
  <2> QED
    BY <1>14, <2>2 DEF ReadLogFile
<1> QED
  BY <1>3, <1>4, <1>5, <1>6, <1>7, <1>9, <1>10, <1>11, <1>12, <1>13, <1>14 DEF BlNext

\* People and queues, while the collector reads: nothing slips behind it.
LEMMA SoundBesides ==
  ASSUME BlInv, UNCHANGED gc,
         \/ \E b \in Stored : Upload(b) \/ BlobAges(b)
         \/ \E r \in Posts :
              \/ Post(r) \/ Move(r) \/ RequeuePost(r) \/ PruneArchive(r)
              \/ \E l \in 1..Logs : LogPost(l, r) \/ LogForgets(l, r),
         BlTyped'
  PROVE  SweepSound'
<1> USE BlobsAssumption DEF BlInv, SweepSound
<1>1. CASE \E b \in Stored : Upload(b) \/ BlobAges(b)
  <2>1. \A b \in gc.old : store'[b] = "old"
    BY <1>1 DEF Upload, BlobAges, BlTyped, Sweep
  <2>2. UNCHANGED <<lies, logged, exposed>>
    BY <1>1 DEF Upload, BlobAges
  <2> QED
    BY <2>1, <2>2 DEF PassedBy, PassedLog, PlaceOf
<1>2. ASSUME NEW r \in Posts, Post(r) PROVE SweepSound'
  BY <1>2 DEF Post, BlTyped, PassedBy, PassedLog, PlaceOf
<1>3. ASSUME NEW r \in Posts, Move(r) PROVE SweepSound'
  <2>1. lies[r] # "none"
    BY <1>3 DEF Move, Onward
  <2>2. /\ \A q \in Posts \ {r} : lies'[q] = lies[q]
        /\ lies[r] \in Queued
        /\ lies'[r] \in Queued => DirNo(lies'[r]) > DirNo(lies[r])
    BY <1>3, <2>1, WayOn
  <2>3. lies'[r] \in Queued => PlaceOf(r)' > PlaceOf(r)
    BY <2>2 DEF PlaceOf, DirNo, Queued, Subs
  <2>4. PlaceOf(r) \in Nat /\ gc.step \in Nat /\ (lies'[r] \in Queued => PlaceOf(r)' \in Nat)
    BY <2>2, PlaceIs, SMTT(30) DEF PlaceOf, DirNo, Queued, Subs, BlTyped, Sweep, GcSteps
  <2>5. PassedBy(r)' => PassedBy(r)
    BY <2>2, <2>3, <2>4 DEF PassedBy
  <2>6. \A q \in Posts \ {r} : PassedBy(q)' <=> PassedBy(q)
    BY <2>2 DEF PassedBy, PlaceOf
  <2> QED
    BY <1>3, <2>5, <2>6 DEF Move, PassedLog
<1>4. ASSUME NEW r \in Posts, RequeuePost(r) PROVE SweepSound'
  <2>1. \A q \in Posts \ {r} : PassedBy(q)' <=> PassedBy(q)
    BY <1>4 DEF RequeuePost, BlTyped, PassedBy, PlaceOf
  <2>2. lies[r] \in Queued /\ PlaceOf(r) \in 1..4 * Queues
    BY <1>4, PlaceIs DEF RequeuePost, Queued, Subs
  <2>3. gc.at = "unlink" => PassedBy(r)
    BY <2>2 DEF PassedBy
  <2>4. CASE gc.at \in {"scan", "read"}
    BY <1>4, <2>1, <2>4 DEF RequeuePost, PassedLog
  <2>5. CASE gc.at = "unlink"
    BY <1>4, <2>1, <2>3, <2>5 DEF RequeuePost, PassedLog
  <2>6. CASE gc.at \in {"idle", "prune"}
    BY <1>4, <2>6 DEF RequeuePost
  <2> QED
    BY <2>4, <2>5, <2>6 DEF BlTyped, Sweep
<1>5. ASSUME NEW r \in Posts, PruneArchive(r) PROVE SweepSound'
  BY <1>5 DEF PruneArchive
<1>6. ASSUME NEW r \in Posts, NEW l \in 1..Logs, LogPost(l, r) PROVE SweepSound'
  <2>1. \A q \in Posts : PassedBy(q)' <=> PassedBy(q)
    BY <1>6 DEF LogPost, PassedBy, PlaceOf
  <2>2. \A q \in Posts, k \in 1..Logs : PassedLog(k, q)' => PassedLog(k, q) \/ (q = r /\ k = l)
    BY <1>6 DEF LogPost, PassedLog, BlTyped
  <2>3. ASSUME r \notin exposed, RefTo[r] \in gc.old, PassedLog(l, r)' PROVE RefTo[r] \in gc.found
    <3>1. lies[r] = "cur"
      BY <1>6, <2>3 DEF LogPost
    <3>2. PlaceOf(r) \in 1..4 * Queues /\ lies[r] \in Queued
      BY <3>1, PlaceIs DEF Queued, Subs
    <3>3. gc.at \in {"scan", "unlink"} /\ 4 * Queues + l < gc.step
      BY <2>3 DEF PassedLog, BlTyped, Sweep, GcSteps
    <3>4. PassedBy(r)
      BY <3>2, <3>3 DEF PassedBy, BlTyped, Sweep, GcSteps
    <3> QED
      BY <2>3, <3>4
  <2> QED
    BY <1>6, <2>1, <2>2, <2>3 DEF LogPost
<1>7. ASSUME NEW r \in Posts, NEW l \in 1..Logs, LogForgets(l, r) PROVE SweepSound'
  <2>1. \A q \in Posts, k \in 1..Logs : PassedLog(k, q)' => PassedLog(k, q)
    BY <1>7 DEF LogForgets, PassedLog, BlTyped
  <2> QED
    BY <1>7, <2>1 DEF LogForgets, PassedBy, PlaceOf
<1> QED
  BY <1>1, <1>2, <1>3, <1>4, <1>5, <1>6, <1>7

\* The collector: what it passes it has read.
LEMMA SoundSweep ==
  ASSUME BlInv, BlTyped',
         \/ RetentionStarts \/ Candidates \/ ReadDir \/ DirEnds \/ ReadLogFile \/ ScanEnds \/ RetentionEnds
         \/ \E b \in Stored : UnlinkBlob(b)
         \/ \E r \in Posts : ReadPost(r)
  PROVE  SweepSound'
<1> USE BlobsAssumption DEF BlInv, SweepSound
<1>1. gc \in Sweep /\ gc.step \in Nat /\ Queues \in Nat /\ Logs \in Nat
  BY DEF BlTyped, Sweep, GcSteps
<1>2. \A r \in Posts : lies[r] \in Queued =>
        PlaceOf(r) \in 1..4 * Queues /\ \A s \in Nat \ {0} : LiesIn(r, s) <=> PlaceOf(r) = s
  BY PlaceIs
<1>3. CASE RetentionStarts \/ RetentionEnds
  BY <1>1, <1>3 DEF RetentionStarts, RetentionEnds, NoSweep
<1>4. CASE Candidates
  BY <1>1, <1>2, <1>4 DEF Candidates, NoSweep, Sweep, PassedBy, PassedLog, PlaceOf
<1>5. CASE ReadDir
  <2>1. /\ gc'.at = "read" /\ gc'.step = gc.step /\ gc'.old = gc.old /\ gc'.found = gc.found
        /\ gc'.listed = {r \in Posts : LiesIn(r, gc.step)}
    BY <1>1, <1>5 DEF ReadDir, Sweep
  <2>2. \A r \in Posts : PassedBy(r)' => PassedBy(r)
    BY <1>1, <1>2, <1>5, <2>1 DEF ReadDir, PassedBy, PlaceOf
  <2> QED
    BY <1>5, <2>1, <2>2 DEF ReadDir, PassedLog
<1>6. ASSUME NEW r \in Posts, ReadPost(r) PROVE SweepSound'
  <2>1. /\ gc'.at = gc.at /\ gc'.step = gc.step /\ gc'.old = gc.old
        /\ gc'.listed = gc.listed \ {r}
        /\ gc'.found = gc.found \union (gc.old \cap {RefTo[q] : q \in IF LiesIn(r, gc.step) THEN {r} ELSE {}})
    BY <1>1, <1>6 DEF ReadPost, Sweep, WithRefs
  <2>2. \A q \in Posts : PassedBy(q)' => PassedBy(q) \/ (q = r /\ LiesIn(r, gc.step))
    <3>0. gc.at = "read" /\ UNCHANGED lies
      BY <1>6 DEF ReadPost
    <3>1. gc.at = "read" /\ gc.step \in Nat \ {0} /\ UNCHANGED lies
      BY <1>1, <3>0
    <3>2. lies[r] \in Queued => (LiesIn(r, gc.step) <=> PlaceOf(r) = gc.step)
      BY <1>2, <3>1
    <3>3. \A q \in Posts : PlaceOf(q)' = PlaceOf(q)
      BY <3>1 DEF PlaceOf
    <3> QED
      BY <2>1, <3>1, <3>2, <3>3 DEF PassedBy
  <2> QED
    BY <1>6, <2>1, <2>2 DEF ReadPost, PassedLog
<1>7. CASE DirEnds
  <2>1. gc'.at = "scan" /\ gc'.step = gc.step + 1 /\ gc'.old = gc.old /\ gc'.found = gc.found
    BY <1>1, <1>7 DEF DirEnds, Sweep
  <2>2. \A r \in Posts : PassedBy(r)' => PassedBy(r)
    BY <1>1, <1>2, <1>7, <2>1 DEF DirEnds, PassedBy, PlaceOf
  <2>3. \A r \in Posts, l \in 1..Logs : ~PassedLog(l, r)'
    BY <1>1, <1>7, <2>1 DEF DirEnds, PassedLog
  <2> QED
    BY <1>1, <1>7, <2>1, <2>2, <2>3 DEF DirEnds
<1>8. CASE ReadLogFile
  <2> DEFINE k == gc.step - 4 * Queues
  <2>1. /\ gc'.at = "scan" /\ gc'.step = gc.step + 1 /\ gc'.old = gc.old
        /\ gc'.found = gc.found \union (gc.old \cap {RefTo[q] : q \in logged[k]})
    BY <1>1, <1>8 DEF ReadLogFile, Sweep, WithRefs
  <2>2. \A r \in Posts : PassedBy(r)' => PassedBy(r)
    BY <1>1, <1>2, <1>8, <2>1 DEF ReadLogFile, PassedBy, PlaceOf
  <2>3. \A r \in Posts, l \in 1..Logs : PassedLog(l, r)' => PassedLog(l, r) \/ (l = k /\ r \in logged[k])
    BY <1>1, <1>8, <2>1 DEF ReadLogFile, PassedLog
  <2>4. gc'.found \subseteq gc.old /\ gc.found \subseteq gc'.found
    BY <2>1
  <2>5. \A r \in Posts : r \in logged[k] /\ RefTo[r] \in gc.old => RefTo[r] \in gc'.found
    BY <2>1
  <2> HIDE DEF k
  <2> QED
    BY <1>1, <1>8, <2>1, <2>2, <2>3, <2>4, <2>5 DEF ReadLogFile
<1>9. CASE ScanEnds
  <2>1. /\ gc'.at = "unlink" /\ gc'.step = gc.step /\ gc'.old = gc.old /\ gc'.found = gc.found
        /\ gc.step = 4 * Queues + Logs + 1
    BY <1>1, <1>9 DEF ScanEnds, Sweep, GcSteps
  <2> QED
    BY <1>9, <2>1 DEF ScanEnds, PassedBy, PassedLog, PlaceOf
<1>10. ASSUME NEW b \in Stored, UnlinkBlob(b) PROVE SweepSound'
  <2>1. /\ gc'.at = "unlink" /\ gc'.step = gc.step /\ gc'.old = gc.old \ {b} /\ gc'.found = gc.found
        /\ store' = [store EXCEPT ![b] = "gone"] /\ gc.at = "unlink"
    BY <1>1, <1>10 DEF UnlinkBlob, Sweep
  <2>2. \A r \in Posts : PassedBy(r)' <=> PassedBy(r)
    BY <1>10, <2>1 DEF UnlinkBlob, PassedBy, PlaceOf
  <2>3. \A r \in Posts, l \in 1..Logs : PassedLog(l, r)' <=> PassedLog(l, r)
    BY <1>10, <2>1 DEF UnlinkBlob, PassedLog
  <2>4. \A c \in gc'.old : store'[c] = "old"
    BY <1>1, <2>1 DEF BlTyped, Sweep
  <2> QED
    BY <1>10, <2>1, <2>2, <2>3, <2>4 DEF UnlinkBlob
<1> QED
  BY <1>3, <1>4, <1>5, <1>6, <1>7, <1>8, <1>9, <1>10

\* Only the collector takes blobs, and it takes none that it passed a reference to.
LEMMA KeptStep ==
  ASSUME BlInv, BlNext
  PROVE  (SentFirst /\ ReferencedKept)'
<1> USE BlobsAssumption DEF BlInv, SentFirst, ReferencedKept, Refers
<1>1. CASE \E b \in Stored : Upload(b) \/ BlobAges(b)
  <2>1. \A b \in Stored : /\ store[b] # "gone" => store'[b] # "gone"
                          /\ store[b] # "absent" => store'[b] # "absent"
    BY <1>1 DEF Upload, BlobAges, BlTyped
  <2>2. UNCHANGED <<lies, logged, exposed>>
    BY <1>1 DEF Upload, BlobAges
  <2>3. \A r \in Posts : RefTo[r] \in Stored
    OBVIOUS
  <2>4. SentFirst'
    BY <2>1, <2>2, <2>3
  <2>5. ReferencedKept'
    BY <2>1, <2>2, <2>3
  <2> QED
    BY <2>4, <2>5
<1>2. ASSUME NEW b \in Stored, UnlinkBlob(b) PROVE (SentFirst /\ ReferencedKept)'
  <2>1. SentFirst'
    BY <1>2 DEF UnlinkBlob, BlTyped
  <2>2. ASSUME NEW r \in Posts \ exposed, Refers(r), RefTo[r] = b PROVE FALSE
    <3>1. b \in gc.old /\ b \notin gc.found /\ gc.at = "unlink" /\ gc.step = 4 * Queues + Logs + 1
      BY <1>2 DEF UnlinkBlob, SweepSound
    <3>2. CASE lies[r] \in Queued
      <4>1. PlaceOf(r) \in 1..4 * Queues
        BY <3>2, PlaceIs
      <4>2. PassedBy(r)
        BY <3>1, <3>2, <4>1 DEF PassedBy
      <4> QED
        BY <2>2, <3>1, <4>2 DEF SweepSound
    <3>3. ASSUME NEW l \in 1..Logs, r \in logged[l] PROVE FALSE
      <4>1. PassedLog(l, r)
        BY <3>1, <3>3 DEF PassedLog
      <4> QED
        BY <2>2, <3>1, <4>1 DEF SweepSound
    <3> QED
      BY <2>2, <3>2, <3>3
  <2> QED
    BY <1>2, <2>1, <2>2 DEF UnlinkBlob, BlTyped
<1>3. ASSUME NEW r \in Posts, Post(r) PROVE (SentFirst /\ ReferencedKept)'
  BY <1>3 DEF Post, BlTyped
<1>4. ASSUME NEW r \in Posts, Move(r) PROVE (SentFirst /\ ReferencedKept)'
  <2>1. lies[r] # "none"
    BY <1>4 DEF Move, Onward
  <2>2. /\ \A q \in Posts \ {r} : lies'[q] = lies[q]
        /\ lies[r] \in Queued /\ lies'[r] \in Queued \union {"gone"}
    BY <1>4, <2>1, WayOn
  <2> QED
    BY <1>4, <2>2 DEF Move, Queued, Subs
<1>5. ASSUME NEW r \in Posts, RequeuePost(r) \/ PruneArchive(r) PROVE (SentFirst /\ ReferencedKept)'
  <2>1. /\ \A q \in Posts \ {r} : lies'[q] = lies[q]
        /\ lies[r] \in Queued
        /\ UNCHANGED <<store, logged>> /\ exposed \subseteq exposed'
    BY <1>5 DEF RequeuePost, PruneArchive, BlTyped, Queued, Subs
  <2>2. lies[r] # "none" /\ lies'[r] # "none"
    <3>1. lies'[r] = "pending" \/ lies'[r] = "gone"
      BY <1>5 DEF RequeuePost, PruneArchive, BlTyped
    <3> QED
      BY <2>1, <3>1 DEF Queued, Subs
  <2>s. \A q \in Posts : lies'[q] # "none" <=> lies[q] # "none"
    BY <2>1, <2>2
  <2>l. \A l \in 1..Logs : logged[l] \subseteq Posts
    BY DEF BlTyped
  <2>3. SentFirst'
    <3>1. \A q \in Posts : lies'[q] # "none" => store'[RefTo[q]] # "absent"
      BY <2>1, <2>s
    <3>2. \A l \in 1..Logs : \A q \in logged'[l] : lies'[q] # "none"
      BY <2>1, <2>s, <2>l
    <3> QED
      BY <3>1, <3>2
  <2>4. \A q \in Posts : Refers(q)' => Refers(q)
    BY <2>1
  <2>5. ReferencedKept'
    <3> HIDE DEF Refers
    <3> QED
      BY <2>1, <2>4
  <2> QED
    BY <2>3, <2>5
<1>6. ASSUME NEW r \in Posts, NEW l \in 1..Logs, LogPost(l, r) PROVE (SentFirst /\ ReferencedKept)'
  <2>1. \A q \in Posts, k \in 1..Logs : q \in logged'[k] => q \in logged[k] \/ (q = r /\ k = l)
    BY <1>6 DEF LogPost, BlTyped
  <2>2. lies[r] # "none" /\ (r \in exposed \/ lies[r] \in Queued \/ store[RefTo[r]] = "young")
    BY <1>6 DEF LogPost, Queued, Subs
  <2>3. \A k \in 1..Logs : logged'[k] \subseteq Posts
    BY <1>6 DEF LogPost, BlTyped
  <2>4. SentFirst'
    BY <1>6, <2>1, <2>2, <2>3 DEF LogPost
  <2>5. store[RefTo[r]] = "young" => store[RefTo[r]] # "gone"
    OBVIOUS
  <2>6. UNCHANGED <<lies, store, exposed>>
    BY <1>6 DEF LogPost
  <2>7. ASSUME NEW q \in Posts \ exposed, Refers(q)' PROVE store[RefTo[q]] # "gone"
    <3>1. CASE q = r
      BY <2>2, <2>5, <2>7, <3>1
    <3>2. CASE q # r
      BY <2>1, <2>6, <2>7, <3>2
    <3> QED
      BY <3>1, <3>2
  <2> QED
    BY <2>4, <2>6, <2>7
<1>7. ASSUME NEW r \in Posts, NEW l \in 1..Logs, LogForgets(l, r) PROVE (SentFirst /\ ReferencedKept)'
  BY <1>7 DEF LogForgets, BlTyped
<1>8. CASE \/ RetentionStarts \/ Candidates \/ ReadDir \/ DirEnds \/ ReadLogFile \/ ScanEnds
           \/ RetentionEnds \/ \E r \in Posts : ReadPost(r)
  BY <1>8 DEF RetentionStarts, Candidates, ReadDir, DirEnds, ReadLogFile, ScanEnds, RetentionEnds, ReadPost
<1> QED
  BY <1>1, <1>2, <1>3, <1>4, <1>5, <1>6, <1>7, <1>8 DEF BlNext

\* createRetention, gcBlobs: whatever the order of the reads, a blob that a record refers to
\* in a queue, a chat or a journal is not unlinked.
THEOREM ReferencedAreKept == BlSpec => []ReferencedKept
<1>1. BlStart => BlInv
  BY BlobsAssumption
  DEF BlStart, BlIdle, NoSweep, BlInv, BlTyped, Sweep, GcSteps, SweepSound, SentFirst, ReferencedKept,
      Refers, Queued, Subs
<1>2. BlInv /\ [BlNext]_blVars => BlInv'
  <2> SUFFICES ASSUME BlInv, [BlNext]_blVars PROVE BlInv'
    OBVIOUS
  <2>1. CASE BlNext
    <3>1. BlTyped'
      BY <2>1, BlTypes DEF BlInv
    <3>2. SweepSound'
      BY <2>1, <3>1, SoundBesides, SoundSweep
      DEF BlNext, Upload, BlobAges, Post, Move, RequeuePost, PruneArchive, LogPost, LogForgets
    <3> QED
      BY <2>1, <3>1, <3>2, KeptStep DEF BlInv
  <2>2. CASE UNCHANGED blVars
    BY <2>2 DEF blVars, BlInv, BlTyped, SweepSound, SentFirst, ReferencedKept, Refers, PassedBy,
                PassedLog, PlaceOf
  <2> QED
    BY <2>1, <2>2
<1> QED
  BY <1>1, <1>2, PTL DEF BlSpec, BlInv

(***************************************************************************)
(* The gates of local delivery.                                            *)
(***************************************************************************)

Depth == [pending : [Classes -> Nat], cur : {{}, {"gated"}, {"exempt"}}]
Call ==
  [at : {"idle", "member", "depth", "write"}, to : Recipients \union {Nobody}, left : SUBSET Recipients,
   seen : SUBSET {"pending", "cur"}, sum : Nat, overtaken : BOOLEAN]

GaTyped ==
  /\ depth \in [Recipients -> Depth]
  /\ call \in [Callers -> Call]
  /\ held \subseteq Recipients

Behindhand(c) == call[c].at \in {"depth", "write"}

\* Whom a call may reach.
Reaches(c, r) ==
  \/ Plan[c].to = r
  \/ Plan[c].to \in DOMAIN Members /\ r \in Members[Plan[c].to]

\* A call behind the gates came through them, or a pause overtook it there.
CallsPassed == \A c \in Callers :
  /\ \A r \in call[c].left : Reaches(c, r)
  /\ Behindhand(c) => /\ call[c].to \in Recipients /\ Reaches(c, call[c].to)
                      /\ call[c].overtaken \/ PausePasses(c, call[c].to)
  /\ call[c].at = "depth" => ~Plan[c].exempt /\ Limit[call[c].to] > 0

\* The calls that nothing can refuse any more, unless cur/ does: they have read a
\* pending/ that is short enough.
Admitted(r) ==
  {c \in Callers : /\ call[c].to = r /\ ~Plan[c].exempt
                   /\ \/ call[c].at = "write"
                      \/ call[c].at = "depth" /\ "pending" \in call[c].seen /\ call[c].sum < Limit[r]}

\* What is there and what is bound to come.
Budgeted == \A r \in Recipients :
  Limit[r] > 0 => Undrained(r) + Cardinality(Admitted(r)) <= Limit[r] + Cardinality(Gated(r))

GaInv == GaTyped /\ CallsPassed /\ Budgeted

\* The calls that are admitted to r are some of those its limit is for.
LEMMA AdmittedAreGated ==
  ASSUME CallsPassed, NEW r
  PROVE  /\ Admitted(r) \subseteq Gated(r)
         /\ IsFiniteSet(Gated(r)) /\ IsFiniteSet(Admitted(r))
         /\ Cardinality(Admitted(r)) \in Nat /\ Cardinality(Gated(r)) \in Nat
         /\ Cardinality(Admitted(r)) <= Cardinality(Gated(r))
<1>1. Admitted(r) \subseteq Gated(r)
  BY DEF Admitted, Gated, CallsPassed, Behindhand, Reaches
<1>2. Gated(r) \subseteq Callers /\ IsFiniteSet(Callers)
  BY GatesAssumption DEF Gated
<1>3. IsFiniteSet(Gated(r))
  BY <1>2, FS_Subset
<1> QED
  BY <1>1, <1>3, FS_Subset, FS_CardinalityType

\* How many records lie in cur/, and which of them count.
LEMMA DepthOf ==
  ASSUME GaTyped, NEW r \in Recipients
  PROVE  /\ depth[r] \in Depth
         /\ Cardinality(depth[r].cur) \in {0, 1}
         /\ Undrained(r) \in Nat
         /\ Undrained(r) <= depth[r].pending["gated"] + Cardinality(depth[r].cur)
<1>1. depth[r] \in Depth
  BY DEF GaTyped
<1>2. depth[r].cur \in {{}, {"gated"}, {"exempt"}} /\ depth[r].pending["gated"] \in Nat
  BY <1>1 DEF Depth, Classes
<1>3. Cardinality(depth[r].cur) = IF depth[r].cur = {} THEN 0 ELSE 1
  BY <1>2, FS_EmptySet, FS_Singleton
<1> QED
  BY <1>1, <1>2, <1>3 DEF Undrained

\* A step that lets nobody new in, or only where there is room, keeps the budget.
LEMMA BudgetKept ==
  ASSUME GaInv, GaTyped', CallsPassed', NEW r \in Recipients, Limit[r] > 0,
         \/ Undrained(r)' <= Limit[r]
         \/ Undrained(r)' <= Undrained(r) /\ Admitted(r)' \subseteq Admitted(r)
         \/ /\ Undrained(r)' <= Undrained(r) + 1
            /\ \E c \in Admitted(r) : Admitted(r)' \subseteq Admitted(r) \ {c}
  PROVE  (Undrained(r) + Cardinality(Admitted(r)) <= Limit[r] + Cardinality(Gated(r)))'
<1>1. Limit[r] \in Nat /\ Undrained(r) \in Nat /\ Undrained(r)' \in Nat
  BY GatesAssumption, DepthOf DEF GaInv, GaTyped, Depth, Undrained, Classes
<1>2. /\ Cardinality(Admitted(r)) \in Nat /\ IsFiniteSet(Admitted(r))
      /\ Undrained(r) + Cardinality(Admitted(r)) <= Limit[r] + Cardinality(Gated(r))
      /\ Cardinality(Gated(r)) \in Nat
  BY AdmittedAreGated DEF GaInv, Budgeted
<1>3. /\ Cardinality(Admitted(r)') \in Nat /\ Cardinality(Admitted(r)') <= Cardinality(Gated(r))
  <2>1. Admitted(r)' \subseteq Gated(r)
    BY DEF Admitted, Gated, CallsPassed, Behindhand, Reaches
  <2> QED
    BY <2>1, AdmittedAreGated, FS_Subset, FS_CardinalityType DEF GaInv
<1>4. CASE Undrained(r)' <= Limit[r]
  BY <1>1, <1>2, <1>3, <1>4 DEF Gated
<1>5. CASE Undrained(r)' <= Undrained(r) /\ Admitted(r)' \subseteq Admitted(r)
  <2>1. Cardinality(Admitted(r)') <= Cardinality(Admitted(r))
    BY <1>2, <1>5, FS_Subset
  <2> QED
    BY <1>1, <1>2, <1>3, <1>5, <2>1 DEF Gated
<1>6. ASSUME NEW c \in Admitted(r), Admitted(r)' \subseteq Admitted(r) \ {c},
             Undrained(r)' <= Undrained(r) + 1
      PROVE  (Undrained(r) + Cardinality(Admitted(r)) <= Limit[r] + Cardinality(Gated(r)))'
  <2>1. IsFiniteSet(Admitted(r) \ {c}) /\ Cardinality(Admitted(r) \ {c}) = Cardinality(Admitted(r)) - 1
    BY <1>2, FS_RemoveElement
  <2>2. Cardinality(Admitted(r)') <= Cardinality(Admitted(r) \ {c})
    BY <1>6, <2>1, FS_Subset
  <2> QED
    BY <1>1, <1>2, <1>3, <1>6, <2>1, <2>2 DEF Gated
<1> QED
  BY <1>4, <1>5, <1>6

\* What one call's step makes of that call.
Turns(c, k) == call' = [call EXCEPT ![c] = k]

\* A call that is not admitted after its step, or was before it, takes no room.
LEMMA CallTurns ==
  ASSUME GaInv, NEW c \in Callers, NEW k \in Call, Turns(c, k), GaTyped', CallsPassed', UNCHANGED depth,
         \A r \in Recipients : Limit[r] > 0 /\ c \in Admitted(r)' =>
           c \in Admitted(r) \/ Undrained(r) <= Limit[r]
  PROVE  Budgeted'
<1> SUFFICES ASSUME NEW r \in Recipients, Limit[r] > 0
             PROVE  (Undrained(r) + Cardinality(Admitted(r)) <= Limit[r] + Cardinality(Gated(r)))'
  BY DEF Budgeted
<1>1. Undrained(r)' = Undrained(r) /\ Undrained(r) \in Nat
  BY DepthOf DEF Undrained, GaInv
<1>2. \A d \in Callers : d # c => call'[d] = call[d]
  BY DEF Turns, GaInv, GaTyped
<1>3. Admitted(r)' \subseteq Admitted(r) \union {c}
  BY <1>2 DEF Admitted
<1>4. CASE c \in Admitted(r)' /\ c \notin Admitted(r)
  BY <1>1, <1>4, BudgetKept
<1>5. CASE ~(c \in Admitted(r)' /\ c \notin Admitted(r))
  <2>1. Admitted(r)' \subseteq Admitted(r)
    BY <1>3, <1>5
  <2> QED
    BY <1>1, <2>1, BudgetKept
<1> QED
  BY <1>4, <1>5

\* The types and the passage of a call that turns.
LEMMA CallPasses ==
  ASSUME GaInv, NEW c \in Callers, NEW k \in Call, Turns(c, k), UNCHANGED held,
         \A r \in k.left : Reaches(c, r),
         k.at \in {"depth", "write"} => /\ k.to \in Recipients /\ Reaches(c, k.to)
                                        /\ k.overtaken \/ PausePasses(c, k.to),
         k.at = "depth" => ~Plan[c].exempt /\ Limit[k.to] > 0
  PROVE  call' \in [Callers -> Call] /\ CallsPassed'
<1>1. call' \in [Callers -> Call] /\ call'[c] = k /\ \A d \in Callers : d # c => call'[d] = call[d]
  BY DEF Turns, GaInv, GaTyped
<1>2. CallsPassed'
  <2> SUFFICES ASSUME NEW d \in Callers
               PROVE  (/\ \A r \in call[d].left : Reaches(d, r)
                       /\ Behindhand(d) => /\ call[d].to \in Recipients /\ Reaches(d, call[d].to)
                                           /\ call[d].overtaken \/ PausePasses(d, call[d].to)
                       /\ call[d].at = "depth" => ~Plan[d].exempt /\ Limit[call[d].to] > 0)'
    BY DEF CallsPassed
  <2>1. CASE d = c
    BY <1>1, <2>1 DEF Behindhand, Reaches, PausePasses
  <2>2. CASE d # c
    <3>1. call'[d] = call[d]
      BY <1>1, <2>2
    <3> QED
      BY <3>1 DEF GaInv, CallsPassed, Behindhand, Reaches, PausePasses
  <2> QED
    BY <2>1, <2>2
<1> QED
  BY <1>1, <1>2

\* A call behind the gates of r.
LEMMA BehindIs ==
  ASSUME GaInv, NEW c \in Callers, NEW r \in Recipients, NEW left \in SUBSET Recipients
  PROVE  /\ Behind(c, r, left) \in Call
         /\ Behind(c, r, left).to = r /\ Behind(c, r, left).left = left
         /\ Behind(c, r, left).seen = {} /\ ~Behind(c, r, left).overtaken
         /\ Behind(c, r, left).at = IF Plan[c].exempt \/ Limit[r] = 0 THEN "write" ELSE "depth"
  BY DEF Behind, NoCall, Call

\* What follows a recipient is a call again, of nobody.
LEMMA OnwardsIs ==
  ASSUME GaInv, NEW c \in Callers
  PROVE  /\ Onwards(c) \in Call /\ Onwards(c).at \in {"idle", "member"}
         /\ Onwards(c).left \subseteq call[c].left /\ Onwards(c).to = Nobody
<1>1. call[c] \in Call
  BY DEF GaInv, GaTyped
<1>2. NoCall \in Call
  BY DEF NoCall, Call
<1>3. [NoCall EXCEPT !.at = "member", !.left = call[c].left] \in Call
  BY <1>1, <1>2 DEF NoCall, Call
<1> QED
  BY <1>1, <1>2, <1>3 DEF Onwards, NoCall

\* No limit, no refusal: a call without a limit is in no budget.
LEMMA NoLimitNoBudget ==
  ASSUME GaInv, NEW c \in Callers, NEW k \in Call, Turns(c, k),
         k.at \notin {"depth", "write"} \/ (k.at = "write" /\ (Plan[c].exempt \/ Limit[k.to] = 0))
           \/ (k.at = "depth" /\ "pending" \notin k.seen)
  PROVE  \A r \in Recipients : Limit[r] > 0 => c \notin Admitted(r)'
<1>1. call'[c] = k
  BY DEF Turns, GaInv, GaTyped
<1> QED
  BY <1>1 DEF Admitted

\* A call that turns, of which no budget knows.
LEMMA FreeTurn ==
  ASSUME GaInv, NEW c \in Callers, NEW k \in Call, Turns(c, k), UNCHANGED <<held, depth>>,
         \A r \in k.left : Reaches(c, r),
         k.at \in {"depth", "write"} => /\ k.to \in Recipients /\ Reaches(c, k.to)
                                        /\ k.overtaken \/ PausePasses(c, k.to),
         k.at = "depth" => ~Plan[c].exempt /\ Limit[k.to] > 0 /\ "pending" \notin k.seen,
         k.at = "write" => Plan[c].exempt \/ Limit[k.to] = 0
  PROVE  GaInv'
<1>1. call' \in [Callers -> Call] /\ CallsPassed'
  BY CallPasses
<1>2. GaTyped'
  BY <1>1 DEF GaInv, GaTyped
<1>3. \A r \in Recipients : Limit[r] > 0 => c \notin Admitted(r)'
  BY NoLimitNoBudget
<1>4. Budgeted'
  BY <1>1, <1>2, <1>3, CallTurns
<1> QED
  BY <1>1, <1>2, <1>4 DEF GaInv

\* A call, up to its gates.
LEMMA CallsIn ==
  ASSUME GaInv, NEW c \in Callers,
         \/ Route(c)
         \/ \E r \in call[c].left : DeliverMember(c, r)
         \/ FanoutEnds(c)
  PROVE  GaInv' /\ UNCHANGED depth
<1> USE GatesAssumption
<1>0. call[c] \in Call /\ NoCall \in Call
  BY DEF GaInv, GaTyped, NoCall, Call
<1>1. CASE Route(c)
  <2>1. UNCHANGED <<held, depth>>
    BY <1>1 DEF Route
  <2>2. CASE RouteOne(c)
    <3> DEFINE k == Behind(c, Plan[c].to, {})
    <3>1. Plan[c].to \in Recipients /\ PausePasses(c, Plan[c].to) /\ Turns(c, k)
      BY <2>2 DEF RouteOne, Turns
    <3>2. /\ k \in Call /\ k.to = Plan[c].to /\ k.left = {} /\ k.seen = {}
          /\ k.at = IF Plan[c].exempt \/ Limit[Plan[c].to] = 0 THEN "write" ELSE "depth"
      BY <3>1, BehindIs
    <3> HIDE DEF k
    <3>3. Reaches(c, k.to)
      BY <3>2 DEF Reaches
    <3> QED
      BY <2>1, <3>1, <3>2, <3>3, FreeTurn
  <2>3. CASE RouteFanout(c)
    <3> DEFINE k == [NoCall EXCEPT !.at = "member", !.left = Members[Plan[c].to] \ {Plan[c].from}]
    <3>1. Plan[c].to \in DOMAIN Members /\ Turns(c, k)
      BY <2>3 DEF RouteFanout, Turns
    <3>2. k \in Call /\ k.at = "member" /\ k.left \subseteq Members[Plan[c].to]
      BY <1>0, <3>1 DEF Call, NoCall
    <3> HIDE DEF k
    <3>3. \A r \in k.left : Reaches(c, r)
      BY <3>1, <3>2 DEF Reaches
    <3> QED
      BY <2>1, <3>1, <3>2, <3>3, FreeTurn
  <2> QED
    BY <1>1, <2>1, <2>2, <2>3 DEF Route
<1>2. ASSUME NEW r \in call[c].left, DeliverMember(c, r) PROVE GaInv' /\ UNCHANGED depth
  <2>0. UNCHANGED <<held, depth>> /\ r \in Recipients /\ Reaches(c, r)
    BY <1>0, <1>2 DEF DeliverMember, GaInv, CallsPassed, Call
  <2>1. CASE r \in held
    <3> DEFINE k == [call[c] EXCEPT !.left = @ \ {r}]
    <3> DEFINE other == Behind(c, r, call[c].left \ {r})
    <3>0. call' = [call EXCEPT ![c] = IF r \in held THEN k ELSE other]
      BY <1>2 DEF DeliverMember
    <3>1. Turns(c, k)
      <4> HIDE DEF k, other
      <4> QED
        BY <2>1, <3>0 DEF Turns
    <3>2. k \in Call /\ k.at = "member" /\ k.left \subseteq call[c].left
      BY <1>0, <1>2 DEF Call, DeliverMember
    <3> HIDE DEF k
    <3>3. \A q \in k.left : Reaches(c, q)
      BY <3>2 DEF GaInv, CallsPassed
    <3> QED
      BY <2>0, <3>1, <3>2, <3>3, FreeTurn
  <2>2. CASE r \notin held
    <3> DEFINE left == call[c].left \ {r}
               k == Behind(c, r, left)
    <3>1. Turns(c, k) /\ PausePasses(c, r)
      BY <1>2, <2>2 DEF DeliverMember, Turns, PausePasses
    <3>2. left \in SUBSET Recipients /\ \A q \in left : Reaches(c, q)
      BY <1>0 DEF Call, GaInv, CallsPassed
    <3>3. /\ k \in Call /\ k.to = r /\ k.left = left /\ k.seen = {}
          /\ k.at = IF Plan[c].exempt \/ Limit[r] = 0 THEN "write" ELSE "depth"
      BY <2>0, <3>2, BehindIs
    <3> HIDE DEF k, left
    <3> QED
      BY <2>0, <3>1, <3>2, <3>3, FreeTurn
  <2> QED
    BY <2>1, <2>2
<1>3. CASE FanoutEnds(c)
  <2>1. Turns(c, NoCall) /\ UNCHANGED <<held, depth>> /\ NoCall.at = "idle" /\ NoCall.left = {}
    BY <1>3 DEF FanoutEnds, Turns, NoCall
  <2> QED
    BY <1>0, <2>1, FreeTurn
<1> QED
  BY <1>1, <1>2, <1>3

\* A call that turns where it is, between its reads and its write.
LEMMA CallGoesOn ==
  ASSUME GaInv, NEW c \in Callers, NEW k \in Call, Turns(c, k), UNCHANGED <<held, depth>>,
         call[c].at = "depth", k.at \in {"depth", "write"}, k.to = call[c].to, k.left = call[c].left,
         k.overtaken = call[c].overtaken,
         \A r \in Recipients : Limit[r] > 0 /\ c \in Admitted(r)' =>
           c \in Admitted(r) \/ Undrained(r) <= Limit[r]
  PROVE  GaInv'
<1>1. call' \in [Callers -> Call] /\ CallsPassed'
  BY CallPasses DEF GaInv, CallsPassed, Behindhand
<1>2. GaTyped'
  BY <1>1 DEF GaInv, GaTyped
<1>3. Budgeted'
  BY <1>1, <1>2, CallTurns
<1> QED
  BY <1>1, <1>2, <1>3 DEF GaInv

\* What a call reads of the depth, and what it makes of it.
LEMMA CallsRead ==
  ASSUME GaInv, NEW c \in Callers, ReadPending(c) \/ ReadCur(c) \/ AdmitOrRefuse(c)
  PROVE  GaInv' /\ UNCHANGED depth
<1> USE GatesAssumption
<1> DEFINE to == call[c].to
<1>1. /\ call[c] \in Call /\ call[c].at = "depth" /\ UNCHANGED <<held, depth>>
      /\ to \in Recipients /\ ~Plan[c].exempt /\ Limit[to] > 0 /\ Limit[to] \in Nat
  BY DEF GaInv, GaTyped, ReadPending, ReadCur, Reading, AdmitOrRefuse, CallsPassed, Behindhand
<1>2. /\ depth[to] \in Depth /\ Cardinality(depth[to].cur) \in {0, 1} /\ Undrained(to) \in Nat
      /\ Undrained(to) <= depth[to].pending["gated"] + Cardinality(depth[to].cur)
      /\ depth[to].pending["gated"] \in Nat /\ depth[to].pending["exempt"] \in Nat
  BY <1>1, DepthOf DEF GaInv, Depth, Classes
<1>3. ASSUME NEW dir \in {"pending", "cur"}, NEW n \in Nat, Reading(c, dir, n),
             dir = "pending" => n = depth[to].pending["gated"] + depth[to].pending["exempt"]
      PROVE  GaInv'
  <2> DEFINE k == [call[c] EXCEPT !.seen = @ \union {dir}, !.sum = @ + n]
  <2>1. Turns(c, k)
    BY <1>1, <1>3 DEF Reading, Turns, GaInv, GaTyped
  <2>2. /\ k \in Call /\ k.at = "depth" /\ k.to = to /\ k.left = call[c].left
        /\ k.overtaken = call[c].overtaken /\ k.seen = call[c].seen \union {dir}
        /\ k.sum = call[c].sum + n
    <3>1. call[c].seen \union {dir} \in SUBSET {"pending", "cur"} /\ call[c].sum + n \in Nat
      BY <1>1, <1>3 DEF Call
    <3>2. /\ k.at = call[c].at /\ k.to = call[c].to /\ k.left = call[c].left
          /\ k.overtaken = call[c].overtaken /\ k.seen = call[c].seen \union {dir}
          /\ k.sum = call[c].sum + n
      BY <1>1 DEF Call
    <3>3. k \in Call
      BY <1>1, <3>1 DEF Call
    <3> QED
      BY <1>1, <3>2, <3>3
  <2>3. call'[c] = k
    BY <2>1 DEF Turns, GaInv, GaTyped
  <2> HIDE DEF k
  <2>4. ASSUME NEW r \in Recipients, Limit[r] > 0, c \in Admitted(r)'
        PROVE  c \in Admitted(r) \/ Undrained(r) <= Limit[r]
    <3>1. r = to /\ "pending" \in k.seen /\ k.sum < Limit[to]
      BY <2>2, <2>3, <2>4 DEF Admitted
    <3>2. call[c].sum \in Nat
      BY <1>1 DEF Call
    <3>3. CASE dir = "pending"
      BY <1>1, <1>2, <1>3, <2>2, <3>1, <3>2, <3>3
    <3>4. CASE dir = "cur"
      <4>1. "pending" \in call[c].seen
        BY <2>2, <3>1, <3>4
      <4>2. call[c].sum < Limit[to]
        BY <1>1, <1>3, <2>2, <3>1, <3>2
      <4> QED
        BY <1>1, <3>1, <4>1, <4>2 DEF Admitted
    <3> QED
      BY <3>3, <3>4
  <2> QED
    BY <1>1, <2>1, <2>2, <2>4, CallGoesOn
<1>4. CASE ReadPending(c)
  <2> DEFINE n == depth[to].pending["gated"] + depth[to].pending["exempt"]
  <2>1. n \in Nat
    BY <1>2
  <2>2. Reading(c, "pending", n)
    BY <1>4 DEF ReadPending
  <2>3. GaInv'
    BY <1>3, <2>1, <2>2
  <2> QED
    BY <1>1, <2>3
<1>5. CASE ReadCur(c)
  BY <1>1, <1>2, <1>3, <1>5 DEF ReadCur
<1>6. CASE AdmitOrRefuse(c)
  <2>1. call[c].sum \in Nat /\ call[c].seen = {"pending", "cur"}
    BY <1>1, <1>6 DEF Call, AdmitOrRefuse
  <2>2. CASE call[c].sum >= Limit[to]
    <3>1. Turns(c, Onwards(c))
      BY <1>6, <2>2 DEF AdmitOrRefuse, Turns
    <3>2. /\ Onwards(c) \in Call /\ Onwards(c).at \in {"idle", "member"}
          /\ Onwards(c).left \subseteq call[c].left
      BY OnwardsIs
    <3>3. \A r \in Onwards(c).left : Reaches(c, r)
      BY <3>2 DEF GaInv, CallsPassed
    <3> QED
      BY <1>1, <3>1, <3>2, <3>3, FreeTurn
  <2>3. CASE call[c].sum < Limit[to]
    <3> DEFINE k == [call[c] EXCEPT !.at = "write"]
    <3> DEFINE other == Onwards(c)
    <3>0. call' = [call EXCEPT ![c] = IF call[c].sum >= Limit[to] THEN other ELSE k]
      BY <1>6 DEF AdmitOrRefuse
    <3>1. Turns(c, k)
      <4> HIDE DEF k, other
      <4> QED
        <5>1. ~(call[c].sum >= Limit[to])
          BY <1>1, <2>1, <2>3
        <5>2. (IF call[c].sum >= Limit[to] THEN other ELSE k) = k
          BY <5>1
        <5> QED
          BY <3>0, <5>2 DEF Turns
    <3>2. k \in Call /\ k.at = "write" /\ k.to = to /\ k.left = call[c].left /\ k.overtaken = call[c].overtaken
      BY <1>1 DEF Call
    <3>3. call'[c] = k
      BY <3>1 DEF Turns, GaInv, GaTyped
    <3> HIDE DEF k
    <3>4. \A r \in Recipients : c \in Admitted(r)' => c \in Admitted(r)
      BY <1>1, <2>1, <2>3, <3>2, <3>3 DEF Admitted
    <3> QED
      BY <1>1, <3>1, <3>2, <3>4, CallGoesOn
  <2> QED
    BY <1>1, <2>1, <2>2, <2>3
<1> QED
  BY <1>1, <1>4, <1>5, <1>6

\* The write: what was bound to come has come.
LEMMA CallsWrite ==
  ASSUME GaInv, NEW c \in Callers, Enqueue(c) \/ EnqueueFails(c)
  PROVE  GaInv'
<1> USE GatesAssumption
<1> DEFINE to == call[c].to
<1>1. call[c] \in Call /\ call[c].at = "write" /\ to \in Recipients /\ UNCHANGED held /\ NoCall \in Call
  BY DEF GaInv, GaTyped, Enqueue, EnqueueFails, CallsPassed, Behindhand, NoCall, Call
<1>2. CASE EnqueueFails(c)
  <2>1. Turns(c, NoCall) /\ UNCHANGED depth /\ NoCall.at = "idle" /\ NoCall.left = {}
    BY <1>2 DEF EnqueueFails, Turns, NoCall
  <2> QED
    BY <1>1, <2>1, FreeTurn
<1>3. CASE Enqueue(c)
  <2> DEFINE k == Onwards(c)
             d == [depth[to] EXCEPT !.pending[ClassOf(c)] = @ + 1]
  <2>1. Turns(c, k) /\ k \in Call /\ k.at \in {"idle", "member"} /\ k.left \subseteq call[c].left
    BY <1>3, OnwardsIs DEF Enqueue, Turns
  <2>2. \A r \in k.left : Reaches(c, r)
    BY <2>1 DEF GaInv, CallsPassed
  <2> HIDE DEF k
  <2>3. call' \in [Callers -> Call] /\ CallsPassed'
    BY <1>1, <2>1, <2>2, CallPasses
  <2>4. ClassOf(c) \in Classes /\ depth[to] \in Depth
    BY <1>1, DepthOf DEF ClassOf, Classes, GaInv
  <2>5. /\ d \in Depth /\ d.cur = depth[to].cur
        /\ d.pending = [depth[to].pending EXCEPT ![ClassOf(c)] = @ + 1]
    <3>1. depth[to].pending \in [Classes -> Nat] /\ depth[to].pending[ClassOf(c)] + 1 \in Nat
      BY <2>4 DEF Depth
    <3>2. [depth[to].pending EXCEPT ![ClassOf(c)] = @ + 1] \in [Classes -> Nat]
      BY <3>1
    <3> QED
      BY <2>4, <3>2 DEF Depth
  <2>6. depth' = [depth EXCEPT ![to] = d]
    BY <1>1, <1>3 DEF Enqueue, GaInv, GaTyped
  <2> HIDE DEF d
  <2>7. depth' \in [Recipients -> Depth] /\ depth'[to] = d /\ \A r \in Recipients \ {to} : depth'[r] = depth[r]
    BY <1>1, <2>5, <2>6 DEF GaInv, GaTyped
  <2>8. GaTyped'
    BY <1>1, <2>3, <2>7 DEF GaInv, GaTyped
  <2>9. /\ call'[c] = k /\ \A e \in Callers \ {c} : call'[e] = call[e]
    BY <2>1 DEF Turns, GaInv, GaTyped
  <2>10. \A r \in Recipients : Admitted(r)' \subseteq Admitted(r) \ {c}
    BY <2>1, <2>9 DEF Admitted
  <2>11. ASSUME NEW r \in Recipients, Limit[r] > 0
         PROVE  (Undrained(r) + Cardinality(Admitted(r)) <= Limit[r] + Cardinality(Gated(r)))'
    <3>1. CASE r = to /\ ~Plan[c].exempt
      <4>1. c \in Admitted(r)
        BY <1>1, <3>1 DEF Admitted
      <4>2. ClassOf(c) = "gated"
        BY <2>11, <3>1 DEF ClassOf
      <4>3. Undrained(r)' <= Undrained(r) + 1
        <5>1. d.pending["gated"] = depth[to].pending["gated"] + 1 /\ depth[to].pending["gated"] \in Nat
          BY <2>4, <2>5, <4>2 DEF Depth, Classes
        <5> QED
          BY <2>5, <2>7, <3>1, <5>1 DEF Undrained
      <4> QED
        BY <2>3, <2>8, <2>10, <2>11, <4>1, <4>3, BudgetKept
    <3>2. CASE r # to \/ Plan[c].exempt
      <4>1. Undrained(r)' = Undrained(r)
        <5>1. CASE r # to
          BY <2>7, <5>1 DEF Undrained
        <5>2. CASE r = to /\ Plan[c].exempt
          <6>1. ClassOf(c) = "exempt"
            BY <5>2 DEF ClassOf
          <6>2. d.pending["gated"] = depth[to].pending["gated"]
            BY <2>4, <2>5, <6>1 DEF Depth, Classes
          <6> QED
            BY <2>5, <2>7, <5>2, <6>2 DEF Undrained
        <5> QED
          BY <3>2, <5>1, <5>2
      <4>2. Undrained(r)' <= Undrained(r)
        BY <4>1, DepthOf DEF GaInv
      <4> QED
        BY <2>3, <2>8, <2>10, <2>11, <4>2, BudgetKept
    <3> QED
      BY <3>1, <3>2
  <2> QED
    BY <2>3, <2>8, <2>11 DEF GaInv, Budgeted
<1> QED
  BY <1>2, <1>3

\* A recipient works its queue off: less is there, or as much.
LEMMA RecipientWorks ==
  ASSUME GaInv, NEW r \in Recipients, Drained(r) \/ \E k \in Classes : Claimed(r, k)
  PROVE  GaInv' /\ \A q \in Recipients, k \in Classes : depth'[q].pending[k] <= depth[q].pending[k]
<1>1. UNCHANGED <<call, held>> /\ depth[r] \in Depth
  BY DepthOf DEF Drained, Claimed, GaInv
<1>2. CallsPassed'
  BY <1>1 DEF GaInv, CallsPassed, Behindhand, Reaches, PausePasses
<1>3. ASSUME NEW d \in Depth, depth' = [depth EXCEPT ![r] = d],
             \A k \in Classes : d.pending[k] <= depth[r].pending[k],
             d.pending["gated"] + (IF "gated" \in d.cur THEN 1 ELSE 0) <= Undrained(r)
      PROVE  GaInv' /\ \A q \in Recipients, k \in Classes : depth'[q].pending[k] <= depth[q].pending[k]
  <2>1. depth' \in [Recipients -> Depth] /\ depth'[r] = d /\ \A q \in Recipients \ {r} : depth'[q] = depth[q]
    BY <1>3 DEF GaInv, GaTyped
  <2>2. GaTyped'
    BY <1>1, <2>1 DEF GaInv, GaTyped
  <2>3. \A q \in Recipients : Undrained(q)' <= Undrained(q)
    <3> TAKE q \in Recipients
    <3>1. CASE q = r
      BY <1>3, <2>1, <3>1 DEF Undrained
    <3>2. CASE q # r
      BY <2>1, <3>2, DepthOf DEF Undrained, GaInv
    <3> QED
      BY <3>1, <3>2
  <2>4. \A q \in Recipients : Admitted(q)' \subseteq Admitted(q)
    BY <1>1 DEF Admitted
  <2>5. Budgeted'
    BY <1>2, <2>2, <2>3, <2>4, BudgetKept DEF Budgeted
  <2>6. \A q \in Recipients, k \in Classes : depth[q].pending[k] \in Nat
    BY DepthOf DEF Depth, GaInv
  <2> QED
    BY <1>2, <1>3, <2>1, <2>2, <2>5, <2>6 DEF GaInv
<1>4. depth[r].pending["gated"] \in Nat /\ \A k \in Classes : depth[r].pending[k] \in Nat
  BY <1>1 DEF Depth, Classes
<1>5. CASE Drained(r)
  <2> DEFINE d == [depth[r] EXCEPT !.cur = {}]
  <2>1. d \in Depth /\ d.pending = depth[r].pending /\ d.cur = {}
    BY <1>1 DEF Depth
  <2>2. depth' = [depth EXCEPT ![r] = d]
    BY <1>5 DEF Drained, GaInv, GaTyped
  <2> HIDE DEF d
  <2>3. \A k \in Classes : d.pending[k] <= depth[r].pending[k]
    BY <1>4, <2>1
  <2>4. d.pending["gated"] + (IF "gated" \in d.cur THEN 1 ELSE 0) <= Undrained(r)
    BY <1>4, <2>1 DEF Undrained
  <2> QED
    BY <1>3, <2>1, <2>2, <2>3, <2>4
<1>6. ASSUME NEW k \in Classes, Claimed(r, k)
      PROVE  GaInv' /\ \A q \in Recipients, j \in Classes : depth'[q].pending[j] <= depth[q].pending[j]
  <2> DEFINE d == [depth[r] EXCEPT !.pending[k] = @ - 1, !.cur = {k}]
  <2>1. /\ d.pending = [depth[r].pending EXCEPT ![k] = @ - 1] /\ d.cur = {k}
        /\ depth[r].cur = {} /\ depth[r].pending[k] > 0
    BY <1>1, <1>6 DEF Depth, Claimed
  <2>2. [depth[r].pending EXCEPT ![k] = @ - 1] \in [Classes -> Nat] /\ {k} \in {{}, {"gated"}, {"exempt"}}
    BY <1>1, <1>4, <2>1 DEF Depth, Classes
  <2>3. d \in Depth
    BY <1>1, <2>2 DEF Depth
  <2>4. depth' = [depth EXCEPT ![r] = d]
    BY <1>6 DEF Claimed, GaInv, GaTyped
  <2> HIDE DEF d
  <2>5. \A j \in Classes : d.pending[j] = IF j = k THEN depth[r].pending[k] - 1 ELSE depth[r].pending[j]
    BY <1>1, <2>1 DEF Depth
  <2>6. d.pending["gated"] + (IF "gated" \in d.cur THEN 1 ELSE 0) <= Undrained(r)
    BY <1>4, <2>1, <2>5 DEF Undrained, Classes
  <2>7. \A j \in Classes : d.pending[j] <= depth[r].pending[j]
    BY <1>4, <2>5
  <2> QED
    BY <1>3, <2>3, <2>4, <2>6, <2>7
<1> QED
  BY <1>5, <1>6

\* A pause overtakes whoever is behind the gate.
LEMMA PauseTurns ==
  ASSUME GaInv, NEW r \in Recipients, PauseSet(r) \/ PauseLifted(r)
  PROVE  GaInv' /\ UNCHANGED depth
<1>1. CASE PauseLifted(r)
  <2>1. UNCHANGED <<call, depth>> /\ held' = held \ {r}
    BY <1>1 DEF PauseLifted
  <2>2. CallsPassed'
    BY <2>1 DEF GaInv, CallsPassed, Behindhand, Reaches, PausePasses
  <2> QED
    BY <2>1, <2>2 DEF GaInv, GaTyped, Budgeted, Undrained, Admitted, Gated
<1>2. CASE PauseSet(r)
  <2>1. /\ held' = held \union {r} /\ UNCHANGED depth
        /\ call' = [c \in Callers |-> IF call[c].to = r THEN [call[c] EXCEPT !.overtaken = TRUE] ELSE call[c]]
    BY <1>2 DEF PauseSet
  <2>2. \A c \in Callers :
          /\ call'[c] \in Call
          /\ call'[c].at = call[c].at /\ call'[c].to = call[c].to /\ call'[c].left = call[c].left
          /\ call'[c].seen = call[c].seen /\ call'[c].sum = call[c].sum
          /\ call'[c].overtaken = (call[c].to = r \/ call[c].overtaken)
    BY <2>1 DEF GaInv, GaTyped, Call
  <2>3. GaTyped'
    BY <2>1, <2>2 DEF GaInv, GaTyped
  <2>4. CallsPassed'
    BY <2>1, <2>2 DEF GaInv, CallsPassed, Behindhand, Reaches, PausePasses
  <2>5. \A q : Admitted(q)' = Admitted(q)
    BY <2>2 DEF Admitted
  <2> QED
    BY <2>1, <2>3, <2>4, <2>5 DEF GaInv, Budgeted, Undrained, Gated
<1> QED
  BY <1>1, <1>2

\* A paused recipient gets what passed its gate before.
LEMMA WritesArePassed ==
  ASSUME GaInv, NEW c \in Callers, Enqueue(c)
  PROVE  PauseSoftly
<1> SUFFICES ASSUME NEW r \in held, NEW k \in Classes, depth'[r].pending[k] > depth[r].pending[k]
             PROVE  /\ call[c].at = "write" /\ call'[c].at # "write" /\ call[c].to = r
                    /\ call[c].overtaken \/ PausePasses(c, r)
  BY DEF PauseSoftly
<1>1. call[c].at = "write" /\ call[c].to \in Recipients /\ r \in Recipients
  BY DEF Enqueue, GaInv, GaTyped, CallsPassed, Behindhand
<1>2. call'[c].at # "write"
  BY OnwardsIs DEF Enqueue, GaInv, GaTyped
<1>3. call[c].to = r
  <2> SUFFICES ASSUME call[c].to # r PROVE FALSE
    OBVIOUS
  <2>1. depth'[r] = depth[r]
    BY <1>1 DEF Enqueue, GaInv, GaTyped
  <2>2. depth[r].pending[k] \in Nat
    BY <1>1, DepthOf DEF GaInv, Depth
  <2> QED
    BY <2>1, <2>2
<1> QED
  BY <1>1, <1>2, <1>3 DEF GaInv, CallsPassed, Behindhand

\* Nothing grows, nothing to explain.
LEMMA NoGrowth ==
  ASSUME GaInv, \A q \in Recipients, k \in Classes : ~(depth'[q].pending[k] > depth[q].pending[k])
  PROVE  PauseSoftly
  BY DEF PauseSoftly, GaInv, GaTyped

\* Every step keeps the invariant and what a pause promises.
LEMMA GaStep ==
  ASSUME GaInv, [GaNext]_gaVars
  PROVE  GaInv' /\ PauseSoftly
<1>0. \A q \in Recipients, k \in Classes : depth[q].pending[k] \in Nat
  BY DepthOf DEF GaInv, Depth
<1>1. ASSUME NEW c \in Callers, CallerNext(c) PROVE GaInv' /\ PauseSoftly
  <2>1. CASE Route(c) \/ (\E r \in call[c].left : DeliverMember(c, r)) \/ FanoutEnds(c)
    BY <1>0, <2>1, CallsIn, NoGrowth
  <2>2. CASE ReadPending(c) \/ ReadCur(c) \/ AdmitOrRefuse(c)
    BY <1>0, <2>2, CallsRead, NoGrowth
  <2>3. CASE Enqueue(c)
    BY <2>3, CallsWrite, WritesArePassed
  <2>4. CASE EnqueueFails(c)
    <3>1. UNCHANGED depth
      BY <2>4 DEF EnqueueFails
    <3> QED
      BY <1>0, <2>4, <3>1, CallsWrite, NoGrowth
  <2> QED
    BY <1>1, <2>1, <2>2, <2>3, <2>4 DEF CallerNext
<1>2. ASSUME NEW r \in Recipients, Drained(r) \/ \E k \in Classes : Claimed(r, k) PROVE GaInv' /\ PauseSoftly
  <2>1. GaInv' /\ \A q \in Recipients, k \in Classes : depth'[q].pending[k] <= depth[q].pending[k]
    BY <1>2, RecipientWorks
  <2>2. \A q \in Recipients, k \in Classes : depth'[q].pending[k] \in Nat
    BY <2>1 DEF GaInv, GaTyped, Depth
  <2> QED
    BY <1>0, <2>1, <2>2, NoGrowth
<1>3. ASSUME NEW r \in Recipients, PauseSet(r) \/ PauseLifted(r) PROVE GaInv' /\ PauseSoftly
  BY <1>0, <1>3, PauseTurns, NoGrowth
<1>4. CASE UNCHANGED gaVars
  <2>1. GaInv'
    BY <1>4 DEF gaVars, GaInv, GaTyped, CallsPassed, Behindhand, Reaches, PausePasses, Budgeted,
                Undrained, Admitted, Gated
  <2>2. UNCHANGED depth
    BY <1>4 DEF gaVars
  <2> QED
    BY <1>0, <2>1, <2>2, NoGrowth
<1> QED
  BY <1>1, <1>2, <1>3, <1>4 DEF GaNext

\* The limit is exceeded by no more than the callers it is for.
LEMMA BudgetIsSoft ==
  ASSUME GaInv
  PROVE  WipSoft
<1> SUFFICES ASSUME NEW r \in Recipients, Limit[r] > 0
             PROVE  Undrained(r) <= Limit[r] + Cardinality(Gated(r))
  BY DEF WipSoft
<1>1. Cardinality(Admitted(r)) \in Nat /\ Cardinality(Gated(r)) \in Nat /\ Undrained(r) \in Nat /\ Limit[r] \in Nat
  BY AdmittedAreGated, DepthOf, GatesAssumption DEF GaInv
<1> QED
  BY <1>1 DEF GaInv, Budgeted

\* router.ts, #admit and the pause gate: each is softer than a lock by what is in flight, and by no
\* more, for any callers, limits, groups and order of their awaits.
THEOREM GatesAreSoft == GaSpec => GatesSoft
<1>1. GaStart => GaInv
  <2> SUFFICES ASSUME GaStart PROVE GaInv
    OBVIOUS
  <2>1. EmptyDepth \in Depth /\ NoCall \in Call
    BY DEF EmptyDepth, Depth, Classes, NoCall, Call
  <2>2. GaTyped
    BY <2>1 DEF GaStart, GaIdle, GaTyped
  <2>3. \A c \in Callers : call[c].at = "idle" /\ call[c].left = {}
    BY DEF GaStart, GaIdle, NoCall
  <2>4. CallsPassed
    BY <2>3 DEF CallsPassed, Behindhand
  <2>5. Budgeted
    <3> SUFFICES ASSUME NEW r \in Recipients
                 PROVE  Undrained(r) + Cardinality(Admitted(r)) <= Limit[r] + Cardinality(Gated(r))
      BY DEF Budgeted
    <3>1. Admitted(r) = {} /\ Cardinality(Admitted(r)) = 0
      BY <2>3, FS_EmptySet DEF Admitted
    <3>2. Undrained(r) = 0
      BY DEF Undrained, GaStart, GaIdle, EmptyDepth, Classes
    <3>3. Limit[r] \in Nat /\ Cardinality(Gated(r)) \in Nat
      BY <2>4, AdmittedAreGated, GatesAssumption
    <3> QED
      BY <3>1, <3>2, <3>3
  <2> QED
    BY <2>2, <2>4, <2>5 DEF GaInv
<1>2. GaInv /\ [GaNext]_gaVars => GaInv'
  BY GaStep
<1>3. GaInv /\ [GaNext]_gaVars => PauseSoftly
  BY GaStep
<1>4. GaInv => WipSoft
  BY BudgetIsSoft
<1> QED
  BY <1>1, <1>2, <1>3, <1>4, PTL DEF GaSpec, GatesSoft

(***************************************************************************)
(* The turn's folder: the orphan sweep and the nudge.                      *)
(***************************************************************************)

Early == {"sidecar", "open", "inject", "await", "complete"}
Late == {"after", "closed", "collect", "route", "nudge", "clean"}
Working == {"ended", "collect", "route", "describe", "remove"}

\* A message with a folder has been in work, unless it was brought back.
FolderWasInWork == \A m \in Msgs :
  Exists(m) /\ m \notin told.again => letters[m] \in {"cur", "done", "failed"}

\* The turn's message is in cur/ until it is completed, and in done/ from then on.
TurnFits ==
  /\ turn.at \in Early => turn.m \in Msgs /\ letters[turn.m] = "cur"
  /\ turn.at \in Late => turn.m \in Msgs /\ letters[turn.m] = "done"

\* What the sweep may remove was at rest when it began.
SweepAtRest ==
  /\ sweep.at # "idle" => \A m \in Msgs : m \notin told.again /\ sweep.ages[m] > 0 /\ m \notin sweep.active =>
                            letters[m] \in {"done", "failed"}
  /\ sweep.at \notin {"idle", "list"} => sweep.left \cap sweep.active = {}
  /\ sweep.at \in Working => sweep.m \in Msgs /\ sweep.ages[sweep.m] > 0 /\ sweep.m \notin sweep.active

\* A message that was answered is at rest, or its turn knows.
AnsweredIsKnown == \A m \in told.answered :
  m \notin told.again => letters[m] \in {"done", "failed"} /\ (turn.m = m /\ turn.at # "idle" => turn.sent)

ExInv == ExTypeOK /\ FolderWasInWork /\ TurnFits /\ SweepAtRest /\ AnsweredIsKnown

\* A step of the turn, the sweep, the agent or the world keeps the types of the exchange.
LEMMA ExTypedStep ==
  ASSUME ExInv, ExNext
  PROVE  ExTypeOK'
<1> USE NoMsgAssumption, MaxSlipsAssumption
<1> USE DEF ExInv, ExTypeOK
<1>1. \A m \in Msgs, f \in Folder : Touched(m, f) =>
        DOMAIN folder' \subseteq Msgs /\ \A k \in DOMAIN folder' : folder'[k] \in Folder
  BY DEF Touched, Folder
<1>2. \A m : Remove(m) => DOMAIN folder' \subseteq Msgs /\ \A k \in DOMAIN folder' : folder'[k] \in Folder
  BY DEF Remove
<1>3. \A at \in TurnAt : Goes(at) => turn' \in [m : Msgs \union {NoMsg}, at : TurnAt, collected : BOOLEAN, sent : BOOLEAN]
  BY DEF Goes
<1>4. \A at \in SweepAt : SweepGoes(at) =>
        sweep' \in [at : SweepAt, m : Msgs \union {NoMsg}, active : SUBSET Msgs, left : SUBSET Msgs, ages : [Msgs -> 0..2]]
  BY DEF SweepGoes
<1>5. IdleTurn \in [m : Msgs \union {NoMsg}, at : TurnAt, collected : BOOLEAN, sent : BOOLEAN]
  BY DEF IdleTurn, TurnAt
<1>6. IdleSweep \in [at : SweepAt, m : Msgs \union {NoMsg}, active : SUBSET Msgs, left : SUBSET Msgs, ages : [Msgs -> 0..2]]
  BY DEF IdleSweep, SweepAt
<1>7. Slip => slips' \in 0..MaxSlips
  BY DEF Slip
<1>8. FreshFolder \in Folder
  BY DEF FreshFolder, Folder
<1>9. \A m \in DOMAIN folder : folder[m] \in Folder /\ m \in Msgs
  OBVIOUS
<1>10. CASE TurnNext
  <2>1. ASSUME NEW m \in Msgs, TurnBegins(m) PROVE ExTypeOK'
    BY <2>1, <1>5 DEF TurnBegins, TurnAt, IdleTurn
  <2>2. CASE WriteSidecar
    <3>1. (IF Exists(turn.m) THEN folder[turn.m] ELSE FreshFolder) \in Folder
      BY <1>8 DEF Exists
    <3>2. [(IF Exists(turn.m) THEN folder[turn.m] ELSE FreshFolder) EXCEPT !.side = TRUE] \in Folder
      BY <3>1 DEF Folder
    <3>3. turn.m \in Msgs
      BY <2>2 DEF WriteSidecar, TurnFits, Early
    <3> QED BY <2>2, <3>2, <3>3, <1>1, <1>3 DEF WriteSidecar, TurnAt
  <2>3. CASE WriteMessage
    <3>0. folder[turn.m] \in Folder /\ turn.m \in Msgs
      BY <2>3, <1>9 DEF WriteMessage, Exists
    <3>1. [folder[turn.m] EXCEPT !.open = TRUE] \in Folder /\ turn.m \in Msgs
      BY <3>0 DEF Folder
    <3> QED BY <2>3, <3>1, <1>1 DEF WriteMessage, TurnAt
  <2>4. CASE Unmaterialized
    BY <2>4, <1>7 DEF Unmaterialized, TurnAt
  <2>5. CASE Inject \/ TurnEnds
    BY <2>5, <1>3 DEF Inject, TurnEnds, TurnAt
  <2>6. CASE InjectFails
    BY <2>6, <1>5, <1>7 DEF InjectFails
  <2>7. CASE Complete
    BY <2>7, <1>3 DEF Complete, TurnAt
  <2>8. CASE AfterTurn \/ Collect
    BY <2>8, <1>3 DEF AfterTurn, Collect, TurnAt
  <2>9. CASE CleanupClosed
    BY <2>9, <1>2, <1>3 DEF CleanupClosed, TurnAt
  <2>10. CASE RouteReply
    <3>1. turn.m \in Msgs
      BY <2>10 DEF RouteReply, TurnFits, Late
    <3> QED BY <2>10, <3>1 DEF RouteReply, Delivered, TurnAt
  <2>11. CASE ReplyRefused
    BY <2>11, <1>3, <1>7 DEF ReplyRefused, TurnAt
  <2>12. CASE Nudge
    <3>1. turn.m \in Msgs
      BY <2>12 DEF Nudge, TurnFits, Late
    <3> QED BY <2>12, <3>1, <1>3 DEF Nudge, TurnAt
  <2>13. CASE CleanupTurn
    BY <2>13, <1>2, <1>5 DEF CleanupTurn
  <2> QED BY <1>10, <2>1, <2>2, <2>3, <2>4, <2>5, <2>6, <2>7, <2>8, <2>9, <2>10, <2>11, <2>12, <2>13 DEF TurnNext
<1>11. CASE SweepNext
  <2>1. CASE SweepBegins
    <3>1. [m \in Msgs |-> IF Exists(m) THEN folder[m].age ELSE 0] \in [Msgs -> 0..2]
      BY <1>9 DEF Exists, Folder
    <3> QED BY <2>1, <3>1 DEF SweepBegins, IdleSweep, SweepAt
  <2>2. CASE SweepLists
    BY <2>2 DEF SweepLists, SweepAt
  <2>3. CASE SweepEnds
    BY <2>3, <1>6 DEF SweepEnds
  <2>4. ASSUME NEW m \in Msgs, SweepTakes(m) PROVE ExTypeOK'
    <3>1. (IF Exists(m) THEN AgeOf(m) ELSE 0) \in 0..2
      BY <1>9 DEF Exists, AgeOf, Folder
    <3>2. (IF Exists(m) /\ AgeOf(m) > 0 THEN "ended" ELSE "next") \in SweepAt
      BY DEF SweepAt
    <3> DEFINE age == IF Exists(m) THEN AgeOf(m) ELSE 0
               at == IF Exists(m) /\ AgeOf(m) > 0 THEN "ended" ELSE "next"
    <3>3. sweep' = [sweep EXCEPT !.left = sweep.left \ {m}, !.m = m, !.at = at, !.ages = [sweep.ages EXCEPT ![m] = age]]
      BY <2>4 DEF SweepTakes
    <3>4. age \in 0..2 /\ at \in SweepAt
      BY <3>1, <3>2
    <3> HIDE DEF age, at
    <3>5. sweep' \in [at : SweepAt, m : Msgs \union {NoMsg}, active : SUBSET Msgs, left : SUBSET Msgs, ages : [Msgs -> 0..2]]
      BY <3>3, <3>4
    <3> QED BY <2>4, <3>5 DEF SweepTakes
  <2>5. NoHarvest \in SweepAt /\ {"collect", "route", "remove", "next"} \subseteq SweepAt
    BY DEF NoHarvest, SweepAt
  <2>6. CASE SweepLooks \/ SweepCollects
    BY <2>6, <2>5, <1>4 DEF SweepLooks, SweepCollects
  <2>7. CASE SweepRoutes
    <3>1. sweep.m \in Msgs
      BY <2>7 DEF SweepRoutes, SweepAtRest, Working
    <3> QED BY <2>7, <3>1, <2>5, <1>4 DEF SweepRoutes, Delivered
  <2>8. CASE SweepRefused
    BY <2>8, <2>5, <1>4, <1>7 DEF SweepRefused
  <2>9. CASE SweepDescribes
    <3>1. sweep.m \in Msgs
      BY <2>9 DEF SweepDescribes, SweepAtRest, Working
    <3> QED BY <2>9, <3>1, <2>5, <1>4 DEF SweepDescribes
  <2>10. CASE SweepRemoves
    BY <2>10, <2>5, <1>2, <1>4 DEF SweepRemoves
  <2> QED BY <1>11, <2>1, <2>2, <2>3, <2>4, <2>6, <2>7, <2>8, <2>9, <2>10 DEF SweepNext
<1>12. ASSUME NEW m \in Msgs, AgentWrites(m) \/ AgentEnds(m) \/ AgentSends(m) PROVE ExTypeOK'
  <2>1. folder[m] \in Folder
    BY <1>12, <1>9 DEF AgentWrites, AgentEnds, AgentSends, Exists
  <2>2. [folder[m] EXCEPT !.answer = "part"] \in Folder /\ [folder[m] EXCEPT !.answer = "whole"] \in Folder
        /\ [folder[m] EXCEPT !.open = FALSE] \in Folder
    BY <2>1 DEF Folder
  <2>3. CASE AgentWrites(m)
    BY <2>3, <2>2, <1>1 DEF AgentWrites
  <2>4. CASE AgentEnds(m)
    BY <2>4, <2>2, <1>1 DEF AgentEnds
  <2>5. CASE AgentSends(m)
    BY <2>5, <2>2, <1>1 DEF AgentSends
  <2> QED BY <1>12, <2>3, <2>4, <2>5
<1>13. CASE CloseTurn
  BY <1>13 DEF CloseTurn
<1>14. ASSUME NEW m \in Msgs, Ages(m) PROVE ExTypeOK'
  <2>1. folder[m] \in Folder /\ folder[m].age < 2
    BY <1>14, <1>9 DEF Ages, Exists
  <2>2. [folder[m] EXCEPT !.age = folder[m].age + 1] \in Folder
    BY <2>1 DEF Folder
  <2> QED BY <1>14, <2>2 DEF Ages
<1>15. ASSUME NEW m \in Msgs, Requeue(m) PROVE ExTypeOK'
  BY <1>15, <1>7 DEF Requeue
<1>16. CASE TurnLost \/ ExCrash
  BY <1>16, <1>5, <1>6, <1>7 DEF TurnLost, ExCrash
<1> QED BY <1>10, <1>11, <1>12, <1>13, <1>14, <1>15, <1>16 DEF ExNext, AgentNext

\* A step of the turn (createExchange and its wiring in bootstrap): a turn that fails before
\* its injection or is completed leaves the message at rest, and the reply counts as sent.
LEMMA ExTurnStep ==
  ASSUME ExInv, TurnNext
  PROVE  FolderWasInWork' /\ TurnFits' /\ SweepAtRest' /\ AnsweredIsKnown'
<1> USE NoMsgAssumption
<1> USE DEF ExInv, FolderWasInWork, TurnFits, SweepAtRest, AnsweredIsKnown, Early, Late, Exists
<1>0. /\ letters \in [Msgs -> {"out", "pending", "cur", "done", "failed"}]
      /\ turn \in [m : Msgs \union {NoMsg}, at : TurnAt, collected : BOOLEAN, sent : BOOLEAN]
      /\ told.answered \subseteq Msgs
      /\ told \in [answered : SUBSET Msgs, warned : SUBSET Msgs, closed : SUBSET Msgs,
                   nudged : SUBSET Msgs, again : SUBSET Msgs]
  BY DEF ExTypeOK
<1>1. ASSUME NEW m \in Msgs, TurnBegins(m)
      PROVE  FolderWasInWork' /\ TurnFits' /\ SweepAtRest' /\ AnsweredIsKnown'
  <2>1. /\ letters[m] \in {"pending", "cur"}
        /\ \A k \in Msgs : letters'[k] = IF k = m THEN "cur" ELSE letters[k]
        /\ turn'.m = m /\ turn'.at = "sidecar"
        /\ UNCHANGED <<folder, sweep, told>>
    BY <1>0, <1>1 DEF TurnBegins, IdleTurn
  <2> QED BY <1>0, <2>1
<1>2. CASE WriteSidecar \/ WriteMessage
  <2>1. /\ turn'.m = turn.m /\ turn.at \in {"sidecar", "open"} /\ turn'.at \in {"open", "inject"}
        /\ DOMAIN folder' = DOMAIN folder \union {turn.m}
        /\ UNCHANGED <<letters, sweep, told>>
    <3>1. CASE WriteSidecar
      BY <1>0, <3>1 DEF WriteSidecar, Touched, Goes
    <3>2. CASE WriteMessage
      BY <1>0, <3>2 DEF WriteMessage, Touched
    <3> QED BY <1>2, <3>1, <3>2
  <2> QED BY <1>0, <2>1
<1>3. CASE Unmaterialized \/ Inject \/ TurnEnds
  <2>1. /\ turn'.m = turn.m /\ turn.at \in {"sidecar", "open", "inject", "await"} /\ turn'.at \in {"inject", "await", "complete"}
        /\ UNCHANGED <<letters, folder, sweep, told>>
    <3>1. CASE Unmaterialized
      BY <1>0, <3>1 DEF Unmaterialized
    <3>2. CASE Inject \/ TurnEnds
      BY <1>0, <3>2 DEF Inject, TurnEnds, Goes
    <3> QED BY <1>3, <3>1, <3>2
  <2> QED BY <1>0, <2>1
<1>4. CASE InjectFails
  <2>1. /\ turn.at = "inject" /\ turn'.at = "idle"
        /\ \A k \in Msgs : letters'[k] = IF k = turn.m THEN "failed" ELSE letters[k]
        /\ UNCHANGED <<folder, sweep, told>>
    BY <1>0, <1>4 DEF InjectFails, IdleTurn
  <2> QED BY <1>0, <2>1
<1>5. CASE Complete
  <2>1. /\ turn.at = "complete" /\ turn'.at = "after" /\ turn'.m = turn.m
        /\ \A k \in Msgs : letters'[k] = IF k = turn.m THEN "done" ELSE letters[k]
        /\ UNCHANGED <<folder, sweep, told>>
    BY <1>0, <1>5 DEF Complete, Goes
  <2> QED BY <1>0, <2>1
<1>6. CASE AfterTurn \/ CleanupClosed \/ Collect \/ ReplyRefused
  <2>1. /\ turn'.m = turn.m /\ turn'.sent = turn.sent /\ turn.at \in {"after", "closed", "collect", "route"}
        /\ turn'.at \in {"closed", "collect", "nudge", "route"}
        /\ DOMAIN folder' \subseteq DOMAIN folder
        /\ UNCHANGED <<letters, sweep, told>>
    BY <1>0, <1>6 DEF AfterTurn, CleanupClosed, Collect, ReplyRefused, Goes, Remove
  <2> QED BY <1>0, <2>1
<1>7. CASE RouteReply
  <2>1. /\ turn'.m = turn.m /\ turn'.sent /\ turn.at = "route" /\ turn'.at = "nudge"
        /\ told'.answered = told.answered \union {turn.m} /\ told'.again = told.again
        /\ UNCHANGED <<letters, folder, sweep>>
    BY <1>0, <1>7 DEF RouteReply, Delivered
  <2> QED BY <1>0, <2>1
<1>8. CASE Nudge
  <2>1. /\ turn'.m = turn.m /\ turn'.sent = turn.sent /\ turn.at = "nudge" /\ turn'.at = "clean"
        /\ told'.answered = told.answered /\ told'.again = told.again
        /\ UNCHANGED <<letters, folder, sweep>>
    BY <1>0, <1>8 DEF Nudge, Goes
  <2> QED BY <1>0, <2>1
<1>9. CASE CleanupTurn
  <2>1. /\ turn'.at = "idle" /\ DOMAIN folder' \subseteq DOMAIN folder
        /\ UNCHANGED <<letters, sweep, told>>
    BY <1>0, <1>9 DEF CleanupTurn, IdleTurn, Remove
  <2> QED BY <1>0, <2>1
<1> QED BY <1>1, <1>2, <1>3, <1>4, <1>5, <1>6, <1>7, <1>8, <1>9 DEF TurnNext

\* A step of the orphan sweep: it holds folders only that it saw at rest when it began, and
\* the late answer it delivers counts as sent in the turn that is still at work on it.
LEMMA ExSweepStep ==
  ASSUME ExInv, SweepNext
  PROVE  FolderWasInWork' /\ TurnFits' /\ SweepAtRest' /\ AnsweredIsKnown'
<1> USE NoMsgAssumption
<1> USE DEF ExInv, FolderWasInWork, TurnFits, SweepAtRest, AnsweredIsKnown, Early, Late, Working, Exists
<1>0. /\ turn \in [m : Msgs \union {NoMsg}, at : TurnAt, collected : BOOLEAN, sent : BOOLEAN]
      /\ told \in [answered : SUBSET Msgs, warned : SUBSET Msgs, closed : SUBSET Msgs,
                   nudged : SUBSET Msgs, again : SUBSET Msgs]
      /\ sweep \in [at : SweepAt, m : Msgs \union {NoMsg}, active : SUBSET Msgs,
                    left : SUBSET Msgs, ages : [Msgs -> 0..2]]
      /\ letters \in [Msgs -> {"out", "pending", "cur", "done", "failed"}]
  BY DEF ExTypeOK
<1>1. CASE SweepBegins
  <2>1. /\ sweep'.at = "list" /\ sweep'.active = {m \in Msgs : letters[m] = "cur"}
        /\ \A m \in Msgs : sweep'.ages[m] > 0 => m \in DOMAIN folder
        /\ UNCHANGED <<letters, turn, folder, told>>
    BY <1>1 DEF SweepBegins, IdleSweep
  <2> QED BY <1>0, <2>1
<1>2. CASE SweepLists
  <2>1. /\ sweep.at = "list" /\ sweep'.at = "next" /\ sweep'.active = sweep.active /\ sweep'.ages = sweep.ages
        /\ sweep'.left \cap sweep'.active = {}
        /\ UNCHANGED <<letters, turn, folder, told>>
    BY <1>0, <1>2 DEF SweepLists
  <2> QED BY <1>0, <2>1
<1>3. ASSUME NEW m \in Msgs, SweepTakes(m)
      PROVE  FolderWasInWork' /\ TurnFits' /\ SweepAtRest' /\ AnsweredIsKnown'
  <2> DEFINE age == IF Exists(m) THEN AgeOf(m) ELSE 0
             at == IF Exists(m) /\ AgeOf(m) > 0 THEN "ended" ELSE "next"
  <2>1. Exists(m) => folder[m].age \in 0..2
    BY DEF ExTypeOK, Folder
  <2>2. age <= sweep.ages[m] /\ (at = "ended" => age > 0) /\ at \in {"ended", "next"}
    BY <1>0, <2>1 DEF AgeOf
  <2>3. sweep' = [sweep EXCEPT !.left = sweep.left \ {m}, !.m = m, !.at = at, !.ages = [sweep.ages EXCEPT ![m] = age]]
    BY <1>3 DEF SweepTakes
  <2> HIDE DEF age, at
  <2>4. /\ sweep'.left = sweep.left \ {m} /\ sweep'.m = m /\ sweep'.at = at /\ sweep'.active = sweep.active
        /\ \A k \in Msgs : sweep'.ages[k] = IF k = m THEN age ELSE sweep.ages[k]
    BY <1>0, <2>3
  <2>5. sweep.at = "next" /\ m \in sweep.left /\ UNCHANGED <<letters, turn, folder, told>>
    BY <1>3 DEF SweepTakes
  <2>6. \A k \in Msgs : sweep'.ages[k] > 0 => sweep.ages[k] > 0
    BY <1>0, <2>1, <2>2, <2>4 DEF age, AgeOf
  <2>7. SweepAtRest'
    <3>1. \A k \in Msgs : k \notin told'.again /\ sweep'.ages[k] > 0 /\ k \notin sweep'.active => letters'[k] \in {"done", "failed"}
      BY <2>4, <2>5, <2>6
    <3>2. sweep'.left \cap sweep'.active = {} /\ m \notin sweep'.active
      BY <2>4, <2>5
    <3>3. sweep'.at \in Working => sweep'.ages[m] > 0
      BY <2>2, <2>4
    <3> QED BY <2>4, <3>1, <3>2, <3>3
  <2> QED BY <2>5, <2>7
<1>4. CASE SweepEnds
  <2>1. sweep'.at = "idle" /\ UNCHANGED <<letters, turn, folder, told>>
    BY <1>4 DEF SweepEnds, IdleSweep
  <2> QED BY <1>0, <2>1
<1>5. CASE SweepLooks \/ SweepCollects \/ SweepRefused
  <2>1. /\ sweep.at \in Working /\ sweep'.at \in Working \union {"next"}
        /\ sweep'.m = sweep.m /\ sweep'.active = sweep.active /\ sweep'.left = sweep.left /\ sweep'.ages = sweep.ages
        /\ UNCHANGED <<letters, turn, folder, told>>
    BY <1>0, <1>5 DEF SweepLooks, SweepCollects, SweepRefused, SweepGoes, NoHarvest
  <2> QED BY <1>0, <2>1
<1>6. CASE SweepRoutes
  <2>1. /\ sweep.at = "route" /\ sweep'.at = "remove"
        /\ sweep'.m = sweep.m /\ sweep'.active = sweep.active /\ sweep'.left = sweep.left /\ sweep'.ages = sweep.ages
        /\ turn'.m = turn.m /\ turn'.at = turn.at /\ (turn.at # "idle" => turn'.sent)
        /\ told'.answered = told.answered \union {sweep.m} /\ told'.again = told.again
        /\ UNCHANGED <<letters, folder>>
    BY <1>0, <1>6 DEF SweepRoutes, SweepGoes, Delivered
  <2>2. sweep.m \in Msgs /\ (sweep.m \notin told.again => letters[sweep.m] \in {"done", "failed"})
    BY <2>1
  <2> QED BY <1>0, <2>1, <2>2
<1>7. CASE SweepDescribes
  <2>1. /\ sweep.at = "describe" /\ sweep'.at = "remove"
        /\ sweep'.m = sweep.m /\ sweep'.active = sweep.active /\ sweep'.left = sweep.left /\ sweep'.ages = sweep.ages
        /\ told'.answered = told.answered /\ told'.again = told.again
        /\ UNCHANGED <<letters, turn, folder>>
    BY <1>0, <1>7 DEF SweepDescribes, SweepGoes
  <2> QED BY <1>0, <2>1
<1>8. CASE SweepRemoves
  <2>1. /\ sweep.at = "remove" /\ sweep'.at = "next"
        /\ sweep'.m = sweep.m /\ sweep'.active = sweep.active /\ sweep'.left = sweep.left /\ sweep'.ages = sweep.ages
        /\ DOMAIN folder' \subseteq DOMAIN folder
        /\ UNCHANGED <<letters, turn, told>>
    BY <1>0, <1>8 DEF SweepRemoves, SweepGoes, Remove
  <2> QED BY <1>0, <2>1
<1> QED BY <1>1, <1>2, <1>3, <1>4, <1>5, <1>6, <1>7, <1>8 DEF SweepNext

\* The agent only adds to its folder, the operator's requeue marks the message as brought
\* back, and a lost turn or a crash forgets the turn (and the sweep), never a queue entry.
LEMMA ExWorldStep ==
  ASSUME ExInv,
         \/ AgentNext \/ CloseTurn
         \/ \E m \in Msgs : Ages(m) \/ Requeue(m)
         \/ TurnLost \/ ExCrash
  PROVE  FolderWasInWork' /\ TurnFits' /\ SweepAtRest' /\ AnsweredIsKnown'
<1> USE NoMsgAssumption
<1> USE DEF ExInv, FolderWasInWork, TurnFits, SweepAtRest, AnsweredIsKnown, Early, Late, Working, Exists
<1>0. /\ turn \in [m : Msgs \union {NoMsg}, at : TurnAt, collected : BOOLEAN, sent : BOOLEAN]
      /\ told \in [answered : SUBSET Msgs, warned : SUBSET Msgs, closed : SUBSET Msgs,
                   nudged : SUBSET Msgs, again : SUBSET Msgs]
      /\ letters \in [Msgs -> {"out", "pending", "cur", "done", "failed"}]
  BY DEF ExTypeOK
<1>1. ASSUME NEW m \in Msgs, AgentWrites(m) \/ AgentEnds(m) \/ AgentSends(m) \/ Ages(m)
      PROVE  FolderWasInWork' /\ TurnFits' /\ SweepAtRest' /\ AnsweredIsKnown'
  <2>1. DOMAIN folder' = DOMAIN folder /\ UNCHANGED <<letters, sweep>>
    BY <1>1 DEF AgentWrites, AgentEnds, AgentSends, Ages, Touched
  <2>2. turn'.at = turn.at /\ turn'.m = turn.m /\ (turn.sent => turn'.sent)
    BY <1>0, <1>1 DEF AgentWrites, AgentEnds, AgentSends, Ages
  <2>3. told'.answered = told.answered /\ told'.again = told.again
    BY <1>0, <1>1 DEF AgentWrites, AgentEnds, AgentSends, Ages
  <2> QED BY <2>1, <2>2, <2>3
<1>2. CASE CloseTurn
  BY <1>2 DEF CloseTurn
<1>3. ASSUME NEW m \in Msgs, Requeue(m)
      PROVE  FolderWasInWork' /\ TurnFits' /\ SweepAtRest' /\ AnsweredIsKnown'
  <2>1. /\ letters[m] = "failed"
        /\ \A k \in Msgs : letters'[k] = IF k = m THEN "pending" ELSE letters[k]
        /\ told'.answered = told.answered /\ told'.again = told.again \union {m}
        /\ UNCHANGED <<turn, folder, sweep>>
    BY <1>0, <1>3 DEF Requeue
  <2>2. TurnFits'
    BY <2>1
  <2>3. FolderWasInWork' /\ SweepAtRest'
    BY <2>1
  <2>4. AnsweredIsKnown'
    <3>1. told.answered \subseteq Msgs
      BY <1>0
    <3> QED BY <2>1, <3>1
  <2> QED BY <2>2, <2>3, <2>4
<1>4. CASE TurnLost
  <2>1. turn'.at = "idle" /\ UNCHANGED <<letters, folder, sweep, told>>
    BY <1>4 DEF TurnLost, IdleTurn
  <2> QED BY <1>0, <2>1
<1>5. CASE ExCrash
  <2>1. turn'.at = "idle" /\ sweep'.at = "idle" /\ UNCHANGED <<letters, folder, told>>
    BY <1>5 DEF ExCrash, IdleTurn, IdleSweep
  <2> QED BY <1>0, <2>1
<1> QED BY <1>1, <1>2, <1>3, <1>4, <1>5 DEF AgentNext

\* What the invariant says of one step: a folder in flight outlives it, and the nudge it
\* makes is not about an answered message, unless the operator brought that back.
LEMMA ExInvSpares ==
  ASSUME ExInv, [ExNext]_exVars
  PROVE  /\ \A m \in Msgs : letters[m] = "cur" /\ Exists(m) /\ m \notin told.again => m \in DOMAIN folder'
         /\ \A m \in told'.nudged \ told.nudged : m \in told.answered => m \in told.again
<1> USE DEF ExInv, Exists
<1>0. /\ turn \in [m : Msgs \union {NoMsg}, at : TurnAt, collected : BOOLEAN, sent : BOOLEAN]
      /\ told \in [answered : SUBSET Msgs, warned : SUBSET Msgs, closed : SUBSET Msgs,
                   nudged : SUBSET Msgs, again : SUBSET Msgs]
  BY DEF ExTypeOK
<1>1. CASE TurnNext
  <2>1. CASE CleanupClosed \/ CleanupTurn
    <3>1. DOMAIN folder \ {turn.m} \subseteq DOMAIN folder' /\ letters[turn.m] = "done" /\ told' = told
      BY <2>1 DEF CleanupClosed, CleanupTurn, Remove, TurnFits, Late
    <3> QED BY <3>1
  <2>2. CASE Nudge
    <3>1. folder' = folder
      BY <2>2 DEF Nudge
    <3>2. turn.at = "nudge" /\ (told' = told \/ (~turn.sent /\ told'.nudged = told.nudged \union {turn.m}))
      BY <1>0, <2>2 DEF Nudge
    <3>3. ~turn.sent /\ turn.m \in told.answered => turn.m \in told.again
      BY <3>2 DEF AnsweredIsKnown
    <3> QED BY <3>1, <3>2, <3>3
  <2>3. CASE ~CleanupClosed /\ ~CleanupTurn /\ ~Nudge
    <3>1. told'.nudged = told.nudged
      BY <1>0, <1>1, <2>3 DEF TurnNext, TurnBegins, WriteSidecar, WriteMessage, Unmaterialized, Inject, InjectFails, TurnEnds,
         Complete, AfterTurn, Collect, RouteReply, ReplyRefused, Delivered
    <3>2. DOMAIN folder \subseteq DOMAIN folder'
      BY <1>1, <2>3 DEF TurnNext, TurnBegins, WriteSidecar, WriteMessage, Unmaterialized, Inject, InjectFails, TurnEnds,
         Complete, AfterTurn, Collect, RouteReply, ReplyRefused, Touched
    <3> QED BY <3>1, <3>2
  <2> QED BY <2>1, <2>2, <2>3
<1>2. CASE SweepNext
  <2>1. told'.nudged = told.nudged
    BY <1>0, <1>2 DEF SweepNext, SweepBegins, SweepLists, SweepEnds, SweepTakes, SweepLooks, SweepCollects, SweepRoutes,
       SweepRefused, SweepDescribes, SweepRemoves, Delivered
  <2>2. CASE SweepRemoves
    <3>1. DOMAIN folder \ {sweep.m} \subseteq DOMAIN folder'
      BY <2>2 DEF SweepRemoves, Remove
    <3>2. sweep.m \notin told.again => letters[sweep.m] # "cur"
      BY <2>2 DEF SweepRemoves, SweepAtRest, Working
    <3> QED BY <2>1, <3>1, <3>2
  <2>3. CASE ~SweepRemoves
    <3>1. folder' = folder
      BY <1>2, <2>3 DEF SweepNext, SweepBegins, SweepLists, SweepEnds, SweepTakes, SweepLooks, SweepCollects, SweepRoutes,
         SweepRefused, SweepDescribes
    <3> QED BY <2>1, <3>1
  <2> QED BY <2>2, <2>3
<1>3. ASSUME NEW m \in Msgs, AgentWrites(m) \/ AgentEnds(m) \/ AgentSends(m) \/ Ages(m) \/ Requeue(m)
      PROVE  DOMAIN folder \subseteq DOMAIN folder' /\ told'.nudged = told.nudged
  BY <1>0, <1>3 DEF AgentWrites, AgentEnds, AgentSends, Ages, Requeue, Touched
<1>4. CloseTurn \/ TurnLost \/ ExCrash \/ UNCHANGED exVars => folder' = folder /\ told' = told
  BY DEF CloseTurn, TurnLost, ExCrash, exVars
<1> QED BY <1>1, <1>2, <1>3, <1>4 DEF ExNext, AgentNext

\* Whatever crashes, refusals, lost turns and sends come between, the orphan sweep never
\* takes the folder of a message in flight, and ReplyNudger never tells an agent to answer
\* what was answered; requeued messages aside.
THEOREM SweepsAndNudgesSpare == ExSpec => SweepsSpare
<1>1. ExStart => ExInv
  <2>1. ExStart => ExTypeOK
    BY NoMsgAssumption, MaxSlipsAssumption DEF ExStart, ExIdle, ExTypeOK, IdleTurn, IdleSweep, TurnAt, SweepAt
  <2>2. ExStart => FolderWasInWork /\ TurnFits /\ SweepAtRest /\ AnsweredIsKnown
    BY DEF ExStart, ExIdle, FolderWasInWork, TurnFits, SweepAtRest, AnsweredIsKnown, IdleTurn, IdleSweep, Early, Late, Working, Exists
  <2> QED BY <2>1, <2>2 DEF ExInv
<1>2. ExInv /\ [ExNext]_exVars => ExInv'
  <2>1. ExInv /\ ExNext => ExInv'
    BY ExTypedStep, ExTurnStep, ExSweepStep, ExWorldStep DEF ExInv, ExNext
  <2>2. ExInv /\ UNCHANGED exVars => ExInv'
    BY DEF ExInv, ExTypeOK, FolderWasInWork, TurnFits, SweepAtRest, AnsweredIsKnown, exVars, Exists
  <2> QED BY <2>1, <2>2
<1>3. ExInv /\ [ExNext]_exVars => \A m \in Msgs : letters[m] = "cur" /\ Exists(m) /\ m \notin told.again => m \in DOMAIN folder'
  BY ExInvSpares
<1>4. ExInv /\ [ExNext]_exVars => \A m \in told'.nudged \ told.nudged : m \in told.answered => m \in told.again
  BY ExInvSpares
<1>5. ExSpec => []ExInv
  BY <1>1, <1>2, PTL DEF ExSpec
<1> QED BY <1>3, <1>4, <1>5, PTL DEF ExSpec, SweepsSpare, LiveFolderKept, AnsweredNotNudged

(***************************************************************************)
(* Schedules.                                                              *)
(***************************************************************************)

\* A set of numbers has a least element, and Min finds it.
LEMMA MinIsIn ==
  ASSUME NEW S \in SUBSET Nat, S # {}
  PROVE  Min(S) \in S /\ \A y \in S : Min(S) <= y
<1>1. PICK x \in S : \A y \in S : ~(<<y, x>> \in OpToRel(<, Nat))
  BY NatLessThanWellFounded, WFMin
<1>2. \A y \in S : x <= y
  <2>1. TAKE y \in S
  <2>2. x \in Nat /\ y \in Nat
    BY <1>1
  <2>3. y < x => <<y, x>> \in OpToRel(<, Nat)
    BY <2>2 DEF OpToRel
  <2>4. ~(y < x)
    BY <1>1, <2>3, Zenon
  <2> QED BY <2>2, <2>4
<1> QED BY <1>1, <1>2 DEF Min

ScTyped ==
  /\ chainFile \in Content /\ chainTmp \in Content
  /\ pens \in [Writers -> [at : {"none", "tmp", "rename"}, c : Content]]
  /\ ticking \in [at : {"idle", "look", "fire", "write", "remove"}, s : Content, i : Steps \union {0}]
  /\ marks \in [Steps -> {Unseen} \union 0..MaxClock]
  /\ clock \in 0..MaxClock /\ made \in 0..MaxGens
  /\ fires \in [Gens -> [Steps -> Nat]]
  /\ resting \subseteq Gens \X Steps
  /\ spoils \in 0..MaxSpoils

\* The chain is that of a generation made, and the tick's content is the chain it holds.
Made(c) == c = NoFile \/ c.gen \in 1..made
ScFits ==
  /\ Made(chainFile) /\ Made(chainTmp)
  /\ \A w \in Writers : (pens[w].at = "tmp") => pens[w].c # NoFile /\ Made(pens[w].c)
  /\ (ticking.at # "idle") => ticking.s # NoFile /\ Made(ticking.s)
  /\ (ticking.at = "fire") => ticking.i \in Steps /\ ticking.s.st[ticking.i] = "pending"
  /\ (pens["tick"].at # "none") => ticking.at = "write"
  /\ (pens["tick"].at = "tmp") => pens["tick"].c = ticking.s
  /\ \A g \in Gens, i \in Steps : (g > made) => fires[g][i] = 0

\* Who can still bring a step to be fired: the file with the tick that will replace it,
\* the temporary file, a writer before its first write.
One(p) == IF p THEN 1 ELSE 0
Pends(c, g, i) == c.gen = g /\ c.st[i] = "pending"
TickMay(g, i) ==
  IF ticking.at = "write"
  THEN IF pens["tick"].at = "rename"
       THEN IF chainTmp # NoFile THEN Pends(chainTmp, g, i) ELSE Pends(chainFile, g, i)
       ELSE Pends(ticking.s, g, i)
  ELSE Pends(chainFile, g, i) \/ (ticking.at \in {"look", "fire"} /\ Pends(ticking.s, g, i))
TmpMay(g, i) == pens["tick"].at # "rename" /\ Pends(chainTmp, g, i)
PenMay(w, g, i) == pens[w].at = "tmp" /\ Pends(pens[w].c, g, i)

\* A disturbance pays for each of them but the first.
Paid(g, i) ==
  fires[g][i] + One(TickMay(g, i)) + One(TmpMay(g, i)) + One(PenMay("create", g, i)) + One(PenMay("cancel", g, i))
    <= 1 + spoils
ScPaid == \A g \in Gens, i \in Steps : Paid(g, i)

\* A cancel that met nobody left no copy in which its steps are pending.
Gone(g, i) ==
  /\ g <= made
  /\ ~Pends(chainFile, g, i) /\ ~Pends(chainTmp, g, i)
  /\ \A w \in Writers : ~PenMay(w, g, i)
  /\ (ticking.at # "idle") => ~Pends(ticking.s, g, i)
ScRests == \A g \in Gens, i \in Steps : <<g, i>> \in resting => Gone(g, i)

ScInv == ScTyped /\ ScFits /\ ScPaid /\ ScRests

\* newChain, settle and the copies the scheduler and the cancel make of a chain are chains.
LEMMA ContentIs ==
  /\ Steps \subseteq Nat \ {0}
  /\ NoFile \in Content /\ NoFile.gen = 0 /\ NoFile.st \in [Steps -> StepStates]
  /\ \A g \in 0..MaxGens, b \in 0..MaxBirth : NewChain(g, b) \in Content
  /\ \A c \in Content, i \in Steps, s \in StepStates : Settle(c, i, s) \in Content
  /\ \A c \in Content, st \in [Steps -> StepStates] : [c EXCEPT !.st = st] \in Content
  /\ IdlePen \in [at : {"none", "tmp", "rename"}, c : Content]
  /\ IdleTick \in [at : {"idle", "look", "fire", "write", "remove"}, s : Content, i : Steps \union {0}]
<1>1. Steps \subseteq Nat \ {0}
  BY KindAssumption DEF Steps
<1>2. NoFile \in Content /\ NoFile.gen = 0 /\ NoFile.st \in [Steps -> StepStates]
  BY LimitsAssumption DEF NoFile, Content, StepStates
<1>3. \A g \in 0..MaxGens, b \in 0..MaxBirth : NewChain(g, b) \in Content
  BY DEF NewChain, Content, StepStates
<1>4. \A c \in Content, i \in Steps, s \in StepStates : Settle(c, i, s) \in Content
  BY DEF Settle, Content
<1>5. \A c \in Content, st \in [Steps -> StepStates] : [c EXCEPT !.st = st] \in Content
  BY DEF Content
<1> QED BY <1>1, <1>2, <1>3, <1>4, <1>5 DEF IdlePen, IdleTick

\* One look of a tick (dueItems): the step it fires was pending in its copy and stays so until it
\* is fired, and no step becomes pending again.
LEMMA TickLooked ==
  ASSUME ScTyped, TickLooks
  PROVE  \E st \in [Steps -> StepStates], toFire \in SUBSET Steps :
          /\ ticking' = IF toFire # {} THEN [at |-> "fire", s |-> [ticking.s EXCEPT !.st = st], i |-> Min(toFire)]
                        ELSE IF [ticking.s EXCEPT !.st = st] # ticking.s
                        THEN [at |-> "write", s |-> [ticking.s EXCEPT !.st = st], i |-> 0]
                        ELSE IdleTick
          /\ \A i \in toFire : ticking.s.st[i] = "pending" /\ ((\A j \in toFire : i <= j) => st[i] = "pending")
          /\ \A i \in Steps : ticking.s.st[i] # "pending" => st[i] = ticking.s.st[i]
          /\ marks' \in [Steps -> {Unseen} \union 0..MaxClock]
<1>1. PICK idle \in BOOLEAN, still \in BOOLEAN :
        LET c == ticking.s
            Is(i, v) == Verdict(c, i, idle, still) = v
            toFire == {i \in Steps : Is(i, "fire")}
            before == {i \in Steps : \A j \in toFire : i < j}
            settled == [c EXCEPT !.st = [i \in Steps |->
                          IF i \in before /\ Is(i, "drop") THEN "dropped"
                          ELSE IF i \in before /\ Is(i, "fail") THEN "failed" ELSE c.st[i]]]
        IN /\ marks' = [i \in Steps |-> IF Is(i, "wait") THEN Since(i) ELSE marks[i]]
           /\ ticking' = IF toFire # {} THEN [at |-> "fire", s |-> settled, i |-> Min(toFire)]
                         ELSE IF settled # c THEN [at |-> "write", s |-> settled, i |-> 0]
                         ELSE IdleTick
  BY DEF TickLooks
<1> DEFINE V(i) == Verdict(ticking.s, i, idle, still)
           toFire == {i \in Steps : V(i) = "fire"}
           before == {i \in Steps : \A j \in toFire : i < j}
           st == [i \in Steps |-> IF i \in before /\ V(i) = "drop" THEN "dropped"
                                  ELSE IF i \in before /\ V(i) = "fail" THEN "failed" ELSE ticking.s.st[i]]
<1>2. ticking' = IF toFire # {} THEN [at |-> "fire", s |-> [ticking.s EXCEPT !.st = st], i |-> Min(toFire)]
                 ELSE IF [ticking.s EXCEPT !.st = st] # ticking.s
                 THEN [at |-> "write", s |-> [ticking.s EXCEPT !.st = st], i |-> 0]
                 ELSE IdleTick
  BY <1>1
<1>3. \A i \in Steps : ticking.s.st[i] # "pending" => V(i) = "none"
  BY DEF Verdict, VerdictIf
<1>4. ticking.s \in Content
  BY DEF ScTyped
<1> HIDE DEF V
<1>5. st \in [Steps -> StepStates]
  BY <1>4 DEF Content, StepStates
<1>6. \A i \in toFire : ticking.s.st[i] = "pending" /\ st[i] = "pending"
  BY <1>3
<1>7. \A i \in Steps : ticking.s.st[i] # "pending" => st[i] = ticking.s.st[i]
  BY <1>3
<1>8. toFire \in SUBSET Steps
  OBVIOUS
<1>9. marks' \in [Steps -> {Unseen} \union 0..MaxClock]
  <2>1. \A i \in Steps : Since(i) \in {Unseen} \union 0..MaxClock
    BY DEF Since, ScTyped
  <2>2. marks' = [i \in Steps |-> IF V(i) = "wait" THEN Since(i) ELSE marks[i]]
    BY <1>1 DEF V
  <2> QED BY <2>1, <2>2 DEF ScTyped
<1> HIDE DEF toFire, st
<1> QED BY <1>2, <1>5, <1>6, <1>7, <1>8, <1>9

\* What one more firing of one step does to the counts.
LEMMA OneMore ==
  ASSUME fires \in [Gens -> [Steps -> Nat]], NEW g \in Gens, NEW i \in Steps,
         fires' = [fires EXCEPT ![g][i] = @ + 1]
  PROVE  /\ fires' \in [Gens -> [Steps -> Nat]]
         /\ \A h \in Gens, j \in Steps : fires'[h][j] = IF h = g /\ j = i THEN fires[g][i] + 1 ELSE fires[h][j]
<1>1. fires[g][i] + 1 \in Nat
  OBVIOUS
<1> QED BY <1>1

\* The same of the scheduler's fire.
LEMMA FireAdds ==
  ASSUME fires \in [Gens -> [Steps -> Nat]], ticking.s.gen \in Gens, ticking.i \in Steps, Fire
  PROVE  /\ fires' \in [Gens -> [Steps -> Nat]]
         /\ \A h \in Gens, j \in Steps :
              fires'[h][j] = IF h = ticking.s.gen /\ j = ticking.i THEN fires[h][j] + 1 ELSE fires[h][j]
<1> DEFINE g == ticking.s.gen
           i == ticking.i
<1>1. fires' = [fires EXCEPT ![g][i] = @ + 1]
  BY DEF Fire
<1>2. g \in Gens /\ i \in Steps
  OBVIOUS
<1> HIDE DEF g, i
<1>3. /\ fires' \in [Gens -> [Steps -> Nat]]
      /\ \A h \in Gens, j \in Steps : fires'[h][j] = IF h = g /\ j = i THEN fires[g][i] + 1 ELSE fires[h][j]
  BY <1>1, <1>2, OneMore
<1> QED BY <1>3 DEF g, i

\* A chain that was made has one of the generations made; the empty file has none.
LEMMA GenOf ==
  /\ \A c \in Content : Made(c) /\ c # NoFile => c.gen \in 1..made
  /\ \A c \in Content : Made(c) /\ c.gen > 0 => c.gen \in 1..made
  /\ \A c : c.gen \in 1..made => c # NoFile
BY DEF Made, NoFile

\* Every step of the scheduler, of the store's write and of the plane keeps the types.
LEMMA ScTypedStep ==
  ASSUME ScTyped, ScFits, ScNext
  PROVE  ScTyped'
<1> USE LimitsAssumption, ContentIs
<1> USE DEF ScTyped
<1>0. Writers = {"tick", "create", "cancel"} /\ Gens \subseteq Nat
  BY DEF Writers, Gens
<1>1. Spoil => spoils' \in 0..MaxSpoils
  BY DEF Spoil
<1>2. \A w \in Writers, c \in Content : Write(w, c) => pens' \in [Writers -> [at : {"none", "tmp", "rename"}, c : Content]]
  BY DEF Write
<1>3. \A w \in Writers : Written(w) =>
        /\ pens' \in [Writers -> [at : {"none", "tmp", "rename"}, c : Content]]
        /\ ticking' \in [at : {"idle", "look", "fire", "write", "remove"}, s : Content, i : Steps \union {0}]
  BY DEF Written
<1>4. ASSUME NEW w \in Writers, WriteChainTmp(w) PROVE ScTyped'
  BY <1>4 DEF WriteChainTmp
<1>5. ASSUME NEW w \in Writers, RenameChain(w) PROVE ScTyped'
  <2>1. chainTmp.gen \in Gens
    BY <1>5 DEF RenameChain, ScFits, Made, Gens
  <2>2. resting' \subseteq Gens \X Steps
    BY <1>5, <2>1 DEF RenameChain
  <2> QED BY <1>3, <1>5, <2>2 DEF RenameChain
<1>6. ASSUME NEW w \in Writers, RenameMisses(w) \/ WriteSpoiled(w) PROVE ScTyped'
  BY <1>1, <1>3, <1>6 DEF RenameMisses, WriteSpoiled
<1>7. CASE Create
  <2>0. made' \in 0..MaxGens /\ clock \in 0..MaxBirth
    BY <1>7 DEF Create
  <2>1. NewChain(made', clock) \in Content
    BY <2>0
  <2>2. "create" \in Writers
    BY <1>0
  <2> QED BY <1>2, <1>7, <2>0, <2>1, <2>2 DEF Create
<1>8. ASSUME NEW chosen \in {{i} : i \in Steps} \union {Steps}, Cancel(chosen) PROVE ScTyped'
  <2> DEFINE st == [i \in Steps |-> IF i \in chosen /\ chainFile.st[i] = "pending" THEN "cancelled" ELSE chainFile.st[i]]
  <2>1. st \in [Steps -> StepStates]
    BY DEF Content, StepStates
  <2>2. Write("cancel", [chainFile EXCEPT !.st = st])
    BY <1>8 DEF Cancel
  <2> HIDE DEF st
  <2>3. [chainFile EXCEPT !.st = st] \in Content
    BY <2>1
  <2>4. "cancel" \in Writers
    BY <1>0
  <2> QED BY <1>1, <1>2, <1>8, <2>2, <2>3, <2>4 DEF Cancel
<1>9. CASE TickReads
  BY <1>9 DEF TickReads, IdleTick
<1>10. CASE TickRemoves
  BY <1>10 DEF TickRemoves
<1>11. CASE TickLooks
  <2>1. PICK st \in [Steps -> StepStates], toFire \in SUBSET Steps :
          /\ ticking' = IF toFire # {} THEN [at |-> "fire", s |-> [ticking.s EXCEPT !.st = st], i |-> Min(toFire)]
                        ELSE IF [ticking.s EXCEPT !.st = st] # ticking.s
                        THEN [at |-> "write", s |-> [ticking.s EXCEPT !.st = st], i |-> 0]
                        ELSE IdleTick
          /\ marks' \in [Steps -> {Unseen} \union 0..MaxClock]
    BY <1>11, TickLooked
  <2>2. [ticking.s EXCEPT !.st = st] \in Content
    OBVIOUS
  <2>3. toFire # {} => Min(toFire) \in Steps
    BY MinIsIn
  <2>4. ticking' \in [at : {"idle", "look", "fire", "write", "remove"}, s : Content, i : Steps \union {0}]
    BY <2>1, <2>2, <2>3
  <2> QED BY <1>11, <2>1, <2>4 DEF TickLooks
<1>12. CASE Fire \/ FireFails
  <2>1. ticking.i \in Steps /\ ticking.s.gen \in Gens
    BY <1>12 DEF Fire, FireFails, ScFits, Made, Gens
  <2>2. \A s \in StepStates : Settled(s) =>
          /\ ticking' \in [at : {"idle", "look", "fire", "write", "remove"}, s : Content, i : Steps \union {0}]
          /\ marks' \in [Steps -> {Unseen} \union 0..MaxClock]
    BY <2>1 DEF Settled
  <2>3. "fired" \in StepStates /\ "failed" \in StepStates
    BY DEF StepStates
  <2>6. fires' \in [Gens -> [Steps -> Nat]]
    BY <1>12, <2>1, FireAdds DEF FireFails
  <2>7. CASE Fire
    BY <2>7, <2>2, <2>3, <2>6 DEF Fire
  <2>8. CASE FireFails
    BY <2>8, <2>2, <2>3, <1>1 DEF FireFails
  <2> QED BY <1>12, <2>7, <2>8
<1>13. CASE TickWrites
  <2>1. "tick" \in Writers
    BY <1>0
  <2> QED BY <1>2, <1>13, <2>1 DEF TickWrites
<1>14. CASE ScCrash
  BY <1>1, <1>14 DEF ScCrash
<1>15. CASE ClockTicks
  <2>1. clock' \in 0..MaxClock
    BY <1>15 DEF ClockTicks
  <2> QED BY <1>15, <2>1 DEF ClockTicks
<1> QED BY <1>4, <1>5, <1>6, <1>7, <1>8, <1>9, <1>10, <1>11, <1>12, <1>13, <1>14, <1>15 DEF ScNext, PenNext, TickNext, PlaneNext

\* Every step keeps the chains those that were made, and what the tick and its pen hold the same.
LEMMA ScFitsStep ==
  ASSUME ScTyped, ScFits, ScNext
  PROVE  ScFits'
<1> USE LimitsAssumption, ContentIs
<1> USE DEF ScFits, Made
<1>0. Writers = {"tick", "create", "cancel"} /\ Gens \subseteq Nat
  BY DEF Writers, Gens
<1>1. /\ pens \in [Writers -> [at : {"none", "tmp", "rename"}, c : Content]]
      /\ ticking \in [at : {"idle", "look", "fire", "write", "remove"}, s : Content, i : Steps \union {0}]
      /\ made \in Nat /\ chainFile \in Content /\ chainTmp \in Content
      /\ fires \in [Gens -> [Steps -> Nat]]
  BY DEF ScTyped
<1>2. ASSUME NEW w \in Writers, WriteChainTmp(w) PROVE ScFits'
  <2>1. /\ pens[w].at = "tmp" /\ chainTmp' = pens[w].c
        /\ \A v \in Writers : pens'[v] = IF v = w THEN [pens[w] EXCEPT !.at = "rename"] ELSE pens[v]
        /\ UNCHANGED <<chainFile, ticking, made, fires>>
    BY <1>1, <1>2 DEF WriteChainTmp
  <2> QED BY <1>0, <1>1, <2>1
<1>3. ASSUME NEW w \in Writers, RenameChain(w) \/ RenameMisses(w) \/ WriteSpoiled(w) PROVE ScFits'
  <2>1. /\ \A v \in Writers : pens'[v] = IF v = w THEN IdlePen ELSE pens[v]
        /\ ticking' = IF w = "tick" THEN IdleTick ELSE ticking
        /\ UNCHANGED <<made, fires>>
    BY <1>1, <1>3 DEF RenameChain, RenameMisses, WriteSpoiled, Written
  <2>2. Made(chainFile') /\ Made(chainTmp')
    BY <1>3 DEF RenameChain, RenameMisses, WriteSpoiled
  <2> QED BY <1>0, <1>1, <2>1, <2>2 DEF IdlePen, IdleTick
<1>4. CASE Create
  <2>1. /\ made' = made + 1
        /\ \A v \in Writers : pens'[v] = IF v = "create" THEN [at |-> "tmp", c |-> NewChain(made', clock)] ELSE pens[v]
        /\ UNCHANGED <<chainFile, chainTmp, ticking, fires>>
    BY <1>0, <1>1, <1>4 DEF Create, Write
  <2>2. NewChain(made', clock).gen = made' /\ NewChain(made', clock) # NoFile
    BY <1>1, <2>1 DEF NewChain, NoFile
  <2>3. \A c : Made(c) => Made(c)'
    BY <1>1, <2>1
  <2>4. \A w \in Writers : (pens'[w].at = "tmp") => pens'[w].c # NoFile /\ Made(pens[w].c)'
    <3>1. \A w \in Writers : w # "create" => pens'[w] = pens[w]
      BY <2>1
    <3>2. pens'["create"] = [at |-> "tmp", c |-> NewChain(made', clock)] /\ made' \in 1..made'
      BY <1>0, <1>1, <2>1
    <3>3. pens'["create"].c # NoFile /\ Made(pens["create"].c)'
      BY <2>2, <3>2
    <3>4. \A w \in Writers : w # "create" /\ pens[w].at = "tmp" => pens[w].c # NoFile /\ Made(pens[w].c)'
      <4>1. \A w \in Writers : pens[w].at = "tmp" => pens[w].c # NoFile /\ Made(pens[w].c)
        OBVIOUS
      <4> QED BY <2>3, <3>1, <4>1
    <3> HIDE DEF Made, ScFits
    <3> QED BY <3>1, <3>3, <3>4
  <2>5. pens'["tick"] = pens["tick"]
    BY <1>0, <2>1
  <2>6. \A g \in Gens, i \in Steps : (g > made') => fires'[g][i] = 0
    BY <1>0, <1>1, <2>1
  <2> QED BY <2>1, <2>3, <2>4, <2>5, <2>6
<1>5. ASSUME NEW chosen \in {{i} : i \in Steps} \union {Steps}, Cancel(chosen) PROVE ScFits'
  <2> DEFINE st == [i \in Steps |-> IF i \in chosen /\ chainFile.st[i] = "pending" THEN "cancelled" ELSE chainFile.st[i]]
  <2>1. Write("cancel", [chainFile EXCEPT !.st = st]) /\ chainFile.gen > 0 /\ UNCHANGED <<chainFile, chainTmp, ticking, made, fires>>
    BY <1>5 DEF Cancel
  <2> HIDE DEF st
  <2>2. [chainFile EXCEPT !.st = st].gen = chainFile.gen
    BY <1>1 DEF Content
  <2>3. chainFile.gen \in 1..made /\ [chainFile EXCEPT !.st = st] # NoFile
    BY <1>1, <2>1, <2>2, GenOf
  <2>4. \A v \in Writers : pens'[v] = IF v = "cancel" THEN [at |-> "tmp", c |-> [chainFile EXCEPT !.st = st]] ELSE pens[v]
    BY <1>0, <1>1, <2>1 DEF Write
  <2>5. PICK c : /\ c # NoFile /\ c.gen \in 1..made
                 /\ \A v \in Writers : pens'[v] = IF v = "cancel" THEN [at |-> "tmp", c |-> c] ELSE pens[v]
    BY <2>2, <2>3, <2>4
  <2>6. /\ \A v \in Writers : v = "cancel" => pens'[v].at = "tmp" /\ pens'[v].c = c
        /\ \A v \in Writers : v # "cancel" => pens'[v] = pens[v]
    BY <2>5
  <2> QED BY <1>0, <1>1, <2>1, <2>5, <2>6
<1>6. CASE TickReads
  <2>1. /\ ticking.at = "idle" /\ chainFile # NoFile
        /\ \E at \in {"look", "remove"} : ticking' = [IdleTick EXCEPT !.at = at, !.s = chainFile]
        /\ UNCHANGED <<chainFile, chainTmp, pens, made, fires>>
    BY <1>6 DEF TickReads
  <2>2. ticking'.at \in {"look", "remove"} /\ ticking'.s = chainFile
    BY <2>1 DEF IdleTick
  <2>3. ticking'.s # NoFile /\ Made(ticking.s)'
    BY <2>1, <2>2
  <2>4. pens["tick"].at = "none"
    BY <1>0, <1>1, <2>1
  <2> QED BY <2>1, <2>2, <2>3, <2>4
<1>61. CASE TickRemoves
  BY <1>0, <1>1, <1>61 DEF TickRemoves, IdleTick
<1>62. CASE ScCrash
  <2>1. \A w \in Writers : pens'[w].at = "none"
    BY <1>62 DEF ScCrash, IdlePen
  <2> QED BY <1>0, <1>1, <1>62, <2>1 DEF ScCrash, IdleTick
<1>63. CASE ClockTicks
  BY <1>0, <1>1, <1>63 DEF ClockTicks
<1>7. CASE TickLooks
  <2>1. PICK st \in [Steps -> StepStates], toFire \in SUBSET Steps :
          /\ ticking' = IF toFire # {} THEN [at |-> "fire", s |-> [ticking.s EXCEPT !.st = st], i |-> Min(toFire)]
                        ELSE IF [ticking.s EXCEPT !.st = st] # ticking.s
                        THEN [at |-> "write", s |-> [ticking.s EXCEPT !.st = st], i |-> 0]
                        ELSE IdleTick
          /\ \A i \in toFire : ticking.s.st[i] = "pending" /\ ((\A j \in toFire : i <= j) => st[i] = "pending")
          /\ \A i \in Steps : ticking.s.st[i] # "pending" => st[i] = ticking.s.st[i]
    BY TickLooked, <1>7
  <2>2. ticking.at = "look" /\ UNCHANGED <<chainFile, chainTmp, pens, made, fires>>
    BY <1>7 DEF TickLooks
  <2>3. [ticking.s EXCEPT !.st = st].gen = ticking.s.gen /\ [ticking.s EXCEPT !.st = st].st = st
    BY <1>1 DEF Content
  <2>4. ticking.s.gen \in 1..made
    BY <2>2 DEF NoFile
  <2>5. [ticking.s EXCEPT !.st = st] # NoFile
    BY <2>3, <2>4, GenOf
  <2>6. toFire # {} => Min(toFire) \in toFire /\ \A j \in toFire : Min(toFire) <= j
    BY MinIsIn
  <2>7. ticking'.at = "fire" => ticking'.i \in Steps /\ ticking'.s.st[ticking'.i] = "pending"
    <3>1. ticking'.at = "fire" => toFire # {}
      BY <2>1 DEF IdleTick
    <3>2. toFire # {} => ticking'.i = Min(toFire) /\ ticking'.s.st = st
      BY <2>1, <2>3
    <3>3. toFire # {} => Min(toFire) \in Steps /\ st[Min(toFire)] = "pending"
      BY <2>1, <2>6
    <3> QED BY <3>1, <3>2, <3>3
  <2>8. ticking'.at # "idle" => ticking'.s = [ticking.s EXCEPT !.st = st]
    BY <2>1 DEF IdleTick
  <2>9. ticking'.at # "idle" => ticking'.s # NoFile /\ Made(ticking.s)'
    BY <2>2, <2>3, <2>4, <2>5, <2>8
  <2>10. pens["tick"].at = "none"
    BY <1>0, <1>1, <2>2
  <2> QED BY <1>0, <2>2, <2>7, <2>9, <2>10
<1>8. CASE Fire \/ FireFails
  <2>1. /\ ticking.at = "fire" /\ ticking.i \in Steps /\ ticking.s.gen \in 1..made
        /\ UNCHANGED <<chainFile, chainTmp, pens, made>>
    BY <1>8 DEF Fire, FireFails
  <2>2. \E s \in StepStates : ticking' = [at |-> "write", s |-> Settle(ticking.s, ticking.i, s), i |-> 0]
    BY <1>8 DEF Fire, FireFails, Settled, StepStates
  <2>3. \A s \in StepStates : Settle(ticking.s, ticking.i, s).gen = ticking.s.gen
    BY <1>1, <2>1 DEF Settle, Content
  <2>31. \A s \in StepStates : Settle(ticking.s, ticking.i, s) # NoFile
    BY <2>1, <2>3, GenOf
  <2>4. \A g \in Gens, i \in Steps : (g > made) => fires'[g][i] = 0
    <3>1. ticking.s.gen \in Gens
      BY <2>1 DEF ScTyped, Gens
    <3>3. \A g \in Gens, i \in Steps : fires'[g][i] = fires[g][i] \/ g = ticking.s.gen
      BY <1>1, <1>8, <2>1, <3>1, FireAdds DEF FireFails
    <3>4. ~(ticking.s.gen > made)
      BY <1>1, <2>1
    <3> QED BY <3>3, <3>4
  <2>5. pens["tick"].at = "none"
    BY <1>0, <1>1, <2>1
  <2> QED BY <1>0, <1>1, <2>1, <2>2, <2>3, <2>31, <2>4, <2>5
<1>9. CASE TickWrites
  <2>1. /\ ticking.at = "write"
        /\ \A v \in Writers : pens'[v] = IF v = "tick" THEN [at |-> "tmp", c |-> ticking.s] ELSE pens[v]
        /\ UNCHANGED <<chainFile, chainTmp, ticking, made, fires>>
    BY <1>0, <1>1, <1>9 DEF TickWrites, Write
  <2> QED BY <1>0, <1>1, <2>1
<1> QED BY <1>2, <1>3, <1>4, <1>5, <1>6, <1>61, <1>62, <1>63, <1>7, <1>8, <1>9 DEF ScNext, PenNext, TickNext, PlaneNext

\* A pair that is not of a step's making stays paid for when no more can bring it to be fired.
LEMMA StaysPaid ==
  ASSUME NEW g \in Gens, NEW i \in Steps, ScTyped, Paid(g, i),
         fires'[g][i] = fires[g][i], spoils' = spoils,
         TickMay(g, i)' => TickMay(g, i),
         TmpMay(g, i)' => TmpMay(g, i),
         PenMay("create", g, i)' => PenMay("create", g, i),
         PenMay("cancel", g, i)' => PenMay("cancel", g, i)
  PROVE  Paid(g, i)'
<1>1. fires[g][i] \in Nat /\ spoils \in Nat
  BY LimitsAssumption DEF ScTyped
<1> QED BY <1>1 DEF Paid, One

\* A writer that fills the temporary file brings it its copy and drops what was there.
LEMMA WriteKeepsPaid ==
  ASSUME ScTyped, ScFits, NEW g \in Gens, NEW i \in Steps, Paid(g, i),
         NEW w \in Writers, WriteChainTmp(w)
  PROVE  Paid(g, i)'
<1>0. Writers = {"tick", "create", "cancel"}
  BY DEF Writers
<1>1. /\ pens[w].at = "tmp" /\ chainTmp' = pens[w].c /\ chainTmp' # NoFile
      /\ \A v \in Writers : v # w => pens'[v] = pens[v]
      /\ pens'[w].at = "rename"
      /\ UNCHANGED <<chainFile, ticking, fires, spoils>>
  BY DEF WriteChainTmp, ScTyped, ScFits
<1>2. fires[g][i] \in Nat /\ spoils \in Nat
  BY LimitsAssumption DEF ScTyped
<1>3. CASE w = "tick"
  <2>1. pens["tick"].c = ticking.s /\ ticking.at = "write"
    BY <1>0, <1>1, <1>3 DEF ScFits
  <2>2. TickMay(g, i)' <=> TickMay(g, i)
    BY <1>0, <1>1, <1>3, <2>1 DEF TickMay, Pends
  <2>3. ~TmpMay(g, i)'
    BY <1>1, <1>3 DEF TmpMay
  <2>4. (PenMay("create", g, i)' <=> PenMay("create", g, i)) /\ (PenMay("cancel", g, i)' <=> PenMay("cancel", g, i))
    BY <1>0, <1>1, <1>3 DEF PenMay, Pends
  <2> QED BY <1>1, <2>2, <2>3, <2>4, StaysPaid
<1>4. CASE w # "tick"
  <2>1. pens'["tick"] = pens["tick"] /\ ~PenMay(w, g, i)' /\ (PenMay(w, g, i) <=> Pends(chainTmp, g, i)')
    BY <1>0, <1>1, <1>4 DEF PenMay, Pends
  <2>2. \A v \in Writers : v # w => (PenMay(v, g, i)' <=> PenMay(v, g, i))
    BY <1>1 DEF PenMay, Pends
  <2>3. CASE pens["tick"].at = "rename"
    <3>1. ticking.at = "write"
      BY <2>3 DEF ScFits
    <3>2. TickMay(g, i)' <=> PenMay(w, g, i)
      BY <1>1, <2>1, <2>3, <3>1 DEF TickMay
    <3>3. ~TmpMay(g, i)'
      BY <2>1, <2>3 DEF TmpMay
    <3> QED BY <1>0, <1>1, <1>2, <1>4, <2>1, <2>2, <3>2, <3>3 DEF Paid, One
  <2>4. CASE pens["tick"].at # "rename"
    <3>1. TickMay(g, i)' <=> TickMay(g, i)
      BY <1>1, <2>1, <2>4 DEF TickMay, Pends
    <3>2. TmpMay(g, i)' <=> PenMay(w, g, i)
      BY <1>1, <2>1, <2>4 DEF TmpMay
    <3> QED BY <1>0, <1>1, <1>2, <1>4, <2>1, <2>2, <3>1, <3>2 DEF Paid, One
  <2> QED BY <2>3, <2>4
<1> QED BY <1>3, <1>4

\* A rename brings the file whatever the temporary file holds; a rename that finds none
\* throws and brings nothing.
LEMMA RenameKeepsPaid ==
  ASSUME ScTyped, ScFits, NEW g \in Gens, NEW i \in Steps, Paid(g, i),
         NEW w \in Writers, RenameChain(w) \/ RenameMisses(w)
  PROVE  Paid(g, i)'
<1>0. Writers = {"tick", "create", "cancel"} /\ g # 0 /\ NoFile.gen = 0
  BY DEF Writers, Gens, NoFile
<1>1. /\ pens[w].at = "rename"
      /\ \A v \in Writers : v # w => pens'[v] = pens[v]
      /\ pens'[w].at = "none"
      /\ w = "tick" => ticking'.at = "idle"
      /\ w # "tick" => ticking' = ticking
      /\ UNCHANGED <<fires, spoils>>
  BY DEF RenameChain, RenameMisses, Written, IdlePen, IdleTick, ScTyped
<1>2. chainTmp' = NoFile /\ chainFile' = IF chainTmp # NoFile THEN chainTmp ELSE chainFile
  BY DEF RenameChain, RenameMisses
<1>3. fires[g][i] \in Nat /\ spoils \in Nat
  BY LimitsAssumption DEF ScTyped
<1>4. ~Pends(NoFile, g, i) /\ ~TmpMay(g, i)'
  BY <1>0, <1>2 DEF Pends, TmpMay
<1>5. \A v \in Writers : PenMay(v, g, i)' => PenMay(v, g, i)
  BY <1>1 DEF PenMay, Pends
<1>6. "create" \in Writers /\ "cancel" \in Writers
  BY <1>0
<1>7. CASE w = "tick"
  <2>1. ticking.at = "write"
    BY <1>1, <1>7 DEF ScFits
  <2>2. TickMay(g, i) <=> Pends(chainFile, g, i)'
    BY <1>1, <1>2, <1>7, <2>1 DEF TickMay, Pends
  <2>3. TickMay(g, i)' <=> Pends(chainFile, g, i)'
    BY <1>1, <1>7 DEF TickMay
  <2> QED BY <1>1, <1>4, <1>5, <1>6, <2>2, <2>3, StaysPaid
<1>8. CASE w # "tick"
  <2>1. pens'["tick"] = pens["tick"]
    BY <1>0, <1>1, <1>8
  <2>2. CASE pens["tick"].at = "rename"
    <3>1. ticking.at = "write"
      BY <2>2 DEF ScFits
    <3>2. TickMay(g, i)' <=> TickMay(g, i)
      BY <1>1, <1>2, <1>8, <2>1, <2>2, <3>1 DEF TickMay, Pends
    <3> QED BY <1>1, <1>4, <1>5, <1>6, <3>2, StaysPaid
  <2>3. CASE pens["tick"].at # "rename"
    <3>1. TickMay(g, i)' => TickMay(g, i) \/ TmpMay(g, i)
      BY <1>1, <1>2, <1>8, <2>1, <2>3 DEF TickMay, TmpMay, Pends
    <3> QED BY <1>1, <1>3, <1>4, <1>5, <1>6, <3>1 DEF Paid, One
  <2> QED BY <2>2, <2>3
<1> QED BY <1>7, <1>8

\* A failed write and a crash pay for the copy that becomes live again: the file, once the
\* tick that would have replaced it is gone.
LEMMA SpoilPays ==
  ASSUME ScTyped, ScFits, NEW g \in Gens, NEW i \in Steps, Paid(g, i),
         (\E w \in Writers : WriteSpoiled(w)) \/ ScCrash
  PROVE  Paid(g, i)'
<1>0. Writers = {"tick", "create", "cancel"} /\ g # 0 /\ NoFile.gen = 0
  BY DEF Writers, Gens, NoFile
<1>1. fires[g][i] \in Nat /\ spoils \in Nat /\ spoils' = spoils + 1 /\ fires' = fires
  BY LimitsAssumption DEF ScTyped, WriteSpoiled, ScCrash, Spoil
<1>2. ASSUME NEW w \in Writers, WriteSpoiled(w) PROVE Paid(g, i)'
  <2>1. /\ \A v \in Writers : v # w => pens'[v] = pens[v]
        /\ pens'[w].at = "none" /\ pens[w].at = "tmp"
        /\ UNCHANGED <<chainFile, chainTmp>>
    BY <1>2 DEF WriteSpoiled, Written, IdlePen, ScTyped
  <2>2. \A v \in Writers : PenMay(v, g, i)' => PenMay(v, g, i)
    BY <2>1 DEF PenMay, Pends
  <2>3. TmpMay(g, i)' => TmpMay(g, i)
    BY <1>0, <2>1 DEF TmpMay, Pends
  <2> QED BY <1>0, <1>1, <2>2, <2>3 DEF Paid, One
<1>3. CASE ScCrash
  <2>1. \A v \in Writers : ~PenMay(v, g, i)'
    BY <1>3 DEF ScCrash, PenMay, IdlePen
  <2>2. ~TmpMay(g, i)'
    BY <1>0, <1>3 DEF ScCrash, TmpMay, Pends
  <2> QED BY <1>0, <1>1, <2>1, <2>2 DEF Paid, One
<1> QED BY <1>2, <1>3

\* A create brings a generation never fired; a cancel pays for the copy it takes.
LEMMA PlaneKeepsPaid ==
  ASSUME ScTyped, ScFits, NEW g \in Gens, NEW i \in Steps, Paid(g, i), PlaneNext
  PROVE  Paid(g, i)'
<1>0. Writers = {"tick", "create", "cancel"} /\ g \in Nat \ {0} /\ NoFile.gen = 0
  BY DEF Writers, Gens, NoFile
<1>1. fires[g][i] \in Nat /\ spoils \in Nat /\ made \in Nat
  BY LimitsAssumption DEF ScTyped
<1>2. CASE Create
  <2>1. /\ made' = made + 1 /\ pens["create"].at = "none"
        /\ \A v \in Writers : v # "create" => pens'[v] = pens[v]
        /\ pens'["create"] = [at |-> "tmp", c |-> NewChain(made', clock)]
        /\ UNCHANGED <<chainFile, chainTmp, ticking, fires, spoils>>
    BY <1>0, <1>2 DEF Create, Write, ScTyped
  <2>2. (TickMay(g, i)' <=> TickMay(g, i)) /\ (TmpMay(g, i)' <=> TmpMay(g, i)) /\ (PenMay("cancel", g, i)' <=> PenMay("cancel", g, i))
    BY <1>0, <2>1 DEF TickMay, TmpMay, PenMay, Pends
  <2>3. CASE g = made + 1
    <3>1. \A c : Made(c) => ~Pends(c, g, i)
      BY <1>0, <1>1, <2>3 DEF Made, Pends
    <3>2. ~TickMay(g, i) /\ ~TmpMay(g, i) /\ ~PenMay("cancel", g, i)
      BY <1>0, <3>1 DEF TickMay, TmpMay, PenMay, ScFits
    <3>3. fires[g][i] = 0
      BY <1>0, <1>1, <2>3 DEF ScFits
    <3> QED BY <1>1, <2>1, <2>2, <3>2, <3>3 DEF Paid, One
  <2>4. CASE g # made + 1
    <3>1. ~PenMay("create", g, i)'
      BY <2>1, <2>4 DEF PenMay, Pends, NewChain
    <3> QED BY <2>1, <2>2, <3>1, StaysPaid
  <2> QED BY <2>3, <2>4
<1>3. ASSUME NEW chosen \in {{j} : j \in Steps} \union {Steps}, Cancel(chosen) PROVE Paid(g, i)'
  <2>1. /\ pens["cancel"].at = "none" /\ spoils' = spoils + 1
        /\ \A v \in Writers : v # "cancel" => pens'[v] = pens[v]
        /\ UNCHANGED <<chainFile, chainTmp, ticking, fires>>
    BY <1>0, <1>3 DEF Cancel, Write, Spoil, ScTyped
  <2>2. (TickMay(g, i)' <=> TickMay(g, i)) /\ (TmpMay(g, i)' <=> TmpMay(g, i)) /\ (PenMay("create", g, i)' <=> PenMay("create", g, i))
    BY <1>0, <2>1 DEF TickMay, TmpMay, PenMay, Pends
  <2> QED BY <1>1, <2>1, <2>2 DEF Paid, One
<1> QED BY <1>2, <1>3 DEF PlaneNext

\* A tick takes a copy, and the firing replaces it: the copy it writes back has the step settled.
LEMMA TickKeepsPaid ==
  ASSUME ScTyped, ScFits, NEW g \in Gens, NEW i \in Steps, Paid(g, i), TickNext \/ ClockTicks
  PROVE  Paid(g, i)'
<1>0. Writers = {"tick", "create", "cancel"} /\ g \in Nat \ {0} /\ NoFile.gen = 0
  BY DEF Writers, Gens, NoFile
<1>1. fires[g][i] \in Nat /\ spoils \in Nat
  BY LimitsAssumption DEF ScTyped
<1>2. ticking \in [at : {"idle", "look", "fire", "write", "remove"}, s : Content, i : Steps \union {0}]
  BY DEF ScTyped
<1>3. CASE TickReads
  <2>1. /\ ticking.at = "idle" /\ ticking'.at \in {"look", "remove"} /\ ticking'.s = chainFile
        /\ UNCHANGED <<chainFile, chainTmp, pens, fires, spoils>>
    BY <1>3 DEF TickReads, IdleTick
  <2>2. TickMay(g, i)' => TickMay(g, i)
    BY <2>1 DEF TickMay, Pends
  <2>3. (TmpMay(g, i)' <=> TmpMay(g, i)) /\ \A v \in Writers : (PenMay(v, g, i)' <=> PenMay(v, g, i))
    BY <2>1 DEF TmpMay, PenMay, Pends
  <2> QED BY <1>0, <2>1, <2>2, <2>3, StaysPaid
<1>4. CASE TickRemoves
  <2>1. /\ ticking.at = "remove" /\ ticking'.at = "idle" /\ chainFile' = NoFile
        /\ UNCHANGED <<chainTmp, pens, fires, spoils>>
    BY <1>4 DEF TickRemoves, IdleTick
  <2>2. ~TickMay(g, i)'
    BY <1>0, <2>1 DEF TickMay, Pends
  <2>3. (TmpMay(g, i)' <=> TmpMay(g, i)) /\ \A v \in Writers : (PenMay(v, g, i)' <=> PenMay(v, g, i))
    BY <2>1 DEF TmpMay, PenMay, Pends
  <2> QED BY <1>0, <2>1, <2>2, <2>3, StaysPaid
<1>5. CASE TickLooks
  <2>1. /\ ticking.at = "look" /\ UNCHANGED <<chainFile, chainTmp, pens, fires, spoils>>
    BY <1>5 DEF TickLooks
  <2>2. PICK st \in [Steps -> StepStates], toFire \in SUBSET Steps :
          /\ ticking' = IF toFire # {} THEN [at |-> "fire", s |-> [ticking.s EXCEPT !.st = st], i |-> Min(toFire)]
                        ELSE IF [ticking.s EXCEPT !.st = st] # ticking.s
                        THEN [at |-> "write", s |-> [ticking.s EXCEPT !.st = st], i |-> 0]
                        ELSE IdleTick
          /\ \A j \in Steps : ticking.s.st[j] # "pending" => st[j] = ticking.s.st[j]
    BY <1>5, TickLooked
  <2>3. [ticking.s EXCEPT !.st = st].gen = ticking.s.gen /\ [ticking.s EXCEPT !.st = st].st = st
    BY <1>2 DEF Content
  <2>4. ticking'.at \in {"fire", "write", "idle"} /\ (ticking'.at # "idle" => (Pends(ticking.s, g, i)' => Pends(ticking.s, g, i)))
    BY <2>2, <2>3 DEF Pends, IdleTick
  <2>5. pens["tick"].at = "none"
    BY <1>0, <2>1 DEF ScFits, ScTyped
  <2>6. TickMay(g, i)' => TickMay(g, i)
    BY <2>1, <2>4, <2>5 DEF TickMay, Pends
  <2>7. (TmpMay(g, i)' <=> TmpMay(g, i)) /\ \A v \in Writers : (PenMay(v, g, i)' <=> PenMay(v, g, i))
    BY <2>1 DEF TmpMay, PenMay, Pends
  <2> QED BY <1>0, <2>1, <2>6, <2>7, StaysPaid
<1>6. CASE Fire \/ FireFails
  <2>1. /\ ticking.at = "fire" /\ ticking.i \in Steps /\ ticking.s.gen \in Gens
        /\ ticking.s.st[ticking.i] = "pending"
        /\ UNCHANGED <<chainFile, chainTmp, pens>>
    <3>1. ticking.at = "fire" /\ UNCHANGED <<chainFile, chainTmp, pens>>
      BY <1>6 DEF Fire, FireFails
    <3>2. ticking.i \in Steps /\ ticking.s.st[ticking.i] = "pending" /\ ticking.s.gen \in 1..made
      BY <1>2, <3>1, GenOf DEF ScFits
    <3>3. made \in 0..MaxGens
      BY DEF ScTyped
    <3> QED BY <3>1, <3>2, <3>3, LimitsAssumption DEF Gens
  <2>2. PICK s \in {"fired", "failed"} : ticking' = [at |-> "write", s |-> Settle(ticking.s, ticking.i, s), i |-> 0]
    BY <1>6 DEF Fire, FireFails, Settled
  <2>3. /\ Settle(ticking.s, ticking.i, s).gen = ticking.s.gen
        /\ \A j \in Steps : Settle(ticking.s, ticking.i, s).st[j] = IF j = ticking.i THEN s ELSE ticking.s.st[j]
    BY <1>2, <2>1 DEF Settle, Content
  <2>4. pens["tick"].at = "none"
    BY <1>0, <2>1 DEF ScFits, ScTyped
  <2>5. TickMay(g, i)' <=> Pends(ticking.s, g, i)'
    BY <2>1, <2>2, <2>4 DEF TickMay
  <2>6. TickMay(g, i)' => TickMay(g, i) /\ (g # ticking.s.gen \/ i # ticking.i)
    BY <2>1, <2>2, <2>3, <2>5 DEF TickMay, Pends
  <2>7. (TmpMay(g, i)' <=> TmpMay(g, i)) /\ \A v \in Writers : (PenMay(v, g, i)' <=> PenMay(v, g, i))
    BY <2>1 DEF TmpMay, PenMay, Pends
  <2>8. g = ticking.s.gen /\ i = ticking.i => TickMay(g, i)
    BY <2>1 DEF TickMay, Pends
  <2>9. spoils' >= spoils /\ spoils' \in Nat
    BY <1>1, <1>6 DEF Fire, FireFails, Spoil
  <2>10. fires'[g][i] = fires[g][i] \/ (g = ticking.s.gen /\ i = ticking.i /\ fires'[g][i] = fires[g][i] + 1)
    <3>1. fires \in [Gens -> [Steps -> Nat]]
      BY DEF ScTyped
    <3>2. FireFails => fires' = fires
      BY DEF FireFails
    <3> QED BY <1>6, <2>1, <3>1, <3>2, FireAdds
  <2> QED BY <1>0, <1>1, <2>6, <2>7, <2>8, <2>9, <2>10 DEF Paid, One
<1>7. CASE TickWrites
  <2>1. /\ ticking.at = "write" /\ pens["tick"].at = "none" /\ pens'["tick"].at = "tmp"
        /\ \A v \in Writers : v # "tick" => pens'[v] = pens[v]
        /\ UNCHANGED <<chainFile, chainTmp, ticking, fires, spoils>>
    BY <1>0, <1>7 DEF TickWrites, Write, ScTyped
  <2>2. (TickMay(g, i)' <=> TickMay(g, i)) /\ (TmpMay(g, i)' <=> TmpMay(g, i))
    BY <2>1 DEF TickMay, TmpMay, Pends
  <2>3. \A v \in Writers : v # "tick" => (PenMay(v, g, i)' <=> PenMay(v, g, i))
    BY <2>1 DEF PenMay, Pends
  <2> QED BY <1>0, <2>1, <2>2, <2>3, StaysPaid
<1>8. CASE ClockTicks
  <2>1. UNCHANGED <<chainFile, chainTmp, pens, ticking, fires, spoils>>
    BY <1>8 DEF ClockTicks
  <2> QED BY <2>1, StaysPaid DEF TickMay, TmpMay, PenMay, Pends
<1> QED BY <1>3, <1>4, <1>5, <1>6, <1>7, <1>8 DEF TickNext

\* Once a cancel that met nobody has taken effect, no step of anybody brings back what it cancelled.
LEMMA ScRestsStep ==
  ASSUME ScTyped, ScFits, ScRests, ScNext, NEW g \in Gens, NEW i \in Steps, <<g, i>> \in resting'
  PROVE  Gone(g, i)'
<1>0. Writers = {"tick", "create", "cancel"} /\ g \in Nat \ {0} /\ NoFile.gen = 0
  BY DEF Writers, Gens, NoFile
<1>1. /\ pens \in [Writers -> [at : {"none", "tmp", "rename"}, c : Content]]
      /\ ticking \in [at : {"idle", "look", "fire", "write", "remove"}, s : Content, i : Steps \union {0}]
      /\ made \in Nat
  BY LimitsAssumption DEF ScTyped
<1>2. ~Pends(NoFile, g, i)
  BY <1>0 DEF Pends
<1>3. CASE <<g, i>> \notin resting
  <2>1. PICK w \in Writers : RenameChain(w)
    BY <1>3 DEF ScNext, PenNext, TickNext, PlaneNext, WriteChainTmp, RenameMisses, WriteSpoiled, TickReads, TickRemoves,
       TickLooks, Fire, FireFails, TickWrites, Create, Cancel, ScCrash, ClockTicks
  <2>2. resting' = IF w = "cancel" /\ Alone(w) /\ ticking.at = "idle"
                   THEN resting \union {<<chainTmp.gen, k>> : k \in {j \in Steps : chainTmp.st[j] = "cancelled"}}
                   ELSE resting
    BY <2>1 DEF RenameChain
  <2>3. /\ w = "cancel" /\ Alone(w) /\ ticking.at = "idle"
        /\ g = chainTmp.gen /\ chainTmp.st[i] = "cancelled"
    BY <1>3, <2>2
  <2>4. /\ chainTmp # NoFile /\ chainFile' = chainTmp /\ chainTmp' = NoFile /\ ticking' = ticking /\ made' = made
        /\ \A v \in Writers : pens'[v].at = "none"
    BY <1>1, <2>1, <2>3 DEF RenameChain, Written, Alone, IdlePen
  <2>5. g <= made
    BY <1>1, <2>3, <2>4, GenOf DEF ScFits, ScTyped
  <2>6. ~Pends(chainFile, g, i)' /\ ~Pends(chainTmp, g, i)' /\ \A v \in Writers : ~PenMay(v, g, i)'
    BY <1>2, <2>3, <2>4 DEF Pends, PenMay
  <2> QED BY <2>3, <2>4, <2>5, <2>6 DEF Gone
<1>4. CASE <<g, i>> \in resting
  <2> USE <1>4
  <2>0. Gone(g, i)
    BY DEF ScRests
  <2> USE DEF Gone
  <2>1. ASSUME NEW w \in Writers, WriteChainTmp(w) PROVE Gone(g, i)'
    <3>1. /\ chainTmp' = pens[w].c /\ ~Pends(chainTmp, g, i)'
          /\ \A v \in Writers : PenMay(v, g, i)' => PenMay(v, g, i)
          /\ UNCHANGED <<chainFile, ticking, made>>
      BY <1>1, <2>0, <2>1 DEF WriteChainTmp, Pends, PenMay
    <3> QED BY <2>0, <3>1 DEF Pends
  <2>2. ASSUME NEW w \in Writers, RenameChain(w) \/ RenameMisses(w) \/ WriteSpoiled(w) PROVE Gone(g, i)'
    <3>1. \A v \in Writers : PenMay(v, g, i)' => PenMay(v, g, i)
      BY <1>1, <2>2 DEF RenameChain, RenameMisses, WriteSpoiled, Written, Pends, PenMay, IdlePen
    <3>2. ~Pends(chainFile, g, i)' /\ ~Pends(chainTmp, g, i)'
      BY <1>2, <2>0, <2>2 DEF RenameChain, RenameMisses, WriteSpoiled, Pends
    <3>3. made' = made /\ (ticking' = ticking \/ ticking'.at = "idle")
      BY <2>2 DEF RenameChain, RenameMisses, WriteSpoiled, Written, IdleTick
    <3> QED BY <2>0, <3>1, <3>2, <3>3 DEF Pends
  <2>3. CASE Create
    <3>1. /\ made' = made + 1
          /\ \A v \in Writers : v # "create" => pens'[v] = pens[v]
          /\ pens'["create"] = [at |-> "tmp", c |-> NewChain(made', clock)]
          /\ UNCHANGED <<chainFile, chainTmp, ticking>>
      BY <1>0, <1>1, <2>3 DEF Create, Write
    <3>2. ~PenMay("create", g, i)'
      BY <1>0, <1>1, <2>0, <3>1 DEF PenMay, Pends, NewChain
    <3>3. \A v \in Writers : v # "create" => (PenMay(v, g, i)' <=> PenMay(v, g, i))
      BY <3>1 DEF PenMay, Pends
    <3> QED BY <1>0, <1>1, <2>0, <3>1, <3>2, <3>3 DEF Pends
  <2>4. ASSUME NEW chosen \in {{j} : j \in Steps} \union {Steps}, Cancel(chosen) PROVE Gone(g, i)'
    <3> DEFINE st == [j \in Steps |-> IF j \in chosen /\ chainFile.st[j] = "pending" THEN "cancelled" ELSE chainFile.st[j]]
    <3>1. /\ Write("cancel", [chainFile EXCEPT !.st = st]) /\ UNCHANGED <<chainFile, chainTmp, ticking, made>>
      BY <2>4 DEF Cancel
    <3>2. st[i] = "pending" => chainFile.st[i] = "pending"
      OBVIOUS
    <3> HIDE DEF st
    <3>3. [chainFile EXCEPT !.st = st].gen = chainFile.gen /\ [chainFile EXCEPT !.st = st].st = st
      BY DEF ScTyped, Content
    <3>4. /\ \A v \in Writers : v # "cancel" => pens'[v] = pens[v]
          /\ pens'["cancel"].c = [chainFile EXCEPT !.st = st]
      BY <1>0, <1>1, <3>1 DEF Write
    <3>5. ~PenMay("cancel", g, i)'
      BY <2>0, <3>2, <3>3, <3>4 DEF PenMay, Pends
    <3>6. \A v \in Writers : v # "cancel" => (PenMay(v, g, i)' <=> PenMay(v, g, i))
      BY <3>4 DEF PenMay, Pends
    <3> QED BY <2>0, <3>1, <3>5, <3>6 DEF Pends
  <2>5. CASE TickReads \/ TickRemoves \/ ClockTicks
    <3>1. /\ \/ ticking' = ticking \/ ticking'.at = "idle" \/ ticking'.s = chainFile
          /\ chainFile' \in {chainFile, NoFile}
          /\ UNCHANGED <<chainTmp, pens, made>>
      <4>1. CASE TickReads
        BY <4>1 DEF TickReads, IdleTick
      <4>2. CASE TickRemoves
        BY <4>2 DEF TickRemoves, IdleTick
      <4>3. CASE ClockTicks
        BY <4>3 DEF ClockTicks
      <4> QED BY <2>5, <4>1, <4>2, <4>3
    <3> QED BY <1>2, <2>0, <3>1 DEF Pends, PenMay
  <2>6. CASE TickLooks
    <3>1. /\ ticking.at = "look" /\ UNCHANGED <<chainFile, chainTmp, pens, made>>
      BY <2>6 DEF TickLooks
    <3>2. PICK st \in [Steps -> StepStates], toFire \in SUBSET Steps :
            /\ ticking' = IF toFire # {} THEN [at |-> "fire", s |-> [ticking.s EXCEPT !.st = st], i |-> Min(toFire)]
                          ELSE IF [ticking.s EXCEPT !.st = st] # ticking.s
                          THEN [at |-> "write", s |-> [ticking.s EXCEPT !.st = st], i |-> 0]
                          ELSE IdleTick
            /\ \A j \in Steps : ticking.s.st[j] # "pending" => st[j] = ticking.s.st[j]
      BY <2>6, TickLooked
    <3>3. [ticking.s EXCEPT !.st = st].gen = ticking.s.gen /\ [ticking.s EXCEPT !.st = st].st = st
      BY <1>1 DEF Content
    <3>4. ticking'.at # "idle" => (Pends(ticking.s, g, i)' => Pends(ticking.s, g, i))
      BY <3>2, <3>3 DEF Pends, IdleTick
    <3> QED BY <2>0, <3>1, <3>4 DEF Pends, PenMay
  <2>7. CASE Fire \/ FireFails
    <3>1. /\ ticking.at = "fire" /\ ticking.i \in Steps /\ UNCHANGED <<chainFile, chainTmp, pens, made>>
      BY <2>7 DEF Fire, FireFails, ScFits
    <3>2. PICK s \in {"fired", "failed"} : ticking' = [at |-> "write", s |-> Settle(ticking.s, ticking.i, s), i |-> 0]
      BY <2>7 DEF Fire, FireFails, Settled
    <3>3. /\ Settle(ticking.s, ticking.i, s).gen = ticking.s.gen
          /\ \A j \in Steps : Settle(ticking.s, ticking.i, s).st[j] = IF j = ticking.i THEN s ELSE ticking.s.st[j]
      BY <1>1, <3>1 DEF Settle, Content
    <3>4. Pends(ticking.s, g, i)' => Pends(ticking.s, g, i)
      BY <3>2, <3>3 DEF Pends
    <3> QED BY <2>0, <3>1, <3>4 DEF Pends, PenMay
  <2>8. CASE TickWrites
    <3>1. /\ ticking.at = "write" /\ pens'["tick"].c = ticking.s
          /\ \A v \in Writers : v # "tick" => pens'[v] = pens[v]
          /\ UNCHANGED <<chainFile, chainTmp, ticking, made>>
      BY <1>0, <1>1, <2>8 DEF TickWrites, Write
    <3>2. ~PenMay("tick", g, i)'
      BY <2>0, <3>1 DEF PenMay, Pends
    <3>3. \A v \in Writers : v # "tick" => (PenMay(v, g, i)' <=> PenMay(v, g, i))
      BY <3>1 DEF PenMay, Pends
    <3> QED BY <2>0, <3>1, <3>2, <3>3 DEF Pends
  <2>9. CASE ScCrash
    <3>1. /\ \A v \in Writers : pens'[v].at = "none"
          /\ ticking'.at = "idle" /\ chainTmp' = NoFile /\ UNCHANGED <<chainFile, made>>
      BY <2>9 DEF ScCrash, IdlePen, IdleTick
    <3> QED BY <1>2, <2>0, <3>1 DEF Pends, PenMay
  <2> QED BY <2>1, <2>2, <2>3, <2>4, <2>5, <2>6, <2>7, <2>8, <2>9 DEF ScNext, PenNext, TickNext, PlaneNext
<1> QED BY <1>3, <1>4

\* No chain at all to begin with.
LEMMA ScInvInit == ScStart => ScInv
<1>1. ScStart => ScTyped
  BY LimitsAssumption, ContentIs DEF ScStart, ScIdle, ScTyped, Unseen
<1>2. ScStart => ScFits
  BY DEF ScStart, ScIdle, ScFits, Made, IdlePen, IdleTick, Writers
<1>3. ASSUME ScStart, NEW g \in Gens, NEW i \in Steps PROVE Paid(g, i)
  <2>1. NoFile.gen = 0 /\ g # 0
    BY DEF NoFile, Gens
  <2>2. ~TickMay(g, i) \/ TickMay(g, i)
    OBVIOUS
  <2>3. ~TmpMay(g, i) /\ ~PenMay("create", g, i) /\ ~PenMay("cancel", g, i)
    BY <1>3, <2>1 DEF ScStart, ScIdle, TmpMay, PenMay, Pends, IdlePen, Writers
  <2>4. fires[g][i] = 0 /\ spoils = 0
    BY <1>3 DEF ScStart, ScIdle
  <2> QED BY <2>3, <2>4 DEF Paid, One
<1>4. ScStart => ScPaid /\ ScRests
  BY <1>3 DEF ScPaid, ScRests, ScStart, ScIdle
<1> QED BY <1>1, <1>2, <1>4 DEF ScInv

\* Every step keeps the invariant, and so does stuttering.
LEMMA ScInvStep == ScInv /\ [ScNext]_scVars => ScInv'
<1>1. ASSUME ScInv, ScNext PROVE ScInv'
  <2>1. ScTyped' /\ ScFits'
    BY <1>1, ScTypedStep, ScFitsStep DEF ScInv
  <2>2. Gens' = Gens /\ Steps' = Steps
    BY DEF Gens, Steps
  <2>3. ScRests'
    BY <1>1, ScRestsStep DEF ScInv, ScRests
  <2>4. ASSUME NEW g \in Gens, NEW i \in Steps PROVE Paid(g, i)'
    <3>1. Paid(g, i)
      BY <1>1 DEF ScInv, ScPaid
    <3> QED BY <1>1, <3>1, WriteKeepsPaid, RenameKeepsPaid, SpoilPays, PlaneKeepsPaid, TickKeepsPaid DEF ScInv, ScNext, PenNext
  <2> QED BY <2>1, <2>3, <2>4 DEF ScInv, ScPaid
<1>2. ASSUME ScInv, UNCHANGED scVars PROVE ScInv'
  <2>1. ScTyped' /\ ScFits' /\ ScRests'
    BY <1>2 DEF ScInv, scVars, ScTyped, ScFits, ScRests, Gone, Made, PenMay, Pends
  <2>2. ASSUME NEW g \in Gens, NEW i \in Steps PROVE Paid(g, i)'
    <3>1. Paid(g, i) /\ ScTyped
      BY <1>2 DEF ScInv, ScPaid
    <3> QED BY <1>2, <3>1, StaysPaid DEF scVars, TickMay, TmpMay, PenMay, Pends
  <2> QED BY <2>1, <2>2 DEF ScInv, ScPaid
<1> QED BY <1>1, <1>2

\* The potential bounds the firings.
LEMMA ScInvRepeats == ScInv => RepeatsForCause
<1>1. ASSUME ScInv, NEW g \in Gens, NEW i \in Steps PROVE fires[g][i] <= 1 + spoils
  <2>1. fires[g][i] \in Nat /\ spoils \in Nat /\ Paid(g, i)
    BY <1>1, LimitsAssumption DEF ScInv, ScTyped, ScPaid
  <2> QED BY <2>1 DEF Paid, One
<1> QED BY <1>1 DEF RepeatsForCause

\* What is resting is fired by no step: the firing tick holds it as pending.
LEMMA ScInvHolds ==
  ASSUME ScInv, [ScNext]_scVars, NEW g \in Gens, NEW i \in Steps, <<g, i>> \in resting
  PROVE  fires'[g][i] = fires[g][i]
<1>1. Gone(g, i)
  BY DEF ScInv, ScRests
<1>2. CASE Fire
  <2>1. /\ ticking.at = "fire" /\ ticking.i \in Steps /\ ticking.s.st[ticking.i] = "pending"
        /\ ticking.s \in Content /\ Made(ticking.s) /\ ticking.s # NoFile /\ made \in 0..MaxGens
        /\ fires \in [Gens -> [Steps -> Nat]]
    BY <1>2 DEF Fire, ScInv, ScFits, ScTyped
  <2>2. ticking.s.gen \in Gens
    BY <2>1, GenOf, LimitsAssumption DEF Gens
  <2>3. g # ticking.s.gen \/ i # ticking.i
    BY <1>1, <2>1 DEF Gone, Pends
  <2> QED BY <1>2, <2>1, <2>2, <2>3, FireAdds
<1>3. CASE ~Fire
  <2>1. fires' = fires
    BY <1>3 DEF ScNext, PenNext, TickNext, PlaneNext, WriteChainTmp, RenameChain, RenameMisses, WriteSpoiled, TickReads,
       TickRemoves, TickLooks, FireFails, TickWrites, Create, Cancel, ScCrash, ClockTicks, scVars
  <2> QED BY <2>1
<1> QED BY <1>2, <1>3

\* A step of a chain is fired once, and once more for each crash, failed write, failed executor
\* or concurrent cancel; one cancelled while nobody else held the chain is never fired (tick, fire,
\* create, cancel, and the store's write through one temporary name).
THEOREM StepsFireForCause == ScSpec => FiresForCause
<1>1. ScSpec => []ScInv
  BY ScInvInit, ScInvStep, PTL DEF ScSpec
<1>2. ScInv /\ [ScNext]_scVars => CancelHolds
  BY ScInvHolds DEF CancelHolds
<1> QED BY <1>1, <1>2, ScInvRepeats, PTL DEF ScSpec, FiresForCause

(***************************************************************************)
(* The routines.                                                           *)
(***************************************************************************)

\* A recurring routine that was on at start-up has its missed runs behind it from the moment
\* the loop has primed it, and the run in hand is one after.
RunsAreNew(r) ==
  /\ rloop.at \in {"tick", "fire", "mark", "sleep", "rescan"} \/ (rloop.at = "prune" /\ rloop.left = {})
     \/ (rloop.at = "prime" /\ r \notin rloop.left)
     => lastRun[r] = Never \/ lastRun[r] >= booted.at
  /\ rloop.at \in {"prune", "prime"} /\ rloop.left # {} => known[r] = "on"

Absorbed ==
  /\ \A r \in Recurring \cap booted.on : RunsAreNew(r)
  /\ rloop.at = "prune" => rloop.left \in {{}, Rs}

\* The run in hand is the next one, and behind the send it was tried.
InHand ==
  rloop.at \in {"fire", "mark"} =>
    /\ rloop.r \in Rs
    /\ rloop.r \in Recurring => lastRun[rloop.r] # Never /\ rloop.run = lastRun[rloop.r] + 1
    /\ rloop.at = "mark" => <<rloop.r, rloop.run>> \in ran

RoLoop == [at : {"boot", "prune", "prime", "tick", "fire", "mark", "sleep", "rescan", "dead"},
           left : SUBSET Rs, r : Rs \union {NoRoutine}, run : Never..MaxTime]

RoInv == RoTypeOK /\ rloop \in RoLoop /\ booted.at <= now /\ Absorbed /\ InHand

\* Every state of the loop is a record of its four fields.
LEMMA RoTypes ==
  ASSUME RoInv
  PROVE  /\ rloop.left \subseteq Rs /\ rloop.run \in Never..MaxTime /\ now \in 0..MaxTime /\ MaxTime \in Nat /\ OnceAt \in Nat
         /\ booted.at \in 0..MaxTime /\ booted.at <= now
         /\ \A r \in Rs : lastRun[r] \in {Never} \union 0..MaxTime /\ known[r] \in {"absent", "off", "on"}
         /\ \A at \in {"boot", "prune", "prime", "tick", "sleep", "rescan", "dead"}, left \in SUBSET Rs : LoopAt(at, left) \in RoLoop
BY TimesAssumption DEF RoInv, RoTypeOK, RoLoop, LoopAt, Never

\* A step of the loop, of an editor, of a crash or of the clock keeps the types.
LEMMA RoTypedStep ==
  ASSUME RoInv, RoNext
  PROVE  RoTypeOK' /\ rloop' \in RoLoop /\ booted'.at <= now'
<1> USE RoTypes
<1>1. CASE Discover
  <2>1. known' \in [Rs -> {"absent", "off", "on"}]
    BY <1>1 DEF Discover, Found, RoInv, RoTypeOK
  <2>2. booted'.at \in 0..MaxTime /\ booted'.at <= now /\ booted'.on \subseteq Rs
    BY <1>1 DEF Discover, RoInv, RoTypeOK
  <2>3. rloop' \in RoLoop
    BY <1>1 DEF Discover, RoInv, RoLoop
  <2> QED BY <1>1, <2>1, <2>2, <2>3 DEF Discover, RoInv, RoTypeOK, RoLoop
<1>2. CASE Prune
  <2>1. lastRun' \in [Rs -> {Never} \union 0..MaxTime]
    BY <1>2 DEF Prune
  <2>2. rloop' \in RoLoop
    BY <1>2 DEF Prune
  <2> QED BY <1>2, <2>1, <2>2 DEF Prune, RoInv, RoTypeOK, RoLoop
<1>3. ASSUME NEW r \in rloop.left, Prime(r) \/ PrimeFails(r) \/ TickRoutine(r) PROVE RoTypeOK' /\ rloop' \in RoLoop /\ UNCHANGED <<booted, now>>
  <2>1. r \in Rs
    OBVIOUS
  <2>2. lastRun' \in [Rs -> {Never} \union 0..MaxTime]
    BY <1>3, <2>1 DEF Prime, PrimeFails, TickRoutine, Passes, RoInv, RoTypeOK
  <2>3. CASE Prime(r)
    <3>1. rloop' \in RoLoop
      BY <2>3 DEF Prime, RoInv, RoLoop
    <3> QED BY <2>3, <2>2, <3>1 DEF Prime, RoInv, RoTypeOK, RoLoop
  <2>4. CASE PrimeFails(r)
    <3>1. rloop' \in RoLoop
      BY <2>4 DEF PrimeFails
    <3>2. changes' \in 0..MaxChanges
      BY <2>4, TimesAssumption DEF PrimeFails, Change, RoInv, RoTypeOK
    <3> QED BY <2>4, <2>2, <3>1, <3>2 DEF PrimeFails, RoInv, RoTypeOK, RoLoop
  <2>5. CASE TickRoutine(r)
    <3>1. CASE Passes(r)
      BY <2>5, <2>2, <3>1 DEF Passes, TickRoutine, RoInv, RoTypeOK, RoLoop
    <3>2. CASE ~Passes(r)
      <4>1. /\ IsDue(r) /\ ~(r \in Recurring /\ lastRun[r] = Never) /\ UNCHANGED lastRun
            /\ rloop' = [at |-> "fire", left |-> rloop.left \ {r}, r |-> r, run |-> IF r \in Once THEN OnceAt ELSE lastRun[r] + 1]
        BY <2>5, <3>2 DEF TickRoutine
      <4>2. (IF r \in Once THEN OnceAt ELSE lastRun[r] + 1) \in Never..MaxTime
        BY <4>1, <2>1 DEF IsDue, Rs, Never
      <4>3. rloop' \in RoLoop
        BY <4>1, <4>2, <2>1 DEF RoLoop
      <4> QED BY <2>5, <2>2, <4>3 DEF TickRoutine, RoInv, RoTypeOK, RoLoop
    <3> QED BY <3>1, <3>2
  <2> QED BY <1>3, <2>3, <2>4, <2>5 DEF Prime, PrimeFails, TickRoutine
<1>4. CASE PrimeEnds \/ TickDone \/ Wakes
  <2>1. rloop' \in RoLoop
    BY <1>4 DEF PrimeEnds, TickDone, Wakes
  <2> QED BY <1>4, <2>1 DEF PrimeEnds, TickDone, Wakes, RoInv, RoTypeOK, RoLoop
<1>5. CASE RunSent \/ RunDenied \/ Mark \/ TickThrows
  <2>1. changes' \in 0..MaxChanges
    BY <1>5, TimesAssumption DEF RunSent, RunDenied, Mark, TickThrows, Change, RoInv, RoTypeOK
  <2>2. rloop' \in RoLoop
    BY <1>5 DEF RunSent, RunDenied, Mark, TickThrows, RoInv, RoLoop
  <2>3. rloop.at \in {"fire", "mark"} /\ rloop.r \in Rs
    BY <1>5 DEF RunSent, RunDenied, Mark, TickThrows, RoInv, InHand
  <2>4. ran' \subseteq Rs \X (Never..MaxTime)
    BY <1>5, <2>3 DEF RunSent, RunDenied, Mark, TickThrows, RoInv, RoTypeOK
  <2>5. lastRun' \in [Rs -> {Never} \union 0..MaxTime]
    BY <1>5, <2>3 DEF RunSent, RunDenied, Mark, TickThrows, RoInv, RoTypeOK, InHand, Never, Rs
  <2> QED BY <1>5, <2>1, <2>2, <2>4, <2>5 DEF RunSent, RunDenied, Mark, TickThrows, RoInv, RoTypeOK, RoLoop
<1>6. ASSUME NEW r \in Rs, NEW to \in {"absent", "broken", "off", "on"}, Edit(r, to) PROVE RoTypeOK' /\ rloop' \in RoLoop /\ UNCHANGED <<booted, now>>
  BY <1>6, TimesAssumption DEF Edit, Change, RoInv, RoTypeOK
<1>7. CASE RoCrash
  BY <1>7, TimesAssumption DEF RoCrash, Change, RoInv, RoTypeOK, RoLoop
<1>8. CASE TimePasses
  BY <1>8 DEF TimePasses, RoInv, RoTypeOK
<1> QED BY <1>1, <1>2, <1>3, <1>4, <1>5, <1>6, <1>7, <1>8 DEF RoNext, RoutineLoop, RoInv,
     Discover, Prune, PrimeEnds, TickDone, Wakes, RunSent, RunDenied, Mark, TickThrows, RoCrash

\* Start-up absorbs what was missed, and a run is marked with its own number: what a routine
\* that was on then ran last stays behind the start-up.
LEMMA AbsorbedStep ==
  ASSUME RoInv, RoNext
  PROVE  Absorbed'
<1> USE RoTypes
<1>0. /\ \A r \in Recurring \cap booted.on : r \in Rs /\ RunsAreNew(r)
      /\ rloop.at = "prune" => rloop.left \in {{}, Rs}
      /\ rloop \in RoLoop
  BY DEF RoInv, Absorbed, Rs
<1>1. CASE Discover
  <2>1. \A r \in Recurring \cap booted'.on : r \in Rs
    BY DEF Rs
  <2>2. CASE rloop.at = "boot"
    <3>1. rloop'.at = "prune" /\ rloop'.left = Rs /\ \A r \in booted'.on : r \in Rs /\ known'[r] = "on"
      BY <1>1, <2>2, <1>0 DEF Discover, RoLoop
    <3> QED BY <2>1, <3>1 DEF Absorbed, RunsAreNew
  <2>3. CASE rloop.at = "rescan"
    <3>1. rloop'.at = "prune" /\ rloop'.left = {} /\ UNCHANGED <<booted, lastRun>>
      BY <1>1, <2>3, <1>0 DEF Discover, RoLoop
    <3> QED BY <1>0, <2>3, <3>1 DEF Absorbed, RunsAreNew
  <2> QED BY <1>1, <2>2, <2>3 DEF Discover
<1>2. CASE Prune
  <2>1. UNCHANGED <<known, booted>> /\ rloop.at = "prune"
        /\ rloop' = IF rloop.left = {} THEN LoopAt("tick", Rs) ELSE LoopAt("prime", rloop.left)
    BY <1>2 DEF Prune
  <2>2. rloop'.at \in {"tick", "prime"} /\ (rloop'.at = "tick" <=> rloop.left = {})
        /\ (rloop'.at = "prime" => rloop'.left = rloop.left)
    BY <2>1 DEF LoopAt
  <2>3. ASSUME NEW r \in Recurring \cap booted.on PROVE RunsAreNew(r)'
    <3>1. r \in Rs /\ RunsAreNew(r) /\ (rloop.left = {} \/ r \in rloop.left)
      BY <1>0, <2>1, <2>3
    <3>2. lastRun'[r] = Never \/ lastRun'[r] = lastRun[r]
      BY <1>2, <3>1 DEF Prune
    <3> QED BY <2>1, <2>2, <3>1, <3>2 DEF RunsAreNew
  <2> QED BY <2>1, <2>2, <2>3 DEF Absorbed
<1>3. ASSUME NEW q \in rloop.left, Prime(q) \/ PrimeFails(q) \/ TickRoutine(q) PROVE Absorbed'
  <2>1. UNCHANGED <<known, booted, now>> /\ rloop.at \in {"prime", "tick"} /\ rloop'.at # "prune" /\ q \in Rs
    BY <1>3, <1>0 DEF Prime, PrimeFails, TickRoutine, Passes, LoopAt, RoLoop
  <2>2. ASSUME NEW r \in Recurring \cap booted.on PROVE RunsAreNew(r)'
    <3>1. r \in Rs /\ RunsAreNew(r) /\ r \notin Once
      BY <1>0, <2>2, KindsAssumption
    <3>2. CASE Prime(q)
      <4>1. rloop.at = "prime" /\ rloop'.at = "prime" /\ rloop'.left = rloop.left \ {q}
        BY <3>2, <1>0 DEF Prime, RoLoop
      <4>2. CASE r = q
        <5>1. known[r] = "on"
          BY <3>1, <4>1, <4>2 DEF RunsAreNew
        <5>2. CASE IsDue(r)
          <6>1. lastRun'[r] = now
            BY <3>2, <4>2, <5>1, <5>2, <3>1 DEF Prime, Primes, RoInv, RoTypeOK
          <6> QED BY <6>1, <5>1, <2>1 DEF RunsAreNew
        <5>3. CASE ~IsDue(r)
          <6>1. lastRun'[r] = lastRun[r]
            BY <3>2, <4>2, <5>3 DEF Prime, Primes
          <6>2. lastRun[r] = Never \/ lastRun[r] + 1 > now
            BY <5>3, <3>1 DEF IsDue, Never
          <6>3. lastRun[r] = Never \/ lastRun[r] >= booted.at
            BY <6>2, <3>1 DEF Never
          <6> QED BY <6>1, <6>3, <5>1, <2>1 DEF RunsAreNew
        <5> QED BY <5>2, <5>3
      <4>3. CASE r # q
        <5>1. lastRun'[r] = lastRun[r] /\ (r \in rloop'.left <=> r \in rloop.left)
          BY <3>2, <4>1, <4>3, <3>1 DEF Prime, RoInv, RoTypeOK
        <5> QED BY <5>1, <4>1, <3>1, <2>1 DEF RunsAreNew
      <4> QED BY <4>2, <4>3
    <3>3. CASE PrimeFails(q)
      <4>1. rloop'.at = "dead"
        BY <3>3 DEF PrimeFails, LoopAt
      <4> QED BY <4>1 DEF RunsAreNew
    <3>4. CASE TickRoutine(q)
      <4>1. rloop.at = "tick" /\ rloop'.at \in {"tick", "fire"} /\ (lastRun'[r] = lastRun[r] \/ lastRun'[r] = now)
        BY <3>4, <3>1 DEF TickRoutine, Passes, LoopAt, RoInv, RoTypeOK
      <4> QED BY <4>1, <3>1, <2>1 DEF RunsAreNew
    <3> QED BY <1>3, <3>2, <3>3, <3>4
  <2> QED BY <2>1, <2>2 DEF Absorbed
<1>4. CASE PrimeEnds \/ TickDone \/ Wakes
  <2>1. UNCHANGED <<known, booted, lastRun>> /\ rloop'.at \in {"tick", "sleep", "rescan"}
        /\ (rloop.at \in {"tick", "sleep"} \/ (rloop.at = "prime" /\ rloop.left = {}))
    BY <1>4 DEF PrimeEnds, TickDone, Wakes, LoopAt
  <2> QED BY <1>0, <2>1 DEF Absorbed, RunsAreNew
<1>5. CASE RunSent \/ RunDenied \/ TickThrows
  <2>1. UNCHANGED <<known, booted, lastRun>> /\ rloop'.at \in {"tick", "mark"} /\ rloop.at \in {"fire", "mark"}
    BY <1>5, <1>0 DEF RunSent, RunDenied, TickThrows, LoopAt, RoLoop
  <2> QED BY <1>0, <2>1 DEF Absorbed, RunsAreNew
<1>6. CASE Mark
  <2>1. UNCHANGED <<known, booted>> /\ rloop'.at = "tick" /\ rloop.at = "mark"
    BY <1>6 DEF Mark, LoopAt
  <2>2. ASSUME NEW r \in Recurring \cap booted.on PROVE RunsAreNew(r)'
    <3>1. r \in Rs /\ RunsAreNew(r) /\ r \notin Once
      BY <1>0, <2>2, KindsAssumption
    <3>2. lastRun'[r] = lastRun[r] \/ (rloop.r = r /\ lastRun'[r] = rloop.run)
      BY <1>6, <3>1 DEF Mark, RoInv, RoTypeOK
    <3>3. rloop.r = r => lastRun[r] # Never /\ rloop.run = lastRun[r] + 1
      BY <2>1, <3>1 DEF RoInv, InHand
    <3>4. lastRun[r] = Never \/ lastRun[r] >= booted.at
      BY <2>1, <3>1 DEF RunsAreNew
    <3>5. lastRun'[r] = Never \/ lastRun'[r] >= booted.at
      BY <3>1, <3>2, <3>3, <3>4 DEF Never
    <3> QED BY <2>1, <3>5 DEF RunsAreNew
  <2> QED BY <2>1, <2>2 DEF Absorbed
<1>7. ASSUME NEW r \in Rs, NEW to \in {"absent", "broken", "off", "on"}, Edit(r, to) \/ TimePasses PROVE Absorbed'
  BY <1>7, <1>0 DEF Edit, TimePasses, Absorbed, RunsAreNew
<1>8. CASE RoCrash
  <2>1. rloop'.at = "boot"
    BY <1>8 DEF RoCrash, LoopAt
  <2> QED BY <2>1 DEF Absorbed, RunsAreNew
<1>9. CASE TimePasses
  BY <1>9, <1>0 DEF TimePasses, Absorbed, RunsAreNew
<1> QED BY <1>1, <1>2, <1>3, <1>4, <1>5, <1>6, <1>7, <1>8, <1>9 DEF RoNext, RoutineLoop

\* Only Mark moves a run that was due on, by one, and behind its send.
LEMMA InHandStep ==
  ASSUME RoInv, RoNext
  PROVE  InHand'
<1> USE RoTypes
<1>0. rloop \in RoLoop /\ InHand
  BY DEF RoInv
<1>1. CASE Discover \/ Prune \/ PrimeEnds \/ TickDone \/ Wakes \/ RoCrash \/ Mark \/ TickThrows
  <2>1. rloop'.at \notin {"fire", "mark"}
    <3>1. CASE Discover
      BY <3>1, <1>0 DEF Discover, RoLoop
    <3>2. CASE ~Discover
      BY <3>2, <1>1 DEF Prune, PrimeEnds, TickDone, Wakes, RoCrash, Mark, TickThrows, LoopAt
    <3> QED BY <3>1, <3>2
  <2> QED BY <2>1 DEF InHand
<1>2. ASSUME NEW r \in rloop.left, Prime(r) \/ PrimeFails(r) PROVE InHand'
  <2>1. rloop'.at \notin {"fire", "mark"}
    BY <1>2, <1>0 DEF Prime, PrimeFails, LoopAt, RoLoop
  <2> QED BY <2>1 DEF InHand
<1>3. ASSUME NEW r \in rloop.left, TickRoutine(r) PROVE InHand'
  <2>1. r \in Rs
    OBVIOUS
  <2>2. CASE Passes(r)
    BY <2>2 DEF Passes, LoopAt, InHand
  <2>3. CASE ~Passes(r)
    <3>1. /\ IsDue(r) /\ UNCHANGED lastRun
          /\ rloop' = [at |-> "fire", left |-> rloop.left \ {r}, r |-> r, run |-> IF r \in Once THEN OnceAt ELSE lastRun[r] + 1]
      BY <1>3, <2>3 DEF TickRoutine
    <3>2. r \in Recurring => lastRun[r] # Never /\ r \notin Once
      BY <3>1, KindsAssumption DEF IsDue
    <3> QED BY <2>1, <3>1, <3>2 DEF InHand
  <2> QED BY <2>2, <2>3
<1>4. CASE RunSent \/ RunDenied
  BY <1>4, <1>0 DEF RunSent, RunDenied, InHand, RoLoop
<1>5. ASSUME NEW r \in Rs, NEW to \in {"absent", "broken", "off", "on"}, Edit(r, to) PROVE InHand'
  BY <1>5, <1>0 DEF Edit, InHand
<1>6. CASE TimePasses
  BY <1>6, <1>0 DEF TimePasses, InHand
<1> QED BY <1>1, <1>2, <1>3, <1>4, <1>5, <1>6 DEF RoNext, RoutineLoop

\* The three parts are kept by every step, and hold at the start.
LEMMA RoInvHolds == RoSpec => []RoInv
<1>1. RoStart => RoInv
  <2> SUFFICES ASSUME RoStart PROVE RoInv
    OBVIOUS
  <2>1. rloop \in RoLoop /\ rloop.at = "boot"
    BY TimesAssumption DEF RoStart, LoopAt, RoLoop, Never
  <2>2. RoTypeOK /\ booted.at <= now
    BY <2>1, TimesAssumption DEF RoStart, RoIdle, RoTypeOK, LoopAt, Never
  <2>3. Absorbed
    BY DEF RoStart, RoIdle, Absorbed, LoopAt
  <2> QED BY <2>1, <2>2, <2>3 DEF RoInv, InHand
<1>2. RoInv /\ RoNext => RoInv'
  BY RoTypedStep, AbsorbedStep, InHandStep DEF RoInv
<1>3. RoInv /\ UNCHANGED roVars => RoInv'
  <2> SUFFICES ASSUME RoInv, UNCHANGED roVars PROVE RoInv'
    OBVIOUS
  <2>1. text' = text /\ known' = known /\ lastRun' = lastRun /\ rloop' = rloop /\ now' = now /\ ran' = ran
        /\ booted' = booted /\ changes' = changes
    BY DEF roVars
  <2> QED BY <2>1 DEF RoInv, RoTypeOK, Absorbed, RunsAreNew, InHand
<1> QED BY <1>1, <1>2, <1>3, PTL DEF RoSpec

\* A run of a routine that was on when the server came up is one of the time since, however often
\* the server was down, the loop was late or a write failed (primeRoutines and tickRoutine).
THEOREM MissedRunsAreSkipped == RoSpec => MissedNotReplayed
<1>1. ASSUME RoInv, [RoNext]_roVars, NEW p \in ran' \ ran, p[1] \in Recurring \cap booted.on PROVE p[2] > booted.at
  <2>1. RunSent \/ RunDenied
    BY <1>1 DEF RoNext, RoutineLoop, roVars, Discover, Prune, Prime, PrimeFails, TickRoutine, PrimeEnds, Mark, TickThrows,
       TickDone, Wakes, Edit, RoCrash, TimePasses
  <2>2. rloop.at = "fire" /\ p = <<rloop.r, rloop.run>>
    BY <1>1, <2>1 DEF RunSent, RunDenied
  <2>3. rloop.r \in Recurring \cap booted.on /\ rloop.r \in Rs
    BY <1>1, <2>2 DEF Rs
  <2>4. lastRun[rloop.r] # Never /\ rloop.run = lastRun[rloop.r] + 1 /\ lastRun[rloop.r] >= booted.at
    BY <1>1, <2>2, <2>3 DEF RoInv, InHand, Absorbed, RunsAreNew
  <2>5. lastRun[rloop.r] \in 0..MaxTime /\ booted.at \in 0..MaxTime
    BY <1>1, <2>3, <2>4, RoTypes DEF Never
  <2> QED BY <2>2, <2>4, <2>5
<1>2. RoInv /\ [RoNext]_roVars => \A p \in ran' \ ran : p[1] \in Recurring \cap booted.on => p[2] > booted.at
  BY <1>1
<1> QED BY <1>2, RoInvHolds, PTL DEF RoSpec, MissedNotReplayed

\* While a routine is on, its last run moves past another only once that one was sent or refused, also
\* when the loop is late by several: only start-up passes runs over (tickRoutine's advance).
THEOREM RunsAreTaken == RoSpec => NoRunPassedOver
<1>1. ASSUME RoInv, [RoNext]_roVars, NEW r \in Recurring, NEW s \in 1..MaxTime, Missing(r, s), lastRun'[r] >= s, rloop.at # "prime"
      PROVE  <<r, s>> \in ran'
  <2>1. r \in Rs /\ r \notin Once /\ lastRun[r] \in 0..MaxTime /\ lastRun[r] < s /\ lastRun'[r] # lastRun[r]
    BY <1>1, RoTypes, KindsAssumption, TimesAssumption DEF Missing, Rs, Never
  <2>2. CASE Mark
    <3>1. rloop.r = r /\ lastRun'[r] = rloop.run /\ rloop.at = "mark" /\ ran' = ran
      BY <2>1, <2>2, <1>1 DEF Mark, RoInv, RoTypeOK
    <3>2. rloop.run = lastRun[r] + 1 /\ <<r, rloop.run>> \in ran
      BY <1>1, <3>1 DEF RoInv, InHand
    <3>3. s = rloop.run
      BY <1>1, <2>1, <3>1, <3>2, TimesAssumption
    <3> QED BY <3>1, <3>2, <3>3
  <2>3. CASE Prune
    BY <1>1, <2>1, <2>3 DEF Prune, Never
  <2>4. ASSUME NEW q \in rloop.left, TickRoutine(q) PROVE FALSE
    BY <1>1, <2>1, <2>4 DEF TickRoutine, Missing, RoInv, RoTypeOK
  <2> QED BY <1>1, <2>1, <2>2, <2>3, <2>4 DEF RoNext, RoutineLoop, roVars, Discover, Prime, PrimeFails, PrimeEnds,
       RunSent, RunDenied, TickThrows, TickDone, Wakes, Edit, RoCrash, TimePasses
<1>2. RoInv /\ [RoNext]_roVars => \A r \in Recurring, s \in 1..MaxTime :
          Missing(r, s) /\ lastRun'[r] >= s => <<r, s>> \in ran' \/ rloop.at = "prime"
  BY <1>1
<1> QED BY <1>2, RoInvHolds, PTL DEF RoSpec, NoRunPassedOver

==============================================================================
