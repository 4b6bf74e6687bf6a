------------------------------- MODULE Maildir -------------------------------
(***************************************************************************)
(* The file queue of one session (packages/queue): a record is one JSON    *)
(* file, its sub-state is the directory it lies in, and every transition   *)
(* is one rename or one unlink.  The directories outlive the server; the   *)
(* dedup window doneIds is its in-memory copy of the ids in done/.         *)
(*                                                                         *)
(* A record is its file name's stamp and its logical id.  The stamp        *)
(* (<unix_ms>-<seq>) is drawn from one growing counter, so it orders the   *)
(* queue; a requeued record takes a fresh stamp and keeps its id.  The     *)
(* message body is abstracted: SelfIds are the ids for which               *)
(* isSelfScheduled holds, nothing else of the body is read here.           *)
(***************************************************************************)
EXTENDS Integers

CONSTANTS
  Ids,      \* logical message ids
  SelfIds,  \* the ids of the agent's own scheduled items (core isSelfScheduled)
  MaxSeq    \* bound: stamps drawn by producers and requeues

ASSUME SelfIdsAssumption == SelfIds \subseteq Ids
ASSUME MaxSeqAssumption == MaxSeq \in Nat

VARIABLES
  tmp,      \* written, not yet renamed into pending/
  pending,
  cur,
  done,
  failed,
  doneIds,  \* the dispatcher's live dedup window
  nextSeq   \* the next stamp

mailVars == <<tmp, pending, cur, done, failed, doneIds, nextSeq>>

Record == [seq : 1..MaxSeq, id : Ids]

IdsOf(S) == {r.id : r \in S}

\* listPendingOrdered: the head of the stamp order.
IsOldest(r, S) == r \in S /\ \A q \in S : r.seq <= q.seq

-----------------------------------------------------------------------------
\* enqueue is two system calls: the tmp file is written under its final name ...
Stamp(id) ==
  /\ nextSeq <= MaxSeq
  /\ nextSeq' = nextSeq + 1
  /\ tmp' = tmp \union {[seq |-> nextSeq, id |-> id]}
  /\ UNCHANGED <<pending, cur, done, failed, doneIds>>

\* ... and renamed into pending/.  Two producers may land out of stamp order.
Land(r) ==
  /\ r \in tmp
  /\ tmp' = tmp \ {r}
  /\ pending' = pending \union {r}
  /\ UNCHANGED <<cur, done, failed, doneIds, nextSeq>>

\* dequeue, a record whose id is in the window: unlinked, the scan goes on.
DropDuplicate(r) ==
  /\ r.id \in doneIds
  /\ pending' = pending \ {r}
  /\ UNCHANGED <<tmp, cur, done, failed, doneIds, nextSeq>>

ClaimCopies(r) ==
  /\ r.id \notin doneIds
  /\ cur' = cur \union {r}
  /\ UNCHANGED <<tmp, pending, done, failed, doneIds, nextSeq>>

\* dequeue, the claim: one rename into the single slot.
Claim(r) ==
  /\ r.id \notin doneIds
  /\ pending' = pending \ {r}
  /\ cur' = cur \union {r}
  /\ UNCHANGED <<tmp, done, failed, doneIds, nextSeq>>

\* complete: the slot's record moves to an archive; a record that is no longer
\* in the slot (ENOENT) makes it a no-op.
CompleteDone(r) ==
  /\ cur' = cur \ {r}
  /\ done' = IF r \in cur THEN done \union {r} ELSE done
  /\ UNCHANGED <<tmp, pending, failed, doneIds, nextSeq>>

CompleteFailed(r) ==
  /\ cur' = cur \ {r}
  /\ failed' = IF r \in cur THEN failed \union {r} ELSE failed
  /\ UNCHANGED <<tmp, pending, done, doneIds, nextSeq>>

NoteNothing(r) == UNCHANGED mailVars

\* Dispatcher: doneIds.add after the rename into done/.
NoteDone(r) ==
  /\ doneIds' = doneIds \union {r.id}
  /\ UNCHANGED <<tmp, pending, cur, done, failed, nextSeq>>

\* cancelPendingById: an id in the slot is refused, else the oldest pending
\* record with that id is unlinked; none is "not-found".
CancelPending(id) ==
  LET match == {r \in pending : r.id = id}
  IN  /\ \/ /\ id \in IdsOf(cur) \/ match = {}
            /\ UNCHANGED pending
         \/ /\ id \notin IdsOf(cur)
            /\ \E r \in match : IsOldest(r, match) /\ pending' = pending \ {r}
      /\ UNCHANGED <<tmp, cur, done, failed, doneIds, nextSeq>>

\* requeueFailedById: an id in the window is an explicit no-op, so is an id
\* nobody failed; else the oldest failed record with that id goes back to
\* pending/ under a fresh stamp.  (A no-op's unused stamp is a gap, left out;
\* bound: past MaxSeq a requeue is a no-op too.)
RequeueFailed(id) ==
  LET match == {r \in failed : r.id = id}
  IN  /\ \/ /\ id \in doneIds \/ match = {} \/ nextSeq > MaxSeq
            /\ UNCHANGED <<pending, failed, nextSeq>>
         \/ /\ id \notin doneIds /\ nextSeq <= MaxSeq
            /\ \E r \in match : IsOldest(r, match) /\ failed' = failed \ {r}
            /\ pending' = pending \union {[seq |-> nextSeq, id |-> id]}
            /\ nextSeq' = nextSeq + 1
      /\ UNCHANGED <<tmp, cur, done, doneIds>>

\* pruneArchive: the records of one archive that the caps reject are the oldest
\* ones, whichever cap it is.
PruneDone(S) ==
  /\ S \subseteq done
  /\ \A r \in S, q \in done \ S : r.seq < q.seq
  /\ done' = done \ S
  /\ UNCHANGED <<tmp, pending, cur, failed, doneIds, nextSeq>>

PruneFailed(S) ==
  /\ S \subseteq failed
  /\ \A r \in S, q \in failed \ S : r.seq < q.seq
  /\ failed' = failed \ S
  /\ UNCHANGED <<tmp, pending, cur, done, doneIds, nextSeq>>

\* forgetDone: retention shrinks the window by the ids it pruned.
ForgetDone(ids) ==
  /\ doneIds' = doneIds \ ids
  /\ UNCHANGED <<tmp, pending, cur, done, failed, nextSeq>>

ReloadForgets ==
  /\ tmp' = {}
  /\ doneIds' = {}
  /\ UNCHANGED <<pending, cur, done, failed, nextSeq>>

ReloadRequeues ==
  /\ tmp' = {} /\ cur' = {}
  /\ pending' = pending \union cur
  /\ doneIds' = IdsOf(done)
  /\ UNCHANGED <<done, failed, nextSeq>>

\* The server process dies: a tmp file nobody renamed is never read again.  The
\* next one rebuilds the window from the files in done/ (loadDoneIds).
ReloadMail ==
  /\ tmp' = {}
  /\ doneIds' = IdsOf(done)
  /\ UNCHANGED <<pending, cur, done, failed, nextSeq>>

MailInit ==
  /\ tmp = {} /\ pending = {} /\ cur = {} /\ done = {} /\ failed = {}
  /\ doneIds = {}
  /\ nextSeq = 1

MailTypeOK ==
  /\ tmp \subseteq Record
  /\ pending \subseteq Record
  /\ cur \subseteq Record
  /\ done \subseteq Record
  /\ failed \subseteq Record
  /\ doneIds \subseteq Ids
  /\ nextSeq \in 1..(MaxSeq + 1)
=============================================================================
