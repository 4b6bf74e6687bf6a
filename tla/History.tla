-------------------------------- MODULE History --------------------------------
(***************************************************************************)
(* One chat (HistoryStore and the send and delivery that feed it): its     *)
(* log, its topic sidecar, and the copy of both that the server keeps.     *)
(*                                                                         *)
(* The store's operations run one after the other on a chain; each changes *)
(* the copy and then the files, and may stop at any of its writes.  The    *)
(* sends of a person take several operations: the topic is fixed, the      *)
(* message is routed, and only then recorded.                              *)
(*                                                                         *)
(* Left out: paths and the tree above a topic (create, rename), read       *)
(* marks, usage numbers, paging, exports, and the cap on the number of     *)
(* records: records leave the log by their age.                            *)
(***************************************************************************)
EXTENDS Integers, Sequences, FiniteSets

CONSTANTS
  Sent, Replies,  \* what the person sends, what the agent answers
  ReplyTo,        \* [Replies -> Sent]
  Topics,         \* beside the default topic
  Default,
  TopicOf,        \* [Sent -> Topics \union {Default}]: the topic a send names
  MaxFaults       \* bound: refusals, failed writes, crashes, retries, aging

\* A message, a topic and the absence of both are different things.
ASSUME HistoryAssumption ==
  /\ Sent \cap Replies = {}
  /\ (Sent \union Replies) \cap (Topics \union {Default}) = {}
  /\ "none" \notin Sent \union Replies \union Topics \union {Default}
  /\ ReplyTo \in [Replies -> Sent]
  /\ Default \notin Topics /\ TopicOf \in [Sent -> Topics \union {Default}]
  /\ MaxFaults \in Nat

Ids == Sent \union Replies
NoOne == "none"

VARIABLES
  log,      \* the file: its records, a torn tail, and lines that do not parse
  sidecar,  \* the topics file
  mem,      \* the copy, and the labels that wait for their record
  op,       \* the operation on the chain, its message or topic, and its steps left
  send,     \* how far a send or a delivery has got
  routed,   \* sends that the router has taken
  old,      \* records past the age limit
  due,      \* history: records on disk that nobody removed
  gone,     \* history: records whose removal is on disk
  filed,    \* history: messages that were given their topic
  failed,   \* history: the kinds of write that failed
  faults    \* disturbances so far

hiVars == <<log, sidecar, mem, op, send, routed, old, due, gone, filed, failed, faults>>

Unlabelled == [m \in Ids |-> Default]
NoTopics == [topics |-> {}, labels |-> Unlabelled, deleted |-> {}, pending |-> {}]
NotLoaded == [loaded |-> FALSE, recs |-> {}, side |-> NoTopics, fresh |-> {}]
NoOp == [job |-> "none", m |-> NoOne, todo |-> <<>>]

Side ==
  [topics : SUBSET Topics, labels : [Ids -> Topics \union {Default}],
   deleted : SUBSET Ids, pending : SUBSET Ids]
OpSteps == {"read", "heal", "topics", "drop", "unpend", "assign", "append", "join", "note",
          "intend", "empty", "unlabel", "age", "sweep", "throw", "known"}

HiTypeOK ==
  /\ log.recs \subseteq Ids /\ log.torn \in BOOLEAN /\ log.junk \in BOOLEAN
  /\ {sidecar, mem.side} \subseteq Side
  /\ mem.loaded \in BOOLEAN /\ mem.recs \subseteq Ids /\ mem.fresh \subseteq Ids
  /\ op.m \in Ids \union Topics \union {Default, NoOne}
  /\ \A i \in DOMAIN op.todo : op.todo[i] \in OpSteps
  /\ send \in [Ids -> {"new", "failed", "assigned", "routed", "appended", "done"}]
  /\ routed \subseteq Sent
  /\ \A s \in {old, due, gone, filed} : s \subseteq Ids
  /\ failed \subseteq {"log", "side", "append"}
  /\ faults \in 0..MaxFaults

HiIdle ==
  /\ log = [recs |-> {}, torn |-> FALSE, junk |-> FALSE]
  /\ sidecar = [NoTopics EXCEPT !.topics = Topics]
  /\ mem = NotLoaded /\ op = NoOp
  /\ routed = {} /\ old = {} /\ due = {} /\ gone = {} /\ filed = {} /\ failed = {}

HiStart == HiIdle /\ send = [m \in Ids |-> "new"] /\ faults = 0

Fault == faults < MaxFaults /\ faults' = faults + 1

-----------------------------------------------------------------------------
(* The chain. *)

\* The first operation on a chat loads it.
Begin(job, m, steps) ==
  /\ op.job = "none"
  /\ op' = [job |-> job, m |-> m,
            todo |-> IF mem.loaded THEN steps ELSE <<"read">> \o steps]

StepIs(step) == op.todo # <<>> /\ Head(op.todo) = step
Then(steps) == op' = [op EXCEPT !.todo = steps \o Tail(@)]
Returns(how) == op' = [op EXCEPT !.todo = how]

\* A step changes the copy to m and then writes; a write that fails throws.  The
\* log is replaced as a whole, or a line is appended, all or part of it: behind
\* a torn tail the line is no record.
Wrote(kind, m) ==
  /\ log' = CASE kind = "log" -> [recs |-> m.recs, torn |-> FALSE, junk |-> FALSE]
              [] kind = "append" ->
                   [log EXCEPT !.recs = IF log.torn THEN @ ELSE @ \union {op.m},
                               !.junk = @ \/ log.torn, !.torn = FALSE]
              [] OTHER -> log
  /\ sidecar' = IF kind = "side" THEN m.side ELSE sidecar

Writes(kind, m) ==
  /\ mem' = m
  /\ \/ Wrote(kind, m) /\ Then(<<>>) /\ UNCHANGED <<failed, faults>>
     \/ /\ Fault
        /\ \/ UNCHANGED log
           \/ kind = "append" /\ log' = [log EXCEPT !.torn = TRUE]
        /\ failed' = failed \union {kind}
        /\ Returns(<<"throw">>)
        /\ UNCHANGED sidecar

\* A step that has nothing to write.
NothingToWrite == Then(<<>>) /\ UNCHANGED <<log, sidecar, mem, failed, faults>>

-----------------------------------------------------------------------------
(* load. *)

\* The copy counts as loaded before it is healed and has its topics.
ReadLog ==
  /\ StepIs("read")
  /\ LET recs == log.recs \ old
     IN  /\ mem' = [NotLoaded EXCEPT !.loaded = TRUE, !.recs = recs]
         /\ Then(IF log.torn \/ log.junk \/ recs # log.recs THEN <<"heal", "topics">> ELSE <<"topics">>)
  /\ UNCHANGED <<log, sidecar, send, routed, old, due, gone, filed, failed, faults>>

Heal ==
  /\ StepIs("heal")
  /\ Writes("log", mem)
  /\ UNCHANGED <<send, routed, old, due, gone, filed>>

LoadTopicsOnly ==
  /\ StepIs("topics")
  /\ mem' = [mem EXCEPT !.side = sidecar]
  /\ Then(<<>>)
  /\ UNCHANGED <<log, sidecar, send, routed, old, due, gone, filed, failed, faults>>

\* A removal that was interrupted is finished.
LoadTopics ==
  /\ StepIs("topics")
  /\ mem' = [mem EXCEPT !.side = sidecar]
  /\ Then(IF sidecar.pending = {} THEN <<>> ELSE <<"drop", "unpend">>)
  /\ UNCHANGED <<log, sidecar, send, routed, old, due, gone, filed, failed, faults>>

-----------------------------------------------------------------------------
(* A send: assignTopic, route, append, noteTopicSend. *)

Advances(m, at) == send' = [send EXCEPT ![m] = at]
Labelled(side, m, t) == [side EXCEPT !.labels[m] = t]

\* A retry has the id and the topic of the first try.
SendStarts(q) ==
  /\ \/ send[q] = "new" /\ UNCHANGED faults
     \/ send[q] = "failed" /\ Fault
  /\ IF TopicOf[q] = Default THEN Advances(q, "assigned") /\ UNCHANGED op
     ELSE Begin("assign", q, <<"assign">>) /\ UNCHANGED send
  /\ UNCHANGED <<log, sidecar, mem, routed, old, due, gone, filed, failed>>

\* The topic a message has by now: it may be recorded, or removed, without a label.
Assigned(q) ==
  IF mem.side.labels[q] # Default THEN mem.side.labels[q]
  ELSE IF q \in mem.recs \union mem.side.deleted THEN Default ELSE NoOne

Refuses(q) == TopicOf[q] \notin mem.side.topics \/ Assigned(q) \notin {NoOne, TopicOf[q]}

Assign ==
  /\ StepIs("assign")
  /\ IF Refuses(op.m)
     THEN Returns(<<"throw">>) /\ UNCHANGED <<log, sidecar, mem, failed, faults, filed>>
     ELSE IF Assigned(op.m) = TopicOf[op.m]
     THEN NothingToWrite /\ UNCHANGED filed
     ELSE /\ Writes("side", [mem EXCEPT !.side = Labelled(@, op.m, TopicOf[op.m]),
                                        !.fresh = @ \union {op.m}])
          /\ filed' = filed \union {op.m}
  /\ UNCHANGED <<send, routed, old, due, gone>>

Routed(q) ==
  /\ send[q] = "assigned"
  /\ \/ Advances(q, "routed") /\ routed' = routed \union {q} /\ UNCHANGED faults
     \/ Advances(q, "failed") /\ Fault /\ UNCHANGED routed
  /\ UNCHANGED <<log, sidecar, mem, op, old, due, gone, filed, failed>>

SendAppends(q) ==
  /\ send[q] = "routed"
  /\ Begin("append", q, <<"append">>)
  /\ UNCHANGED <<log, sidecar, mem, send, routed, old, due, gone, filed, failed, faults>>

SendNotes(q) ==
  /\ send[q] = "appended"
  /\ Begin("note", q, <<"note">>)
  /\ UNCHANGED <<log, sidecar, mem, send, routed, old, due, gone, filed, failed, faults>>

\* The answer, at least once.
Deliver(a) ==
  /\ ReplyTo[a] \in routed
  /\ \/ send[a] = "new" /\ UNCHANGED faults
     \/ send[a] = "done" /\ Fault
  /\ Begin("deliver", a, <<"append", "join">>)
  /\ UNCHANGED <<log, sidecar, mem, send, routed, old, due, gone, filed, failed>>

\* What is there, or was removed, is refused.
AppendRecord ==
  /\ StepIs("append")
  /\ IF op.m \in mem.recs \union mem.side.deleted
     THEN Returns(<<"known">>) /\ UNCHANGED <<log, sidecar, mem, failed, faults, due>>
     ELSE /\ Writes("append", [mem EXCEPT !.recs = @ \union {op.m}])
          /\ due' = IF op'.todo = <<"throw">> \/ (log.torn /\ failed # {}) THEN due
                    ELSE due \union ({op.m} \ (old \union sidecar.pending))
  /\ UNCHANGED <<send, routed, old, gone, filed>>

\* An answer joins the topic of what it answers, if that is recorded.
Anchor(a) == IF ReplyTo[a] \in mem.recs THEN mem.side.labels[ReplyTo[a]] ELSE Default

Join ==
  /\ StepIs("join")
  /\ IF Anchor(op.m) = Default THEN NothingToWrite
     ELSE Writes("side", [mem EXCEPT !.side = Labelled(@, op.m, Anchor(op.m))])
  /\ filed' = IF ReplyTo[op.m] \in filed /\ send[ReplyTo[op.m]] = "done" /\ {op.m, ReplyTo[op.m]} \subseteq due
              THEN filed \union {op.m} ELSE filed
  /\ UNCHANGED <<send, routed, old, due, gone>>

Note ==
  /\ StepIs("note")
  /\ IF TopicOf[op.m] \in mem.side.topics THEN Writes("side", mem) ELSE NothingToWrite
  /\ UNCHANGED <<send, routed, old, due, gone, filed>>

\* A failed append is not a failed send; an answer that throws comes again.
After(how) ==
  CASE op.job = "assign" -> IF how = "throw" THEN "failed" ELSE "assigned"
    [] op.job = "append" -> IF how = "ok" /\ TopicOf[op.m] # Default THEN "appended" ELSE "done"
    [] op.job = "note"   -> "done"
    [] OTHER             -> IF how = "throw" THEN "new" ELSE "done"

OpEnds ==
  /\ op.job # "none"
  /\ op.todo \in {<<>>, <<"throw">>} \/ StepIs("known")
  /\ op' = NoOp
  /\ send' = IF op.m \in Ids /\ send[op.m] # "done"
             THEN [send EXCEPT ![op.m] = After(IF op.todo = <<>> THEN "ok" ELSE Head(op.todo))]
             ELSE send
  /\ mem' = IF op.job \in {"append", "deliver"} /\ op.todo = <<>>
            THEN [mem EXCEPT !.fresh = @ \ {op.m}] ELSE mem
  /\ UNCHANGED <<log, sidecar, routed, old, due, gone, filed, failed, faults>>

-----------------------------------------------------------------------------
(* Removals, clearing and retention. *)

RemoveTopic(t) ==
  /\ t # Default
  /\ Begin("delete", t, <<"intend", "drop", "unpend">>)
  /\ UNCHANGED <<log, sidecar, mem, send, routed, old, due, gone, filed, failed, faults>>

ClearTopic(t) ==
  /\ Begin("empty", t, <<"intend", "drop", "unpend">>)
  /\ UNCHANGED <<log, sidecar, mem, send, routed, old, due, gone, filed, failed, faults>>

Of(t) == {m \in Ids : mem.side.labels[m] = t}

\* The sidecar gets the tombstones and the intent before the log changes.
Intend ==
  /\ StepIs("intend")
  /\ LET t == op.m
         ids == mem.recs \cap Of(t)
         unlabelled == IF op.job = "delete" THEN Of(t) ELSE ids
         side == [mem.side EXCEPT
                    !.topics = IF op.job = "delete" THEN @ \ {t} ELSE @,
                    !.labels = [m \in Ids |-> IF m \in unlabelled THEN Default ELSE @[m]],
                    !.deleted = @ \union ids,
                    !.pending = ids]
     IN  IF t \notin mem.side.topics \union {Default}
         THEN Returns(<<"throw">>) /\ UNCHANGED <<log, sidecar, mem, due, gone, filed, failed, faults>>
         ELSE /\ Writes("side", [mem EXCEPT !.side = side])
              /\ due' = due \ ids
              /\ gone' = IF op'.todo = <<"throw">> THEN gone ELSE gone \union ids
              /\ filed' = IF t = Default THEN filed ELSE filed \ Of(t)
  /\ UNCHANGED <<send, routed, old>>

Drop ==
  /\ StepIs("drop")
  /\ IF mem.recs \cap mem.side.pending = {} THEN NothingToWrite
     ELSE Writes("log", [mem EXCEPT !.recs = @ \ mem.side.pending])
  /\ UNCHANGED <<send, routed, old, due, gone, filed>>

Unpend ==
  /\ StepIs("unpend")
  /\ Writes("side", [mem EXCEPT !.side.pending = {}])
  /\ UNCHANGED <<send, routed, old, due, gone, filed>>

\* Clear chat: the records and the labels go, the topics and the tombstones stay.
ClearChat ==
  /\ log.recs # {}
  /\ Begin("clear", NoOne, <<"empty", "unlabel">>)
  /\ UNCHANGED <<log, sidecar, mem, send, routed, old, due, gone, filed, failed, faults>>

Empty ==
  /\ StepIs("empty")
  /\ Writes("log", [mem EXCEPT !.recs = {}])
  /\ due' = {} /\ filed' = {}
  /\ UNCHANGED <<send, routed, old, gone>>

Unlabel ==
  /\ StepIs("unlabel")
  /\ IF mem.side.labels = Unlabelled THEN NothingToWrite
     ELSE Writes("side", [mem EXCEPT !.side.labels = Unlabelled])
  /\ UNCHANGED <<send, routed, old, due, gone, filed>>

\* Labels without a record go, but those a send has just made.  (A send takes less
\* than the ten minutes of grace.)
Stray == {m \in Ids \ (mem.recs \union mem.fresh) : mem.side.labels[m] # Default}

PruneChat ==
  /\ log # [recs |-> {}, torn |-> FALSE, junk |-> FALSE]
  /\ mem.loaded => mem.recs \cap old # {} \/ Stray # {} \/ mem.side.deleted \cap old # {}
  /\ Begin("prune", NoOne, <<"age", "sweep">>)
  /\ UNCHANGED <<log, sidecar, mem, send, routed, old, due, gone, filed, failed, faults>>

Age ==
  /\ StepIs("age")
  /\ IF mem.recs \cap old = {} THEN NothingToWrite ELSE Writes("log", [mem EXCEPT !.recs = @ \ old])
  /\ UNCHANGED <<send, routed, old, due, gone, filed>>

\* A tombstone outlives its record.
SweepTopics ==
  /\ StepIs("sweep")
  /\ \E spent \in {{}, mem.side.deleted \cap old} :
       IF Stray \union spent = {} THEN NothingToWrite
       ELSE Writes("side", [mem EXCEPT
              !.side.labels = [m \in Ids |-> IF m \in Stray THEN Default ELSE @[m]],
              !.side.deleted = @ \ spent])
  /\ UNCHANGED <<send, routed, old, due, gone, filed>>

-----------------------------------------------------------------------------
\* What was said first grows old first.
GrowsOld(m) ==
  /\ m \notin old /\ send[m] # "new"
  /\ m \in Replies => ReplyTo[m] \in old
  /\ Fault
  /\ old' = old \union {m} /\ due' = due \ {m}
  /\ UNCHANGED <<log, sidecar, mem, op, send, routed, gone, filed, failed>>

\* An append may be cut short; the sender hears nothing and may try again.
HiCrash ==
  /\ Fault
  /\ mem' = NotLoaded /\ op' = NoOp
  /\ \/ UNCHANGED log
     \/ StepIs("append") /\ op.m \notin mem.recs \union mem.side.deleted /\ log' = [log EXCEPT !.torn = TRUE]
  /\ send' = [m \in Ids |-> IF send[m] \in {"new", "done"} THEN send[m] ELSE "failed"]
  /\ filed' = {m \in filed : send[m] = "done"}
  /\ UNCHANGED <<sidecar, routed, old, due, gone, failed>>

StepNext ==
  \/ ReadLog \/ Heal \/ LoadTopics
  \/ Assign \/ AppendRecord \/ Join \/ Note \/ OpEnds
  \/ Intend \/ Drop \/ Unpend \/ Empty \/ Unlabel \/ Age \/ SweepTopics

HiNext ==
  \/ StepNext
  \/ \E q \in Sent : SendStarts(q) \/ Routed(q) \/ SendAppends(q) \/ SendNotes(q)
  \/ \E a \in Replies : Deliver(a)
  \/ \E t \in Topics \union {Default} : RemoveTopic(t) \/ ClearTopic(t)
  \/ ClearChat \/ PruneChat
  \/ \E m \in Ids : GrowsOld(m)
  \/ HiCrash

(***************************************************************************)
(* Properties.                                                             *)
(***************************************************************************)

AtEase == op.job = "none" /\ mem.loaded

\* A record that was appended stays, in the file and in the chat, until it is removed,
\* cleared or too old: through crashes, torn tails and removals cut short.  (A line
\* that is appended behind one that a failed write cut short is lost at the next start,
\* and so is one that comes again while a removal of it waits to be finished.)
AppendedKept == due \subseteq log.recs /\ (AtEase => due \subseteq mem.recs)

\* No half delete survives a restart, and no second delivery brings a removed record
\* back.  (Unless the log could not be replaced: a chat whose healing failed is shown
\* without its tombstones, and a later removal forgets the intent of one that failed.)
RemovedGone == AtEase /\ "log" \notin failed => gone \cap mem.recs \subseteq old

\* A message stays in the topic its send named, and the answer to it joins it, whatever
\* sweeps and loads happen on the way.  (Not if the log or its sidecar could not be written;
\* an answer that overtakes the record of its question stays outside, and the label of
\* a send that a crash cut off is nobody's.  What is too old and comes again comes without
\* its topic, and so may an answer of which the log got only a broken line.)
TopicKept ==
  AtEase /\ failed \subseteq {"append"} =>
    \A m \in (filed \cap mem.recs) \ old :
      mem.side.labels[m] = TopicOf[IF m \in Sent THEN m ELSE ReplyTo[m]]

\* What a chat owes its readers, over appends, labels, removals, sweeps, failed writes
\* and crashes: nothing is lost, nothing returns, nothing changes its topic.
HistoryKept == AppendedKept /\ RemovedGone /\ TopicKept

HiSpec == HiStart /\ [][HiNext]_hiVars
=============================================================================
