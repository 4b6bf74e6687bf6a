---------------------------- MODULE HistoryProofs ----------------------------
(***************************************************************************)
(* Proof that a chat keeps its promises (HistoryKept), however many        *)
(* appends, removals, sweeps, failed writes and crashes there are.         *)
(*                                                                         *)
(* The argument follows the step that comes next: the shape of what is     *)
(* left of an operation (Shape) says whether the chat's copy has its       *)
(* topics yet (TopicsIn) and whether a removal is still to be carried out  *)
(* (Undone).  On it rest three parts: what is due is neither old nor       *)
(* marked for removal (DueSafe); what is gone is marked in both copies of  *)
(* the sidecar and off the log, but for what is undone (GoneMarked); and   *)
(* what shows up in the chat bears its label (LabelsRight).                *)
(***************************************************************************)
EXTENDS History, SequenceTheorems, TLAPS

Jobs == {"none", "assign", "append", "note", "deliver", "delete", "empty", "clear", "prune"}
Sends == {"new", "failed", "assigned", "routed", "appended", "done"}

LogFile == [recs : SUBSET Ids, torn : BOOLEAN, junk : BOOLEAN]
Copy == [loaded : BOOLEAN, recs : SUBSET Ids, side : Side, fresh : SUBSET Ids]
Op == [job : Jobs, m : Ids \union Topics \union {Default, NoOne}, todo : Seq(OpSteps)]

HiTyped ==
  /\ log \in LogFile
  /\ sidecar \in Side
  /\ mem \in Copy
  /\ op \in Op
  /\ send \in [Ids -> Sends]
  /\ \A s \in {old, due, gone, filed} : s \subseteq Ids
  /\ routed \subseteq Sent

-----------------------------------------------------------------------------
Loads == {"read", "heal", "topics"}

\* What an operation has left: first the load, if the chat is not loaded, then its work.  A
\* removal drops what it marked; a clearing unlabels what it emptied; an answer joins once
\* it is recorded.
WorkFrom(todo, n) == \A i \in n..Len(todo) : todo[i] \notin Loads
Lines(todo) ==
  \/ todo = <<>> \/ WorkFrom(todo, 1)
  \/ todo # <<>> /\ todo[1] \in {"read", "topics"} /\ WorkFrom(todo, 2)
  \/ Len(todo) >= 2 /\ todo[1] = "heal" /\ todo[2] = "topics" /\ WorkFrom(todo, 3)
Pairs(todo) ==
  /\ \A i \in 1..Len(todo) : todo[i] = "intend" => i < Len(todo) /\ todo[i + 1] = "drop"
  /\ \A i \in 2..Len(todo) : todo[i] = "unlabel" => todo[i - 1] = "empty"
  /\ \A i \in 2..Len(todo) : todo[i] = "join" => todo[i - 1] = "append"

\* The operations that a step is part of.
JobOf(step, job) ==
  /\ step = "assign" => job = "assign"
  /\ step = "append" => job \in {"append", "deliver"}
  /\ step = "join" => job = "deliver"
  /\ step = "note" => job = "note"
  /\ step = "intend" => job \in {"delete", "empty"}

Shape ==
  /\ Lines(op.todo) /\ Pairs(op.todo)
  /\ \A i \in 1..Len(op.todo) : JobOf(op.todo[i], op.job)
  /\ op.job = "none" => op.todo = <<>>
  /\ ~mem.loaded /\ op.todo # <<>> => StepIs("read")
  /\ StepIs("read") => ~mem.loaded

\* The copy has the topics, unless a load stopped at its healing.
TopicsIn == mem.loaded /\ ~StepIs("heal") /\ ~StepIs("topics")

\* Whose operation it is, and how far that message has got.
JobFits ==
  /\ op.job = "assign" => op.m \in Sent /\ send[op.m] \in {"new", "failed"} /\ TopicOf[op.m] # Default
  /\ op.job = "append" => op.m \in Sent /\ send[op.m] = "routed"
  /\ op.job = "note" => op.m \in Sent
  /\ op.job = "deliver" => op.m \in Replies /\ send[op.m] \in {"new", "done"}
  /\ op.job = "delete" => op.m \in Topics
  /\ op.job = "empty" => op.m \in Topics \union {Default}

\* A send's record is written by the last step of its append.
AppendLast ==
  op.job = "append" =>
    IF op.todo = <<>> THEN op.m \in mem.recs
    ELSE op.todo[Len(op.todo)] \in {"append", "throw", "known"}

-----------------------------------------------------------------------------
\* AppendedKept: whatever is dropped, aged or emptied, nothing that is due is among it.
DueSafe ==
  /\ due \subseteq log.recs
  /\ mem.loaded => due \subseteq mem.recs
  /\ due \cap (old \union sidecar.pending \union mem.side.pending) = {}
  /\ sidecar.pending \subseteq sidecar.deleted \union old
  /\ mem.side.pending \subseteq mem.side.deleted \union old
  /\ log.torn /\ failed = {} => ~mem.loaded \/ StepIs("heal")

\* RemovedGone: what an operation has still to drop.
Undone ==
  IF StepIs("heal") \/ StepIs("topics") THEN sidecar.pending
  ELSE IF StepIs("drop") THEN mem.side.pending ELSE {}

GoneMarked ==
  "log" \notin failed =>
    /\ gone \subseteq sidecar.deleted \union old
    /\ TopicsIn => gone \subseteq mem.side.deleted \union old
    /\ mem.loaded => log.recs \subseteq mem.recs \union old
    /\ mem.loaded => gone \cap mem.recs \subseteq old \union Undone
    /\ gone \cap log.recs \subseteq old \union sidecar.pending

\* TopicKept: what a chat shows, or would show after a load.
Shown == IF TopicsIn THEN mem.recs \union mem.fresh ELSE log.recs
TopicFor(m) == TopicOf[IF m \in Sent THEN m ELSE ReplyTo[m]]

LabelsRight ==
  failed \subseteq {"append"} =>
    /\ TopicsIn => mem.side = sidecar
    /\ mem.loaded /\ ~TopicsIn => mem.recs \subseteq log.recs /\ mem.fresh = {}
    /\ \A m \in (filed \cap Shown) \ old : sidecar.labels[m] = TopicFor(m)
    /\ \A m \in filed : TopicFor(m) # Default
    /\ \A m \in filed : send[m] # "done" =>
         m \in Replies \/ (mem.loaded /\ m \in mem.fresh \union mem.recs \union old)
    /\ filed \cap Replies \subseteq due \union old
    /\ filed \cap (sidecar.pending \union mem.side.pending) \subseteq old
    /\ StepIs("join") => op.m \notin filed \ old
    /\ StepIs("unlabel") => filed = {}

HiInv == HiTyped /\ Shape /\ JobFits /\ AppendLast /\ DueSafe /\ GoneMarked /\ LabelsRight

-----------------------------------------------------------------------------
(* What is left of an operation. *)

\* The next step is the first of what is left.
LEMMA FirstIs ==
  ASSUME NEW todo \in Seq(OpSteps), todo # <<>>
  PROVE  /\ Len(todo) \in Nat /\ Len(todo) >= 1 /\ Head(todo) = todo[1]
         /\ Tail(todo) \in Seq(OpSteps) /\ Len(Tail(todo)) = Len(todo) - 1
         /\ \A i \in 1..(Len(todo) - 1) : Tail(todo)[i] = todo[i + 1]
         /\ <<>> \o Tail(todo) = Tail(todo)
<1>1. Len(todo) \in Nat /\ Len(todo) >= 1 /\ Head(todo) = todo[1]
  OBVIOUS
<1> QED
  BY <1>1, HeadTailProperties, ConcatEmptySeq

\* Without its first step the rest is still paired, and of the same operation.
LEMMA TailPairs ==
  ASSUME NEW todo \in Seq(OpSteps), todo # <<>>, Pairs(todo), NEW job, \A i \in 1..Len(todo) : JobOf(todo[i], job)
  PROVE  Pairs(Tail(todo)) /\ \A i \in 1..Len(Tail(todo)) : JobOf(Tail(todo)[i], job)
<1> DEFINE t == Tail(todo)
<1>1. /\ t \in Seq(OpSteps) /\ Len(todo) \in Nat /\ Len(t) = Len(todo) - 1
      /\ \A i \in 1..Len(t) : t[i] = todo[i + 1]
  BY FirstIs
<1>2. \A i \in 1..Len(t) : i + 1 \in 1..Len(todo)
  BY <1>1
<1> HIDE DEF t
<1>3. ASSUME NEW i \in 1..Len(t), t[i] = "intend" PROVE i < Len(t) /\ t[i + 1] = "drop"
  <2>1. todo[i + 1] = "intend" /\ i + 1 \in 1..Len(todo)
    BY <1>1, <1>2, <1>3
  <2>2. i + 1 < Len(todo) /\ todo[(i + 1) + 1] = "drop"
    BY <2>1 DEF Pairs
  <2> QED
    BY <1>1, <2>2
<1>4. ASSUME NEW i \in 2..Len(t) PROVE t[i] = todo[i + 1] /\ t[i - 1] = todo[(i + 1) - 1] /\ i + 1 \in 2..Len(todo)
  <2>1. i \in 1..Len(t) /\ i - 1 \in 1..Len(t) /\ (i - 1) + 1 = i /\ (i + 1) - 1 = i /\ i + 1 \in 2..Len(todo)
    BY <1>1, <1>4
  <2> QED
    BY <1>1, <2>1
<1>5. Pairs(t)
  BY <1>3, <1>4 DEF Pairs
<1>6. \A i \in 1..Len(t) : JobOf(t[i], job)
  BY <1>1, <1>2
<1> QED
  BY <1>5, <1>6 DEF t

\* What is left after a step of the work is work.
LEMMA TailWorks ==
  ASSUME NEW todo \in Seq(OpSteps), todo # <<>>, Lines(todo), Pairs(todo), Head(todo) \notin Loads,
         NEW job, \A i \in 1..Len(todo) : JobOf(todo[i], job)
  PROVE  LET t == Tail(todo)
         IN  /\ Lines(t) /\ Pairs(t) /\ \A i \in 1..Len(t) : JobOf(t[i], job)
             /\ t # <<>> =>
                  /\ Head(t) \notin Loads
                  /\ Head(t) = "unlabel" => Head(todo) = "empty"
                  /\ Head(t) = "join" => Head(todo) = "append"
             /\ Head(todo) = "intend" => t # <<>> /\ Head(t) = "drop"
<1> DEFINE t == Tail(todo)
<1>1. /\ t \in Seq(OpSteps) /\ Len(todo) \in Nat /\ Len(todo) >= 1 /\ Head(todo) = todo[1]
      /\ Len(t) = Len(todo) - 1 /\ \A i \in 1..Len(t) : t[i] = todo[i + 1]
  BY FirstIs
<1>2. t # <<>> => Head(t) = t[1] /\ Len(t) >= 1
  BY <1>1, FirstIs
<1> HIDE DEF t
<1>3. \A i \in 1..Len(todo) : todo[i] \notin Loads
  BY <1>1 DEF Lines, WorkFrom, Loads
<1>4. Len(t) \in Nat /\ \A i \in 1..Len(t) : t[i] \notin Loads
  BY <1>1, <1>3
<1>5. Lines(t)
  BY <1>4 DEF Lines, WorkFrom
<1>7. Pairs(t) /\ \A i \in 1..Len(t) : JobOf(t[i], job)
  BY TailPairs DEF t
<1>9. ASSUME t # <<>> PROVE /\ Head(t) \notin Loads
                            /\ Head(t) = "unlabel" => Head(todo) = "empty"
                            /\ Head(t) = "join" => Head(todo) = "append"
  <2>1. Head(t) = t[1] /\ 1 \in 1..Len(t) /\ t[1] = todo[2] /\ 2 \in 2..Len(todo)
    BY <1>1, <1>2, <1>9
  <2> QED
    BY <1>1, <1>4, <2>1 DEF Pairs
<1>10. ASSUME Head(todo) = "intend" PROVE t # <<>> /\ Head(t) = "drop"
  <2>1. Len(todo) > 1 /\ todo[2] = "drop"
    BY <1>1, <1>10 DEF Pairs
  <2>2. Len(t) >= 1 /\ t[1] = "drop"
    BY <1>1, <2>1
  <2>3. t # <<>>
    BY <2>2
  <2> QED
    BY <1>2, <2>2, <2>3
<1> QED
  BY <1>5, <1>7, <1>9, <1>10 DEF t

\* What an operation has left stays in order.
Ordered(o) == o \in Op /\ Lines(o.todo) /\ Pairs(o.todo) /\ \A i \in 1..Len(o.todo) : JobOf(o.todo[i], o.job)
Continues == Ordered(op') /\ op'.job = op.job /\ op'.m = op.m

\* A step of the work is done, and the next one is of the work too.
MovesOn(step) ==
  /\ Continues
  /\ \A x \in Loads : ~StepIs(x)'
  /\ StepIs("unlabel")' => step = "empty"
  /\ StepIs("join")' => step = "append"
  /\ step = "intend" => StepIs("drop")'

\* An operation that throws, or that finds nothing to do, is at its end.
Stops == Continues /\ \A x \in OpSteps \ {"throw", "known"} : ~StepIs(x)'

\* A step that is done leaves the rest of its operation.
LEMMA WorkMovesOn ==
  ASSUME HiTyped, Shape, NEW s \in OpSteps \ Loads, StepIs(s), Then(<<>>)
  PROVE  MovesOn(s)
<1> DEFINE todo == op.todo
           t == Tail(todo)
<1>1. op \in Op /\ todo \in Seq(OpSteps) /\ todo # <<>> /\ Head(todo) = s
  BY DEF HiTyped, Op, StepIs
<1>2. t \in Seq(OpSteps) /\ <<>> \o t = t
  BY <1>1, FirstIs
<1>3. op' = [op EXCEPT !.todo = t]
  BY <1>1, <1>2 DEF Then
<1>4. op' \in Op /\ op'.job = op.job /\ op'.m = op.m /\ op'.todo = t
  BY <1>1, <1>2, <1>3 DEF Op
<1>5. /\ Lines(t) /\ Pairs(t) /\ \A i \in 1..Len(t) : JobOf(t[i], op.job)
      /\ t # <<>> => /\ Head(t) \notin Loads
                     /\ Head(t) = "unlabel" => s = "empty"
                     /\ Head(t) = "join" => s = "append"
      /\ s = "intend" => t # <<>> /\ Head(t) = "drop"
  BY <1>1, TailWorks DEF Shape
<1> HIDE DEF t, todo
<1> QED
  BY <1>4, <1>5 DEF MovesOn, Continues, Ordered, StepIs

\* A step that throws, or finds the record known, leaves nothing of its operation to do.
LEMMA ReturnStops ==
  ASSUME HiTyped, NEW x \in {"throw", "known"}, Returns(<<x>>)
  PROVE  Stops
<1> DEFINE t == <<x>>
<1>1. t \in Seq(OpSteps) /\ Len(t) = 1 /\ t[1] = x /\ Head(t) = x
  BY DEF OpSteps
<1>2. op' \in Op /\ op'.job = op.job /\ op'.m = op.m /\ op'.todo = t
  BY <1>1 DEF HiTyped, Op, Returns
<1> HIDE DEF t
<1>3. Lines(t) /\ Pairs(t) /\ \A i \in 1..Len(t) : JobOf(t[i], op'.job)
  BY <1>1 DEF Lines, WorkFrom, Pairs, JobOf, Loads
<1> QED
  BY <1>1, <1>2, <1>3 DEF Stops, Continues, Ordered, StepIs

\* The work that is left, none of which needs an earlier step.
Work(todo, job) ==
  /\ todo \in Seq(OpSteps) /\ Pairs(todo)
  /\ \A i \in 1..Len(todo) : todo[i] \notin Loads /\ JobOf(todo[i], job)
  /\ todo # <<>> => todo[1] \notin {"unlabel", "join"}

\* What a load puts in front of the work.
Fronts == {<<>>, <<"read">>, <<"topics">>, <<"heal", "topics">>, <<"drop", "unpend">>}

\* A load, or what it found undone, in front of some work is in order.
LEMMA Prefixed ==
  ASSUME NEW t, NEW job, Work(t, job), NEW front \in Fronts
  PROVE  LET u == front \o t
         IN  /\ u \in Seq(OpSteps) /\ Lines(u) /\ Pairs(u)
             /\ \A i \in 1..Len(u) : JobOf(u[i], job)
             /\ front = <<>> => u = t
             /\ front # <<>> => u # <<>> /\ Head(u) = Head(front)
<1> DEFINE u == front \o t
           k == Len(front)
<1>1. front \in Seq(OpSteps) /\ k \in Nat /\ k <= 2
  <2>1. {"read", "topics", "heal", "drop", "unpend"} \subseteq OpSteps
    BY DEF OpSteps
  <2>2. PICK x \in OpSteps, y \in OpSteps : front = <<>> \/ front = <<x>> \/ front = <<x, y>>
    BY <2>1 DEF Fronts
  <2>3. CASE front = <<>>
    BY <2>3
  <2>4. CASE front = <<x>>
    BY <2>4
  <2>5. CASE front = <<x, y>>
    BY <2>5
  <2> QED
    BY <2>2, <2>3, <2>4, <2>5
<1>2. t \in Seq(OpSteps) /\ Len(t) \in Nat
  BY DEF Work
<1>3. u \in Seq(OpSteps) /\ Len(u) = k + Len(t)
  BY <1>1, <1>2, ConcatProperties
<1>4. \A i \in 1..k : u[i] = front[i]
  BY <1>1, <1>2, ConcatProperties
<1>5. \A i \in 1..Len(t) : u[i + k] = t[i]
  <2> SUFFICES ASSUME NEW i \in 1..Len(t) PROVE u[i + k] = t[i]
    OBVIOUS
  <2>1. i + k \in 1..(k + Len(t)) /\ ~(i + k <= k) /\ (i + k) - k = i
    BY <1>1, <1>2
  <2> HIDE DEF k
  <2>2. u[i + k] = IF i + k <= k THEN front[i + k] ELSE t[(i + k) - k]
    BY <1>1, <1>2, <2>1, ConcatProperties DEF k
  <2> QED
    BY <2>1, <2>2
<1>6. front = <<>> => u = t
  BY <1>2, ConcatEmptySeq
<1>7. u # <<>> => Len(u) >= 1 /\ Head(u) = u[1]
  BY <1>3, FirstIs
<1> HIDE DEF u
<1>8. /\ \A i \in 1..Len(t) : t[i] \notin Loads /\ JobOf(t[i], job)
      /\ \A i \in 1..Len(t) : t[i] = "intend" => i < Len(t) /\ t[i + 1] = "drop"
      /\ \A i \in 2..Len(t) : t[i] = "unlabel" => t[i - 1] = "empty"
      /\ \A i \in 2..Len(t) : t[i] = "join" => t[i - 1] = "append"
      /\ Len(t) >= 1 => t[1] \notin {"unlabel", "join"}
  <2>1. Len(t) >= 1 => t # <<>>
    BY <1>2
  <2> QED
    BY <2>1 DEF Work, Pairs
<1>9. CASE front = <<>>
  <2>1. u = t
    BY <1>6, <1>9
  <2>2. Lines(t)
    BY <1>8 DEF Lines, WorkFrom
  <2> QED
    BY <1>2, <1>8, <1>9, <2>1, <2>2 DEF u, Work
<1>10. CASE front # <<>>
  <2>1. k \in {1, 2} /\ Head(front) = front[1]
    BY <1>10 DEF Fronts
  <2>2. u # <<>> /\ Head(u) = front[1]
    <3>1. k >= 1 /\ Len(u) >= 1 /\ 1 \in 1..k
      <4>1. ASSUME NEW n \in Nat, k = 1 \/ k = 2, Len(u) = k + n PROVE k >= 1 /\ Len(u) >= 1 /\ 1 \in 1..k
        BY <4>1
      <4> QED
        BY <1>2, <1>3, <2>1, <4>1
    <3>2. u # <<>>
      BY <1>3, <3>1
    <3> QED
      BY <1>4, <1>7, <3>1, <3>2
  <2>3. \A i \in 1..k : front[i] \notin {"intend", "unlabel", "join", "append", "assign", "note", "empty"}
    BY <1>10 DEF Fronts
  <2>4. \A i \in 1..Len(u) : i \in 1..k \/ (i - k \in 1..Len(t) /\ u[i] = t[i - k])
    <3> SUFFICES ASSUME NEW i \in 1..Len(u), i \notin 1..k PROVE i - k \in 1..Len(t) /\ u[i] = t[i - k]
      OBVIOUS
    <3>1. i - k \in 1..Len(t) /\ (i - k) + k = i
      BY <1>1, <1>2, <1>3
    <3> QED
      BY <1>5, <3>1
  <2>5. \A i \in 1..Len(u) : JobOf(u[i], job)
    BY <1>4, <1>8, <2>3, <2>4 DEF JobOf
  <2>6. Pairs(u)
    <3>1. ASSUME NEW i \in 1..Len(u), u[i] = "intend" PROVE i < Len(u) /\ u[i + 1] = "drop"
      <4>1. i - k \in 1..Len(t) /\ t[i - k] = "intend"
        BY <1>4, <2>3, <2>4, <3>1
      <4>2. i - k < Len(t) /\ t[(i - k) + 1] = "drop"
        BY <1>8, <4>1
      <4>3. (i - k) + 1 \in 1..Len(t) /\ ((i - k) + 1) + k = i + 1 /\ i < Len(u)
        BY <1>1, <1>2, <1>3, <4>1, <4>2
      <4> QED
        BY <1>5, <4>2, <4>3
    <3>2. ASSUME NEW i \in 2..Len(u), u[i] \in {"unlabel", "join"}
          PROVE i - k \in 2..Len(t) /\ u[i] = t[i - k] /\ u[i - 1] = t[(i - k) - 1]
      <4>1. i \in 1..Len(u)
        BY <3>2
      <4>2. i - k \in 1..Len(t) /\ u[i] = t[i - k]
        BY <1>4, <2>3, <2>4, <3>2, <4>1
      <4>3. i - k # 1
        BY <1>8, <3>2, <4>2
      <4>4. i - k \in 2..Len(t) /\ (i - k) - 1 \in 1..Len(t) /\ ((i - k) - 1) + k = i - 1
        BY <1>1, <1>2, <4>2, <4>3
      <4> QED
        BY <1>5, <4>2, <4>4
    <3> QED
      BY <1>8, <3>1, <3>2 DEF Pairs
  <2>7. Lines(u)
    <3>1. \A i \in (k + 1)..Len(u) : u[i] \notin Loads
      <4> SUFFICES ASSUME NEW i \in (k + 1)..Len(u) PROVE u[i] \notin Loads
        OBVIOUS
      <4>1. i \in 1..Len(u) /\ i \notin 1..k
        BY <1>1, <1>3
      <4> QED
        BY <1>8, <2>4, <4>1
    <3>2. CASE front \in {<<"read">>, <<"topics">>}
      <4>1. k = 1 /\ front[1] \in {"read", "topics"}
        BY <3>2
      <4>2. u[1] = front[1]
        BY <1>4, <4>1
      <4> QED
        BY <2>2, <3>1, <4>1, <4>2 DEF Lines, WorkFrom
    <3>3. CASE front = <<"heal", "topics">>
      <4>1. k = 2 /\ front[1] = "heal" /\ front[2] = "topics"
        BY <3>3
      <4>2. u[1] = "heal" /\ u[2] = "topics" /\ Len(u) >= 2
        BY <1>2, <1>3, <1>4, <4>1
      <4> QED
        BY <3>1, <4>1, <4>2 DEF Lines, WorkFrom
    <3>4. CASE front = <<"drop", "unpend">>
      <4>1. k = 2 /\ front[1] = "drop" /\ front[2] = "unpend"
        BY <3>4
      <4>2. u[1] = "drop" /\ u[2] = "unpend"
        BY <1>4, <4>1
      <4>3. \A i \in 1..Len(u) : i = 1 \/ i = 2 \/ i \in (k + 1)..Len(u)
        BY <1>3, <4>1
      <4> QED
        BY <3>1, <4>2, <4>3 DEF Lines, WorkFrom, Loads
    <3> QED
      BY <1>10, <3>2, <3>3, <3>4 DEF Fronts
  <2> QED
    BY <1>3, <1>10, <2>1, <2>2, <2>5, <2>6, <2>7 DEF u
<1> QED
  BY <1>9, <1>10

\* Behind the load, or its last step, there is only work.
LEMMA WorkBehind ==
  ASSUME HiTyped, Shape, op.todo # <<>>, Head(op.todo) \in {"read", "topics"}
  PROVE  Work(Tail(op.todo), op.job)
<1> DEFINE todo == op.todo
           t == Tail(todo)
<1>a. todo \in Seq(OpSteps) /\ todo # <<>>
  BY DEF HiTyped, Op
<1>1. /\ t \in Seq(OpSteps) /\ Len(todo) \in Nat /\ Len(todo) >= 1 /\ Head(todo) = todo[1]
      /\ Len(t) = Len(todo) - 1 /\ \A i \in 1..Len(t) : t[i] = todo[i + 1]
  BY FirstIs DEF HiTyped, Op
<1>2. Lines(todo) /\ Pairs(todo) /\ todo[1] \in {"read", "topics"}
      /\ \A i \in 1..Len(todo) : JobOf(todo[i], op.job)
  BY <1>1 DEF Shape
<1>3. \A i \in 1..Len(t) : i + 1 \in 1..Len(todo) /\ i + 1 \in 2..Len(todo)
  BY <1>1
<1> HIDE DEF t, todo
<1>4. \A i \in 2..Len(todo) : todo[i] \notin Loads
  BY <1>1, <1>2 DEF Lines, WorkFrom, Loads
<1>5. \A i \in 1..Len(t) : t[i] \notin Loads /\ JobOf(t[i], op.job)
  BY <1>1, <1>2, <1>3, <1>4
<1>6. Pairs(t)
  BY <1>a, <1>2, TailPairs DEF t
<1>7. ASSUME t # <<>> PROVE t[1] \notin {"unlabel", "join"}
  <2>1. 1 \in 1..Len(t) /\ 2 \in 2..Len(todo) /\ t[1] = todo[2]
    BY <1>1, <1>7, FirstIs
  <2> QED
    BY <1>2, <2>1 DEF Pairs
<1> QED
  BY <1>1, <1>5, <1>6, <1>7 DEF Work, t, todo

\* Loading goes on with what it put in front, or with the work.
LEMMA LoadMovesOn ==
  ASSUME HiTyped, Shape, NEW s \in {"read", "topics"}, StepIs(s), NEW front \in Fronts, Then(front)
  PROVE  /\ Continues
         /\ front # <<>> => StepIs(Head(front))'
         /\ front = <<>> => \A x \in Loads \union {"unlabel", "join"} : ~StepIs(x)'
<1> DEFINE t == Tail(op.todo)
           u == front \o t
<1>1. Work(t, op.job)
  BY WorkBehind DEF StepIs
<1>2. /\ u \in Seq(OpSteps) /\ Lines(u) /\ Pairs(u)
      /\ \A i \in 1..Len(u) : JobOf(u[i], op.job)
      /\ front = <<>> => u = t
      /\ front # <<>> => u # <<>> /\ Head(u) = Head(front)
  BY <1>1, Prefixed
<1>3. op' = [op EXCEPT !.todo = u]
  BY DEF Then
<1>4. op' \in Op /\ op'.job = op.job /\ op'.m = op.m /\ op'.todo = u
  BY <1>2, <1>3 DEF HiTyped, Op
<1>5. t # <<>> => Head(t) = t[1] /\ 1 \in 1..Len(t)
  BY <1>1, FirstIs DEF Work
<1> HIDE DEF t, u
<1>6. t # <<>> => Head(t) \notin Loads \union {"unlabel", "join"}
  BY <1>1, <1>5 DEF Work
<1> QED
  BY <1>2, <1>4, <1>6 DEF Continues, Ordered, StepIs

\* After the healing come the topics.
LEMMA HealMovesOn ==
  ASSUME HiTyped, Shape, StepIs("heal"), Then(<<>>)
  PROVE  Continues /\ StepIs("topics")'
<1> DEFINE todo == op.todo
           t == Tail(todo)
<1>a. todo \in Seq(OpSteps) /\ todo # <<>>
  BY DEF HiTyped, Op, StepIs
<1>1. /\ t \in Seq(OpSteps) /\ Len(todo) \in Nat /\ Len(todo) >= 1 /\ Head(todo) = todo[1]
      /\ Len(t) = Len(todo) - 1 /\ \A i \in 1..Len(t) : t[i] = todo[i + 1]
      /\ <<>> \o t = t
  BY FirstIs DEF HiTyped, Op, StepIs
<1>2. Lines(todo) /\ Pairs(todo) /\ todo[1] = "heal"
      /\ \A i \in 1..Len(todo) : JobOf(todo[i], op.job)
  BY <1>1 DEF Shape, StepIs
<1>3. op' = [op EXCEPT !.todo = t]
  BY <1>1 DEF Then
<1>4. op' \in Op /\ op'.job = op.job /\ op'.m = op.m /\ op'.todo = t
  BY <1>1, <1>3 DEF HiTyped, Op
<1>5. t # <<>> => Head(t) = t[1]
  BY <1>1, FirstIs
<1> HIDE DEF t, todo
<1>6. Len(todo) >= 2 /\ todo[2] = "topics" /\ \A i \in 3..Len(todo) : todo[i] \notin Loads
  BY <1>1, <1>2 DEF Lines, WorkFrom, Loads
<1>7. Len(t) >= 1 /\ t[1] = "topics" /\ t # <<>>
  <2>1. Len(t) >= 1 /\ t[1] = "topics"
    BY <1>1, <1>6
  <2> QED
    BY <2>1
<1>8. \A i \in 1..Len(t) : i + 1 \in 1..Len(todo) /\ i + 1 \in 2..Len(todo)
  BY <1>1
<1>9. Lines(t)
  <2>1. \A i \in 2..Len(t) : i \in 1..Len(t) /\ i + 1 \in 3..Len(todo)
    BY <1>1
  <2> QED
    BY <1>1, <1>6, <1>7, <2>1 DEF Lines, WorkFrom
<1>10. Pairs(t) /\ \A i \in 1..Len(t) : JobOf(t[i], op.job)
  BY <1>a, <1>2, TailPairs DEF t
<1> QED
  BY <1>4, <1>5, <1>7, <1>9, <1>10 DEF Continues, Ordered, StepIs

\* At a step of its work an operation has the topics in its copy.
LEMMA WorkIs ==
  ASSUME HiTyped, Shape, NEW s \in OpSteps \ Loads, StepIs(s)
  PROVE  /\ mem.loaded /\ TopicsIn /\ op.job # "none" /\ JobOf(s, op.job)
         /\ Undone = IF s = "drop" THEN mem.side.pending ELSE {}
<1>1. \A x \in Loads : ~StepIs(x)
  BY DEF StepIs, Loads
<1>2. op.todo # <<>> /\ op.todo \in Seq(OpSteps) /\ Head(op.todo) = s
  BY DEF StepIs, HiTyped, Op
<1>3. JobOf(s, op.job)
  <2>1. 1 \in 1..Len(op.todo) /\ op.todo[1] = s
    BY <1>2, FirstIs
  <2> QED
    BY <2>1 DEF Shape
<1>4. mem.loaded /\ op.job # "none"
  BY <1>1, <1>2 DEF Shape, HiTyped, Copy, Loads
<1>5. StepIs("drop") <=> s = "drop"
  BY DEF StepIs
<1> QED
  BY <1>1, <1>3, <1>4, <1>5 DEF TopicsIn, Undone, Loads

\* An operation that goes on in a loaded chat keeps its shape.
LEMMA Reshapes ==
  ASSUME HiTyped, Shape, JobFits, op.job # "none", Continues, mem'.loaded = TRUE, ~StepIs("read")', send' = send
  PROVE  Shape' /\ JobFits'
<1>1. Shape'
  BY DEF Shape, Continues, Ordered
<1>2. JobFits'
  BY DEF JobFits, Continues
<1> QED
  BY <1>1, <1>2

\* The last step of an operation stays the last one.
LEMMA LastStays ==
  ASSUME HiTyped, AppendLast, NEW front \in Seq(OpSteps), NEW s \in OpSteps \ {"throw", "known"},
         StepIs(s), Then(front), s = "append" => front = <<>> /\ op.m \in mem'.recs
  PROVE  AppendLast'
<1> DEFINE todo == op.todo
           t == Tail(todo)
           u == front \o t
<1>1. todo \in Seq(OpSteps) /\ todo # <<>> /\ Head(todo) = s
  BY DEF HiTyped, Op, StepIs
<1>2. /\ t \in Seq(OpSteps) /\ Len(todo) \in Nat /\ Len(todo) >= 1 /\ todo[1] = s
      /\ Len(t) = Len(todo) - 1 /\ \A i \in 1..Len(t) : t[i] = todo[i + 1]
  BY <1>1, FirstIs
<1>b. Len(t) \in Nat /\ (Len(t) = 0 => t = <<>>)
  <2> SUFFICES ASSUME NEW r \in Seq(OpSteps) PROVE Len(r) \in Nat /\ (Len(r) = 0 => r = <<>>)
    BY <1>2
  <2> QED
    OBVIOUS
<1>3. u \in Seq(OpSteps) /\ Len(u) = Len(front) + Len(t) /\ (front = <<>> => u = t)
  BY <1>2, ConcatProperties, ConcatEmptySeq, SMTT(30)
<1>4. op'.job = op.job /\ op'.m = op.m /\ op'.todo = u
  BY DEF Then, HiTyped, Op
<1>5. CASE Len(t) = 0
  <2>1. todo[Len(todo)] = s
    BY <1>2, <1>5
  <2>2. s = "append" => u = <<>> /\ op.m \in mem'.recs
    <3>1. t = <<>>
      BY <1>b, <1>5
    <3> QED
      BY <1>3, <3>1
  <2> HIDE DEF t, u, todo
  <2> QED
    BY <1>1, <1>4, <2>1, <2>2 DEF AppendLast, todo
<1>6. CASE Len(t) >= 1
  <2>1. Len(front) \in Nat
    OBVIOUS
  <2>2. u[Len(u)] = t[Len(t)]
    <3>1. Len(front) + Len(t) \in 1..(Len(front) + Len(t)) /\ ~(Len(front) + Len(t) <= Len(front))
          /\ (Len(front) + Len(t)) - Len(front) = Len(t)
      BY <1>2, <1>6, <2>1
    <3>2. u[Len(front) + Len(t)] = t[(Len(front) + Len(t)) - Len(front)]
      BY <1>2, <3>1, ConcatProperties
    <3> QED
      BY <1>3, <3>1, <3>2
  <2>3. t[Len(t)] = todo[Len(todo)]
    <3>1. Len(t) \in 1..Len(t) /\ Len(t) + 1 = Len(todo)
      BY <1>2, <1>6
    <3> QED
      BY <1>2, <3>1
  <2>4. u # <<>>
    BY <1>2, <1>3, <1>6, <2>1
  <2> HIDE DEF t, u, todo
  <2> QED
    BY <1>1, <1>4, <2>2, <2>3, <2>4 DEF AppendLast, todo
<1>7. Len(t) = 0 \/ Len(t) >= 1
  <2> HIDE DEF t
  <2> QED
    BY <1>b
<1> QED
  BY <1>5, <1>6, <1>7

\* An operation that throws, or finds the record known, has its last step before it.
LEMMA LastReturns ==
  ASSUME HiTyped, NEW x \in {"throw", "known"}, Returns(<<x>>)
  PROVE  AppendLast'
<1>1. op'.todo = <<x>>
  BY DEF Returns, HiTyped, Op
<1>2. <<x>> # <<>> /\ Len(<<x>>) = 1 /\ <<x>>[1] = x
  OBVIOUS
<1> QED
  BY <1>1, <1>2 DEF AppendLast

-----------------------------------------------------------------------------
(* How a step of the work ends: it writes, the write fails, it finds nothing  *)
(* to write, or it throws.                                                    *)

InShape == Shape /\ JobFits /\ AppendLast /\ TopicsIn

Written(s, kind, m) ==
  /\ mem' = m /\ failed' = failed /\ MovesOn(s)
  /\ sidecar' = IF kind = "side" THEN m.side ELSE sidecar
  /\ log'.recs = CASE kind = "log" -> m.recs
                   [] kind = "append" /\ ~log.torn -> log.recs \union {op.m}
                   [] OTHER -> log.recs
  /\ log'.torn => kind = "side" /\ log.torn

Broken(kind, m) ==
  /\ mem' = m /\ failed' = failed \union {kind} /\ Stops /\ op'.todo = <<"throw">>
  /\ sidecar' = sidecar /\ log'.recs = log.recs /\ (kind = "append" \/ log' = log)

\* A step that has a file to write does so or throws, and keeps to the shape.
LEMMA Writing ==
  ASSUME HiInv, NEW s \in OpSteps \ (Loads \union {"throw", "known"}), StepIs(s),
         NEW kind \in {"log", "side", "append"}, NEW m \in Copy, m.loaded = TRUE,
         s = "append" => op.m \in m.recs, kind = "append" => op.m \in Ids,
         Writes(kind, m), send' = send
  PROVE  /\ InShape' /\ log' \in LogFile /\ sidecar' \in Side /\ op' \in Op
         /\ Written(s, kind, m) \/ Broken(kind, m)
<1> USE DEF HiInv
<1>1. mem.loaded /\ TopicsIn /\ op.job # "none"
  BY WorkIs
<1>2. mem' = m
  BY DEF Writes
<1>3. ASSUME Wrote(kind, m), Then(<<>>), failed' = failed
      PROVE  /\ InShape' /\ log' \in LogFile /\ sidecar' \in Side /\ op' \in Op
             /\ Written(s, kind, m)
  <2>1. MovesOn(s)
    BY <1>3, WorkMovesOn
  <2>2. Shape' /\ JobFits'
    BY <1>1, <1>2, <2>1, Reshapes DEF MovesOn, Loads
  <2>3. TopicsIn'
    BY <1>2, <2>1 DEF TopicsIn, MovesOn, Loads
  <2>4. <<>> \in Seq(OpSteps)
    OBVIOUS
  <2>5. AppendLast'
    BY <1>2, <1>3, <2>4, LastStays
  <2>6. sidecar' = IF kind = "side" THEN m.side ELSE sidecar
    BY <1>3 DEF Wrote
  <2>7. sidecar' \in Side
    BY <2>6 DEF HiTyped, Copy
  <2>8. CASE kind = "log"
    <3>1. log' = [recs |-> m.recs, torn |-> FALSE, junk |-> FALSE]
      BY <1>3, <2>8 DEF Wrote
    <3>2. log' \in LogFile /\ log'.recs = m.recs /\ ~log'.torn
      BY <3>1 DEF LogFile, Copy
    <3> QED
      BY <1>2, <1>3, <2>1, <2>2, <2>3, <2>5, <2>6, <2>7, <2>8, <3>2 DEF Written, InShape, MovesOn, Continues, Ordered
  <2>9. CASE kind = "append"
    <3>1. log' = [log EXCEPT !.recs = IF log.torn THEN @ ELSE @ \union {op.m},
                             !.junk = @ \/ log.torn, !.torn = FALSE]
      BY <1>3, <2>9 DEF Wrote
    <3>2. log \in LogFile /\ op.m \in Ids
      BY <2>9 DEF HiTyped
    <3>3. /\ log' \in LogFile /\ ~log'.torn
          /\ log'.recs = IF log.torn THEN log.recs ELSE log.recs \union {op.m}
      BY <3>1, <3>2 DEF LogFile
    <3> QED
      BY <1>2, <1>3, <2>1, <2>2, <2>3, <2>5, <2>6, <2>7, <2>9, <3>3 DEF Written, InShape, MovesOn, Continues, Ordered
  <2>10. CASE kind = "side"
    <3>1. log' = log
      BY <1>3, <2>10 DEF Wrote
    <3> QED
      BY <1>2, <1>3, <2>1, <2>2, <2>3, <2>5, <2>6, <2>7, <2>10, <3>1
         DEF Written, InShape, MovesOn, Continues, Ordered, HiTyped
  <2> QED
    BY <2>8, <2>9, <2>10
<1>4. ASSUME UNCHANGED log \/ (kind = "append" /\ log' = [log EXCEPT !.torn = TRUE]),
             failed' = failed \union {kind}, Returns(<<"throw">>), sidecar' = sidecar
      PROVE  /\ InShape' /\ log' \in LogFile /\ sidecar' \in Side /\ op' \in Op
             /\ Broken(kind, m)
  <2>1. Stops
    BY <1>4, ReturnStops
  <2>2. Shape' /\ JobFits'
    BY <1>1, <1>2, <2>1, Reshapes DEF Stops, OpSteps
  <2>3. TopicsIn'
    BY <1>2, <2>1 DEF TopicsIn, Stops, OpSteps
  <2>4. AppendLast'
    BY <1>4, LastReturns
  <2>5. log' \in LogFile /\ log'.recs = log.recs /\ (kind = "append" \/ log' = log)
    BY <1>4 DEF HiTyped, LogFile
  <2>6. op'.todo = <<"throw">>
    BY <1>4 DEF Returns, HiTyped, Op
  <2> QED
    BY <1>2, <1>4, <2>1, <2>2, <2>3, <2>4, <2>5, <2>6 DEF Broken, InShape, Stops, Continues, Ordered, HiTyped
<1>5. \/ Wrote(kind, m) /\ Then(<<>>) /\ failed' = failed
      \/ /\ UNCHANGED log \/ (kind = "append" /\ log' = [log EXCEPT !.torn = TRUE])
         /\ failed' = failed \union {kind} /\ Returns(<<"throw">>) /\ sidecar' = sidecar
  BY Zenon DEF Writes
<1> HIDE DEF HiInv
<1> QED
  BY <1>3, <1>4, <1>5, Zenon

\* A step that writes nothing leaves the chat alone.
Quiet == InShape' /\ op' \in Op /\ UNCHANGED <<log, sidecar, mem, failed>>

\* A step of the work that finds nothing to write goes on to the next.
LEMMA WritesNothing ==
  ASSUME HiInv, NEW s \in OpSteps \ (Loads \union {"throw", "known", "append"}), StepIs(s),
         NothingToWrite, send' = send
  PROVE  Quiet /\ MovesOn(s)
<1> USE DEF HiInv
<1>1. mem.loaded /\ TopicsIn /\ op.job # "none"
  BY WorkIs
<1>2. MovesOn(s) /\ UNCHANGED <<log, sidecar, mem, failed>>
  BY WorkMovesOn DEF NothingToWrite
<1>3. Shape' /\ JobFits'
  BY <1>1, <1>2, Reshapes DEF MovesOn, Loads
<1>4. TopicsIn'
  BY <1>1, <1>2 DEF TopicsIn, MovesOn, Loads
<1>5. <<>> \in Seq(OpSteps)
  OBVIOUS
<1>6. AppendLast'
  BY <1>5, LastStays DEF NothingToWrite
<1> QED
  BY <1>2, <1>3, <1>4, <1>6 DEF Quiet, InShape, MovesOn, Continues, Ordered

\* Neither does one that refuses.
LEMMA Refusing ==
  ASSUME HiInv, NEW s \in OpSteps \ Loads, StepIs(s), NEW x \in {"throw", "known"}, Returns(<<x>>),
         UNCHANGED <<log, sidecar, mem, failed, send>>
  PROVE  Quiet /\ Stops
<1> USE DEF HiInv
<1>1. mem.loaded /\ TopicsIn /\ op.job # "none"
  BY WorkIs
<1>2. Stops
  BY ReturnStops
<1>3. Shape' /\ JobFits'
  BY <1>1, <1>2, Reshapes DEF Stops, OpSteps
<1>4. TopicsIn'
  BY <1>1, <1>2 DEF TopicsIn, Stops, OpSteps
<1>5. AppendLast'
  BY LastReturns
<1> QED
  BY <1>2, <1>3, <1>4, <1>5 DEF Quiet, InShape, Stops, Continues, Ordered

-----------------------------------------------------------------------------
(* The steps, one by one. *)

\* Where nothing is written, nothing changes but what is left to do.
LEMMA QuietKeeps ==
  ASSUME HiInv, NEW s \in OpSteps \ Loads, StepIs(s), Quiet, ~StepIs("join")', ~StepIs("unlabel")',
         s = "drop" => mem.recs \cap mem.side.pending = {},
         UNCHANGED <<send, routed, old, due, gone, filed>>
  PROVE  HiInv'
<1>1. mem.loaded /\ TopicsIn /\ Undone = IF s = "drop" THEN mem.side.pending ELSE {}
  BY WorkIs DEF HiInv
<1>2. UNCHANGED <<log, sidecar, mem, failed>> /\ TopicsIn'
  BY DEF Quiet, InShape
<1>3. HiTyped'
  BY DEF HiInv, HiTyped, Quiet
<1>4. DueSafe'
  <2>1. ~StepIs("heal")
    BY <1>1 DEF TopicsIn
  <2> QED
    BY <1>1, <1>2, <2>1 DEF HiInv, DueSafe
<1>5. GoneMarked'
  <2>1. s = "drop" => gone \cap mem.recs \subseteq old \/ "log" \in failed
    BY <1>1 DEF HiInv, GoneMarked
  <2> QED
    BY <1>1, <1>2, <2>1 DEF HiInv, GoneMarked
<1>6. LabelsRight'
  BY <1>1, <1>2 DEF HiInv, LabelsRight, Shown, TopicFor
<1> QED
  BY <1>3, <1>4, <1>5, <1>6 DEF HiInv, Quiet, InShape

\* A send gets its topic, unless it has one already or its topic is gone.
LEMMA AssignKeeps ==
  ASSUME HiInv, Assign
  PROVE  HiInv'
<1> DEFINE q == op.m
           new == [mem EXCEPT !.side = Labelled(@, q, TopicOf[q]), !.fresh = @ \union {q}]
<1>1. StepIs("assign") /\ "assign" \in OpSteps /\ "assign" \notin Loads \union {"throw", "known", "append"}
      /\ UNCHANGED <<send, routed, old, due, gone>>
  BY DEF Assign, OpSteps, Loads
<1>2. mem.loaded /\ TopicsIn /\ op.job = "assign" /\ Undone = {}
  BY <1>1, WorkIs DEF HiInv, JobOf
<1>3. q \in Sent /\ q \in Ids /\ TopicOf[q] \in Topics \union {Default} /\ TopicOf[q] # Default /\ send[q] # "done"
  BY <1>2, HistoryAssumption DEF HiInv, JobFits, Ids
<1>4. CASE Refuses(q)
  <2>1. Quiet /\ Stops /\ filed' = filed
    BY <1>1, <1>4, Refusing DEF Assign
  <2> QED
    BY <1>1, <2>1, QuietKeeps DEF Stops, OpSteps, Quiet
<1>5. CASE ~Refuses(q) /\ Assigned(q) = TopicOf[q]
  <2>1. Quiet /\ MovesOn("assign") /\ filed' = filed
    BY <1>1, <1>5, WritesNothing DEF Assign
  <2> QED
    BY <1>1, <2>1, QuietKeeps DEF MovesOn
<1>6. CASE ~Refuses(q) /\ Assigned(q) # TopicOf[q]
  <2>1. Writes("side", new) /\ filed' = filed \union {q}
    BY <1>6 DEF Assign
  <2>2. mem.side.labels[q] = Default /\ q \notin mem.recs \union mem.side.deleted
    <3>1. Assigned(q) = NoOne
      BY <1>6 DEF Refuses
    <3>2. mem.side.labels[q] \in Topics \union {Default} /\ NoOne \notin Topics \union {Default}
      BY <1>3, HistoryAssumption DEF HiInv, HiTyped, Copy, Side, NoOne
    <3> QED
      BY <3>1, <3>2 DEF Assigned
  <2>3. /\ new \in Copy /\ new.loaded = mem.loaded /\ new.recs = mem.recs /\ new.fresh = mem.fresh \union {q}
        /\ new.side.deleted = mem.side.deleted /\ new.side.pending = mem.side.pending
        /\ new.side.labels = [mem.side.labels EXCEPT ![q] = TopicOf[q]]
    BY <1>3 DEF HiInv, HiTyped, Copy, Side, Labelled
  <2> HIDE DEF new
  <2>4. /\ InShape' /\ log' \in LogFile /\ sidecar' \in Side /\ op' \in Op
        /\ Written("assign", "side", new) \/ Broken("side", new)
    BY <1>1, <1>2, <2>1, <2>3, Writing
  <2>5. mem' = new /\ log'.recs = log.recs /\ (sidecar' = new.side \/ sidecar' = sidecar)
        /\ ~StepIs("join")' /\ ~StepIs("unlabel")'
        /\ (log'.torn => log.torn \/ "side" \in failed') /\ failed \subseteq failed'
        /\ ((failed' = failed /\ sidecar' = new.side) \/ "side" \in failed')
    BY <2>4 DEF Written, Broken, MovesOn, Stops, OpSteps
  <2>6. HiTyped'
    BY <1>1, <1>3, <2>1, <2>3, <2>4, <2>5 DEF HiInv, HiTyped
  <2>7. DueSafe'
    <3>1. ~StepIs("heal")
      BY <1>2 DEF TopicsIn
    <3> QED
      BY <1>1, <1>2, <2>3, <2>5, <3>1 DEF HiInv, DueSafe
  <2>8. GoneMarked'
    BY <1>1, <1>2, <2>3, <2>4, <2>5 DEF HiInv, GoneMarked, InShape
  <2>9. LabelsRight'
    <3> SUFFICES ASSUME failed' \subseteq {"append"} PROVE LabelsRight'
      BY DEF LabelsRight
    <3>1. failed' = failed /\ sidecar' = new.side /\ TopicsIn'
      BY <2>4, <2>5 DEF InShape
    <3>2. q \notin sidecar.pending \union mem.side.pending \/ q \in old
      BY <1>2, <2>2, <3>1 DEF HiInv, LabelsRight, DueSafe
    <3>3. \A m \in Ids : m # q => new.side.labels[m] = mem.side.labels[m]
      BY <2>3 DEF HiInv, HiTyped, Copy, Side
    <3>4. new.side.labels[q] = TopicOf[q]
      BY <1>3, <2>3 DEF HiInv, HiTyped, Copy, Side
    <3>5. \A m \in (filed' \cap Shown') \ old' : sidecar'.labels[m] = TopicFor(m)
      <4> SUFFICES ASSUME NEW m \in (filed' \cap Shown') \ old' PROVE new.side.labels[m] = TopicFor(m)
        BY <3>1 DEF TopicFor
      <4>1. CASE m = q
        BY <1>3, <3>4, <4>1 DEF TopicFor
      <4>2. CASE m # q
        <5>1. m \in (filed \cap Shown) \ old /\ m \in Ids
          BY <1>1, <1>2, <2>1, <2>3, <2>5, <3>1, <4>2 DEF Shown, HiInv, HiTyped
        <5>2. sidecar.labels[m] = TopicFor(m) /\ sidecar = mem.side
          BY <1>2, <3>1, <5>1 DEF HiInv, LabelsRight
        <5> QED
          BY <3>3, <4>2, <5>1, <5>2
      <4> QED
        BY <4>1, <4>2
    <3>6. \A m \in filed' : TopicFor(m) # Default /\ (send'[m] # "done" =>
             m \in Replies \/ (mem'.loaded /\ m \in mem'.fresh \union mem'.recs \union old'))
      <4> SUFFICES ASSUME NEW m \in filed'
                   PROVE  TopicFor(m) # Default /\ (send[m] # "done" =>
                            m \in Replies \/ m \in new.fresh \union new.recs \union old)
        BY <1>1, <1>2, <2>3, <2>5
      <4>1. CASE m = q
        BY <1>3, <2>3, <4>1 DEF TopicFor
      <4>2. CASE m # q
        <5>1. m \in filed /\ failed \subseteq {"append"}
          BY <2>1, <3>1, <4>2
        <5> QED
          BY <2>3, <5>1 DEF HiInv, LabelsRight
      <4> QED
        BY <4>1, <4>2
    <3>7. filed' \cap Replies \subseteq due' \union old'
      BY <1>1, <1>3, <2>1, <3>1, HistoryAssumption DEF HiInv, LabelsRight
    <3>8. filed' \cap (sidecar'.pending \union mem'.side.pending) \subseteq old'
      BY <1>1, <1>2, <2>1, <2>3, <2>5, <3>1, <3>2 DEF HiInv, LabelsRight
    <3> QED
      BY <2>5, <3>1, <3>5, <3>6, <3>7, <3>8 DEF LabelsRight, TopicFor
  <2> QED
    BY <2>4, <2>6, <2>7, <2>8, <2>9 DEF HiInv, InShape
<1> QED
  BY <1>4, <1>5, <1>6

\* A write that loses no record but old ones and those marked for removal, and no label
\* of a record that is filed, keeps every promise.
LEMMA WritingKeeps ==
  ASSUME HiInv, NEW s \in OpSteps \ (Loads \union {"throw", "known", "append", "empty", "intend"}), StepIs(s),
         NEW kind \in {"log", "side"}, NEW m \in Copy, Writes(kind, m),
         UNCHANGED <<send, routed, old, due, gone, filed>>,
         m.loaded = mem.loaded, m.fresh = mem.fresh,
         m.recs \subseteq mem.recs, kind = "side" => m.recs = mem.recs,
         mem.recs \ m.recs \subseteq old \union mem.side.pending,
         s = "drop" => m.recs \cap mem.side.pending = {},
         kind = "log" => m.side = mem.side,
         m.side.pending \subseteq mem.side.pending,
         m.side.deleted \subseteq mem.side.deleted,
         mem.side.deleted \ m.side.deleted \subseteq old,
         failed \subseteq {"append"} =>
           \A x \in (filed \cap (m.recs \union m.fresh)) \ old : m.side.labels[x] = mem.side.labels[x]
  PROVE  HiInv'
<1>1. mem.loaded /\ TopicsIn /\ Undone = IF s = "drop" THEN mem.side.pending ELSE {}
  BY WorkIs DEF HiInv
<1>2. /\ InShape' /\ log' \in LogFile /\ sidecar' \in Side /\ op' \in Op
      /\ Written(s, kind, m) \/ Broken(kind, m)
  <2>1. m.loaded = TRUE
    BY <1>1 DEF Copy
  <2>2. s \in OpSteps \ (Loads \union {"throw", "known"}) /\ s # "append" /\ kind # "append"
        /\ kind \in {"log", "side", "append"} /\ send' = send
    OBVIOUS
  <2> QED
    BY <2>1, <2>2, Writing
<1>3. mem' = m /\ ~StepIs("join")' /\ ~StepIs("unlabel")' /\ TopicsIn' /\ failed \subseteq failed'
      /\ (log'.torn => log.torn)
  <2>1. CASE Written(s, kind, m)
    BY <1>2, <2>1 DEF Written, MovesOn, InShape
  <2>2. CASE Broken(kind, m)
    BY <1>2, <2>2 DEF Broken, Stops, OpSteps, InShape
  <2> QED
    BY <1>2, <2>1, <2>2
<1>4. HiTyped'
  BY <1>2, <1>3 DEF HiInv, HiTyped
<1>5. due \subseteq m.recs
  BY <1>1 DEF HiInv, DueSafe
<1>6. /\ log'.recs = log.recs \/ log'.recs = m.recs
      /\ sidecar' = sidecar \/ sidecar' = m.side
  BY <1>2 DEF Written, Broken
<1>7. DueSafe'
  <2>1. ~StepIs("heal")
    BY <1>1 DEF TopicsIn
  <2> QED
    BY <1>1, <1>3, <1>5, <1>6, <2>1 DEF HiInv, DueSafe
<1>8. GoneMarked'
  <2> SUFFICES ASSUME "log" \notin failed' PROVE GoneMarked'
    BY DEF GoneMarked
  <2>1. /\ gone \subseteq sidecar.deleted \union old
        /\ gone \subseteq mem.side.deleted \union old
        /\ log.recs \subseteq mem.recs \union old
        /\ gone \cap mem.recs \subseteq old \union Undone
        /\ gone \cap log.recs \subseteq old \union sidecar.pending
    BY <1>1, <1>3 DEF HiInv, GoneMarked
  <2>2. gone \cap m.recs \subseteq old
    <3>1. CASE s = "drop"
      BY <1>1, <2>1, <3>1
    <3>2. CASE s # "drop"
      BY <1>1, <2>1, <3>2
    <3> QED
      BY <3>1, <3>2
  <2>3. gone \subseteq sidecar'.deleted \union old /\ gone \subseteq m.side.deleted \union old
    BY <1>6, <2>1
  <2>4. log'.recs \subseteq m.recs \union old
    <3>1. CASE kind = "log"
      BY <1>2, <2>1, <3>1 DEF Written, Broken
    <3>2. CASE kind = "side"
      BY <1>6, <2>1, <3>2
    <3> QED
      BY <3>1, <3>2
  <2>5. gone \cap log'.recs \subseteq old \union sidecar'.pending
    BY <1>6, <2>2, <2>4
  <2> QED
    BY <1>3, <2>2, <2>3, <2>4, <2>5 DEF GoneMarked
<1>9. LabelsRight'
  <2> SUFFICES ASSUME failed' \subseteq {"append"} PROVE LabelsRight'
    BY DEF LabelsRight
  <2>1. failed' = failed /\ failed \subseteq {"append"} /\ sidecar' = m.side /\ sidecar = mem.side
    <3>1. Written(s, kind, m)
      BY <1>2 DEF Broken
    <3> QED
      BY <1>1, <3>1 DEF HiInv, LabelsRight, Written
  <2>2. \A x \in (filed \cap Shown') \ old : sidecar'.labels[x] = TopicFor(x)
    BY <1>1, <1>3, <2>1 DEF HiInv, LabelsRight, Shown
  <2>3. \A x \in filed : send[x] # "done" => x \in Replies \/ (m.loaded /\ x \in m.fresh \union m.recs \union old)
    BY <1>1, <2>1 DEF HiInv, LabelsRight
  <2>4. filed \cap (sidecar'.pending \union m.side.pending) \subseteq old
    BY <2>1 DEF HiInv, LabelsRight
  <2> QED
    BY <1>3, <2>1, <2>2, <2>3, <2>4 DEF HiInv, LabelsRight, TopicFor
<1> QED
  BY <1>2, <1>4, <1>7, <1>8, <1>9 DEF HiInv, InShape

\* Noting a send rewrites the sidecar as it is.
LEMMA NoteKeeps ==
  ASSUME HiInv, Note
  PROVE  HiInv'
<1>1. StepIs("note") /\ "note" \in OpSteps \ (Loads \union {"throw", "known", "append", "empty", "intend"})
      /\ UNCHANGED <<send, routed, old, due, gone, filed>> /\ mem \in Copy
  BY DEF Note, OpSteps, Loads, HiInv, HiTyped
<1>2. CASE Writes("side", mem)
  BY <1>1, <1>2, WritingKeeps
<1>3. CASE NothingToWrite
  <2>1. Quiet /\ MovesOn("note")
    BY <1>1, <1>3, WritesNothing
  <2> QED
    BY <1>1, <2>1, QuietKeeps DEF MovesOn
<1> QED
  BY <1>2, <1>3 DEF Note

\* What is dropped was marked for removal: nothing due, nothing filed.
LEMMA DropKeeps ==
  ASSUME HiInv, Drop
  PROVE  HiInv'
<1> DEFINE new == [mem EXCEPT !.recs = @ \ mem.side.pending]
<1>1. StepIs("drop") /\ "drop" \in OpSteps \ (Loads \union {"throw", "known", "append", "empty", "intend"})
      /\ UNCHANGED <<send, routed, old, due, gone, filed>>
  BY DEF Drop, OpSteps, Loads
<1>2. new \in Copy /\ new.loaded = mem.loaded /\ new.fresh = mem.fresh /\ new.side = mem.side
      /\ new.recs = mem.recs \ mem.side.pending
  BY DEF HiInv, HiTyped, Copy
<1> HIDE DEF new
<1>3. CASE Writes("log", new)
  BY <1>1, <1>2, <1>3, WritingKeeps
<1>4. CASE NothingToWrite /\ mem.recs \cap mem.side.pending = {}
  <2>1. Quiet /\ MovesOn("drop")
    BY <1>1, <1>4, WritesNothing
  <2> QED
    BY <1>1, <1>4, <2>1, QuietKeeps DEF MovesOn
<1> QED
  BY <1>3, <1>4 DEF Drop, new

\* By the time the intent is forgotten, nothing of it is left in the log.
LEMMA UnpendKeeps ==
  ASSUME HiInv, Unpend
  PROVE  HiInv'
<1> DEFINE new == [mem EXCEPT !.side.pending = {}]
<1>1. StepIs("unpend") /\ "unpend" \in OpSteps \ (Loads \union {"throw", "known", "append", "empty", "intend"})
      /\ UNCHANGED <<send, routed, old, due, gone, filed>> /\ Writes("side", new)
  BY DEF Unpend, OpSteps, Loads
<1>2. new \in Copy /\ new.loaded = mem.loaded /\ new.fresh = mem.fresh /\ new.recs = mem.recs
      /\ new.side.pending = {} /\ new.side.deleted = mem.side.deleted /\ new.side.labels = mem.side.labels
  BY DEF HiInv, HiTyped, Copy, Side
<1> HIDE DEF new
<1> QED
  BY <1>1, <1>2, WritingKeeps

\* The labels go after the records did.
LEMMA UnlabelKeeps ==
  ASSUME HiInv, Unlabel
  PROVE  HiInv'
<1> DEFINE new == [mem EXCEPT !.side.labels = Unlabelled]
<1>1. StepIs("unlabel") /\ "unlabel" \in OpSteps \ (Loads \union {"throw", "known", "append", "empty", "intend"})
      /\ UNCHANGED <<send, routed, old, due, gone, filed>>
  BY DEF Unlabel, OpSteps, Loads
<1>2. new \in Copy /\ new.loaded = mem.loaded /\ new.fresh = mem.fresh /\ new.recs = mem.recs
      /\ new.side.pending = mem.side.pending /\ new.side.deleted = mem.side.deleted
  BY DEF HiInv, HiTyped, Copy, Side, Unlabelled
<1>3. failed \subseteq {"append"} => filed = {}
  BY <1>1 DEF HiInv, LabelsRight
<1> HIDE DEF new
<1>4. CASE Writes("side", new)
  BY <1>1, <1>2, <1>3, <1>4, WritingKeeps
<1>5. CASE NothingToWrite
  <2>1. Quiet /\ MovesOn("unlabel")
    BY <1>1, <1>5, WritesNothing
  <2> QED
    BY <1>1, <2>1, QuietKeeps DEF MovesOn
<1> QED
  BY <1>4, <1>5 DEF Unlabel, new

\* Aging takes old records only.
LEMMA AgeKeeps ==
  ASSUME HiInv, Age
  PROVE  HiInv'
<1> DEFINE new == [mem EXCEPT !.recs = @ \ old]
<1>1. StepIs("age") /\ "age" \in OpSteps \ (Loads \union {"throw", "known", "append", "empty", "intend"})
      /\ UNCHANGED <<send, routed, old, due, gone, filed>>
  BY DEF Age, OpSteps, Loads
<1>2. new \in Copy /\ new.loaded = mem.loaded /\ new.fresh = mem.fresh /\ new.side = mem.side
      /\ new.recs = mem.recs \ old
  BY DEF HiInv, HiTyped, Copy
<1> HIDE DEF new
<1>3. CASE Writes("log", new)
  BY <1>1, <1>2, <1>3, WritingKeeps
<1>4. CASE NothingToWrite
  <2>1. Quiet /\ MovesOn("age")
    BY <1>1, <1>4, WritesNothing
  <2> QED
    BY <1>1, <2>1, QuietKeeps DEF MovesOn
<1> QED
  BY <1>3, <1>4 DEF Age, new

\* The sweep takes the labels of what is neither recorded nor on its way, and tombstones of old records.
LEMMA SweepKeeps ==
  ASSUME HiInv, SweepTopics
  PROVE  HiInv'
<1>1. StepIs("sweep") /\ "sweep" \in OpSteps \ (Loads \union {"throw", "known", "append", "empty", "intend"})
      /\ UNCHANGED <<send, routed, old, due, gone, filed>>
  BY DEF SweepTopics, OpSteps, Loads
<1>2. PICK spent \in {{}, mem.side.deleted \cap old} :
        IF Stray \union spent = {} THEN NothingToWrite
        ELSE Writes("side", [mem EXCEPT
               !.side.labels = [m \in Ids |-> IF m \in Stray THEN Default ELSE @[m]],
               !.side.deleted = @ \ spent])
  BY DEF SweepTopics
<1> DEFINE new == [mem EXCEPT
               !.side.labels = [m \in Ids |-> IF m \in Stray THEN Default ELSE @[m]],
               !.side.deleted = @ \ spent]
           labels == [m \in Ids |-> IF m \in Stray THEN Default ELSE mem.side.labels[m]]
<1>3. labels \in [Ids -> Topics \union {Default}] /\ \A x \in Ids : x \notin Stray => labels[x] = mem.side.labels[x]
  BY DEF HiInv, HiTyped, Copy, Side
<1>4. new.side.labels = labels
  BY DEF HiInv, HiTyped, Copy, Side
<1> HIDE DEF labels
<1>5. new = [mem EXCEPT !.side = [mem.side EXCEPT !.labels = labels, !.deleted = @ \ spent]]
  BY DEF HiInv, HiTyped, Copy, Side, labels
<1> HIDE DEF new
<1>6. new \in Copy /\ new.loaded = mem.loaded /\ new.fresh = mem.fresh /\ new.recs = mem.recs
      /\ new.side.pending = mem.side.pending /\ new.side.deleted = mem.side.deleted \ spent
      /\ new.side.labels = labels
  BY <1>3, <1>5 DEF HiInv, HiTyped, Copy, Side
<1>7. \A x \in (filed \cap (new.recs \union new.fresh)) \ old : new.side.labels[x] = mem.side.labels[x]
  BY <1>3, <1>6 DEF Stray, HiInv, HiTyped
<1>8. CASE Writes("side", new)
  BY <1>1, <1>2, <1>6, <1>7, <1>8, WritingKeeps
<1>9. CASE NothingToWrite
  <2>1. Quiet /\ MovesOn("sweep")
    BY <1>1, <1>9, WritesNothing
  <2> QED
    BY <1>1, <2>1, QuietKeeps DEF MovesOn
<1> QED
  BY <1>2, <1>8, <1>9 DEF new

\* A record that was removed is not appended again, and one that lands in the log is due.
LEMMA AppendKeeps ==
  ASSUME HiInv, AppendRecord
  PROVE  HiInv'
<1> DEFINE r == op.m
           new == [mem EXCEPT !.recs = @ \union {r}]
<1>1. StepIs("append") /\ "append" \in OpSteps \ (Loads \union {"throw", "known"})
      /\ UNCHANGED <<send, routed, old, gone, filed>>
  BY DEF AppendRecord, OpSteps, Loads
<1>2. mem.loaded = TRUE /\ TopicsIn /\ op.job \in {"append", "deliver"} /\ Undone = {}
  BY <1>1, WorkIs DEF HiInv, JobOf, HiTyped, Copy
<1>3. r \in Ids /\ (r \in Sent => op.job = "append" /\ send[r] = "routed")
  BY <1>2, HistoryAssumption DEF HiInv, JobFits, Ids
<1>4. CASE r \in mem.recs \union mem.side.deleted
  <2>1. Quiet /\ Stops /\ due' = due
    BY <1>1, <1>4, Refusing DEF AppendRecord
  <2> QED
    BY <1>1, <2>1, QuietKeeps DEF Stops, OpSteps, Quiet
<1>5. CASE r \notin mem.recs \union mem.side.deleted
  <2>1. Writes("append", new)
        /\ due' = IF op'.todo = <<"throw">> \/ (log.torn /\ failed # {}) THEN due
                  ELSE due \union ({r} \ (old \union sidecar.pending))
    BY <1>5 DEF AppendRecord
  <2>2. /\ new \in Copy /\ new.loaded = TRUE /\ new.fresh = mem.fresh /\ new.side = mem.side
        /\ new.recs = mem.recs \union {r}
    BY <1>2, <1>3 DEF HiInv, HiTyped, Copy
  <2> HIDE DEF new
  <2>3. /\ InShape' /\ log' \in LogFile /\ sidecar' \in Side /\ op' \in Op
        /\ Written("append", "append", new) \/ Broken("append", new)
    BY <1>1, <1>3, <2>1, <2>2, Writing
  <2>4. mem' = new /\ TopicsIn' /\ sidecar' = sidecar /\ ~StepIs("unlabel")' /\ failed \subseteq failed'
        /\ log.recs \subseteq log'.recs /\ log'.recs \subseteq log.recs \union {r}
        /\ (log'.torn => "append" \in failed')
    BY <2>3 DEF Written, Broken, MovesOn, Stops, OpSteps, InShape
  <2>5. due' \subseteq due \union ({r} \ (old \union sidecar.pending)) /\ due \subseteq due'
    BY <2>1
  <2>6. r \notin mem.side.pending \/ r \in old
    BY <1>5 DEF HiInv, DueSafe
  <2>7. HiTyped'
    BY <1>1, <1>3, <2>3, <2>4, <2>5, <2>2 DEF HiInv, HiTyped
  <2>8. due' \subseteq log'.recs
    <3>1. CASE Broken("append", new)
      BY <2>1, <2>4, <3>1 DEF Broken, HiInv, DueSafe
    <3>2. CASE Written("append", "append", new)
      <4>1. CASE ~log.torn
        BY <2>5, <3>2, <4>1 DEF Written, HiInv, DueSafe
      <4>2. CASE log.torn
        <5>1. ~StepIs("heal")
          BY <1>2 DEF TopicsIn
        <5>2. failed # {}
          BY <1>2, <4>2, <5>1 DEF HiInv, DueSafe
        <5> QED
          BY <2>1, <2>4, <4>2, <5>2 DEF HiInv, DueSafe
      <4> QED
        BY <4>1, <4>2
    <3> QED
      BY <2>3, <3>1, <3>2
  <2>9. DueSafe'
    BY <1>1, <1>2, <2>2, <2>4, <2>5, <2>6, <2>8 DEF HiInv, DueSafe
  <2>10. GoneMarked'
    BY <1>1, <1>2, <1>5, <2>2, <2>4 DEF HiInv, GoneMarked
  <2>11. LabelsRight'
    <3> SUFFICES ASSUME failed' \subseteq {"append"} PROVE LabelsRight'
      BY DEF LabelsRight
    <3>1. failed \subseteq {"append"} /\ mem.side = sidecar
      BY <1>2, <2>4 DEF HiInv, LabelsRight
    <3>2. ASSUME r \in Replies PROVE r \notin filed \ old
      BY <1>2, <1>5, <3>1, <3>2 DEF HiInv, LabelsRight, DueSafe
    <3>3. ASSUME r \in Sent, r \in filed PROVE r \in mem.fresh \union old
      <4>1. r \notin Replies /\ send[r] # "done"
        BY <1>3, <3>3, HistoryAssumption
      <4> QED
        BY <1>5, <3>1, <3>3, <4>1 DEF HiInv, LabelsRight
    <3>4. (filed \cap Shown') \ old \subseteq (filed \cap Shown) \ old
      BY <1>2, <1>3, <2>2, <2>4, <3>2, <3>3 DEF Shown, Ids
    <3>5. StepIs("join")' => r \in Replies
      <4>1. CASE Broken("append", new)
        BY <4>1 DEF Broken, Stops, OpSteps
      <4>2. CASE Written("append", "append", new)
        <5>1. op' \in Op /\ op'.m = r /\ Shape' /\ JobFits'
          BY <2>3, <4>2 DEF Written, MovesOn, Continues, InShape
        <5>2. StepIs("join")' => 1 \in 1..Len(op'.todo) /\ op'.todo[1] = "join"
          BY <5>1, FirstIs DEF StepIs, Op
        <5>3. StepIs("join")' => op'.job = "deliver"
          BY <5>1, <5>2 DEF Shape, JobOf
        <5> QED
          BY <5>1, <5>3 DEF JobFits
      <4> QED
        BY <2>3, <4>1, <4>2
    <3>6. op'.m = r
      BY <2>3 DEF Written, Broken, MovesOn, Stops, Continues
    <3>7. \A m \in (filed' \cap Shown') \ old' : sidecar'.labels[m] = TopicFor(m)
      BY <1>1, <2>4, <3>1, <3>4 DEF HiInv, LabelsRight
    <3>8. \A m \in filed' : TopicFor(m) # Default /\ (send'[m] # "done" =>
             m \in Replies \/ (mem'.loaded /\ m \in mem'.fresh \union mem'.recs \union old'))
      BY <1>1, <1>2, <2>2, <2>4, <3>1 DEF HiInv, LabelsRight
    <3>9. filed' \cap Replies \subseteq due' \union old'
          /\ filed' \cap (sidecar'.pending \union mem'.side.pending) \subseteq old'
      BY <1>1, <2>2, <2>4, <2>5, <3>1 DEF HiInv, LabelsRight
    <3> QED
      BY <1>1, <2>2, <2>4, <3>1, <3>2, <3>5, <3>6, <3>7, <3>8, <3>9 DEF LabelsRight, TopicFor
  <2> QED
    BY <2>3, <2>7, <2>9, <2>10, <2>11 DEF HiInv, InShape
<1> QED
  BY <1>4, <1>5

\* An answer gets the topic of what it answers.
LEMMA JoinKeeps ==
  ASSUME HiInv, Join
  PROVE  HiInv'
<1> DEFINE a == op.m
           q == ReplyTo[a]
           new == [mem EXCEPT !.side = Labelled(@, a, Anchor(a))]
<1>1. StepIs("join") /\ "join" \in OpSteps \ (Loads \union {"throw", "known", "append"})
      /\ UNCHANGED <<send, routed, old, due, gone>>
      /\ filed' = IF q \in filed /\ send[q] = "done" /\ {a, q} \subseteq due THEN filed \union {a} ELSE filed
  BY DEF Join, OpSteps, Loads
<1>2. mem.loaded = TRUE /\ TopicsIn /\ op.job = "deliver" /\ Undone = {}
  BY <1>1, WorkIs DEF HiInv, JobOf, HiTyped, Copy
<1>3. a \in Replies /\ a \in Ids /\ q \in Sent /\ a \notin Sent /\ q # a
  BY <1>2, HistoryAssumption DEF HiInv, JobFits, Ids
<1>4. Anchor(a) \in Topics \union {Default}
  BY <1>3 DEF Anchor, HiInv, HiTyped, Copy, Side, Ids
\* What is filed now has an anchor, and that is the topic of what it answers.
<1>5. ASSUME failed \subseteq {"append"}, filed' # filed
      PROVE  a \in due /\ q \in due /\ q \in filed /\ Anchor(a) = TopicFor(q) /\ TopicFor(q) # Default /\ TopicFor(a) = TopicFor(q)
  <2>1. a \in due /\ q \in due /\ q \in filed
    BY <1>1, <1>5
  <2>2. q \in mem.recs /\ q \notin old
    BY <1>2, <2>1 DEF HiInv, DueSafe
  <2>3. sidecar.labels[q] = TopicFor(q) /\ sidecar = mem.side /\ TopicFor(q) # Default
    BY <1>2, <1>5, <2>1, <2>2 DEF HiInv, LabelsRight, Shown
  <2> QED
    BY <1>3, <2>1, <2>2, <2>3 DEF Anchor, TopicFor
<1>6. CASE Anchor(a) = Default
  <2>1. Quiet /\ MovesOn("join")
    BY <1>1, <1>6, WritesNothing DEF Join
  <2>2. CASE filed' = filed
    BY <1>1, <2>1, <2>2, QuietKeeps DEF MovesOn
  <2>3. CASE filed' # filed
    <3>1. ~(failed \subseteq {"append"})
      BY <1>5, <1>6, <2>3
    <3>2. UNCHANGED <<log, sidecar, mem, failed>> /\ TopicsIn' /\ InShape'
      BY <2>1 DEF Quiet, InShape
    <3>3. HiTyped'
      BY <1>1, <1>3, <2>1 DEF HiInv, HiTyped, Quiet
    <3>4. DueSafe'
      BY <1>1, <1>2, <3>2 DEF HiInv, DueSafe, TopicsIn
    <3>5. GoneMarked'
      BY <1>1, <1>2, <3>2 DEF HiInv, GoneMarked
    <3>6. LabelsRight'
      BY <3>1, <3>2 DEF LabelsRight
    <3> QED
      BY <3>2, <3>3, <3>4, <3>5, <3>6 DEF HiInv, InShape
  <2> QED
    BY <2>2, <2>3
<1>7. CASE Anchor(a) # Default
  <2>1. Writes("side", new)
    BY <1>7 DEF Join
  <2>2. /\ new \in Copy /\ new.loaded = TRUE /\ new.fresh = mem.fresh /\ new.recs = mem.recs
        /\ new.side.deleted = mem.side.deleted /\ new.side.pending = mem.side.pending
        /\ new.side.labels = [mem.side.labels EXCEPT ![a] = Anchor(a)]
    BY <1>2, <1>3, <1>4 DEF HiInv, HiTyped, Copy, Side, Labelled
  <2> HIDE DEF new
  <2>3. /\ InShape' /\ log' \in LogFile /\ sidecar' \in Side /\ op' \in Op
        /\ Written("join", "side", new) \/ Broken("side", new)
    BY <1>1, <2>1, <2>2, Writing
  <2>4. mem' = new /\ log'.recs = log.recs /\ (sidecar' = new.side \/ sidecar' = sidecar) /\ TopicsIn'
        /\ ~StepIs("join")' /\ ~StepIs("unlabel")' /\ (log'.torn => log.torn \/ "side" \in failed')
        /\ failed \subseteq failed' /\ ((failed' = failed /\ sidecar' = new.side) \/ "side" \in failed')
    BY <2>3 DEF Written, Broken, MovesOn, Stops, OpSteps, InShape
  <2>5. HiTyped'
    BY <1>1, <1>3, <2>2, <2>3, <2>4 DEF HiInv, HiTyped
  <2>6. DueSafe'
    <3>1. ~StepIs("heal")
      BY <1>2 DEF TopicsIn
    <3> QED
      BY <1>1, <1>2, <2>2, <2>4, <3>1 DEF HiInv, DueSafe
  <2>7. GoneMarked'
    BY <1>1, <1>2, <2>2, <2>4 DEF HiInv, GoneMarked
  <2>8. LabelsRight'
    <3> SUFFICES ASSUME failed' \subseteq {"append"} PROVE LabelsRight'
      BY DEF LabelsRight
    <3>1. failed' = failed /\ sidecar' = new.side /\ sidecar = mem.side
      BY <1>2, <2>4 DEF HiInv, LabelsRight
    <3>2. /\ \A m \in Ids : m # a => new.side.labels[m] = mem.side.labels[m]
          /\ new.side.labels[a] = Anchor(a)
      BY <1>3, <2>2 DEF HiInv, HiTyped, Copy, Side
    <3>3. a \notin filed \ old
      BY <1>1, <3>1 DEF HiInv, LabelsRight
    <3>4. \A m \in (filed' \cap Shown') \ old' : sidecar'.labels[m] = TopicFor(m)
      <4> SUFFICES ASSUME NEW m \in (filed' \cap Shown') \ old' PROVE new.side.labels[m] = TopicFor(m)
        BY <3>1 DEF TopicFor
      <4>1. CASE m = a
        <5>1. filed' # filed
          BY <1>1, <3>3, <4>1
        <5> QED
          BY <1>5, <3>1, <3>2, <4>1, <5>1
      <4>2. CASE m # a
        <5>1. m \in (filed \cap Shown) \ old /\ m \in Ids
          BY <1>1, <1>2, <2>2, <2>4, <4>2 DEF Shown, HiInv, HiTyped
        <5>2. sidecar.labels[m] = TopicFor(m)
          BY <3>1, <5>1 DEF HiInv, LabelsRight
        <5> QED
          BY <3>1, <3>2, <4>2, <5>1, <5>2
      <4> QED
        BY <4>1, <4>2
    <3>5. \A m \in filed' : TopicFor(m) # Default /\ (send'[m] # "done" =>
             m \in Replies \/ (mem'.loaded /\ m \in mem'.fresh \union mem'.recs \union old'))
      <4> SUFFICES ASSUME NEW m \in filed'
                   PROVE  TopicFor(m) # Default /\ (send[m] # "done" =>
                            m \in Replies \/ m \in mem.fresh \union mem.recs \union old)
        BY <1>1, <2>2, <2>4
      <4>1. CASE m \in filed
        BY <1>2, <3>1, <4>1 DEF HiInv, LabelsRight
      <4>2. CASE m \notin filed
        <5>1. m = a /\ filed' # filed
          BY <1>1, <4>2
        <5> QED
          BY <1>3, <1>5, <3>1, <5>1
      <4> QED
        BY <4>1, <4>2
    <3>6. filed' \cap Replies \subseteq due' \union old'
      BY <1>1, <3>1 DEF HiInv, LabelsRight
    <3>7. filed' \cap (sidecar'.pending \union mem'.side.pending) \subseteq old'
      <4>1. a \in due => a \notin sidecar.pending \union mem.side.pending
        BY DEF HiInv, DueSafe
      <4> QED
        BY <1>1, <2>2, <2>4, <3>1, <4>1 DEF HiInv, LabelsRight
    <3> QED
      BY <2>4, <3>1, <3>4, <3>5, <3>6, <3>7 DEF LabelsRight, TopicFor
  <2> QED
    BY <2>3, <2>5, <2>6, <2>7, <2>8 DEF HiInv, InShape
<1> QED
  BY <1>6, <1>7

\* A removal marks what it will drop in the sidecar first; from there on it is gone and not due.
LEMMA IntendKeeps ==
  ASSUME HiInv, Intend
  PROVE  HiInv'
<1> DEFINE t == op.m
           ids == mem.recs \cap Of(t)
           bare == IF op.job = "delete" THEN Of(t) ELSE ids
           labels == [m \in Ids |-> IF m \in bare THEN Default ELSE mem.side.labels[m]]
           side == [mem.side EXCEPT !.topics = IF op.job = "delete" THEN @ \ {t} ELSE @,
                                    !.labels = labels, !.deleted = @ \union ids, !.pending = ids]
           new == [mem EXCEPT !.side = side]
<1>1. StepIs("intend") /\ "intend" \in OpSteps \ (Loads \union {"throw", "known", "append"})
      /\ UNCHANGED <<send, routed, old>>
  BY DEF Intend, OpSteps, Loads
<1>2. mem.loaded = TRUE /\ TopicsIn /\ op.job \in {"delete", "empty"} /\ Undone = {}
  BY <1>1, WorkIs DEF HiInv, JobOf, HiTyped, Copy
<1>3. t \in Topics \union {Default} /\ (op.job = "delete" => t # Default) /\ t \notin Ids
  BY <1>2, HistoryAssumption DEF HiInv, JobFits, Ids
<1>4. CASE t \notin mem.side.topics \union {Default}
  <2>1. Quiet /\ Stops /\ UNCHANGED <<due, gone, filed>>
    BY <1>1, <1>4, Refusing DEF Intend
  <2> QED
    BY <1>1, <2>1, QuietKeeps DEF Stops, OpSteps, Quiet
<1>5. CASE t \in mem.side.topics \union {Default}
  <2>1. /\ Writes("side", new) /\ due' = due \ ids
        /\ gone' = IF op'.todo = <<"throw">> THEN gone ELSE gone \union ids
        /\ filed' = IF t = Default THEN filed ELSE filed \ Of(t)
    BY <1>5 DEF Intend
  <2>2. ids \subseteq mem.recs /\ ids \subseteq Ids /\ bare \subseteq Of(t) /\ ids \subseteq Of(t)
        /\ Of(t) = {m \in Ids : mem.side.labels[m] = t}
    BY DEF Of, HiInv, HiTyped, Copy
  <2>3. labels \in [Ids -> Topics \union {Default}]
        /\ \A m \in Ids : labels[m] = IF m \in bare THEN Default ELSE mem.side.labels[m]
    BY DEF HiInv, HiTyped, Copy, Side
  <2> HIDE DEF labels, ids, bare
  <2>4. side \in Side /\ side.labels = labels /\ side.pending = ids /\ side.deleted = mem.side.deleted \union ids
    BY <2>2, <2>3 DEF HiInv, HiTyped, Copy, Side
  <2> HIDE DEF side
  <2>5. new \in Copy /\ new.loaded = TRUE /\ new.fresh = mem.fresh /\ new.recs = mem.recs /\ new.side = side
    BY <1>2, <2>4 DEF HiInv, HiTyped, Copy
  <2> HIDE DEF new
  <2>6. /\ InShape' /\ log' \in LogFile /\ sidecar' \in Side /\ op' \in Op
        /\ Written("intend", "side", new) \/ Broken("side", new)
    BY <1>1, <2>1, <2>5, Writing
  <2>7. mem' = new /\ log'.recs = log.recs /\ TopicsIn' /\ failed \subseteq failed'
        /\ ~StepIs("join")' /\ ~StepIs("unlabel")' /\ (log'.torn => log.torn \/ "side" \in failed')
        /\ (\/ failed' = failed /\ sidecar' = side /\ StepIs("drop")'
            \/ "side" \in failed' /\ sidecar' = sidecar /\ gone' = gone)
    <3>1. CASE Written("intend", "side", new)
      BY <2>5, <2>6, <3>1 DEF Written, MovesOn, InShape
    <3>2. CASE Broken("side", new)
      BY <2>1, <2>6, <3>2 DEF Broken, Stops, OpSteps, InShape
    <3> QED
      BY <2>6, <3>1, <3>2
  <2>8. gone' \subseteq gone \union ids /\ gone \subseteq gone' /\ filed' \subseteq filed
    BY <2>1
  <2>9. HiTyped'
    BY <1>1, <2>1, <2>2, <2>5, <2>6, <2>7, <2>8 DEF HiInv, HiTyped
  <2>10. DueSafe'
    <3>1. ~StepIs("heal")
      BY <1>2 DEF TopicsIn
    <3> QED
      BY <1>1, <1>2, <2>1, <2>2, <2>4, <2>5, <2>7, <3>1 DEF HiInv, DueSafe
  <2>11. GoneMarked'
    <3> SUFFICES ASSUME "log" \notin failed' PROVE GoneMarked'
      BY DEF GoneMarked
    <3>1. /\ gone \subseteq sidecar.deleted \union old
          /\ gone \subseteq mem.side.deleted \union old
          /\ log.recs \subseteq mem.recs \union old
          /\ gone \cap mem.recs \subseteq old
          /\ gone \cap log.recs \subseteq old \union sidecar.pending
      BY <1>2, <2>7 DEF HiInv, GoneMarked
    <3>2. CASE sidecar' = side /\ StepIs("drop")'
      <4>1. Undone' = ids
        BY <2>4, <2>5, <2>7, <3>2 DEF Undone, StepIs
      <4> QED
        BY <1>1, <2>4, <2>5, <2>7, <2>8, <3>1, <3>2, <4>1 DEF GoneMarked
    <3>3. CASE sidecar' = sidecar /\ gone' = gone
      BY <1>1, <2>4, <2>5, <2>7, <3>1, <3>3 DEF GoneMarked
    <3> QED
      BY <2>7, <3>2, <3>3
  <2>12. LabelsRight'
    <3> SUFFICES ASSUME failed' \subseteq {"append"} PROVE LabelsRight'
      BY DEF LabelsRight
    <3>1. failed' = failed /\ sidecar' = side /\ sidecar = mem.side
      BY <1>2, <2>7 DEF HiInv, LabelsRight
    <3>2. ASSUME NEW m \in filed', m \notin old, m \in mem.recs \union mem.fresh
          PROVE  m \notin Of(t) /\ m \in Ids /\ sidecar.labels[m] = TopicFor(m)
      <4>1. m \in filed /\ m \in Ids /\ sidecar.labels[m] = TopicFor(m) /\ TopicFor(m) # Default
        BY <1>2, <2>8, <3>1, <3>2 DEF HiInv, HiTyped, LabelsRight, Shown
      <4>2. t # Default => m \notin Of(t)
        BY <2>1, <3>2
      <4> QED
        BY <2>2, <3>1, <4>1, <4>2
    <3>3. \A m \in (filed' \cap Shown') \ old' : sidecar'.labels[m] = TopicFor(m)
      <4> SUFFICES ASSUME NEW m \in (filed' \cap Shown') \ old' PROVE side.labels[m] = TopicFor(m)
        BY <3>1 DEF TopicFor
      <4>1. m \notin Of(t) /\ m \in Ids /\ sidecar.labels[m] = TopicFor(m)
        BY <1>1, <2>5, <2>7, <3>2 DEF Shown
      <4> QED
        BY <2>2, <2>3, <2>4, <3>1, <4>1
    <3>4. \A m \in filed' : TopicFor(m) # Default /\ (send'[m] # "done" =>
             m \in Replies \/ (mem'.loaded /\ m \in mem'.fresh \union mem'.recs \union old'))
      BY <1>1, <1>2, <2>5, <2>7, <2>8, <3>1 DEF HiInv, LabelsRight
    <3>5. filed' \cap ids \subseteq old
      BY <2>2, <3>2
    <3>6. filed' \cap Replies \subseteq due' \union old'
      BY <1>1, <2>1, <2>8, <3>1, <3>5 DEF HiInv, LabelsRight
    <3>7. filed' \cap (sidecar'.pending \union mem'.side.pending) \subseteq old'
      BY <1>1, <2>4, <2>5, <2>7, <3>1, <3>5
    <3> QED
      BY <2>5, <2>7, <3>1, <3>3, <3>4, <3>6, <3>7 DEF LabelsRight, TopicFor
  <2> QED
    BY <2>6, <2>9, <2>10, <2>11, <2>12 DEF HiInv, InShape
<1> QED
  BY <1>4, <1>5

\* Clearing a chat leaves nothing due and nothing filed.
LEMMA EmptyKeeps ==
  ASSUME HiInv, Empty
  PROVE  HiInv'
<1> DEFINE new == [mem EXCEPT !.recs = {}]
<1>1. StepIs("empty") /\ "empty" \in OpSteps \ (Loads \union {"throw", "known", "append"})
      /\ UNCHANGED <<send, routed, old, gone>> /\ due' = {} /\ filed' = {} /\ Writes("log", new)
  BY DEF Empty, OpSteps, Loads
<1>2. mem.loaded = TRUE /\ TopicsIn /\ Undone = {}
  BY <1>1, WorkIs DEF HiInv, HiTyped, Copy
<1>3. new \in Copy /\ new.loaded = TRUE /\ new.fresh = mem.fresh /\ new.recs = {} /\ new.side = mem.side
  BY <1>2 DEF HiInv, HiTyped, Copy
<1> HIDE DEF new
<1>4. /\ InShape' /\ log' \in LogFile /\ sidecar' \in Side /\ op' \in Op
      /\ Written("empty", "log", new) \/ Broken("log", new)
  BY <1>1, <1>3, Writing
<1>5. mem' = new /\ sidecar' = sidecar /\ TopicsIn' /\ failed \subseteq failed' /\ ~StepIs("join")'
      /\ (log'.torn => "log" \in failed')
      /\ (log'.recs = {} \/ "log" \in failed')
  <2>1. CASE Written("empty", "log", new)
    BY <1>3, <1>4, <2>1 DEF Written, MovesOn, InShape
  <2>2. CASE Broken("log", new)
    BY <1>4, <2>2 DEF Broken, Stops, OpSteps, InShape
  <2> QED
    BY <1>4, <2>1, <2>2
<1>6. HiTyped'
  BY <1>1, <1>3, <1>4, <1>5 DEF HiInv, HiTyped
<1>7. DueSafe'
  BY <1>1, <1>3, <1>5 DEF HiInv, DueSafe
<1>8. GoneMarked'
  BY <1>1, <1>2, <1>3, <1>5 DEF HiInv, GoneMarked
<1>9. LabelsRight'
  BY <1>1, <1>2, <1>3, <1>5 DEF HiInv, LabelsRight
<1> QED
  BY <1>4, <1>6, <1>7, <1>8, <1>9 DEF HiInv, InShape

-----------------------------------------------------------------------------
(* The load, the ends of operations, and what comes from outside.            *)

\* A load reads what is not old; until it has the topics, the log is what the chat shows.
LEMMA ReadKeeps ==
  ASSUME HiInv, ReadLog
  PROVE  HiInv'
<1> DEFINE recs == log.recs \ old
           front == IF log.torn \/ log.junk \/ recs # log.recs THEN <<"heal", "topics">> ELSE <<"topics">>
           new == [NotLoaded EXCEPT !.loaded = TRUE, !.recs = recs]
<1>1. /\ StepIs("read") /\ "read" \in OpSteps \ {"throw", "known", "append"} /\ mem' = new /\ Then(front)
      /\ UNCHANGED <<log, sidecar, send, routed, old, due, gone, filed, failed, faults>>
  BY DEF ReadLog, OpSteps
<1>2. ~mem.loaded /\ ~TopicsIn /\ op.job # "none" /\ ~StepIs("heal")
  BY <1>1 DEF HiInv, Shape, TopicsIn, StepIs
<1>3. /\ new \in Copy /\ new.loaded = TRUE /\ new.recs = recs /\ new.fresh = {}
      /\ new.side.pending = {} /\ new.side.deleted = {}
  BY DEF HiInv, HiTyped, LogFile, Copy, Side, NotLoaded, NoTopics, Unlabelled
<1> HIDE DEF new
<1>4. {<<"topics">>, <<"heal", "topics">>} \subseteq Fronts \cap Seq(OpSteps)
  <2>1. ASSUME NEW x \in OpSteps, NEW y \in OpSteps PROVE <<x>> \in Seq(OpSteps) /\ <<x, y>> \in Seq(OpSteps)
    OBVIOUS
  <2>2. "heal" \in OpSteps /\ "topics" \in OpSteps
    BY DEF OpSteps
  <2> QED
    BY <2>1, <2>2 DEF Fronts
<1>5. Continues /\ (StepIs("heal")' \/ StepIs("topics")') /\ (log.torn => StepIs("heal")') /\ AppendLast'
  <2>1. CASE log.torn \/ log.junk \/ recs # log.recs
    <3>1. Then(<<"heal", "topics">>)
      BY <1>1, <2>1
    <3>2. Continues /\ StepIs(Head(<<"heal", "topics">>))'
      BY <1>1, <1>4, <3>1, LoadMovesOn DEF HiInv
    <3>3. AppendLast'
      BY <1>1, <1>4, <3>1, LastStays DEF HiInv
    <3> QED
      BY <3>2, <3>3
  <2>2. CASE ~(log.torn \/ log.junk \/ recs # log.recs)
    <3>1. Then(<<"topics">>)
      BY <1>1, <2>2
    <3>2. Continues /\ StepIs(Head(<<"topics">>))'
      BY <1>1, <1>4, <3>1, LoadMovesOn DEF HiInv
    <3>3. AppendLast'
      BY <1>1, <1>4, <3>1, LastStays DEF HiInv
    <3> QED
      BY <2>2, <3>2, <3>3
  <2> QED
    BY <2>1, <2>2
<1> HIDE DEF front
<1>6. ~StepIs("read")' /\ ~StepIs("join")' /\ ~StepIs("unlabel")' /\ ~TopicsIn'
  BY <1>5 DEF StepIs, TopicsIn
<1>7. Shape' /\ JobFits'
  BY <1>1, <1>2, <1>3, <1>5, <1>6, Reshapes DEF HiInv
<1>9. HiTyped'
  BY <1>1, <1>3, <1>5 DEF HiInv, HiTyped, Continues, Ordered
<1>10. DueSafe'
  BY <1>1, <1>2, <1>3, <1>5, <1>6 DEF HiInv, DueSafe
<1>11. GoneMarked'
  <2>1. Undone' = sidecar.pending
    BY <1>1, <1>5 DEF Undone
  <2> QED
    BY <1>1, <1>3, <1>6, <2>1 DEF HiInv, GoneMarked
<1>12. LabelsRight'
  <2> SUFFICES ASSUME failed \subseteq {"append"} PROVE LabelsRight'
    BY <1>1 DEF LabelsRight
  <2>1. Shown' = Shown
    BY <1>1, <1>2, <1>6 DEF Shown
  <2> QED
    BY <1>1, <1>2, <1>3, <1>6, <2>1 DEF HiInv, LabelsRight, TopicFor
<1> QED
  BY <1>5, <1>7, <1>9, <1>10, <1>11, <1>12 DEF HiInv

\* Healing makes the log what was read; if it fails the chat is shown as it is.
LEMMA HealKeeps ==
  ASSUME HiInv, Heal
  PROVE  HiInv'
<1>1. StepIs("heal") /\ "heal" \in OpSteps \ {"throw", "known", "append"} /\ Writes("log", mem)
      /\ UNCHANGED <<send, routed, old, due, gone, filed>>
  BY DEF Heal, OpSteps
<1>2. mem.loaded = TRUE /\ ~TopicsIn /\ op.job # "none" /\ Undone = sidecar.pending /\ mem' = mem
  BY <1>1 DEF HiInv, HiTyped, Copy, Shape, TopicsIn, StepIs, Undone, Writes
<1>3. CASE Wrote("log", mem) /\ Then(<<>>) /\ failed' = failed
  <2>1. Continues /\ StepIs("topics")'
    BY <1>1, <1>3, HealMovesOn DEF HiInv
  <2>2. ~StepIs("read")' /\ ~StepIs("join")' /\ ~StepIs("unlabel")' /\ ~TopicsIn'
    BY <2>1 DEF StepIs, TopicsIn
  <2>3. Shape' /\ JobFits'
    BY <1>1, <1>2, <2>1, <2>2, Reshapes DEF HiInv
  <2>4. <<>> \in Seq(OpSteps)
    OBVIOUS
  <2>5. AppendLast'
    BY <1>1, <1>3, <2>4, LastStays DEF HiInv
  <2>6. /\ log' = [recs |-> mem.recs, torn |-> FALSE, junk |-> FALSE] /\ sidecar' = sidecar
    BY <1>3 DEF Wrote
  <2>7. log' \in LogFile /\ log'.recs = mem.recs /\ ~log'.torn
    BY <2>6 DEF LogFile, HiInv, HiTyped, Copy
  <2>8. HiTyped'
    BY <1>1, <1>2, <2>1, <2>6, <2>7 DEF HiInv, HiTyped, Continues, Ordered
  <2>9. DueSafe'
    BY <1>1, <1>2, <2>6, <2>7 DEF HiInv, DueSafe
  <2>10. GoneMarked'
    <3>1. Undone' = sidecar.pending
      BY <2>1, <2>6 DEF Undone
    <3> QED
      BY <1>1, <1>2, <1>3, <2>2, <2>6, <2>7, <3>1 DEF HiInv, GoneMarked
  <2>11. LabelsRight'
    <3> SUFFICES ASSUME failed \subseteq {"append"} PROVE LabelsRight'
      BY <1>3 DEF LabelsRight
    <3>1. Shown' \subseteq Shown
      BY <1>2, <2>2, <2>7 DEF HiInv, LabelsRight, Shown
    <3> QED
      BY <1>1, <1>2, <1>3, <2>2, <2>6, <2>7, <3>1 DEF HiInv, LabelsRight, TopicFor
  <2> QED
    BY <2>3, <2>5, <2>8, <2>9, <2>10, <2>11 DEF HiInv
<1>4. CASE UNCHANGED log /\ failed' = failed \union {"log"} /\ Returns(<<"throw">>) /\ sidecar' = sidecar
  <2>1. Stops
    BY <1>4, ReturnStops DEF HiInv
  <2>2. Shape' /\ JobFits'
    BY <1>1, <1>2, <2>1, Reshapes DEF HiInv, Stops, OpSteps
  <2>3. AppendLast'
    BY <1>4, LastReturns DEF HiInv
  <2>4. HiTyped'
    BY <1>1, <1>2, <1>4, <2>1 DEF HiInv, HiTyped, Stops, Continues, Ordered
  <2>5. DueSafe'
    BY <1>1, <1>2, <1>4 DEF HiInv, DueSafe
  <2>6. GoneMarked' /\ LabelsRight'
    BY <1>4 DEF GoneMarked, LabelsRight
  <2> QED
    BY <2>2, <2>3, <2>4, <2>5, <2>6 DEF HiInv
<1> QED
  BY <1>1, <1>3, <1>4 DEF Writes

\* With the topics come the tombstones, and the removal that was interrupted.
LEMMA TopicsKeeps ==
  ASSUME HiInv, LoadTopics
  PROVE  HiInv'
<1> DEFINE front == IF sidecar.pending = {} THEN <<>> ELSE <<"drop", "unpend">>
           new == [mem EXCEPT !.side = sidecar]
<1>1. /\ StepIs("topics") /\ "topics" \in OpSteps \ {"throw", "known", "append"} /\ mem' = new /\ Then(front)
      /\ UNCHANGED <<log, sidecar, send, routed, old, due, gone, filed, failed, faults>>
  BY DEF LoadTopics, OpSteps
<1>2. mem.loaded = TRUE /\ ~TopicsIn /\ op.job # "none" /\ Undone = sidecar.pending
  BY <1>1 DEF HiInv, HiTyped, Copy, Shape, TopicsIn, StepIs, Undone
<1>3. new \in Copy /\ new.loaded = TRUE /\ new.recs = mem.recs /\ new.fresh = mem.fresh /\ new.side = sidecar
  BY <1>2 DEF HiInv, HiTyped, Copy
<1> HIDE DEF new
<1>4. {<<>>, <<"drop", "unpend">>} \subseteq Fronts \cap Seq(OpSteps)
  <2>1. ASSUME NEW x \in OpSteps, NEW y \in OpSteps PROVE <<x, y>> \in Seq(OpSteps) /\ <<>> \in Seq(OpSteps)
    OBVIOUS
  <2>2. "drop" \in OpSteps /\ "unpend" \in OpSteps
    BY DEF OpSteps
  <2> QED
    BY <2>1, <2>2 DEF Fronts
<1>5. /\ Continues /\ AppendLast' /\ \A x \in Loads \union {"unlabel", "join"} : ~StepIs(x)'
      /\ sidecar.pending # {} => StepIs("drop")'
  <2>1. CASE sidecar.pending = {}
    <3>1. Then(<<>>)
      BY <1>1, <2>1
    <3>2. AppendLast'
      BY <1>1, <1>4, <3>1, LastStays DEF HiInv
    <3> QED
      BY <1>1, <1>4, <2>1, <3>1, <3>2, LoadMovesOn DEF HiInv
  <2>2. CASE sidecar.pending # {}
    <3>1. Then(<<"drop", "unpend">>)
      BY <1>1, <2>2
    <3>2. Continues /\ StepIs(Head(<<"drop", "unpend">>))'
      BY <1>1, <1>4, <3>1, LoadMovesOn DEF HiInv
    <3>3. AppendLast'
      BY <1>1, <1>4, <3>1, LastStays DEF HiInv
    <3> QED
      BY <3>2, <3>3 DEF StepIs, Loads
  <2> QED
    BY <2>1, <2>2
<1> HIDE DEF front
<1>6. ~StepIs("read")' /\ ~StepIs("heal")' /\ ~StepIs("topics")' /\ ~StepIs("join")' /\ ~StepIs("unlabel")'
  BY <1>5 DEF Loads
<1>7. Shape' /\ JobFits' /\ TopicsIn'
  BY <1>1, <1>2, <1>3, <1>5, <1>6, Reshapes DEF HiInv, TopicsIn
<1>9. HiTyped'
  BY <1>1, <1>3, <1>5 DEF HiInv, HiTyped, Continues, Ordered
<1>10. DueSafe'
  <2>1. ~StepIs("heal")
    BY <1>1 DEF StepIs
  <2> QED
    BY <1>1, <1>2, <1>3, <2>1 DEF HiInv, DueSafe
<1>11. GoneMarked'
  <2>1. Undone' = sidecar.pending \/ sidecar.pending = {}
    BY <1>1, <1>3, <1>5, <1>6 DEF Undone
  <2> QED
    BY <1>1, <1>2, <1>3, <2>1 DEF HiInv, GoneMarked
<1>12. LabelsRight'
  <2> SUFFICES ASSUME failed \subseteq {"append"} PROVE LabelsRight'
    BY <1>1 DEF LabelsRight
  <2>1. Shown' \subseteq Shown
    BY <1>1, <1>2, <1>3, <1>7 DEF HiInv, LabelsRight, Shown
  <2> QED
    BY <1>1, <1>2, <1>3, <1>6, <1>7, <2>1 DEF HiInv, LabelsRight, TopicFor
<1> QED
  BY <1>5, <1>7, <1>9, <1>10, <1>11, <1>12 DEF HiInv

\* An operation that begins has its work before it, and a load in front if it needs one.
LEMMA BeginKeeps ==
  ASSUME HiInv, NEW job \in Jobs \ {"none"}, NEW m \in Ids \union Topics \union {Default, NoOne}, NEW steps,
         Work(steps, job), steps # <<>>, Head(steps) # "drop",
         job = "append" => steps[Len(steps)] = "append",
         Begin(job, m, steps), (op'.job = job /\ op'.m = m) => JobFits',
         UNCHANGED <<log, sidecar, mem, send, routed, old, due, gone, filed, failed>>
  PROVE  HiInv'
<1> DEFINE todo == IF mem.loaded THEN steps ELSE <<"read">> \o steps
<1>1. op.job = "none" /\ op' = [job |-> job, m |-> m, todo |-> todo] /\ op.todo = <<>> /\ Undone = {}
  BY DEF Begin, HiInv, Shape, Undone, StepIs
<1>2. steps \in Seq(OpSteps) /\ Len(steps) \in Nat /\ Len(steps) >= 1 /\ Head(steps) = steps[1]
  BY FirstIs DEF Work
<1>3. Head(steps) \notin Loads \union {"unlabel", "join", "drop"}
  BY <1>2 DEF Work
<1>4. /\ todo \in Seq(OpSteps) /\ Lines(todo) /\ Pairs(todo) /\ todo # <<>>
      /\ \A i \in 1..Len(todo) : JobOf(todo[i], job)
      /\ IF mem.loaded THEN Head(todo) = Head(steps) ELSE Head(todo) = "read"
      /\ todo[Len(todo)] = steps[Len(steps)]
  <2>1. CASE mem.loaded
    <3>1. Lines(steps)
      BY <1>2 DEF Work, Lines, WorkFrom
    <3> QED
      BY <2>1, <3>1 DEF Work
  <2>2. CASE ~mem.loaded
    <3> DEFINE u == <<"read">> \o steps
    <3>1. <<"read">> \in Fronts /\ <<"read">> # <<>> /\ Head(<<"read">>) = "read" /\ Len(<<"read">>) = 1
          /\ <<"read">> \in Seq(OpSteps)
      BY DEF Fronts, OpSteps
    <3>2. /\ u \in Seq(OpSteps) /\ Lines(u) /\ Pairs(u) /\ u # <<>> /\ Head(u) = "read"
          /\ \A i \in 1..Len(u) : JobOf(u[i], job)
      BY <3>1, Prefixed
    <3>3. Len(u) = 1 + Len(steps)
      BY <1>2, <3>1, ConcatProperties
    <3>4. u[1 + Len(steps)] = steps[Len(steps)]
      <4>1. 1 + Len(steps) \in 1..(1 + Len(steps)) /\ ~(1 + Len(steps) <= 1) /\ (1 + Len(steps)) - 1 = Len(steps)
        BY <1>2
      <4>2. u[1 + Len(steps)] = steps[(1 + Len(steps)) - 1]
        BY <1>2, <3>1, <4>1, ConcatProperties
      <4> QED
        BY <4>1, <4>2
    <3> HIDE DEF u
    <3>5. todo = u
      BY <2>2 DEF u
    <3> HIDE DEF todo
    <3> QED
      BY <2>2, <3>2, <3>3, <3>4, <3>5
  <2> QED
    BY <2>1, <2>2
<1> HIDE DEF todo
<1>5. op' \in Op /\ op'.job = job /\ op'.m = m /\ op'.todo = todo
  BY <1>1, <1>4 DEF Op
<1>6. /\ \A x \in {"heal", "topics", "unlabel", "join", "drop"} : ~StepIs(x) /\ ~StepIs(x)'
      /\ StepIs("read")' <=> ~mem.loaded
  BY <1>1, <1>3, <1>4, <1>5 DEF StepIs, Loads
<1>7. TopicsIn' = TopicsIn /\ Undone' = {}
  BY <1>6 DEF TopicsIn, Undone
<1>8. Shape' /\ JobFits'
  BY <1>4, <1>5, <1>6 DEF Shape
<1>9. AppendLast'
  BY <1>4, <1>5 DEF AppendLast
<1>10. HiTyped'
  BY <1>5 DEF HiInv, HiTyped
<1>11. DueSafe'
  BY <1>6 DEF HiInv, DueSafe
<1>12. GoneMarked'
  BY <1>1, <1>7 DEF HiInv, GoneMarked
<1>13. LabelsRight'
  BY <1>6, <1>7 DEF HiInv, LabelsRight, Shown, TopicFor
<1> QED
  BY <1>8, <1>9, <1>10, <1>11, <1>12, <1>13 DEF HiInv

\* The operations there are, as work.
LEMMA JobsWork ==
  /\ Work(<<"assign">>, "assign") /\ Work(<<"append">>, "append") /\ Work(<<"note">>, "note")
  /\ Work(<<"append", "join">>, "deliver")
  /\ Work(<<"intend", "drop", "unpend">>, "delete") /\ Work(<<"intend", "drop", "unpend">>, "empty")
  /\ Work(<<"empty", "unlabel">>, "clear") /\ Work(<<"age", "sweep">>, "prune")
<1>1. ASSUME NEW x \in OpSteps, NEW y \in OpSteps, NEW z \in OpSteps
      PROVE  <<x>> \in Seq(OpSteps) /\ <<x, y>> \in Seq(OpSteps) /\ <<x, y, z>> \in Seq(OpSteps)
  OBVIOUS
<1>2. {"assign", "append", "note", "join", "intend", "drop", "unpend", "empty", "unlabel", "age", "sweep"}
        \subseteq OpSteps \ Loads
  BY DEF OpSteps, Loads
<1>3. ASSUME NEW x \in {"assign", "append", "note"} PROVE Work(<<x>>, x)
  <2> DEFINE w == <<x>>
  <2>1. w \in Seq(OpSteps) /\ Len(w) = 1 /\ w[1] = x
    BY <1>1, <1>2
  <2> HIDE DEF w
  <2> QED
    BY <1>2, <2>1 DEF Work, Pairs, JobOf, Loads, w
<1>4. ASSUME NEW x \in OpSteps \ Loads, NEW y \in OpSteps \ Loads, NEW job,
             (x = "append" /\ y = "join") \/ (x = "empty" /\ y = "unlabel") \/ (x = "age" /\ y = "sweep"),
             x = "append" => job = "deliver"
      PROVE  Work(<<x, y>>, job)
  <2> DEFINE w == <<x, y>>
  <2>1. w \in Seq(OpSteps) /\ Len(w) = 2 /\ w[1] = x /\ w[2] = y
    BY <1>1
  <2> HIDE DEF w
  <2>3. \A i \in 1..Len(w) : w[i] = x \/ w[i] = y
    BY <2>1
  <2>4. \A i \in 2..Len(w) : i = 2
    BY <2>1
  <2>5. Pairs(w)
    BY <1>4, <2>1, <2>3, <2>4 DEF Pairs
  <2> QED
    BY <1>4, <2>1, <2>3, <2>5 DEF Work, JobOf, w
<1>5. ASSUME NEW job \in {"delete", "empty"} PROVE Work(<<"intend", "drop", "unpend">>, job)
  <2> DEFINE w == <<"intend", "drop", "unpend">>
  <2>1. w \in Seq(OpSteps) /\ Len(w) = 3 /\ w[1] = "intend" /\ w[2] = "drop" /\ w[3] = "unpend"
    BY <1>1, <1>2
  <2> HIDE DEF w
  <2>2. \A i \in 1..Len(w) : i = 1 \/ i = 2 \/ i = 3
    BY <2>1
  <2>3. \A i \in 1..Len(w) : w[i] \notin Loads \union {"unlabel", "join"} /\ JobOf(w[i], job)
    BY <2>1, <2>2 DEF JobOf, Loads
  <2>4. \A i \in 2..Len(w) : i \in 1..Len(w)
    BY <2>1
  <2>5. Pairs(w)
    BY <2>1, <2>2, <2>3, <2>4 DEF Pairs
  <2> QED
    BY <2>1, <2>3, <2>5 DEF Work, w
<1> QED
  BY <1>2, <1>3, <1>4, <1>5

\* A send of the default topic needs no label; another one is labelled first.
LEMMA SendStartsKeeps ==
  ASSUME HiInv, NEW q \in Sent, SendStarts(q)
  PROVE  HiInv'
<1>1. q \in Ids /\ send[q] \in {"new", "failed"}
      /\ UNCHANGED <<log, sidecar, mem, routed, old, due, gone, filed, failed>>
  BY DEF SendStarts, Ids
<1>2. CASE TopicOf[q] = Default
  <2>1. send' = [send EXCEPT ![q] = "assigned"] /\ op' = op
    BY <1>2 DEF SendStarts, Advances
  <2>2. send' \in [Ids -> Sends] /\ send'[q] = "assigned" /\ \A m \in Ids : m # q => send'[m] = send[m]
    BY <1>1, <2>1 DEF HiInv, HiTyped, Sends
  <2>3. HiTyped'
    BY <1>1, <2>1, <2>2 DEF HiInv, HiTyped
  <2>4. JobFits'
    <3>1. op.job \in {"assign", "append", "deliver"} => op.m # q /\ op.m \in Ids
      BY <1>1, <1>2, HistoryAssumption DEF HiInv, JobFits, Ids
    <3> QED
      BY <2>1, <2>2, <3>1 DEF HiInv, JobFits
  <2>5. Shape' /\ AppendLast' /\ DueSafe' /\ GoneMarked'
    BY <1>1, <2>1 DEF HiInv, Shape, AppendLast, DueSafe, GoneMarked, StepIs, TopicsIn, Undone
  <2>6. LabelsRight'
    <3>1. \A m \in Ids : send'[m] # "done" => send[m] # "done"
      BY <1>1, <2>2
    <3> QED
      BY <1>1, <2>1, <3>1 DEF HiInv, HiTyped, LabelsRight, Shown, TopicFor, TopicsIn, StepIs
  <2> QED
    BY <2>3, <2>4, <2>5, <2>6 DEF HiInv
<1>3. CASE TopicOf[q] # Default
  <2>1. Begin("assign", q, <<"assign">>) /\ send' = send
    BY <1>3 DEF SendStarts
  <2>2. op'.job = "assign" /\ op'.m = q => JobFits'
    BY <1>1, <1>3, <2>1 DEF JobFits
  <2> QED
    BY <1>1, <2>1, <2>2, JobsWork, BeginKeeps DEF Jobs
<1> QED
  BY <1>2, <1>3

\* The other operations that begin: a record, a note of a send, an answer, a removal, a
\* clearing and a pruning.
LEMMA BeginsKeep ==
  ASSUME HiInv,
         \/ \E q \in Sent : SendAppends(q) \/ SendNotes(q)
         \/ \E a \in Replies : Deliver(a)
         \/ \E t \in Topics \union {Default} : RemoveTopic(t) \/ ClearTopic(t)
         \/ ClearChat \/ PruneChat
  PROVE  HiInv'
<1>1. ASSUME NEW q \in Sent, SendAppends(q) PROVE HiInv'
  <2>1. q \in Ids /\ send[q] = "routed" /\ Begin("append", q, <<"append">>)
        /\ UNCHANGED <<log, sidecar, mem, send, routed, old, due, gone, filed, failed>>
    BY <1>1 DEF SendAppends, Ids
  <2>2. op'.job = "append" /\ op'.m = q => JobFits'
    BY <2>1 DEF JobFits
  <2>3. <<"append">>[Len(<<"append">>)] = "append"
    OBVIOUS
  <2> QED
    BY <2>1, <2>2, <2>3, JobsWork, BeginKeeps DEF Jobs
<1>2. ASSUME NEW q \in Sent, SendNotes(q) PROVE HiInv'
  <2>1. q \in Ids /\ Begin("note", q, <<"note">>)
        /\ UNCHANGED <<log, sidecar, mem, send, routed, old, due, gone, filed, failed>>
    BY <1>2 DEF SendNotes, Ids
  <2>2. op'.job = "note" /\ op'.m = q => JobFits'
    BY <2>1 DEF JobFits
  <2> QED
    BY <2>1, <2>2, JobsWork, BeginKeeps DEF Jobs
<1>3. ASSUME NEW a \in Replies, Deliver(a) PROVE HiInv'
  <2>1. a \in Ids /\ send[a] \in {"new", "done"} /\ Begin("deliver", a, <<"append", "join">>)
        /\ UNCHANGED <<log, sidecar, mem, send, routed, old, due, gone, filed, failed>>
    BY <1>3 DEF Deliver, Ids
  <2>2. op'.job = "deliver" /\ op'.m = a => JobFits'
    BY <2>1 DEF JobFits
  <2>3. <<"append", "join">> # <<>> /\ Head(<<"append", "join">>) # "drop" /\ "deliver" \in Jobs \ {"none"} /\ "deliver" # "append"
    BY DEF Jobs
  <2>4. Work(<<"append", "join">>, "deliver")
    BY JobsWork
  <2> QED
    BY <2>1, <2>2, <2>3, <2>4, BeginKeeps
<1>4. ASSUME NEW t \in Topics \union {Default}, RemoveTopic(t) PROVE HiInv'
  <2>1. t \in Topics /\ Begin("delete", t, <<"intend", "drop", "unpend">>)
        /\ UNCHANGED <<log, sidecar, mem, send, routed, old, due, gone, filed, failed>>
    BY <1>4 DEF RemoveTopic
  <2>2. op'.job = "delete" /\ op'.m = t => JobFits'
    BY <2>1 DEF JobFits
  <2>3. <<"intend", "drop", "unpend">> # <<>> /\ Head(<<"intend", "drop", "unpend">>) # "drop" /\ "delete" \in Jobs \ {"none"} /\ "delete" # "append"
    BY DEF Jobs
  <2>4. Work(<<"intend", "drop", "unpend">>, "delete")
    BY JobsWork
  <2> QED
    BY <2>1, <2>2, <2>3, <2>4, BeginKeeps
<1>5. ASSUME NEW t \in Topics \union {Default}, ClearTopic(t) PROVE HiInv'
  <2>1. Begin("empty", t, <<"intend", "drop", "unpend">>)
        /\ UNCHANGED <<log, sidecar, mem, send, routed, old, due, gone, filed, failed>>
    BY <1>5 DEF ClearTopic
  <2>2. op'.job = "empty" /\ op'.m = t => JobFits'
    BY <2>1 DEF JobFits
  <2>3. <<"intend", "drop", "unpend">> # <<>> /\ Head(<<"intend", "drop", "unpend">>) # "drop" /\ "empty" \in Jobs \ {"none"} /\ "empty" # "append"
    BY DEF Jobs
  <2>4. Work(<<"intend", "drop", "unpend">>, "empty")
    BY JobsWork
  <2> QED
    BY <2>1, <2>2, <2>3, <2>4, BeginKeeps
<1>6. CASE ClearChat
  <2>1. Begin("clear", NoOne, <<"empty", "unlabel">>)
        /\ UNCHANGED <<log, sidecar, mem, send, routed, old, due, gone, filed, failed>>
    BY <1>6 DEF ClearChat
  <2>2. op'.job = "clear" => JobFits'
    BY DEF JobFits
  <2>3. <<"empty", "unlabel">> # <<>> /\ Head(<<"empty", "unlabel">>) # "drop" /\ "clear" \in Jobs \ {"none"} /\ "clear" # "append"
    BY DEF Jobs
  <2>4. Work(<<"empty", "unlabel">>, "clear")
    BY JobsWork
  <2> QED
    BY <2>1, <2>2, <2>3, <2>4, BeginKeeps
<1>7. CASE PruneChat
  <2>1. Begin("prune", NoOne, <<"age", "sweep">>)
        /\ UNCHANGED <<log, sidecar, mem, send, routed, old, due, gone, filed, failed>>
    BY <1>7 DEF PruneChat
  <2>2. op'.job = "prune" => JobFits'
    BY DEF JobFits
  <2>3. <<"age", "sweep">> # <<>> /\ Head(<<"age", "sweep">>) # "drop" /\ "prune" \in Jobs \ {"none"} /\ "prune" # "append"
    BY DEF Jobs
  <2>4. Work(<<"age", "sweep">>, "prune")
    BY JobsWork
  <2> QED
    BY <2>1, <2>2, <2>3, <2>4, BeginKeeps
<1> QED
  BY <1>1, <1>2, <1>3, <1>4, <1>5, <1>6, <1>7

\* When an append ends its label is kept by its record.
LEMMA OpEndsKeeps ==
  ASSUME HiInv, OpEnds
  PROVE  HiInv'
<1> DEFINE m == op.m
           how == IF op.todo = <<>> THEN "ok" ELSE Head(op.todo)
<1>1. /\ op.job # "none" /\ op' = NoOp
      /\ op.todo \in {<<>>, <<"throw">>} \/ StepIs("known")
      /\ UNCHANGED <<log, sidecar, routed, old, due, gone, filed, failed, faults>>
      /\ send' = IF m \in Ids /\ send[m] # "done" THEN [send EXCEPT ![m] = After(how)] ELSE send
      /\ mem' = IF op.job \in {"append", "deliver"} /\ op.todo = <<>>
                THEN [mem EXCEPT !.fresh = @ \ {m}] ELSE mem
  BY DEF OpEnds
<1>2. op' \in Op /\ op'.job = "none" /\ op'.todo = <<>>
  BY <1>1 DEF NoOp, Op, Jobs
<1>3. /\ mem' \in Copy /\ mem'.loaded = mem.loaded /\ mem'.recs = mem.recs /\ mem'.side = mem.side
      /\ mem'.fresh = mem.fresh \/ (mem'.fresh = mem.fresh \ {m} /\ op.job \in {"append", "deliver"} /\ op.todo = <<>>)
  BY <1>1 DEF HiInv, HiTyped, Copy
<1>4. how \in {"ok", "throw", "known"} /\ (how = "ok" <=> op.todo = <<>>)
  BY <1>1 DEF StepIs
<1>5. send' \in [Ids -> Sends] /\ \A x \in Ids : send[x] = "done" => send'[x] = "done"
  <2>1. After(how) \in Sends
    BY <1>4 DEF After, Sends
  <2> HIDE DEF how, m
  <2> QED
    BY <1>1, <2>1 DEF HiInv, HiTyped, Sends
<1> HIDE DEF how
<1>6. /\ \A x \in {"read", "heal", "topics", "drop", "join", "unlabel"} : ~StepIs(x) /\ ~StepIs(x)'
  BY <1>1, <1>2 DEF StepIs
<1>7. TopicsIn' = TopicsIn /\ Undone' = {} /\ Undone = {}
  BY <1>3, <1>6 DEF TopicsIn, Undone
<1>8. HiTyped'
  BY <1>1, <1>2, <1>3, <1>5 DEF HiInv, HiTyped
<1>9. Shape' /\ JobFits' /\ AppendLast'
  <2>1. Lines(<<>>) /\ Pairs(<<>>) /\ Len(<<>>) = 0
    BY DEF Lines, Pairs
  <2> QED
    BY <1>2, <1>6, <2>1 DEF Shape, JobFits, AppendLast
<1>10. DueSafe'
  BY <1>1, <1>3, <1>6 DEF HiInv, DueSafe
<1>11. GoneMarked'
  BY <1>1, <1>3, <1>7 DEF HiInv, GoneMarked
<1>12. LabelsRight'
  <2> SUFFICES ASSUME failed \subseteq {"append"} PROVE LabelsRight'
    BY <1>1 DEF LabelsRight
  <2>1. Shown' \subseteq Shown
    BY <1>1, <1>3, <1>7 DEF Shown
\* What the send of a message no longer keeps is in its record.
  <2>2. ASSUME NEW x \in filed, send'[x] # "done", x \notin Replies
        PROVE  mem.loaded /\ x \in mem'.fresh \union mem.recs \union old
    <3>1. x \in Ids /\ send[x] # "done" /\ mem.loaded /\ x \in mem.fresh \union mem.recs \union old
      BY <1>5, <2>2 DEF HiInv, HiTyped, LabelsRight
    <3>2. ASSUME mem'.fresh = mem.fresh \ {m}, op.job \in {"append", "deliver"}, op.todo = <<>>, x = m
          PROVE  x \in mem.recs
      <4>1. op.job = "append"
        BY <2>2, <3>2 DEF HiInv, JobFits
      <4> QED
        BY <3>2, <4>1 DEF HiInv, AppendLast
    <3> QED
      BY <1>3, <3>1, <3>2
  <2>3. \A x \in (filed' \cap Shown') \ old' : sidecar'.labels[x] = TopicFor(x)
    BY <1>1, <2>1 DEF HiInv, LabelsRight
  <2>4. mem'.loaded /\ ~TopicsIn' => mem'.recs \subseteq log'.recs /\ mem'.fresh = {}
    BY <1>1, <1>3, <1>7 DEF HiInv, LabelsRight
  <2> QED
    BY <1>1, <1>3, <1>6, <1>7, <2>2, <2>3, <2>4 DEF HiInv, LabelsRight, TopicFor
<1> QED
  BY <1>8, <1>9, <1>10, <1>11, <1>12 DEF HiInv

\* Routing changes no chat.
LEMMA RoutedKeeps ==
  ASSUME HiInv, NEW q \in Sent, Routed(q)
  PROVE  HiInv'
<1>1. /\ q \in Ids /\ send[q] = "assigned" /\ routed' \subseteq Sent
      /\ send' = [send EXCEPT ![q] = "routed"] \/ send' = [send EXCEPT ![q] = "failed"]
      /\ UNCHANGED <<log, sidecar, mem, op, old, due, gone, filed, failed>>
  BY DEF Routed, Advances, Ids, HiInv, HiTyped
<1>2. send' \in [Ids -> Sends] /\ send'[q] # "done" /\ \A m \in Ids : m # q => send'[m] = send[m]
  BY <1>1 DEF HiInv, HiTyped, Sends
<1>3. HiTyped'
  BY <1>1, <1>2 DEF HiInv, HiTyped
<1>4. JobFits'
  <2>1. op.job \in {"assign", "append", "deliver"} => op.m # q /\ op.m \in Ids
    BY <1>1 DEF HiInv, JobFits, Ids
  <2> QED
    BY <1>1, <1>2, <2>1 DEF HiInv, JobFits
<1>5. Shape' /\ AppendLast' /\ DueSafe' /\ GoneMarked'
  BY <1>1 DEF HiInv, Shape, AppendLast, DueSafe, GoneMarked, StepIs, TopicsIn, Undone
<1>6. LabelsRight'
  <2>1. \A m \in Ids : send'[m] # "done" => send[m] # "done"
    BY <1>1, <1>2
  <2> QED
    BY <1>1, <2>1 DEF HiInv, HiTyped, LabelsRight, Shown, TopicFor, TopicsIn, StepIs
<1> QED
  BY <1>3, <1>4, <1>5, <1>6 DEF HiInv

\* What is old is owed to nobody.
LEMMA GrowsOldKeeps ==
  ASSUME HiInv, NEW m \in Ids, GrowsOld(m)
  PROVE  HiInv'
<1>1. /\ old' = old \union {m} /\ due' = due \ {m}
      /\ UNCHANGED <<log, sidecar, mem, op, send, routed, gone, filed, failed>>
  BY DEF GrowsOld
<1>2. HiTyped'
  BY <1>1 DEF HiInv, HiTyped
<1>3. Shape' /\ JobFits' /\ AppendLast'
  BY <1>1 DEF HiInv, Shape, JobFits, AppendLast, StepIs
<1>4. DueSafe'
  BY <1>1 DEF HiInv, DueSafe, StepIs
<1>5. GoneMarked'
  BY <1>1 DEF HiInv, GoneMarked, TopicsIn, Undone, StepIs
<1>6. LabelsRight'
  BY <1>1 DEF HiInv, LabelsRight, TopicsIn, Shown, StepIs, TopicFor
<1> QED
  BY <1>2, <1>3, <1>4, <1>5, <1>6 DEF HiInv

\* A crash forgets the copy and the operation; the files are as the last write left them.
LEMMA CrashKeeps ==
  ASSUME HiInv, HiCrash
  PROVE  HiInv'
<1>1. /\ mem' = NotLoaded /\ op' = NoOp
      /\ log' = log \/ log' = [log EXCEPT !.torn = TRUE]
      /\ send' = [x \in Ids |-> IF send[x] \in {"new", "done"} THEN send[x] ELSE "failed"]
      /\ filed' = {x \in filed : send[x] = "done"}
      /\ UNCHANGED <<sidecar, routed, old, due, gone, failed>>
  BY DEF HiCrash
<1>2. op' \in Op /\ op'.job = "none" /\ op'.todo = <<>>
  BY <1>1 DEF NoOp, Op, Jobs
<1>3. /\ mem' \in Copy /\ mem'.loaded = FALSE /\ mem'.recs = {} /\ mem'.fresh = {} /\ mem'.side.pending = {}
  BY <1>1 DEF NotLoaded, NoTopics, Unlabelled, Copy, Side
<1>4. log' \in LogFile /\ log'.recs = log.recs
  BY <1>1 DEF HiInv, HiTyped, LogFile
<1>5. send' \in [Ids -> Sends] /\ \A x \in Ids : send[x] = "done" => send'[x] = "done"
  BY <1>1 DEF HiInv, HiTyped, Sends
<1>6. HiTyped'
  BY <1>1, <1>2, <1>3, <1>4, <1>5 DEF HiInv, HiTyped
<1>7. \A x \in OpSteps : ~StepIs(x)'
  BY <1>2 DEF StepIs
<1>8. Shape' /\ JobFits' /\ AppendLast'
  <2>1. Lines(<<>>) /\ Pairs(<<>>) /\ Len(<<>>) = 0
    BY DEF Lines, Pairs
  <2> QED
    BY <1>2, <1>7, <2>1 DEF Shape, JobFits, AppendLast, StepIs
<1>9. DueSafe'
  BY <1>1, <1>3, <1>4 DEF HiInv, DueSafe
<1>10. GoneMarked'
  BY <1>1, <1>3, <1>4 DEF HiInv, GoneMarked, TopicsIn
<1>11. LabelsRight'
  <2> SUFFICES ASSUME failed \subseteq {"append"} PROVE LabelsRight'
    BY <1>1 DEF LabelsRight
  <2>1. (filed \cap Shown') \ old \subseteq (filed \cap Shown) \ old
    <3>1. Shown' = log.recs
      BY <1>3, <1>4 DEF Shown, TopicsIn
    <3>2. TopicsIn => log.recs \subseteq mem.recs \union old
      BY DEF HiInv, GoneMarked, TopicsIn
    <3> QED
      BY <3>1, <3>2 DEF Shown
  <2>2. filed' \subseteq filed /\ \A x \in filed' : send'[x] = "done"
    BY <1>1, <1>5 DEF HiInv, HiTyped
  <2>3. ~TopicsIn' /\ ~StepIs("join")' /\ ~StepIs("unlabel")'
    BY <1>2, <1>3 DEF TopicsIn, StepIs
  <2> QED
    BY <1>1, <1>3, <2>1, <2>2, <2>3 DEF HiInv, LabelsRight, TopicFor
<1> QED
  BY <1>6, <1>8, <1>9, <1>10, <1>11 DEF HiInv

-----------------------------------------------------------------------------
\* A new chat keeps the invariant.
LEMMA HiInvInit == HiStart => HiInv
<1> SUFFICES ASSUME HiStart PROVE HiInv
  OBVIOUS
<1>1. op.job = "none" /\ op.todo = <<>> /\ op \in Op
  BY DEF HiStart, HiIdle, NoOp, Op, Jobs
<1>2. mem \in Copy /\ mem.loaded = FALSE /\ mem.recs = {} /\ mem.fresh = {} /\ mem.side.pending = {}
  BY DEF HiStart, HiIdle, NotLoaded, NoTopics, Unlabelled, Copy, Side
<1>3. sidecar \in Side /\ sidecar.pending = {} /\ log \in LogFile /\ log.recs = {} /\ ~log.torn
  BY DEF HiStart, HiIdle, NoTopics, Unlabelled, Side, LogFile
<1>4. HiTyped
  BY <1>1, <1>2, <1>3 DEF HiStart, HiIdle, HiTyped, Sends
<1>5. Shape /\ JobFits /\ AppendLast
  <2>1. Lines(<<>>) /\ Pairs(<<>>) /\ Len(<<>>) = 0
    BY DEF Lines, Pairs
  <2> QED
    BY <1>1, <2>1 DEF Shape, JobFits, AppendLast, StepIs
<1>6. DueSafe /\ GoneMarked /\ LabelsRight
  BY <1>1, <1>2, <1>3 DEF HiStart, HiIdle, DueSafe, GoneMarked, LabelsRight, TopicsIn, StepIs
<1> QED
  BY <1>4, <1>5, <1>6 DEF HiInv

\* Every step keeps the invariant.
LEMMA HiInvStep == HiInv /\ [HiNext]_hiVars => HiInv'
<1> SUFFICES ASSUME HiInv, [HiNext]_hiVars PROVE HiInv'
  OBVIOUS
<1>1. CASE StepNext
  BY <1>1, ReadKeeps, HealKeeps, TopicsKeeps, AssignKeeps, AppendKeeps, JoinKeeps, NoteKeeps, OpEndsKeeps,
     IntendKeeps, DropKeeps, UnpendKeeps, EmptyKeeps, UnlabelKeeps, AgeKeeps, SweepKeeps, Zenon DEF StepNext
<1>2. CASE \E q \in Sent : SendStarts(q) \/ Routed(q) \/ SendAppends(q) \/ SendNotes(q)
  BY <1>2, SendStartsKeeps, RoutedKeeps, BeginsKeep
<1>3. CASE \/ \E a \in Replies : Deliver(a)
           \/ \E t \in Topics \union {Default} : RemoveTopic(t) \/ ClearTopic(t)
           \/ ClearChat \/ PruneChat
  BY <1>3, BeginsKeep
<1>4. CASE \E m \in Ids : GrowsOld(m)
  BY <1>4, GrowsOldKeeps
<1>5. CASE HiCrash
  BY <1>5, CrashKeeps
<1>6. CASE UNCHANGED hiVars
  BY <1>6 DEF hiVars, HiInv, HiTyped, Shape, JobFits, AppendLast, DueSafe, GoneMarked, LabelsRight,
     TopicsIn, Shown, Undone, StepIs, TopicFor
<1> QED
  BY <1>1, <1>2, <1>3, <1>4, <1>5, <1>6 DEF HiNext

\* When no operation is on its way the invariant is the promise.
LEMMA HiInvKeeps == HiInv => HistoryKept
<1> SUFFICES ASSUME HiInv PROVE HistoryKept
  OBVIOUS
<1>1. AtEase => TopicsIn /\ Undone = {}
  BY DEF AtEase, TopicsIn, Undone, HiInv, Shape, StepIs
<1>2. AppendedKept
  BY DEF HiInv, DueSafe, AppendedKept, AtEase
<1>3. RemovedGone
  BY <1>1 DEF HiInv, GoneMarked, RemovedGone, AtEase
<1>4. TopicKept
  BY <1>1 DEF HiInv, LabelsRight, TopicKept, Shown, TopicFor
<1> QED
  BY <1>2, <1>3, <1>4 DEF HistoryKept

\* Nothing that a chat recorded is lost, nothing that was removed returns, and nothing
\* changes its topic (history-store.ts), over any messages and topics and any number of
\* appends, labels, removals, sweeps, failed writes and crashes.
THEOREM HistoryIsKept == HiSpec => []HistoryKept
<1>1. HiSpec => []HiInv
  BY HiInvInit, HiInvStep, PTL DEF HiSpec
<1> QED
  BY <1>1, HiInvKeeps, PTL
===============================================================================
