--------------------------- MODULE RendezvousProofs ---------------------------
(***************************************************************************)
(* What is proved of Rendezvous, for any targets, any cap on the rounds    *)
(* and any number of events: its types, that a sender has one intent per   *)
(* target and one open window, how often the cap is exceeded, and that     *)
(* intents leave for a cause only.  First the lemmas about lists, then the *)
(* inductive invariant, then one lemma per step.  At the end federation    *)
(* and rendezvous side by side, as the run of the links checks them.       *)
(***************************************************************************)
EXTENDS MCLinks, FederationProofs

\* splice(i, 1): the others keep their order.
LEMMA RemoveAtProperties ==
  ASSUME NEW S, NEW s \in Seq(S), NEW k \in 1..Len(s)
  PROVE  /\ RemoveAt(s, k) \in Seq(S)
         /\ Len(RemoveAt(s, k)) = Len(s) - 1
         /\ \A j \in 1..(Len(s) - 1) : RemoveAt(s, k)[j] = IF j < k THEN s[j] ELSE s[j + 1]
<1> DEFINE front == SubSeq(s, 1, k - 1)
           back == SubSeq(s, k + 1, Len(s))
<1>1. /\ front \in Seq(S) /\ Len(front) = k - 1
      /\ \A j \in 1..(k - 1) : front[j] = s[j]
  <2>1. \A j \in 1..(k - 1) : s[j] \in S
    BY ElementOfSeq
  <2>2. /\ SubSeq(s, 1, k - 1) \in Seq(S)
        /\ Len(SubSeq(s, 1, k - 1)) = IF 1 <= k - 1 THEN k - 1 - 1 + 1 ELSE 0
        /\ \A j \in 1..(k - 1 - 1 + 1) : SubSeq(s, 1, k - 1)[j] = s[1 + j - 1]
    BY <2>1, SubSeqProperties
  <2> QED
    BY <2>2
<1>2. /\ back \in Seq(S) /\ Len(back) = Len(s) - k
      /\ \A j \in 1..(Len(s) - k) : back[j] = s[k + j]
  <2>1. \A j \in (k + 1)..Len(s) : s[j] \in S
    BY ElementOfSeq
  <2>2. /\ SubSeq(s, k + 1, Len(s)) \in Seq(S)
        /\ Len(SubSeq(s, k + 1, Len(s))) = IF k + 1 <= Len(s) THEN Len(s) - (k + 1) + 1 ELSE 0
        /\ \A j \in 1..(Len(s) - (k + 1) + 1) : SubSeq(s, k + 1, Len(s))[j] = s[k + 1 + j - 1]
    BY <2>1, SubSeqProperties
  <2> QED
    BY <2>2
<1>3. /\ RemoveAt(s, k) = front \o back
      /\ front \o back \in Seq(S) /\ Len(front \o back) = Len(front) + Len(back)
      /\ \A i \in 1..(Len(front) + Len(back)) : (front \o back)[i] = IF i <= Len(front) THEN front[i] ELSE back[i - Len(front)]
  <2> HIDE DEF front, back
  <2>1. RemoveAt(s, k) = front \o back
    BY DEF RemoveAt, front, back
  <2> QED
    BY <1>1, <1>2, <2>1, ConcatProperties
<1> HIDE DEF front, back
<1>4. ASSUME NEW j \in 1..(Len(s) - 1)
      PROVE  RemoveAt(s, k)[j] = IF j < k THEN s[j] ELSE s[j + 1]
  <2>1. CASE j < k
    BY <1>1, <1>2, <1>3, <2>1
  <2>2. CASE ~(j < k)
    <3>1. j - (k - 1) \in 1..(Len(s) - k) /\ k + (j - (k - 1)) = j + 1
      BY <2>2
    <3>2. j \in 1..(Len(front) + Len(back)) /\ ~(j <= Len(front)) /\ Len(front) = k - 1
      BY <1>1, <1>2, <2>2
    <3>3. RemoveAt(s, k)[j] = back[j - (k - 1)]
      BY <1>3, <3>2
    <3>4. back[j - (k - 1)] = s[k + (j - (k - 1))]
      BY <1>2, <3>1
    <3> QED
      BY <2>2, <3>1, <3>3, <3>4
  <2> QED
    BY <2>1, <2>2
<1> QED
  BY <1>1, <1>2, <1>3, <1>4

\* shift and push: the front goes to the back.
LEMMA FrontToBack ==
  ASSUME NEW S, NEW s \in Seq(S), s # <<>>, NEW e \in S
  PROVE  /\ Append(Tail(s), e) \in Seq(S)
         /\ Len(Append(Tail(s), e)) = Len(s)
         /\ \A j \in 1..Len(s) : Append(Tail(s), e)[j] = IF j < Len(s) THEN s[j + 1] ELSE e
  BY HeadTailProperties, AppendProperties

\* shift.
LEMMA FrontGoes ==
  ASSUME NEW S, NEW s \in Seq(S), s # <<>>
  PROVE  /\ Tail(s) \in Seq(S)
         /\ Len(Tail(s)) = Len(s) - 1
         /\ \A j \in 1..(Len(s) - 1) : Tail(s)[j] = s[j + 1]
  BY HeadTailProperties
-----------------------------------------------------------------------------
(***************************************************************************)
(* The inductive invariant.  A list that n events have worked on has one   *)
(* intent per target, only its front open, and a round beyond the cap for  *)
(* each event at most, a round begun counting before it is over.  The      *)
(* files hold such lists without their phases.                             *)
(***************************************************************************)
GoodList(list, n) ==
  /\ list \in Seq(Intent)
  /\ \A i, j \in 1..Len(list) : list[i].to = list[j].to => i = j
  /\ \A i \in 1..Len(list) : list[i].phase # "waiting" => i = 1
  /\ \A i \in 1..Len(list) :
       /\ list[i].attempts <= MaxAttempts + n
       /\ list[i].phase = "waiting" => list[i].attempts < MaxAttempts + n

GoodFile(file, n) ==
  /\ file \in Seq(Entry)
  /\ \A i, j \in 1..Len(file) : file[i].to = file[j].to => i = j
  /\ \A i \in 1..Len(file) : file[i].attempts <= MaxAttempts + n

Owners == {"tick", "hook"}

GoodFiles ==
  /\ GoodFile(tmp, events) /\ GoodFile(disk, events)
  /\ \A o \in Owners : GoodFile(flush[o].snap, events)

\* What the tick remembers over an await: it began with no window open; while it routes
\* a notice no round is over either, and a round it asks about is that of the front,
\* unless the front is a later one.
TickKnows ==
  /\ tick.at \in {"ask", "route", "mark"} => ~FrontIs(intents, "notified")
  /\ tick.at \in {"route", "mark"} => ~FrontIs(intents, "elapsed")
  /\ tick.at = "ask" /\ FrontIs(intents, "elapsed") =>
       tick.to = intents[1].to /\ tick.attempt = intents[1].attempts - 1

\* A round that took no event to be over is one whose notice was read.
SpentInTime ==
  FrontIs(intents, "elapsed") /\ intents[1].attempts = MaxAttempts + events =>
    unread[intents[1].to] = <<>>

RvInv ==
  /\ RvTypeOK
  /\ GoodList(intents, events)
  /\ GoodFiles
  /\ TickKnows
  /\ SpentInTime

-----------------------------------------------------------------------------
(* What the operations of the store make of a good list. *)

\* More events allow more.
LEMMA GoodLater ==
  ASSUME NEW n \in Nat, NEW m \in Nat, n <= m
  PROVE  /\ \A list : GoodList(list, n) => GoodList(list, m)
         /\ \A file : GoodFile(file, n) => GoodFile(file, m)
<1> SUFFICES ASSUME NEW list
             PROVE  /\ GoodList(list, n) => GoodList(list, m)
                    /\ GoodFile(list, n) => GoodFile(list, m)
  OBVIOUS
<1>1. ASSUME GoodList(list, n) PROVE GoodList(list, m)
  <2>1. ASSUME NEW i \in 1..Len(list)
        PROVE  /\ list[i].attempts <= MaxAttempts + m
               /\ list[i].phase = "waiting" => list[i].attempts < MaxAttempts + m
    <3>1. list[i].attempts \in Int
      <4>1. list \in Seq(Intent)
        BY <1>1 DEF GoodList
      <4>2. list[i] \in Intent
        BY <4>1, ElementOfSeq
      <4> QED
        BY <4>2, MaxAttemptsAssumption, MaxEventsAssumption DEF Intent, Rounds
    <3> QED
      BY <1>1, <3>1, MaxAttemptsAssumption DEF GoodList
  <2> QED
    BY <1>1, <2>1 DEF GoodList
<1>2. ASSUME GoodFile(list, n) PROVE GoodFile(list, m)
  <2>1. ASSUME NEW i \in 1..Len(list)
        PROVE  list[i].attempts <= MaxAttempts + m
    <3>1. list[i].attempts \in Int
      <4>1. list \in Seq(Entry)
        BY <1>2 DEF GoodFile
      <4>2. list[i] \in Entry
        BY <4>1, ElementOfSeq
      <4> QED
        BY <4>2, MaxAttemptsAssumption, MaxEventsAssumption DEF Entry, Rounds
    <3> QED
      BY <1>2, <3>1, MaxAttemptsAssumption DEF GoodFile
  <2> QED
    BY <1>2, <2>1 DEF GoodFile
<1> QED
  BY <1>1, <1>2

\* register, of a target that has no intent.
LEMMA GoodRegistered ==
  ASSUME NEW n \in Nat, NEW t \in Targets, GoodList(intents, n), ~Has(t)
  PROVE  GoodList(Append(intents, [to |-> t, attempts |-> 0, phase |-> "waiting"]), n)
<1> DEFINE e == [to |-> t, attempts |-> 0, phase |-> "waiting"]
           l == Append(intents, e)
<1>1. e \in Intent /\ e.to = t /\ e.attempts = 0 /\ e.phase = "waiting"
  BY MaxAttemptsAssumption, MaxEventsAssumption DEF Intent, Rounds, Phases
<1>2. intents \in Seq(Intent)
  BY DEF GoodList
<1> HIDE DEF e
<1>3. /\ l \in Seq(Intent) /\ Len(l) = Len(intents) + 1
      /\ \A i \in 1..Len(intents) : l[i] = intents[i]
      /\ l[Len(intents) + 1] = e
  BY <1>1, <1>2, AppendProperties
<1>4. \A i \in 1..Len(intents) : intents[i].to # t
  BY <1>2 DEF Has
<1> HIDE DEF l
<1>5. \A i \in 1..Len(l) : l[i] = e \/ (i \in 1..Len(intents) /\ l[i] = intents[i])
  BY <1>2, <1>3
<1>6. \A i, j \in 1..Len(l) : l[i].to = l[j].to => i = j
  BY <1>1, <1>2, <1>3, <1>4 DEF GoodList
<1>7. \A i \in 1..Len(l) : l[i].phase # "waiting" => i = 1
  BY <1>1, <1>5 DEF GoodList
<1>8. \A i \in 1..Len(l) : /\ l[i].attempts <= MaxAttempts + n
                           /\ l[i].phase = "waiting" => l[i].attempts < MaxAttempts + n
  BY <1>1, <1>5, MaxAttemptsAssumption DEF GoodList
<1> QED
  BY <1>3, <1>6, <1>7, <1>8 DEF GoodList, e, l

\* Where the intent of a target is, and what is left without it.
LEMMA WithoutIs ==
  ASSUME NEW t, intents \in Seq(Intent), Has(t)
  PROVE  \E k \in 1..Len(intents) :
           /\ intents[k].to = t
           /\ Without(t) \in Seq(Intent) /\ Len(Without(t)) = Len(intents) - 1
           /\ \A j \in 1..(Len(intents) - 1) :
                Without(t)[j] = IF j < k THEN intents[j] ELSE intents[j + 1]
<1>1. IndexOf(t) \in 1..Len(intents) /\ intents[IndexOf(t)].to = t
  BY DEF Has, IndexOf
<1>2. Without(t) = RemoveAt(intents, IndexOf(t))
  BY DEF Without
<1> QED
  BY <1>1, <1>2, RemoveAtProperties

\* resolve, whether or not the target has an intent.
LEMMA GoodWithout ==
  ASSUME NEW n \in Nat, NEW t, GoodList(intents, n)
  PROVE  GoodList(Without(t), n)
<1>1. CASE ~Has(t)
  BY <1>1 DEF Without
<1>2. CASE Has(t)
  <2>1. intents \in Seq(Intent)
    BY DEF GoodList
  <2>2. PICK k \in 1..Len(intents) :
           /\ intents[k].to = t
           /\ Without(t) \in Seq(Intent) /\ Len(Without(t)) = Len(intents) - 1
           /\ \A j \in 1..(Len(intents) - 1) :
                Without(t)[j] = IF j < k THEN intents[j] ELSE intents[j + 1]
    BY <1>2, <2>1, WithoutIs
  <2> DEFINE l == Without(t)
             From(j) == IF j < k THEN j ELSE j + 1
  <2> HIDE DEF l
  <2>3. \A j \in 1..Len(l) : From(j) \in 1..Len(intents) /\ l[j] = intents[From(j)]
    BY <2>1, <2>2 DEF l
  <2>4. \A i, j \in 1..Len(l) : /\ From(i) = From(j) => i = j
                                /\ From(i) = 1 => i = 1
    BY <2>1, <2>2 DEF l
  <2> HIDE DEF From
  <2>5. ASSUME NEW i \in 1..Len(l), NEW j \in 1..Len(l), l[i].to = l[j].to PROVE i = j
    <3>1. intents[From(i)].to = intents[From(j)].to
      BY <2>3, <2>5
    <3>2. From(i) = From(j)
      BY <2>3, <3>1 DEF GoodList
    <3> QED
      BY <2>4, <3>2
  <2>6. \A i \in 1..Len(l) : l[i].phase # "waiting" => i = 1
    BY <2>3, <2>4 DEF GoodList
  <2>7. \A i \in 1..Len(l) : /\ l[i].attempts <= MaxAttempts + n
                             /\ l[i].phase = "waiting" => l[i].attempts < MaxAttempts + n
    BY <2>3 DEF GoodList
  <2>8. l \in Seq(Intent)
    BY <2>2 DEF l
  <2> QED
    BY <2>5, <2>6, <2>7, <2>8 DEF GoodList, l
<1> QED
  BY <1>1, <1>2

\* The front steps aside: whatever its round was, it waits again.
LEMMA GoodRested ==
  ASSUME NEW n \in Nat, GoodList(intents, n), intents # <<>>,
         intents[1].attempts < MaxAttempts + n
  PROVE  /\ GoodList(Append(Tail(intents), Rested(intents[1])), n)
         /\ Append(Tail(intents), Rested(intents[1]))[1].phase = "waiting"
         /\ \A t : Has(t) => \E k \in 1..Len(intents) :
                               Append(Tail(intents), Rested(intents[1]))[k].to = t
<1> DEFINE e == Rested(intents[1])
           l == Append(Tail(intents), e)
           N == Len(intents)
           From(j) == IF j < N THEN j + 1 ELSE 1
<1>1. intents \in Seq(Intent) /\ N \in Nat \ {0} /\ intents[1] \in Intent
  BY EmptySeq, ElementOfSeq DEF GoodList
<1>2. e \in Intent /\ e.to = intents[1].to /\ e.attempts = intents[1].attempts /\ e.phase = "waiting"
  BY <1>1 DEF Rested, Intent, Phases
<1> HIDE DEF e
<1>3. /\ l \in Seq(Intent) /\ Len(l) = N
      /\ \A j \in 1..N : l[j] = IF j < N THEN intents[j + 1] ELSE e
  BY <1>1, <1>2, FrontToBack
<1> HIDE DEF l
<1>4. \A j \in 1..N : From(j) \in 1..N /\ l[j].to = intents[From(j)].to
                      /\ l[j].attempts = intents[From(j)].attempts
  BY <1>1, <1>2, <1>3
<1>5. \A i, j \in 1..N : From(i) = From(j) => i = j
  BY <1>1
<1>6. \A j \in 1..N : l[j].phase = "waiting"
  <2>1. \A j \in 1..N : j < N => j + 1 \in 1..N /\ j + 1 # 1
    BY <1>1
  <2> QED
    BY <1>1, <1>2, <1>3, <2>1 DEF GoodList
<1>7. \A i \in 1..N : intents[i].attempts < MaxAttempts + n
  <2>1. ASSUME NEW i \in 1..N, i # 1 PROVE intents[i].phase = "waiting"
    BY <2>1 DEF GoodList
  <2> QED
    BY <2>1 DEF GoodList
<1>8. ASSUME NEW t, Has(t) PROVE \E k \in 1..N : l[k].to = t
  <2>1. PICK k \in 1..N : intents[k].to = t
    BY <1>1, <1>8 DEF Has
  <2>2. CASE k = 1
    BY <1>1, <1>2, <1>3, <2>1, <2>2
  <2>3. CASE k # 1
    <3>1. k - 1 \in 1..N /\ k - 1 < N /\ (k - 1) + 1 = k
      BY <1>1, <2>3
    <3> QED
      BY <1>3, <2>1, <3>1
  <2> QED
    BY <2>2, <2>3
<1> HIDE DEF From
<1>9. \A i, j \in 1..N : l[i].to = l[j].to => i = j
  <2> SUFFICES ASSUME NEW i \in 1..N, NEW j \in 1..N, l[i].to = l[j].to
               PROVE  i = j
    OBVIOUS
  <2>1. From(i) \in 1..N /\ From(j) \in 1..N /\ intents[From(i)].to = intents[From(j)].to
    BY <1>4
  <2>2. From(i) = From(j)
    BY <2>1 DEF GoodList
  <2> QED
    BY <1>5, <2>2
<1>10. \A i \in 1..N : l[i].attempts < MaxAttempts + n
  BY <1>4, <1>7
<1>11. \A i \in 1..N : l[i].attempts \in Int
  <2>1. \A i \in 1..N : l[i] \in Intent
    BY <1>3, ElementOfSeq
  <2> QED
    BY <2>1, MaxAttemptsAssumption, MaxEventsAssumption DEF Intent, Rounds
<1>12. GoodList(l, n)
  BY <1>3, <1>6, <1>9, <1>10, <1>11, MaxAttemptsAssumption DEF GoodList
<1>13. l[1].phase = "waiting"
  BY <1>1, <1>6
<1> QED
  BY <1>8, <1>12, <1>13 DEF l, e

\* The front is dropped.
LEMMA GoodDropped ==
  ASSUME NEW n \in Nat, GoodList(intents, n), intents # <<>>
  PROVE  /\ GoodList(Tail(intents), n)
         /\ Tail(intents) # <<>> => Tail(intents)[1].phase = "waiting"
         /\ \A t : Has(t) /\ t # intents[1].to =>
              \E k \in 1..Len(Tail(intents)) : Tail(intents)[k].to = t
<1> DEFINE l == Tail(intents)
           N == Len(intents)
<1>1. intents \in Seq(Intent) /\ N \in Nat \ {0}
  BY EmptySeq DEF GoodList
<1>2. l \in Seq(Intent) /\ Len(l) = N - 1 /\ \A j \in 1..(N - 1) : l[j] = intents[j + 1]
  BY <1>1, FrontGoes
<1> HIDE DEF l
<1>3. \A j \in 1..Len(l) : j + 1 \in 1..N /\ j + 1 # 1 /\ l[j] = intents[j + 1]
  BY <1>1, <1>2
<1>4. \A j \in 1..Len(l) : l[j].phase = "waiting"
  BY <1>3 DEF GoodList
<1>5. \A i, j \in 1..Len(l) : l[i].to = l[j].to => i = j
  <2> SUFFICES ASSUME NEW i \in 1..Len(l), NEW j \in 1..Len(l), l[i].to = l[j].to
               PROVE  i = j
    OBVIOUS
  <2>1. i + 1 = j + 1
    BY <1>3 DEF GoodList
  <2> QED
    BY <2>1
<1>6. \A i \in 1..Len(l) : /\ l[i].attempts <= MaxAttempts + n
                           /\ l[i].phase = "waiting" => l[i].attempts < MaxAttempts + n
  BY <1>3 DEF GoodList
<1>7. ASSUME NEW t, Has(t), t # intents[1].to PROVE \E k \in 1..Len(l) : l[k].to = t
  <2>1. PICK k \in 1..N : intents[k].to = t
    BY <1>1, <1>7 DEF Has
  <2>2. k - 1 \in 1..Len(l) /\ (k - 1) + 1 = k
    BY <1>1, <1>2, <1>7, <2>1
  <2> QED
    BY <1>3, <2>1, <2>2
<1>8. l # <<>> => 1 \in 1..Len(l)
  BY <1>2, EmptySeq
<1> QED
  BY <1>2, <1>4, <1>5, <1>6, <1>7, <1>8 DEF GoodList, l

\* An open round ends: the list stays good, the front of what is left is not an elapsed
\* one, and nothing but a spent front has left.
LEMMA GoodExpired ==
  ASSUME NEW n \in Nat, GoodList(intents, n)
  PROVE  /\ GoodList(Expired(intents), n)
         /\ ~FrontIs(Expired(intents), "elapsed")
         /\ \A t : Has(t) => \/ \E k \in 1..Len(Expired(intents)) : Expired(intents)[k].to = t
                             \/ /\ FrontIs(intents, "elapsed") /\ intents[1].to = t
                                /\ intents[1].attempts >= MaxAttempts
<1>1. intents \in Seq(Intent)
  BY DEF GoodList
<1>2. CASE ~FrontIs(intents, "elapsed")
  BY <1>1, <1>2 DEF Expired, Has
<1>3. CASE FrontIs(intents, "elapsed") /\ intents[1].attempts >= MaxAttempts
  <2>1. Expired(intents) = Tail(intents) /\ intents # <<>>
    BY <1>3 DEF Expired, FrontIs
  <2> QED
    BY <1>3, <2>1, GoodDropped DEF FrontIs
<1>4. CASE FrontIs(intents, "elapsed") /\ ~(intents[1].attempts >= MaxAttempts)
  <2>1. Expired(intents) = Append(Tail(intents), Rested(intents[1])) /\ intents # <<>>
    BY <1>4 DEF Expired, FrontIs
  <2>2. intents[1] \in Intent
    BY <1>1, <2>1, EmptySeq, ElementOfSeq
  <2>3. intents[1].attempts < MaxAttempts + n
    BY <1>4, <2>2, MaxAttemptsAssumption, MaxEventsAssumption DEF Intent, Rounds
  <2>4. Len(Expired(intents)) = Len(intents)
    BY <1>1, <2>1, <2>2, FrontToBack DEF Rested, Intent, Phases
  <2> QED
    BY <2>1, <2>3, <2>4, GoodRested DEF FrontIs
<1> QED
  BY <1>2, <1>3, <1>4

\* The file gets the list without its phases.
LEMMA SnapshotIsGood ==
  ASSUME NEW n \in Nat, NEW list, GoodList(list, n)
  PROVE  GoodFile(Snapshot(list), n)
<1>1. list \in Seq(Intent) /\ Len(list) \in Nat /\ DOMAIN list = 1..Len(list)
  BY DEF GoodList
<1>2. \A k \in 1..Len(list) : list[k] \in Intent
  BY <1>1, ElementOfSeq
<1>3. \A k \in 1..Len(list) : [to |-> list[k].to, attempts |-> list[k].attempts] \in Entry
  BY <1>2 DEF Intent, Entry
<1>4. Snapshot(list) \in [1..Len(list) -> Entry]
  BY <1>1, <1>3 DEF Snapshot
<1>5. Snapshot(list) \in Seq(Entry)
  BY <1>1, <1>4, SeqDef
<1>6. Len(Snapshot(list)) = Len(list)
  BY <1>1, <1>4, <1>5, LenProperties
<1>7. \A k \in 1..Len(list) : /\ Snapshot(list)[k].to = list[k].to
                              /\ Snapshot(list)[k].attempts = list[k].attempts
  BY <1>1 DEF Snapshot
<1>8. \A i, j \in 1..Len(list) : Snapshot(list)[i].to = Snapshot(list)[j].to => i = j
  BY <1>7 DEF GoodList
<1> QED
  BY <1>5, <1>6, <1>7, <1>8 DEF GoodList, GoodFile

FlushTypeOK == flush \in [Owners -> [at : {"idle", "write", "rename", "remove"}, snap : Seq(Entry)]]

\* A write that is begun writes what the list is now.
LEMMA FlushIsGood ==
  ASSUME NEW n \in Nat, NEW o \in Owners, NEW list, NEW changed, GoodList(list, n),
         FlushTypeOK, \A p \in Owners : GoodFile(flush[p].snap, n),
         Flush(o, list, changed)
  PROVE  FlushTypeOK' /\ \A p \in Owners : GoodFile(flush[p].snap, n)'
<1>1. GoodFile(None, n) /\ None \in Seq(Entry) /\ NoFlush.snap = None /\ NoFlush.at = "idle"
  BY DEF GoodFile, None, NoFlush
<1>2. GoodFile(Snapshot(list), n)
  BY SnapshotIsGood
<1>3. PICK f : /\ flush' = [flush EXCEPT ![o] = f]
               /\ f \in {NoFlush, [at |-> "remove", snap |-> None],
                         [at |-> "write", snap |-> Snapshot(list)]}
  BY DEF Flush
<1>4. f \in [at : {"idle", "write", "rename", "remove"}, snap : Seq(Entry)] /\ GoodFile(f.snap, n)
  BY <1>1, <1>2, <1>3 DEF GoodFile, NoFlush
<1>5. FlushTypeOK'
  BY <1>3, <1>4 DEF FlushTypeOK
<1>6. \A p \in Owners : flush'[p] = IF p = o THEN f ELSE flush[p]
  BY <1>3 DEF FlushTypeOK
<1> QED
  BY <1>4, <1>5, <1>6

\* What the parts of the invariant say of the types, and the other way round.
LEMMA TypeParts ==
  RvTypeOK <=>
    /\ intents \in Seq(Intent)
    /\ dirty \in BOOLEAN
    /\ tick \in [at : {"none", "ask", "route", "mark", "flush"},
                 to : Targets \union {None}, attempt : Rounds]
    /\ FlushTypeOK
    /\ tmp \in Seq(Entry) /\ disk \in Seq(Entry)
    /\ unread \in [Targets -> Seq(Rounds)]
    /\ events \in 0..MaxEvents
  BY DEF RvTypeOK, FlushTypeOK, Owners

\* The server starts with nothing kept.
LEMMA InvInit == RvInit => RvInv
<1> SUFFICES ASSUME RvInit PROVE RvInv
  OBVIOUS
<1> USE DEF RvInit
<1>1. NoTick \in [at : {"none", "ask", "route", "mark", "flush"},
                  to : Targets \union {None}, attempt : Rounds]
  BY MaxAttemptsAssumption, MaxEventsAssumption DEF NoTick, Rounds
<1>2. FlushTypeOK /\ \A o \in Owners : flush[o].snap = <<>>
  BY DEF FlushTypeOK, Owners, NoFlush, None
<1>3. events \in 0..MaxEvents /\ events = 0
  BY MaxEventsAssumption
<1>4. RvTypeOK
  <2>1. /\ intents \in Seq(Intent) /\ tmp \in Seq(Entry) /\ disk \in Seq(Entry)
        /\ unread \in [Targets -> Seq(Rounds)]
    BY DEF None
  <2>2. dirty \in BOOLEAN
    OBVIOUS
  <2> QED
    BY <1>1, <1>2, <1>3, <2>1, <2>2 DEF RvTypeOK, FlushTypeOK, Owners
<1>5. GoodList(<<>>, 0) /\ GoodFile(<<>>, 0)
  BY DEF GoodList, GoodFile
<1>6. GoodFiles
  BY <1>2, <1>3, <1>5 DEF GoodFiles, None
<1>7. TickKnows /\ SpentInTime
  BY DEF TickKnows, SpentInTime, FrontIs, NoTick
<1> QED
  BY <1>3, <1>4, <1>5, <1>6, <1>7 DEF RvInv

-----------------------------------------------------------------------------
(* The steps. *)

TickType == [at : {"none", "ask", "route", "mark", "flush"}, to : Targets \union {None}, attempt : Rounds]

\* The front of a list and what the tick remembers of it.
LEMMA AwaitingTyped ==
  ASSUME NEW list, list \in Seq(Intent), list # <<>>, NEW at \in {"ask", "route"}
  PROVE  Awaiting(at, list[1]) \in TickType
<1>1. list[1] \in Intent
  BY EmptySeq, ElementOfSeq
<1> QED
  BY <1>1 DEF Awaiting, TickType, Intent

\* Expiring the front, and then notifying the next one, waiting or only writing.
LEMMA ProceedKeeps ==
  ASSUME RvInv, NEW idle \in BOOLEAN, Proceed(idle), UNCHANGED <<fileVars, unread, events>>
  PROVE  RvInv'
<1> DEFINE list == Expired(intents)
<1> USE DEF fileVars
<1>1. /\ RvTypeOK /\ GoodList(intents, events) /\ GoodFiles /\ events \in Nat
  BY MaxEventsAssumption DEF RvInv, RvTypeOK
<1>2. GoodList(list, events) /\ ~FrontIs(list, "elapsed")
  BY <1>1, GoodExpired
<1>3. intents' = list /\ dirty' = (dirty \/ list # intents) /\ dirty' \in BOOLEAN
  BY <1>1 DEF Proceed, RvTypeOK
<1> HIDE DEF list
<1>4. list \in Seq(Intent) /\ \A i \in 1..Len(list) : list[i] \in Intent
  BY <1>2, ElementOfSeq DEF GoodList
<1>5. GoodList(intents, events)' /\ SpentInTime'
  BY <1>2, <1>3 DEF SpentInTime
<1>6. /\ tick' \in TickType
      /\ tick'.at \in {"route", "mark"} => ~FrontIs(list, "notified")
      /\ tick'.at # "ask"
  <2>1. CASE FrontIs(list, "notified")
    <3>1. tick' = NoTick \/ tick' = [NoTick EXCEPT !.at = "flush"]
      BY <2>1, <1>3 DEF Proceed, FrontIs, list
    <3> QED
      BY <3>1, MaxAttemptsAssumption, MaxEventsAssumption DEF NoTick, TickType, Rounds
  <2>2. CASE FrontIs(list, "waiting")
    <3>1. \/ tick' = Awaiting("route", list[1])
          \/ tick' = [NoTick EXCEPT !.at = "flush"]
      BY <2>2, <1>3 DEF Proceed, FrontIs, list
    <3>2. Awaiting("route", list[1]) \in TickType /\ Awaiting("route", list[1]).at = "route"
      BY <2>2, <1>4, AwaitingTyped DEF FrontIs, Awaiting
    <3> QED
      BY <2>2, <3>1, <3>2, MaxAttemptsAssumption, MaxEventsAssumption
      DEF NoTick, TickType, Rounds, FrontIs
  <2>3. CASE ~FrontIs(list, "notified") /\ ~FrontIs(list, "waiting")
    <3>1. tick' = [NoTick EXCEPT !.at = "flush"]
      BY <2>3 DEF Proceed, list
    <3> QED
      BY <3>1, MaxAttemptsAssumption, MaxEventsAssumption DEF NoTick, TickType, Rounds
  <2> QED
    BY <2>1, <2>2, <2>3
<1>7. TickKnows'
  BY <1>2, <1>3, <1>6 DEF TickKnows, FrontIs
<1>8. FlushTypeOK' /\ \A p \in Owners : GoodFile(flush[p].snap, events)'
  <2>1. FlushTypeOK /\ \A p \in Owners : GoodFile(flush[p].snap, events)
    BY <1>1, TypeParts DEF GoodFiles
  <2>2. UNCHANGED flush \/ Flush("tick", list, dirty')
    BY DEF Proceed, list
  <2>3. CASE UNCHANGED flush
    BY <2>1, <2>3 DEF FlushTypeOK
  <2>4. CASE Flush("tick", list, dirty')
    BY <1>1, <1>2, <2>1, <2>4, FlushIsGood DEF Owners
  <2> QED
    BY <2>2, <2>3, <2>4
<1>9. GoodFiles'
  BY <1>1, <1>8 DEF GoodFiles
<1>10. RvTypeOK'
  BY <1>1, <1>3, <1>4, <1>6, <1>8 DEF RvTypeOK, FlushTypeOK, TickType, Owners
<1> QED
  BY <1>5, <1>7, <1>9, <1>10 DEF RvInv

\* Steps of the files that leave the list, the tick and the peers alone.
LEMMA FileStepKeeps ==
  ASSUME RvInv, NEW o \in Owners,
         WriteTmp(o) \/ Rename(o) \/ RemoveFile(o) \/ WriteFails(o)
  PROVE  RvInv'
<1> USE DEF storeVars, fileVars
<1>1. /\ RvTypeOK /\ GoodList(intents, events) /\ GoodFiles /\ FlushTypeOK
      /\ events \in Nat /\ events \in 0..MaxEvents
  BY MaxEventsAssumption, TypeParts DEF RvInv, RvTypeOK
<1>2. UNCHANGED <<intents, tick, unread>>
  BY DEF WriteTmp, Rename, RemoveFile, WriteFails
<1>3. events' \in 0..MaxEvents /\ events' \in Nat /\ events <= events' /\ dirty' \in BOOLEAN
  <2>1. dirty' \in BOOLEAN
    BY <1>1 DEF WriteTmp, Rename, RemoveFile, WriteFails, RvTypeOK
  <2>2. events' = events \/ (events < MaxEvents /\ events' = events + 1)
    BY DEF WriteTmp, Rename, RemoveFile, WriteFails, RvEvent
  <2> QED
    BY <1>1, <2>1, <2>2, MaxEventsAssumption
<1>4. GoodList(intents, events)'
  BY <1>1, <1>2, <1>3, GoodLater
<1>5. TickKnows'
  BY <1>2 DEF RvInv, TickKnows, FrontIs
<1>6. SpentInTime'
  <2> SUFFICES ASSUME FrontIs(intents, "elapsed"), intents[1].attempts = MaxAttempts + events'
               PROVE  unread[intents[1].to] = <<>>
    BY <1>2 DEF SpentInTime, FrontIs
  <2>1. 1 \in 1..Len(intents)
    BY <1>1, EmptySeq DEF FrontIs, GoodList
  <2>2. intents[1].attempts <= MaxAttempts + events
    BY <1>1, <2>1 DEF GoodList
  <2>3. events' = events
    <3>1. MaxAttempts + events' <= MaxAttempts + events
      BY <2>2
    <3>2. MaxAttempts \in Nat /\ events \in Nat /\ events' \in Nat /\ events <= events'
      BY <1>1, <1>3, MaxAttemptsAssumption
    <3>3. \A m, p, q \in Nat : m + q <= m + p /\ p <= q => q = p
      OBVIOUS
    <3> QED
      BY <3>1, <3>2, <3>3
  <2> QED
    BY <2>3 DEF RvInv, SpentInTime
<1>7. \E f \in [at : {"idle", "write", "rename", "remove"}, snap : Seq(Entry)] :
        flush' = [flush EXCEPT ![o] = f] /\ GoodFile(f.snap, events)
  <2>1. NoFlush \in [at : {"idle", "write", "rename", "remove"}, snap : Seq(Entry)]
        /\ GoodFile(NoFlush.snap, events)
    BY DEF NoFlush, None, GoodFile
  <2>2. CASE WriteTmp(o)
    <3>1. [flush[o] EXCEPT !.at = "rename"] \in
            [at : {"idle", "write", "rename", "remove"}, snap : Seq(Entry)]
          /\ [flush[o] EXCEPT !.at = "rename"].snap = flush[o].snap
      BY <1>1 DEF FlushTypeOK
    <3>2. flush' = [flush EXCEPT ![o] = [flush[o] EXCEPT !.at = "rename"]]
      BY <1>1, <2>2 DEF WriteTmp, FlushTypeOK
    <3> QED
      BY <1>1, <3>1, <3>2 DEF GoodFiles
  <2>3. CASE ~WriteTmp(o)
    <3>1. flush' = [flush EXCEPT ![o] = NoFlush]
      BY <2>3 DEF Rename, RemoveFile, WriteFails
    <3> QED
      BY <2>1, <3>1
  <2> QED
    BY <2>2, <2>3
<1>8. FlushTypeOK' /\ \A p \in Owners : GoodFile(flush'[p].snap, events)
  BY <1>1, <1>7 DEF FlushTypeOK, GoodFiles
<1>9. /\ tmp' \in {tmp, flush[o].snap, None} /\ disk' \in {disk, tmp, None}
  BY DEF WriteTmp, Rename, RemoveFile, WriteFails
<1>10. GoodFile(None, events) /\ GoodFile(flush[o].snap, events)
  BY <1>1 DEF GoodFiles, GoodFile, None
<1>11. GoodFile(tmp', events) /\ GoodFile(disk', events)
  BY <1>1, <1>9, <1>10 DEF GoodFiles
<1>12. GoodFiles'
  BY <1>1, <1>3, <1>8, <1>11, GoodLater DEF GoodFiles
<1>13. RvTypeOK'
  <2>1. tmp' \in Seq(Entry) /\ disk' \in Seq(Entry)
    BY <1>11 DEF GoodFile
  <2> QED
    BY <1>1, <1>2, <1>3, <1>8, <2>1 DEF RvTypeOK, FlushTypeOK, Owners
<1> QED
  BY <1>4, <1>5, <1>6, <1>12, <1>13 DEF RvInv

\* A change of the list after which its front is not an elapsed one: what remains to
\* be shown when it is followed by a write.
LEMMA WrittenKeeps ==
  ASSUME RvInv, NEW o \in Owners, NEW changed,
         UNCHANGED <<tmp, disk>>, unread' \in [Targets -> Seq(Rounds)],
         events' \in 0..MaxEvents, events <= events', dirty' \in BOOLEAN,
         tick' \in TickType, GoodList(intents', events'), TickKnows', SpentInTime',
         Flush(o, intents', changed)
  PROVE  RvInv'
<1>1. /\ RvTypeOK /\ GoodFiles /\ FlushTypeOK /\ events \in Nat /\ events' \in Nat
  BY MaxEventsAssumption, TypeParts DEF RvInv, RvTypeOK
<1>2. /\ GoodFile(tmp, events') /\ GoodFile(disk, events')
      /\ \A p \in Owners : GoodFile(flush[p].snap, events')
  BY <1>1, GoodLater DEF GoodFiles
<1>3. FlushTypeOK' /\ \A p \in Owners : GoodFile(flush'[p].snap, events')
  <2> DEFINE n == events'
             l == intents'
  <2>1. n \in Nat /\ GoodList(l, n) /\ \A p \in Owners : GoodFile(flush[p].snap, n)
    BY <1>1, <1>2
  <2>2. Flush(o, l, changed)
    OBVIOUS
  <2> HIDE DEF n, l
  <2>3. FlushTypeOK' /\ \A p \in Owners : GoodFile(flush'[p].snap, n)
    BY <1>1, <2>1, <2>2, FlushIsGood DEF GoodFile, Entry, Rounds
  <2> QED
    BY <2>3 DEF n
<1>4. GoodFiles'
  BY <1>2, <1>3 DEF GoodFiles
<1>5. RvTypeOK'
  <2>1. intents' \in Seq(Intent)
    BY DEF GoodList
  <2> QED
    BY <1>1, <1>3, <2>1 DEF RvTypeOK, FlushTypeOK, TickType, Owners
<1> QED
  BY <1>4, <1>5 DEF RvInv

\* An event of the environment takes one of those that the bound leaves.
LEMMA OneMoreEvent ==
  ASSUME RvTypeOK, NEW kind, RvEvent(kind)
  PROVE  /\ events \in Nat /\ events' \in Nat /\ events' = events + 1 /\ events <= events'
         /\ events' \in 0..MaxEvents
  BY MaxEventsAssumption DEF RvTypeOK, RvEvent

\* A refused message of the sender registers its target behind the others.
LEMMA RefusedKeeps ==
  ASSUME RvInv, NEW t \in Targets, Refused(t)
  PROVE  RvInv'
<1>1. /\ RvTypeOK /\ GoodList(intents, events) /\ TickKnows /\ SpentInTime
  BY DEF RvInv
<1>2. /\ events \in Nat /\ events' \in Nat /\ events' = events + 1 /\ events <= events'
      /\ events' \in 0..MaxEvents
  BY <1>1, OneMoreEvent DEF Refused
<1>3. /\ UNCHANGED <<tick, tmp, disk, unread>> /\ Flush("hook", intents', dirty')
      /\ dirty' \in BOOLEAN
  BY <1>1 DEF Refused, fileVars, RvTypeOK
<1>4. GoodList(intents', events')
  <2>1. GoodList(intents, events')
    BY <1>1, <1>2, GoodLater
  <2>2. CASE Has(t)
    BY <2>1, <2>2 DEF Refused
  <2>3. CASE ~Has(t)
    <3> DEFINE n == events'
    <3>1. n \in Nat /\ GoodList(intents, n)
      BY <1>2, <2>1
    <3>2. intents' = Append(intents, [to |-> t, attempts |-> 0, phase |-> "waiting"])
      BY <2>3 DEF Refused
    <3> HIDE DEF n
    <3>3. GoodList(Append(intents, [to |-> t, attempts |-> 0, phase |-> "waiting"]), n)
      BY <2>3, <3>1, GoodRegistered
    <3> QED
      BY <3>2, <3>3 DEF n
  <2> QED
    BY <2>2, <2>3
<1>5. \/ intents' # <<>> /\ intents # <<>> /\ intents'[1] = intents[1]
      \/ intents' = intents
      \/ intents' # <<>> /\ intents'[1].phase = "waiting"
  <2> DEFINE e == [to |-> t, attempts |-> 0, phase |-> "waiting"]
  <2>1. e \in Intent /\ e.phase = "waiting"
    BY MaxAttemptsAssumption, MaxEventsAssumption DEF Intent, Rounds, Phases
  <2>2. intents \in Seq(Intent)
    BY <1>1 DEF GoodList
  <2>3. CASE intents' = Append(intents, e)
    <3> HIDE DEF e
    <3>1. /\ intents' \in Seq(Intent) /\ intents' # <<>> /\ Len(intents') = Len(intents) + 1
          /\ \A i \in 1..Len(intents) : intents'[i] = intents[i]
          /\ intents'[Len(intents) + 1] = e
      BY <2>1, <2>2, <2>3, AppendProperties
    <3>2. CASE intents = <<>>
      BY <2>1, <3>1, <3>2
    <3>3. CASE intents # <<>>
      BY <2>2, <3>1, <3>3, EmptySeq
    <3> QED
      BY <3>2, <3>3
  <2>4. intents' = intents \/ intents' = Append(intents, e)
    BY DEF Refused
  <2> QED
    BY <2>3, <2>4
<1>6. TickKnows'
  BY <1>1, <1>3, <1>5 DEF TickKnows, FrontIs
<1>7. SpentInTime'
  <2> SUFFICES ASSUME FrontIs(intents', "elapsed"), intents'[1].attempts = MaxAttempts + events'
               PROVE  FALSE
    BY DEF SpentInTime
  <2>1. intents # <<>> /\ intents'[1] = intents[1]
    BY <1>5 DEF FrontIs
  <2>2. intents \in Seq(Intent) /\ 1 \in 1..Len(intents)
    BY <1>1, <2>1, EmptySeq DEF GoodList
  <2>3. intents[1].attempts <= MaxAttempts + events
    BY <1>1, <2>2 DEF GoodList
  <2>4. MaxAttempts + (events + 1) <= MaxAttempts + events
    BY <1>2, <2>1, <2>3
  <2>5. MaxAttempts \in Nat /\ events \in Nat
    BY <1>2, MaxAttemptsAssumption
  <2> QED
    BY <2>4, <2>5
<1>8. /\ unread' \in [Targets -> Seq(Rounds)]
      /\ tick' \in TickType
  BY <1>1, <1>3 DEF RvTypeOK, TickType
<1> QED
  BY <1>2, <1>3, <1>4, <1>6, <1>7, <1>8, WrittenKeeps DEF Owners

\* When an intent has left, the front is the old one or has waited behind it.
LEMMA FrontWithout ==
  ASSUME NEW t, NEW n \in Nat, GoodList(intents, n), Without(t) # <<>>,
         Without(t)[1].phase # "waiting"
  PROVE  intents # <<>> /\ Without(t)[1] = intents[1]
<1>1. intents \in Seq(Intent)
  BY DEF GoodList
<1>2. CASE ~Has(t)
  BY <1>2 DEF Without
<1>3. CASE Has(t)
  <2>1. PICK k \in 1..Len(intents) :
          /\ intents[k].to = t
          /\ Without(t) \in Seq(Intent) /\ Len(Without(t)) = Len(intents) - 1
          /\ \A j \in 1..(Len(intents) - 1) :
               Without(t)[j] = IF j < k THEN intents[j] ELSE intents[j + 1]
    BY <1>1, <1>3, WithoutIs
  <2>2. 1 \in 1..(Len(intents) - 1)
    BY <1>1, <2>1, EmptySeq
  <2>3. 1 + 1 \in 1..Len(intents) /\ 1 + 1 # 1 /\ intents # <<>>
    BY <1>1, <2>2, EmptySeq
  <2>4. intents[1 + 1].phase = "waiting"
    BY <2>3 DEF GoodList
  <2> QED
    BY <2>1, <2>2, <2>3, <2>4
<1> QED
  BY <1>2, <1>3

\* An intent leaves, by an answer or by a refused notice.
LEMMA LeavingKeeps ==
  ASSUME RvInv, NEW t, NEW o \in Owners, NEW kind, RvEvent(kind), intents' = Without(t),
         dirty' \in BOOLEAN, UNCHANGED <<tmp, disk, unread>>,
         tick' \in TickType, tick'.at = tick.at \/ tick'.at = "flush",
         tick'.to = tick.to /\ tick'.attempt = tick.attempt,
         Flush(o, intents', dirty')
  PROVE  RvInv'
<1>1. /\ RvTypeOK /\ GoodList(intents, events) /\ TickKnows /\ SpentInTime
  BY DEF RvInv
<1>2. /\ events \in Nat /\ events' \in Nat /\ events' = events + 1 /\ events <= events'
      /\ events' \in 0..MaxEvents
  BY <1>1, OneMoreEvent
<1>3. GoodList(intents', events') /\ GoodList(intents', events)
  <2>1. GoodList(Without(t), events)
    BY <1>1, <1>2, GoodWithout
  <2> QED
    BY <1>2, <2>1, GoodLater
<1>4. intents' # <<>> /\ intents'[1].phase # "waiting" =>
        intents # <<>> /\ intents'[1] = intents[1]
  BY <1>1, <1>2, FrontWithout
<1>5. TickKnows'
  BY <1>1, <1>4 DEF TickKnows, FrontIs
<1>6. SpentInTime'
  <2> SUFFICES ASSUME FrontIs(intents', "elapsed"), intents'[1].attempts = MaxAttempts + events'
               PROVE  FALSE
    BY DEF SpentInTime
  <2>1. intents' \in Seq(Intent) /\ 1 \in 1..Len(intents')
    BY <1>3, EmptySeq DEF GoodList, FrontIs
  <2>2. intents'[1].attempts <= MaxAttempts + events
    BY <1>3, <2>1 DEF GoodList
  <2>3. MaxAttempts + (events + 1) <= MaxAttempts + events
    BY <1>2, <2>2
  <2>4. MaxAttempts \in Nat /\ events \in Nat
    BY <1>2, MaxAttemptsAssumption
  <2> QED
    BY <2>3, <2>4
<1>7. /\ unread' \in [Targets -> Seq(Rounds)]
     
  BY <1>1 DEF RvTypeOK
<1> QED
  BY <1>2, <1>3, <1>5, <1>6, <1>7, WrittenKeeps

\* The target writes back, at whatever point the tick is.
LEMMA TargetAnsweredKeeps ==
  ASSUME RvInv, NEW t, TargetAnswered(t)
  PROVE  RvInv'
<1>1. tick \in TickType
  BY DEF RvInv, RvTypeOK, TickType
<1>2. RvEvent("answer") /\ intents' = Without(t) /\ dirty' = TRUE /\ Flush("hook", intents', dirty')
      /\ UNCHANGED <<tick, tmp, disk, unread>>
  BY DEF TargetAnswered, fileVars
<1> QED
  BY <1>1, <1>2, LeavingKeeps DEF Owners

\* The router refuses the notice that the tick was about to deliver.
LEMMA NoticeRefusedKeeps ==
  ASSUME RvInv, NoticeRefused
  PROVE  RvInv'
<1>1. tick \in TickType /\ dirty \in BOOLEAN
  BY DEF RvInv, RvTypeOK, TickType
<1>2. RvEvent("pause") /\ intents' = Without(tick.to) /\ dirty' \in BOOLEAN
      /\ tick' = [tick EXCEPT !.at = "flush"]
      /\ Flush("tick", intents', dirty') /\ UNCHANGED <<tmp, disk, unread>>
  BY <1>1 DEF NoticeRefused, fileVars
<1>3. tick' \in TickType /\ tick'.at = "flush" /\ tick'.to = tick.to /\ tick'.attempt = tick.attempt
  BY <1>1, <1>2 DEF TickType
<1> QED
  BY <1>2, <1>3, LeavingKeeps DEF Owners

\* The tick asks about the round that is over, or goes on at once.
LEMMA TickBeginsKeeps ==
  ASSUME RvInv, NEW idle \in BOOLEAN, TickBegins(idle)
  PROVE  RvInv'
<1>1. /\ RvTypeOK /\ GoodList(intents, events) /\ GoodFiles /\ SpentInTime
  BY DEF RvInv
<1>2. UNCHANGED <<tmp, disk, unread, events>> /\ intents # <<>>
  BY DEF TickBegins, fileVars
<1>3. CASE ~MustAsk
  BY <1>3, ProceedKeeps DEF TickBegins
<1>4. CASE MustAsk
  <2> DEFINE e == [intents[1] EXCEPT !.attempts = @ - 1]
  <2>1. UNCHANGED <<intents, dirty, flush>> /\ tick' = Awaiting("ask", e)
    BY <1>4 DEF TickBegins, storeVars
  <2>2. intents[1] \in Intent
    BY <1>1, <1>2, EmptySeq, ElementOfSeq DEF GoodList
  <2>3. intents[1].attempts - 1 \in Rounds
    BY <1>4, <2>2, MaxAttemptsAssumption, MaxEventsAssumption DEF MustAsk, Intent, Rounds
  <2>4. /\ tick' \in TickType /\ tick'.at = "ask"
        /\ tick'.to = intents[1].to /\ tick'.attempt = intents[1].attempts - 1
    BY <2>1, <2>2, <2>3 DEF Awaiting, TickType, Intent
  <2>5. TickKnows'
    BY <1>4, <2>1, <2>4 DEF TickKnows, FrontIs, MustAsk
  <2>6. RvTypeOK'
    BY <1>1, <1>2, <2>1, <2>4 DEF RvTypeOK, TickType
  <2>7. GoodFiles' /\ SpentInTime' /\ GoodList(intents, events)'
    BY <1>1, <1>2, <2>1 DEF GoodFiles, SpentInTime, FrontIs
  <2> QED
    BY <2>5, <2>6, <2>7 DEF RvInv
<1> QED
  BY <1>3, <1>4

\* The front steps aside while its notice waits: a round that is spent to the last event
\* was read in time, so what steps aside has a round left.
LEMMA StepAsideKeeps ==
  ASSUME RvInv, StepAside
  PROVE  RvInv'
<1>1. /\ RvTypeOK /\ GoodList(intents, events) /\ TickKnows /\ SpentInTime
      /\ events \in Nat /\ events' = events /\ events \in 0..MaxEvents
  BY MaxEventsAssumption DEF RvInv, RvTypeOK, StepAside
<1>2. /\ UNCHANGED <<tmp, disk, unread>> /\ intents' = Rotated
      /\ tick.at = "ask" /\ tick' = [tick EXCEPT !.at = "flush"]
      /\ Flush("tick", intents', dirty') /\ dirty' \in BOOLEAN
  BY <1>1 DEF StepAside, fileVars, RvTypeOK
<1>3. tick' \in TickType /\ tick'.at = "flush"
  BY <1>1, <1>2 DEF RvTypeOK, TickType
<1>4. GoodList(intents', events) /\ ~FrontIs(intents', "elapsed")
  <2>1. CASE intents = <<>>
    BY <1>1, <1>2, <2>1 DEF Rotated, FrontIs
  <2>2. CASE intents # <<>>
    <3>1. intents[1] \in Intent /\ 1 \in 1..Len(intents)
      BY <1>1, <2>2, EmptySeq, ElementOfSeq DEF GoodList
    <3>2. intents[1].attempts < MaxAttempts + events
      <4>1. CASE FrontIs(intents, "waiting")
        BY <1>1, <3>1, <4>1 DEF GoodList, FrontIs
      <4>2. CASE FrontIs(intents, "elapsed")
        <5>1. tick.to = intents[1].to
          BY <1>1, <1>2, <4>2 DEF TickKnows
        <5>2. unread[tick.to] # <<>>
          BY DEF StepAside, Unread
        <5>3. intents[1].attempts # MaxAttempts + events
          BY <1>1, <4>2, <5>1, <5>2 DEF SpentInTime
        <5>4. intents[1].attempts <= MaxAttempts + events
          BY <1>1, <3>1 DEF GoodList
        <5>5. intents[1].attempts \in Int /\ MaxAttempts \in Int
          BY <3>1, MaxAttemptsAssumption, MaxEventsAssumption DEF Intent, Rounds
        <5> QED
          BY <1>1, <5>3, <5>4, <5>5
      <4>3. FrontIs(intents, "waiting") \/ FrontIs(intents, "elapsed")
        BY <1>1, <1>2, <2>2, <3>1 DEF TickKnows, FrontIs, Intent, Phases
      <4> QED
        BY <4>1, <4>2, <4>3
    <3>3. intents' = Append(Tail(intents), Rested(intents[1]))
      BY <1>2, <2>2 DEF Rotated
    <3> QED
      BY <1>1, <2>2, <3>2, <3>3, GoodRested DEF FrontIs
  <2> QED
    BY <2>1, <2>2
<1>5. TickKnows' /\ SpentInTime'
  BY <1>3, <1>4 DEF TickKnows, SpentInTime
<1>6. /\ unread' \in [Targets -> Seq(Rounds)]
      /\ events' \in 0..MaxEvents /\ events <= events'
  BY <1>1, <1>2 DEF RvTypeOK
<1>7. GoodList(intents', events')
  BY <1>1, <1>4
<1> QED
  BY <1>2, <1>3, <1>5, <1>6, <1>7, WrittenKeeps DEF Owners

\* The notice lands while no round is open or over.
LEMMA NoticeLandsKeeps ==
  ASSUME RvInv, NoticeLands
  PROVE  RvInv'
<1>1. /\ RvTypeOK /\ GoodList(intents, events) /\ GoodFiles /\ TickKnows /\ SpentInTime
  BY DEF RvInv
<1>2. /\ UNCHANGED <<intents, dirty, flush, tmp, disk, events>>
      /\ tick.at = "route" /\ tick' = [tick EXCEPT !.at = "mark"]
      /\ unread' = [unread EXCEPT ![tick.to] = Append(@, tick.attempt)]
  BY DEF NoticeLands, storeVars, fileVars
<1>3. tick' \in TickType /\ tick'.at = "mark" /\ tick.attempt \in Rounds
  BY <1>1, <1>2 DEF RvTypeOK, TickType
<1>4. unread' \in [Targets -> Seq(Rounds)]
  BY <1>1, <1>2, <1>3, AppendProperties DEF RvTypeOK
<1>5. TickKnows' /\ SpentInTime'
  BY <1>1, <1>2, <1>3 DEF TickKnows, SpentInTime, FrontIs
<1>6. GoodFiles' /\ GoodList(intents, events)'
  BY <1>1, <1>2 DEF GoodFiles
<1>7. RvTypeOK'
  BY <1>1, <1>2, <1>3, <1>4 DEF RvTypeOK, TickType
<1> QED
  BY <1>5, <1>6, <1>7 DEF RvInv

\* A round begins for the front there is by now.
LEMMA MarkNotifiedKeeps ==
  ASSUME RvInv, MarkNotified
  PROVE  RvInv'
<1>1. /\ RvTypeOK /\ GoodList(intents, events) /\ TickKnows
      /\ events \in Nat /\ events' = events /\ events \in 0..MaxEvents
  BY MaxEventsAssumption DEF RvInv, RvTypeOK, MarkNotified
<1>2. /\ UNCHANGED <<tmp, disk, unread>>
      /\ tick.at = "mark" /\ tick' = [tick EXCEPT !.at = "flush"]
      /\ Flush("tick", intents', dirty') /\ dirty' \in BOOLEAN
  BY <1>1 DEF MarkNotified, fileVars, storeVars, RvTypeOK
<1>3. tick' \in TickType /\ tick'.at = "flush"
  BY <1>1, <1>2 DEF RvTypeOK, TickType
<1>4. GoodList(intents', events) /\ ~FrontIs(intents', "elapsed")
  <2>1. CASE ~FrontIs(intents, "waiting")
    BY <1>1, <1>2, <2>1 DEF MarkNotified, TickKnows, FrontIs, storeVars
  <2>2. CASE FrontIs(intents, "waiting")
    <3> DEFINE e == [to |-> intents[1].to, attempts |-> intents[1].attempts + 1, phase |-> "notified"]
    <3>1. intents \in Seq(Intent) /\ intents[1] \in Intent /\ 1 \in 1..Len(intents) /\ Len(intents) \in Nat
      BY <1>1, <2>2, EmptySeq, ElementOfSeq DEF GoodList, FrontIs
    <3>2. intents[1].attempts < MaxAttempts + events /\ intents[1].attempts \in Nat
      BY <1>1, <2>2, <3>1, MaxAttemptsAssumption, MaxEventsAssumption DEF GoodList, FrontIs, Intent, Rounds
    <3>3. intents[1].attempts + 1 \in Rounds /\ intents[1].attempts + 1 <= MaxAttempts + events
      BY <1>1, <3>2, MaxAttemptsAssumption, MaxEventsAssumption DEF Rounds
    <3>4. e \in Intent
      BY <3>1, <3>3 DEF Intent, Phases
    <3>5. intents' = [intents EXCEPT ![1] = e]
      BY <2>2, <3>1 DEF MarkNotified, Intent
    <3>6. e.to = intents[1].to /\ e.attempts <= MaxAttempts + events /\ e.phase = "notified"
      BY <3>3
    <3> HIDE DEF e
    <3>7. /\ intents' \in Seq(Intent) /\ Len(intents') = Len(intents)
          /\ \A j \in 1..Len(intents) : intents'[j] = IF j = 1 THEN e ELSE intents[j]
      BY <3>1, <3>4, <3>5, ExceptSeq
    <3>8. GoodList(intents, events)
      BY <1>1
    <3>9. \A i, j \in 1..Len(intents) : intents'[i].to = intents'[j].to => i = j
      BY <3>6, <3>7, <3>8 DEF GoodList
    <3>10. \A i \in 1..Len(intents) :
             /\ intents'[i].phase # "waiting" => i = 1
             /\ intents'[i].attempts <= MaxAttempts + events
             /\ intents'[i].phase = "waiting" => intents'[i].attempts < MaxAttempts + events
      BY <3>6, <3>7, <3>8 DEF GoodList
    <3>11. GoodList(intents', events)
      BY <3>7, <3>9, <3>10 DEF GoodList
    <3> QED
      BY <3>1, <3>6, <3>7, <3>11 DEF FrontIs
  <2> QED
    BY <2>1, <2>2
<1>5. TickKnows' /\ SpentInTime'
  BY <1>3, <1>4 DEF TickKnows, SpentInTime
<1>6. /\ unread' \in [Targets -> Seq(Rounds)]
      /\ events' \in 0..MaxEvents /\ events <= events'
  BY <1>1, <1>2 DEF RvTypeOK
<1>7. GoodList(intents', events')
  BY <1>1, <1>4
<1> QED
  BY <1>2, <1>3, <1>5, <1>6, <1>7, WrittenKeeps DEF Owners

\* A window elapses: with its notice unread that is an event, which allows a round more.
LEMMA ElapseKeeps ==
  ASSUME RvInv, Elapse
  PROVE  RvInv'
<1>1. /\ RvTypeOK /\ GoodList(intents, events) /\ GoodFiles /\ TickKnows /\ events \in Nat
  BY MaxEventsAssumption DEF RvInv, RvTypeOK
<1>2. /\ UNCHANGED <<dirty, tick, flush, tmp, disk, unread>>
      /\ FrontIs(intents, "notified") /\ intents' = [intents EXCEPT ![1].phase = "elapsed"]
  BY DEF Elapse, fileVars
<1>3. /\ events' \in 0..MaxEvents /\ events' \in Nat /\ events <= events'
      /\ (events' = events \/ events' = events + 1)
      /\ events' = events => unread[intents[1].to] = <<>>
  <2>1. CASE unread[intents[1].to] = <<>>
    BY <1>1, <2>1 DEF Elapse, RvTypeOK
  <2>2. CASE unread[intents[1].to] # <<>>
    BY <1>1, <2>2, OneMoreEvent DEF Elapse
  <2> QED
    BY <2>1, <2>2
<1> DEFINE e == [intents[1] EXCEPT !.phase = "elapsed"]
<1>4. intents \in Seq(Intent) /\ intents[1] \in Intent /\ 1 \in 1..Len(intents) /\ Len(intents) \in Nat
  BY <1>1, <1>2, EmptySeq, ElementOfSeq DEF GoodList, FrontIs
<1>5. /\ e \in Intent /\ e.to = intents[1].to /\ e.attempts = intents[1].attempts
      /\ e.phase = "elapsed" /\ intents' = [intents EXCEPT ![1] = e]
  BY <1>2, <1>4 DEF Intent, Phases
<1> HIDE DEF e
<1>6. /\ intents' \in Seq(Intent) /\ Len(intents') = Len(intents)
      /\ \A j \in 1..Len(intents) : intents'[j] = IF j = 1 THEN e ELSE intents[j]
  BY <1>4, <1>5, ExceptSeq
<1>7. GoodList(intents', events)
  BY <1>1, <1>5, <1>6 DEF GoodList
<1>8. GoodList(intents', events')
  BY <1>1, <1>3, <1>7, GoodLater
<1>9. SpentInTime'
  <2>1. intents'[1].to = intents[1].to /\ intents'[1].attempts <= MaxAttempts + events
    BY <1>4, <1>6, <1>5, <1>7 DEF GoodList
  <2>2. intents'[1].attempts = MaxAttempts + events' => events' = events
    <3>1. MaxAttempts \in Nat
      BY MaxAttemptsAssumption
    <3>2. \A m, p, q \in Nat : m + q <= m + p /\ p <= q => q = p
      OBVIOUS
    <3> QED
      BY <1>1, <1>3, <2>1, <3>1, <3>2
  <2> QED
    BY <1>2, <1>3, <2>1, <2>2 DEF SpentInTime
<1>10. TickKnows'
  BY <1>1, <1>2 DEF TickKnows
<1>11. GoodFiles'
  BY <1>1, <1>2, <1>3, GoodLater DEF GoodFiles
<1>12. RvTypeOK'
  BY <1>1, <1>2, <1>3, <1>6 DEF RvTypeOK
<1> QED
  BY <1>8, <1>9, <1>10, <1>11, <1>12 DEF RvInv

\* The target works off a notice.
LEMMA TakeKeeps ==
  ASSUME RvInv, NEW t \in Targets, Take(t)
  PROVE  RvInv'
<1>1. /\ RvTypeOK /\ GoodList(intents, events) /\ GoodFiles /\ TickKnows /\ SpentInTime
  BY DEF RvInv
<1>2. /\ UNCHANGED <<intents, dirty, tick, flush, tmp, disk, events>> /\ unread[t] # <<>>
      /\ unread' = [unread EXCEPT ![t] = Tail(@)]
  BY DEF Take, storeVars, fileVars
<1>3. Head(unread[t]) \in Rounds /\ Tail(unread[t]) \in Seq(Rounds)
  BY <1>1, <1>2, HeadTailProperties DEF RvTypeOK
<1>4. unread' \in [Targets -> Seq(Rounds)]
  BY <1>1, <1>2, <1>3 DEF RvTypeOK, Take
<1>5. \A u \in Targets : unread[u] = <<>> => unread'[u] = <<>>
  BY <1>1, <1>2 DEF RvTypeOK
<1>6. SpentInTime'
  <2>1. FrontIs(intents, "elapsed") => intents[1].to \in Targets
    <3>1. FrontIs(intents, "elapsed") => 1 \in 1..Len(intents)
      BY <1>1, EmptySeq DEF GoodList, FrontIs
    <3>2. FrontIs(intents, "elapsed") => intents[1] \in Intent
      BY <1>1, <3>1, ElementOfSeq DEF GoodList
    <3> QED
      BY <3>2 DEF Intent
  <2> QED
    BY <1>1, <1>2, <1>5, <2>1 DEF SpentInTime, FrontIs
<1>7. TickKnows' /\ GoodFiles' /\ GoodList(intents, events)'
  BY <1>1, <1>2 DEF TickKnows, GoodFiles, FrontIs
<1>8. RvTypeOK'
  BY <1>1, <1>2, <1>4 DEF RvTypeOK
<1> QED
  BY <1>6, <1>7, <1>8 DEF RvInv

\* What is read back had its rounds allowed by fewer events.
LEMMA CrashKeeps ==
  ASSUME RvInv, RvCrash
  PROVE  RvInv'
<1>1. /\ RvTypeOK /\ GoodFiles /\ events \in Nat
  BY MaxEventsAssumption DEF RvInv, RvTypeOK
<1>2. /\ UNCHANGED <<tmp, disk, unread>> /\ dirty' = FALSE /\ tick' = NoTick
      /\ flush' = [o \in Owners |-> NoFlush]
      /\ intents' = [k \in DOMAIN disk |->
                       [to |-> disk[k].to, attempts |-> disk[k].attempts, phase |-> "waiting"]]
  BY DEF RvCrash, fileVars, Owners
<1>3. /\ events' \in Nat /\ events' = events + 1 /\ events <= events' /\ events' \in 0..MaxEvents
  BY <1>1, OneMoreEvent DEF RvCrash
<1>4. disk \in Seq(Entry) /\ Len(disk) \in Nat /\ DOMAIN disk = 1..Len(disk) /\ GoodFile(disk, events)
  BY <1>1 DEF GoodFiles, GoodFile
<1>5. \A k \in 1..Len(disk) :
        [to |-> disk[k].to, attempts |-> disk[k].attempts, phase |-> "waiting"] \in Intent
  <2>1. \A k \in 1..Len(disk) : disk[k] \in Entry
    BY <1>4, ElementOfSeq
  <2> QED
    BY <2>1 DEF Entry, Intent, Phases
<1>6. intents' \in [1..Len(disk) -> Intent]
  BY <1>2, <1>4, <1>5
<1>7. intents' \in Seq(Intent)
  BY <1>4, <1>6, SeqDef
<1>8. Len(intents') = Len(disk)
  BY <1>4, <1>6, <1>7, LenProperties
<1>9. \A k \in 1..Len(disk) : /\ intents'[k].to = disk[k].to /\ intents'[k].attempts = disk[k].attempts
                              /\ intents'[k].phase = "waiting"
  BY <1>2, <1>4
<1>10. \A k \in 1..Len(disk) : intents'[k].attempts < MaxAttempts + events'
  <2>1. \A k \in 1..Len(disk) : disk[k].attempts \in Int
    <3>1. \A k \in 1..Len(disk) : disk[k] \in Entry
      BY <1>4, ElementOfSeq
    <3> QED
      BY <3>1, MaxAttemptsAssumption, MaxEventsAssumption DEF Entry, Rounds
  <2>2. \A k \in 1..Len(disk) : disk[k].attempts <= MaxAttempts + events
    BY <1>4 DEF GoodFile
  <2> QED
    BY <1>3, <1>1, <1>9, <2>1, <2>2, MaxAttemptsAssumption
<1>11. \A k \in 1..Len(disk) : intents'[k].attempts \in Int
  <2>1. \A k \in 1..Len(disk) : intents'[k] \in Intent
    BY <1>6
  <2> QED
    BY <2>1, MaxAttemptsAssumption, MaxEventsAssumption DEF Intent, Rounds
<1>12. GoodList(intents', events')
  <2>1. \A i, j \in 1..Len(disk) : intents'[i].to = intents'[j].to => i = j
    BY <1>4, <1>9 DEF GoodFile
  <2>2. \A i \in 1..Len(disk) : intents'[i].attempts <= MaxAttempts + events'
    BY <1>3, <1>10, <1>11, MaxAttemptsAssumption
  <2> QED
    BY <1>7, <1>8, <1>9, <1>10, <2>1, <2>2 DEF GoodList
<1>13. TickKnows' /\ SpentInTime'
  <2>1. intents' # <<>> => 1 \in 1..Len(disk)
    BY <1>7, <1>8, EmptySeq
  <2>2. intents' # <<>> => intents'[1].phase = "waiting"
    BY <1>9, <2>1
  <2> QED
    BY <1>2, <2>2 DEF TickKnows, SpentInTime, FrontIs, NoTick
<1>14. FlushTypeOK' /\ \A o \in Owners : flush'[o].snap = <<>>
  BY <1>2 DEF FlushTypeOK, NoFlush, None
<1>15. GoodFiles'
  <2>1. GoodFile(<<>>, events')
    BY DEF GoodFile
  <2> QED
    BY <1>1, <1>2, <1>3, <1>14, <2>1, GoodLater DEF GoodFiles
<1>16. RvTypeOK'
  <2>1. tick' \in TickType
    BY <1>2, MaxAttemptsAssumption, MaxEventsAssumption DEF NoTick, TickType, Rounds
  <2> QED
    BY <1>1, <1>2, <1>3, <1>7, <1>14, <2>1 DEF RvTypeOK, FlushTypeOK, TickType, Owners
<1> QED
  BY <1>12, <1>13, <1>15, <1>16 DEF RvInv

\* The tick ends, or nothing happens.
LEMMA QuietStepsKeep ==
  ASSUME RvInv, TickEnds \/ UNCHANGED rvVars
  PROVE  RvInv'
<1>1. UNCHANGED <<intents, dirty, flush, tmp, disk, unread, events>>
  BY DEF TickEnds, rvVars, storeVars, fileVars
<1>2. tick' \in TickType /\ (tick' = tick \/ tick'.at = "none")
  BY MaxAttemptsAssumption, MaxEventsAssumption
  DEF RvInv, RvTypeOK, TickEnds, rvVars, TickType, NoTick, Rounds
<1>3. RvTypeOK'
  BY <1>1, <1>2 DEF RvInv, RvTypeOK, TickType
<1> QED
  BY <1>1, <1>2, <1>3 DEF RvInv, GoodFiles, TickKnows, SpentInTime, FrontIs

\* Whom the list is about, after a rotation and after one intent has left.
LEMMA RotatedKeepsAll ==
  ASSUME intents \in Seq(Intent), intents # <<>>, NEW e \in Intent, e.to = intents[1].to,
         NEW t, Has(t)
  PROVE  \E k \in DOMAIN Append(Tail(intents), e) : Append(Tail(intents), e)[k].to = t
<1> DEFINE l == Append(Tail(intents), e)
           N == Len(intents)
<1>1. N \in Nat \ {0} /\ l \in Seq(Intent) /\ Len(l) = N
      /\ \A j \in 1..N : l[j] = IF j < N THEN intents[j + 1] ELSE e
  BY EmptySeq, FrontToBack
<1> HIDE DEF l
<1>2. DOMAIN l = 1..N
  BY <1>1, LenProperties
<1>3. PICK k \in 1..N : intents[k].to = t
  BY DEF Has
<1>4. CASE k = 1
  <2>1. N \in DOMAIN l /\ l[N].to = t
    BY <1>1, <1>2, <1>3, <1>4
  <2> QED
    BY <2>1 DEF l
<1>5. CASE k # 1
  <2>1. k - 1 \in 1..N /\ k - 1 < N /\ (k - 1) + 1 = k
    BY <1>1, <1>5
  <2> QED
    BY <1>1, <1>2, <1>3, <2>1 DEF l
<1> QED
  BY <1>4, <1>5

\* The others are still there when one has left.
LEMMA WithoutKeepsOthers ==
  ASSUME intents \in Seq(Intent), NEW u, NEW t, t # u, Has(t)
  PROVE  \E k \in DOMAIN Without(u) : Without(u)[k].to = t
<1>1. PICK i \in 1..Len(intents) : intents[i].to = t
  BY DEF Has
<1>2. CASE ~Has(u)
  BY <1>1, <1>2 DEF Without
<1>3. CASE Has(u)
  <2>1. PICK k \in 1..Len(intents) :
          /\ intents[k].to = u
          /\ Without(u) \in Seq(Intent) /\ Len(Without(u)) = Len(intents) - 1
          /\ \A j \in 1..(Len(intents) - 1) :
               Without(u)[j] = IF j < k THEN intents[j] ELSE intents[j + 1]
    BY <1>3, WithoutIs
  <2> DEFINE l == Without(u)
  <2> HIDE DEF l
  <2>2. l \in Seq(Intent) /\ DOMAIN l = 1..(Len(intents) - 1)
    BY <2>1 DEF l
  <2>3. i # k
    BY <1>1, <2>1
  <2>4. CASE i < k
    <3>1. i \in 1..(Len(intents) - 1)
      BY <2>4
    <3> QED
      BY <1>1, <2>1, <2>2, <2>4, <3>1 DEF l
  <2>5. CASE i > k
    <3>1. i - 1 \in 1..(Len(intents) - 1) /\ ~(i - 1 < k) /\ (i - 1) + 1 = i
      BY <2>5
    <3>2. l[i - 1] = intents[i]
      BY <2>1, <3>1 DEF l
    <3> QED
      BY <1>1, <2>2, <3>1, <3>2 DEF l
  <2> QED
    BY <2>3, <2>4, <2>5
<1> QED
  BY <1>2, <1>3

\* Every step keeps the invariant.
LEMMA InvNext ==
  ASSUME RvInv, [RvNext]_rvVars
  PROVE  RvInv'
<1>1. CASE UNCHANGED rvVars
  BY <1>1, QuietStepsKeep
<1>2. CASE TickNext
  <2>1. CASE \E idle \in BOOLEAN : TickBegins(idle)
    BY <2>1, TickBeginsKeeps
  <2>2. ASSUME NEW idle \in BOOLEAN, NotPending(idle) PROVE RvInv'
    BY <2>2, ProceedKeeps DEF NotPending
  <2> QED
    BY <1>2, <2>1, <2>2, StepAsideKeeps, NoticeLandsKeeps, MarkNotifiedKeeps, QuietStepsKeep
    DEF TickNext
<1>3. CASE FlushNext
  BY <1>3, FileStepKeeps DEF FlushNext, Owners
<1>4. CASE PeerNext
  BY <1>4, RefusedKeeps, TargetAnsweredKeeps, TakeKeeps DEF PeerNext
<1>5. CASE NoticeRefused \/ Elapse \/ RvCrash
  BY <1>5, NoticeRefusedKeeps, ElapseKeeps, CrashKeeps
<1> QED
  BY <1>1, <1>2, <1>3, <1>4, <1>5 DEF RvNext

\* So it holds for ever.
LEMMA RvInductive == RvSpec => []RvInv
<1>1. RvInit => RvInv
  BY InvInit
<1>2. RvInv /\ [RvNext]_rvVars => RvInv'
  BY InvNext
<1> QED
  BY <1>1, <1>2, PTL DEF RvSpec

-----------------------------------------------------------------------------
(* The theorems. *)

\* Every reachable state is well typed: in particular no round is counted beyond the cap
\* but by an event of its own, which is what bounds Rounds.
THEOREM RvTypeCorrect == RvSpec => []RvTypeOK
<1>1. RvInv => RvTypeOK
  BY DEF RvInv
<1> QED
  BY <1>1, RvInductive, PTL

\* One intent per target, and only the front of the queue open (RendezvousStore), wherever
\* the tick awaits while intents leave, come or come back from the file.
THEOREM OneWindow == RvSpec => []FrontOnly
<1>1. RvInv => FrontOnly
  BY DEF RvInv, GoodList, FrontOnly
<1> QED
  BY <1>1, RvInductive, PTL

\* The attempts of an intent exceed maxAttempts by no more than the events there were.
RoundsCounted == \A i \in DOMAIN intents : intents[i].attempts <= MaxAttempts + events

\* rendezvous, expireFront: the cap is exceeded only as often as something disturbed a round
\* (no_cap shows that it is).
THEOREM RoundsAreCounted == RvSpec => []RoundsCounted
<1>1. RvInv => RoundsCounted
  BY DEF RvInv, GoodList, RoundsCounted
<1> QED
  BY <1>1, RvInductive, PTL

\* An intent that leaves in a step of the tick was the front, with its last round spent
\* and its notice read.
LEMMA ProceedDrops ==
  ASSUME RvInv, NEW idle \in BOOLEAN,
         \/ tick.at = "ask" /\ ~Unread(tick.to, tick.attempt)
         \/ intents # <<>> /\ ~MustAsk,
         Proceed(idle), NEW t, Has(t), ~Has(t)'
  PROVE  /\ intents[1].to = t /\ intents[1].phase = "elapsed"
         /\ intents[1].attempts >= MaxAttempts /\ ~Unread(t, intents[1].attempts - 1)
<1>1. GoodList(intents, events) /\ events \in Nat /\ intents' = Expired(intents)
  BY MaxEventsAssumption DEF RvInv, RvTypeOK, Proceed
<1>2. GoodList(Expired(intents), events) /\ DOMAIN Expired(intents) = 1..Len(Expired(intents))
  BY <1>1, GoodExpired DEF GoodList
<1>3. ~\E k \in 1..Len(Expired(intents)) : Expired(intents)[k].to = t
  BY <1>1, <1>2 DEF Has
<1>4. FrontIs(intents, "elapsed") /\ intents[1].to = t /\ intents[1].attempts >= MaxAttempts
  BY <1>1, <1>3, GoodExpired
<1>5. intents[1].attempts > 0
  <2>1. 1 \in 1..Len(intents)
    BY <1>1, <1>4, EmptySeq DEF GoodList, FrontIs
  <2>2. intents[1] \in Intent
    BY <1>1, <2>1, ElementOfSeq DEF GoodList
  <2> QED
    BY <1>4, <2>2, MaxAttemptsAssumption, MaxEventsAssumption DEF Intent, Rounds
<1>6. MustAsk
  BY <1>4, <1>5 DEF MustAsk, FrontIs
<1>7. tick.at = "ask" /\ ~Unread(tick.to, tick.attempt)
  BY <1>6
<1>8. tick.to = t /\ tick.attempt = intents[1].attempts - 1
  BY <1>4, <1>7 DEF RvInv, TickKnows
<1> QED
  BY <1>4, <1>7, <1>8 DEF FrontIs

\* No rotation, no stale tick and no write loses an intent.
THEOREM IntentsLeaveForCause == RvSpec => LeavesForCause
<1> DEFINE Cause(t) ==
      \/ TargetAnswered(t) \/ NoticeRefused \/ RvCrash
      \/ /\ intents[1].to = t /\ intents[1].phase = "elapsed"
         /\ intents[1].attempts >= MaxAttempts /\ ~Unread(t, intents[1].attempts - 1)
           Kept == \A t \in Targets : Has(t) /\ ~Has(t)' => Cause(t)
<1>1. ASSUME RvInv, RvNext, NEW t \in Targets, Has(t), ~Has(t)'
      PROVE  Cause(t)
  <2> HIDE DEF Cause
  <2>1. GoodList(intents, events) /\ events \in Nat /\ intents \in Seq(Intent)
    <3>1. RvTypeOK /\ GoodList(intents, events)
      BY <1>1 DEF RvInv
    <3>2. events \in 0..MaxEvents /\ intents \in Seq(Intent)
      BY <3>1 DEF RvTypeOK, GoodList
    <3> QED
      BY <3>1, <3>2, MaxEventsAssumption
  <2> USE DEF Cause
  <2>2. intents' # intents
    BY <1>1 DEF Has
  <2>3. ASSUME NEW idle \in BOOLEAN, TickBegins(idle) PROVE Cause(t)
    <3>1. CASE MustAsk
      BY <2>2, <2>3, <3>1 DEF TickBegins, storeVars
    <3>2. CASE ~MustAsk
      <4>1. Proceed(idle) /\ intents # <<>>
        BY <2>3, <3>2 DEF TickBegins
      <4>2. /\ intents[1].to = t /\ intents[1].phase = "elapsed"
            /\ intents[1].attempts >= MaxAttempts /\ ~Unread(t, intents[1].attempts - 1)
        BY <1>1, <3>2, <4>1, ProceedDrops
      <4> QED
        BY <4>2
    <3> QED
      BY <3>1, <3>2
  <2>4. ASSUME NEW idle \in BOOLEAN, NotPending(idle) PROVE Cause(t)
    <3>1. Proceed(idle) /\ tick.at = "ask" /\ ~Unread(tick.to, tick.attempt)
      BY <2>4 DEF NotPending
    <3>2. /\ intents[1].to = t /\ intents[1].phase = "elapsed"
          /\ intents[1].attempts >= MaxAttempts /\ ~Unread(t, intents[1].attempts - 1)
      BY <1>1, <3>1, ProceedDrops
    <3> QED
      BY <3>2
  <2>5. CASE StepAside
    <3>1. intents # <<>> /\ intents' = Append(Tail(intents), Rested(intents[1]))
      BY <2>2, <2>5 DEF StepAside, Rotated
    <3>2. intents[1] \in Intent
      BY <2>1, <3>1, EmptySeq, ElementOfSeq
    <3>3. Rested(intents[1]) \in Intent /\ Rested(intents[1]).to = intents[1].to
      BY <3>2 DEF Rested, Intent, Phases
    <3>4. \E k \in DOMAIN intents' : intents'[k].to = t
      BY <1>1, <2>1, <3>1, <3>3, RotatedKeepsAll
    <3> QED
      BY <1>1, <3>4 DEF Has
  <2>6. CASE MarkNotified
    <3>1. intents' = [intents EXCEPT ![1].phase = "notified", ![1].attempts = @ + 1]
      BY <2>2, <2>6 DEF MarkNotified, storeVars
    <3>2. \A k \in 1..Len(intents) : intents[k] \in Intent
      BY <2>1, ElementOfSeq
    <3>3. DOMAIN intents' = DOMAIN intents /\ \A k \in DOMAIN intents : intents'[k].to = intents[k].to
      BY <2>1, <3>1, <3>2 DEF Intent
    <3> QED
      BY <1>1, <3>3 DEF Has
  <2>7. CASE NoticeLands \/ TickEnds \/ FlushNext
    BY <2>2, <2>7 DEF NoticeLands, TickEnds, FlushNext, WriteTmp, Rename, RemoveFile, WriteFails,
                      storeVars
  <2>8. ASSUME NEW u \in Targets, Refused(u) PROVE Cause(t)
    <3> DEFINE e == [to |-> u, attempts |-> 0, phase |-> "waiting"]
    <3>1. intents' = Append(intents, e)
      BY <2>2, <2>8 DEF Refused
    <3>2. e \in Intent
      BY MaxAttemptsAssumption, MaxEventsAssumption DEF Intent, Rounds, Phases
    <3> HIDE DEF e
    <3>3. /\ intents' \in Seq(Intent) /\ Len(intents') = Len(intents) + 1
          /\ \A k \in 1..Len(intents) : intents'[k] = intents[k]
      BY <2>1, <3>1, <3>2, AppendProperties
    <3> QED
      BY <1>1, <2>1, <3>3 DEF Has
  <2>9. ASSUME NEW u \in Targets, TargetAnswered(u) PROVE Cause(t)
    <3>1. CASE u = t
      BY <2>9, <3>1
    <3>2. CASE u # t
      BY ZenonT(30), <1>1, <2>1, <2>9, <3>2, WithoutKeepsOthers DEF TargetAnswered, Has
    <3> QED
      BY <3>1, <3>2
  <2>10. ASSUME NEW u \in Targets, Take(u) PROVE Cause(t)
    BY <2>2, <2>10 DEF Take, storeVars
  <2>11. CASE Elapse
    <3>1. DOMAIN intents' = DOMAIN intents /\ \A k \in DOMAIN intents : intents'[k].to = intents[k].to
      BY <2>1, <2>11, ElementOfSeq DEF Elapse, Intent
    <3> QED
      BY <1>1, <3>1 DEF Has
  <2> QED
    BY <1>1, <2>3, <2>4, <2>5, <2>6, <2>7, <2>8, <2>9, <2>10, <2>11
    DEF RvNext, TickNext, PeerNext
<1>2. RvInv /\ [RvNext]_rvVars => [Kept]_rvVars
  BY <1>1
<1>3. LeavesForCause <=> [][Kept]_rvVars
  BY DEF LeavesForCause
<1> QED
  BY <1>2, <1>3, RvInductive, PTL DEF RvSpec

(***************************************************************************)
(* Federation and rendezvous side by side.                                 *)
(***************************************************************************)

\* A behaviour of the links is one of the federation and one of the rendezvous.
LEMMA LinksAreBoth == LinksSpec => Spec /\ RvSpec
<1>1. LinksInit => Init /\ RvInit
  BY DEF LinksInit
<1>2. [LinksNext]_<<focus, vars, rvVars>> => [Next]_vars /\ [RvNext]_rvVars
  BY DEF LinksNext
<1> QED
  BY <1>1, <1>2, PTL DEF LinksSpec, Spec, RvSpec

\* Every variable of the links has its type (manager.ts, rendezvous.ts).
THEOREM LinksTypeCorrect == LinksSpec => []LinksTypeOK
<1>1. FedTypeOK /\ RvTypeOK => LinksTypeOK
  BY DEF LinksTypeOK
<1> QED
  BY <1>1, LinksAreBoth, FederationTypeCorrect, RvTypeCorrect, PTL

\* Whatever breaks, crashes, is refused or repeated on a link: an envelope that was accepted is
\* under way, delivered or told of, a report of a failure is true, a name leads back; and
\* however refusals, answers and late readers meet the ticks, one refused dialogue of a
\* sender is open at a time and none leaves without a cause.
THEOREM LinksAreSafe ==
  LinksSpec => [](NeverLostSilently /\ TrueReport /\ NamesLeadBack /\ FrontOnly) /\ LeavesForCause
<1>1. Spec => []NeverLostSilently
  BY NothingIsLostSilently, LinksPlan
<1> QED
  BY <1>1, LinksAreBoth, ReportsAreTrue, NamesAreAddresses, OneWindow, IntentsLeaveForCause, PTL
================================================================================
