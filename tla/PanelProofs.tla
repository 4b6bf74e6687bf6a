------------------------------ MODULE PanelProofs ------------------------------
(***************************************************************************)
(* Proofs about what a tab of the panel shows: of a chat, against the log  *)
(* that the server keeps (Panel), and of an agent, against the poll        *)
(* (Badges); in whatever order pages, events and answers arrive.  And      *)
(* about the shelves of prompts that several tabs edit (Prompts).          *)
(*                                                                         *)
(* A thread is as complete as its cursor says: from there on it shows all  *)
(* that is left of the log that the tab opened on (PastLoaded), and what   *)
(* was recorded since is shown or comes (NewCome).  The first holds since  *)
(* a page is a stretch of the log without a gap (SliceIs), since each of   *)
(* the requests under way has a cursor that all is shown for, or none      *)
(* (RequestRight), and since records leave the log but never move          *)
(* (PastFirst).                                                            *)
(***************************************************************************)
EXTENDS Panel, Badges, Prompts, SequenceTheorems, WellFoundedInduction, TLAPS

(***************************************************************************)
(* The thread.                                                             *)
(***************************************************************************)

Distinct(s) == \A i, j \in DOMAIN s : s[i] = s[j] => i = j
Old == ToSet(Past)
OnWire == {wire[i] : i \in DOMAIN wire}

PageRecord == [at : {"none", "asked", "answered"}, before : Cursors, recs : Seq(Texts), next : Cursors, known : BOOLEAN]
ThreadRecord == [recs : Seq(Texts), loaded : BOOLEAN, before : Cursors, there : BOOLEAN]
PaEvent == [type : {"message"}, m : Texts] \union [type : {"history-cleared"}, ids : SUBSET Texts, all : BOOLEAN]

PaTyped ==
  /\ view \in Views /\ records \in Seq(Texts) /\ thread \in ThreadRecord /\ pages \in [Requests -> PageRecord]
  /\ wiping \in [what : {"none", "all"} \union Threads, ids : SUBSET Texts]
  /\ post \in [Texts -> {"new", "appended", "told", "done"}]
  /\ socket \in BOOLEAN /\ wire \in Seq(PaEvent)
  /\ doubt \subseteq Texts
  /\ wipes \in 0..MaxWipes /\ breaks \in 0..MaxBreaks

\* A record is in the log, in a thread and on a page once; the log has only what was
\* sent, and what is removed does not come back.
Once ==
  /\ Distinct(records) /\ Distinct(thread.recs) /\ \A r \in Requests : Distinct(pages[r].recs)
  /\ \A m \in Texts : post[m] = "new" => m \notin Logged /\ m \notin Leaving
  /\ \A m \in Leaving : m \notin Logged

\* The log begins with what is left of the past, in its order.
Before(a, b) == \E i, j \in DOMAIN Past : i < j /\ Past[i] = a /\ Past[j] = b
PastFirst ==
  /\ \A a, b \in DOMAIN records : a < b /\ records[b] \in Old => Before(records[a], records[b])
  /\ \A m \in Old : m \in Texts /\ post[m] = "done"
  /\ \A e \in OnWire : e.type = "message" => e.m \notin Old /\ post[e.m] # "new"

\* What the thread shows is in the log, or will be taken off it.
NoGhosts ==
  /\ \A m \in Shown \ doubt : m \in Logged \/ m \in Leaving
  /\ ~thread.there => Shown = {}

\* A new record is shown, or comes.
NewCome == \A m \in (Logged \cap Viewed) \ doubt : m \in Old \/ m \in Shown \/ m \in Coming

\* Of the past, what is at a cursor or behind it.
AtOrBehind(c, m) == c = Start \/ c = m \/ Before(c, m)
Kept(m) == m \in Logged /\ m \in Viewed /\ m \in Old /\ m \notin doubt
\* What a chat that was cleared has left of the past: nothing.
AllGone ==
  wiping.what = "all" \/ (\E e \in OnWire : e.type # "message" /\ e.all) => Logged \cap Old = {}
\* A request asks for what is before a cursor that all that is behind it is shown for, and
\* its answer, with what is shown, is all that is behind the next one.
RequestRight(r) ==
  /\ {pages[r].before, pages[r].next} \subseteq Viewed \union {Start}
  /\ pages[r].at = "asked" =>
       \/ Logged \cap Old = {} \/ pages[r].before = Start
       \/ \A m : Kept(m) /\ AtOrBehind(pages[r].before, m) => m \in Shown
  /\ pages[r].at = "answered" /\ pages[r].known =>
       \A m : Kept(m) /\ AtOrBehind(pages[r].next, m) => m \in Shown \/ m \in ToSet(pages[r].recs)
PastLoaded ==
  /\ AllGone
  /\ thread.before \in Viewed \union {Start}
  /\ thread.loaded => \A m : Kept(m) /\ AtOrBehind(thread.before, m) => m \in Shown
  /\ \A r \in Requests : RequestRight(r)

PaInv == PaTyped /\ Once /\ PastFirst /\ NoGhosts /\ NewCome /\ PastLoaded

\* A set of numbers that is not empty has a least one.
LEMMA LeastOf ==
  ASSUME NEW S \in SUBSET Nat, S # {}
  PROVE  \E x \in S : \A y \in S : x <= y
<1>1. PICK x \in S : \A y \in S : ~(<<y, x>> \in OpToRel(<, Nat))
  BY NatLessThanWellFounded, WFMin
<1>2. \A y \in S : x <= y
  <2>1. TAKE y \in S
  <2>2. x \in Nat /\ y \in Nat
    BY <1>1
  <2>3. y < x => <<y, x>> \in OpToRel(<, Nat)
    BY <2>2 DEF OpToRel
  <2>4. ~(y < x)
    BY <1>1, <2>3, Zenon
  <2> QED BY <2>2, <2>4
<1> QED BY <1>1, <1>2

\* The function that Keep is written with, as far as n.
KeptTo(f, s, S, n) ==
  f = [i \in 0..n |-> IF i = 0 THEN <<>> ELSE IF s[i] \in S THEN Append(f[i - 1], s[i]) ELSE f[i - 1]]

\* There is such a function, for every n.
LEMMA KeptExists ==
  ASSUME NEW s, NEW S, NEW n \in Nat
  PROVE  \E f : KeptTo(f, s, S, n)
<1> DEFINE Bad == {k \in Nat : ~\E f : KeptTo(f, s, S, k)}
<1>1. SUFFICES ASSUME Bad # {} PROVE FALSE
  OBVIOUS
<1>2. PICK k \in Bad : \A j \in Bad : k <= j
  BY <1>1, LeastOf
<1>3. k \in Nat /\ ~\E f : KeptTo(f, s, S, k)
  BY <1>2
<1>4. CASE k = 0
  <2>1. KeptTo([i \in 0..0 |-> <<>>], s, S, 0)
    BY DEF KeptTo
  <2> QED BY <1>3, <1>4, <2>1
<1>5. CASE k # 0
  <2>1. k - 1 \in Nat /\ k - 1 \notin Bad
    BY <1>2, <1>3, <1>5
  <2>2. PICK f : KeptTo(f, s, S, k - 1)
    BY <2>1
  <2> DEFINE g == [i \in 0..k |-> IF i = k THEN IF s[k] \in S THEN Append(f[k - 1], s[k]) ELSE f[k - 1] ELSE f[i]]
  <2>3. \A i \in 0..(k - 1) : f[i] = IF i = 0 THEN <<>> ELSE IF s[i] \in S THEN Append(f[i - 1], s[i]) ELSE f[i - 1]
    BY <2>2 DEF KeptTo
  <2>4. \A i \in 0..(k - 1) : g[i] = f[i] /\ (i # 0 => g[i - 1] = f[i - 1])
    BY <1>3
  <2>5. g[k] = (IF s[k] \in S THEN Append(f[k - 1], s[k]) ELSE f[k - 1]) /\ g[k - 1] = f[k - 1]
    BY <1>3, <1>5
  <2> DEFINE h == [i \in 0..k |-> IF i = 0 THEN <<>> ELSE IF s[i] \in S THEN Append(g[i - 1], s[i]) ELSE g[i - 1]]
  <2>6. \A i \in 0..k : g[i] = h[i]
    <3> SUFFICES ASSUME NEW i \in 0..k PROVE g[i] = h[i]
      OBVIOUS
    <3>0. h[i] = IF i = 0 THEN <<>> ELSE IF s[i] \in S THEN Append(g[i - 1], s[i]) ELSE g[i - 1]
      OBVIOUS
    <3> HIDE DEF g, h
    <3>1. CASE i = k
      BY <3>0, <3>1, <1>5, <2>5
    <3>2. CASE i # k
      <4>1. i \in 0..(k - 1)
        BY <3>2, <1>3
      <4> QED BY <3>0, <4>1, <2>3, <2>4
    <3> QED BY <3>1, <3>2
  <2>7. g = h
    <3>1. g = [i \in 0..k |-> g[i]] /\ h = [i \in 0..k |-> h[i]]
      OBVIOUS
    <3> HIDE DEF g, h
    <3> QED BY <3>1, <2>6
  <2>8. KeptTo(g, s, S, k)
    BY <2>7 DEF KeptTo
  <2> QED BY <1>3, <2>8
<1> QED BY <1>4, <1>5

\* What that function is worth at n.
KeptRight(T, k, s, S, n) ==
  /\ k \in Seq(T) /\ Len(k) <= n
  /\ \A x : (\E a \in 1..Len(k) : k[a] = x) <=> x \in S /\ \E i \in 1..n : s[i] = x
  /\ \A a, b \in 1..Len(k) : a < b => \E i, j \in 1..n : i < j /\ k[a] = s[i] /\ k[b] = s[j]

\* What is kept is what is in the set, in its order.
LEMMA KeepOf ==
  ASSUME NEW T, NEW s \in Seq(T), NEW S
  PROVE  /\ Keep(s, S) \in Seq(T) /\ Len(Keep(s, S)) <= Len(s)
         /\ ToSet(Keep(s, S)) = ToSet(s) \cap S
         /\ \A a, b \in DOMAIN Keep(s, S) : a < b =>
              \E i, j \in DOMAIN s : i < j /\ Keep(s, S)[a] = s[i] /\ Keep(s, S)[b] = s[j]
<1> DEFINE f == CHOOSE g : KeptTo(g, s, S, Len(s))
           Bad == {n \in 0..Len(s) : ~KeptRight(T, f[n], s, S, n)}
<1>0. Len(s) \in Nat /\ DOMAIN s = 1..Len(s) /\ \A i \in 1..Len(s) : s[i] \in T
  OBVIOUS
<1>1. Keep(s, S) = f[Len(s)]
  BY DEF Keep, KeptTo
<1>2. KeptTo(f, s, S, Len(s))
  BY <1>0, KeptExists
<1> HIDE DEF f
<1>3. \A i \in 0..Len(s) : f[i] = IF i = 0 THEN <<>> ELSE IF s[i] \in S THEN Append(f[i - 1], s[i]) ELSE f[i - 1]
  BY <1>2 DEF KeptTo
<1>4. Bad = {}
  <2>1. SUFFICES ASSUME Bad # {} PROVE FALSE
    OBVIOUS
  <2>2. PICK n \in Bad : \A j \in Bad : n <= j
    <3>1. Bad \in SUBSET Nat
      BY <1>0
    <3> QED BY <2>1, <3>1, LeastOf
  <2>3. n \in 0..Len(s) /\ ~KeptRight(T, f[n], s, S, n)
    BY <2>2
  <2>4. CASE n = 0
    <3>1. f[0] = <<>>
      BY <1>0, <1>3
    <3>2. KeptRight(T, <<>>, s, S, 0)
      <4>1. <<>> \in Seq(T) /\ Len(<<>>) = 0 /\ 1..0 = {}
        OBVIOUS
      <4> QED BY <4>1 DEF KeptRight
    <3>3. ~KeptRight(T, f[0], s, S, 0)
      BY <2>3, <2>4
    <3> QED BY <3>1, <3>2, <3>3, Zenon
  <2>5. CASE n # 0
    <3>0. n - 1 \in 0..Len(s) /\ n \in 1..Len(s) /\ ~(n <= n - 1)
      BY <1>0, <2>3, <2>5
    <3>1. n - 1 \in 0..Len(s) /\ n \in 1..Len(s) /\ n - 1 \notin Bad /\ s[n] \in T
      BY <1>0, <2>2, <3>0
    <3>2. KeptRight(T, f[n - 1], s, S, n - 1)
      BY <3>1
    <3> DEFINE t == f[n - 1]
    <3>3. f[n] = IF s[n] \in S THEN Append(t, s[n]) ELSE t
      BY <1>3, <2>5, <3>1
    <3>4. /\ t \in Seq(T) /\ Len(t) <= n - 1
          /\ \A x : (\E a \in 1..Len(t) : t[a] = x) <=> x \in S /\ \E i \in 1..(n - 1) : s[i] = x
          /\ \A a, b \in 1..Len(t) : a < b => \E i, j \in 1..(n - 1) : i < j /\ t[a] = s[i] /\ t[b] = s[j]
      BY <3>2 DEF KeptRight
    <3> HIDE DEF t
    <3>5. n \in Nat /\ \A i \in 1..n : i \in 1..(n - 1) \/ i = n
      BY <3>1
    <3>6. CASE s[n] \notin S
      <4>1. f[n] = t
        BY <3>3, <3>6
      <4>2. \A x : x \in S /\ (\E i \in 1..n : s[i] = x) <=> x \in S /\ \E i \in 1..(n - 1) : s[i] = x
        BY <3>5, <3>6
      <4>3. ASSUME NEW a \in 1..Len(t), NEW b \in 1..Len(t), a < b
            PROVE  \E i, j \in 1..n : i < j /\ t[a] = s[i] /\ t[b] = s[j]
        <5>1. PICK i, j \in 1..(n - 1) : i < j /\ t[a] = s[i] /\ t[b] = s[j]
          BY <3>4, <4>3, Zenon
        <5>2. i \in 1..n /\ j \in 1..n
          BY <3>5
        <5> QED BY <5>1, <5>2, Zenon
      <4>4. KeptRight(T, t, s, S, n)
        <5>1. Len(t) <= n /\ t \in Seq(T)
          BY <3>0, <3>4
        <5> QED BY <3>4, <4>2, <4>3, <5>1 DEF KeptRight
      <4> QED BY <2>3, <4>1, <4>4
    <3>7. CASE s[n] \in S
      <4> DEFINE u == Append(t, s[n])
      <4>1. u \in Seq(T) /\ Len(u) = Len(t) + 1 /\ Len(t) \in Nat /\ u[Len(t) + 1] = s[n] /\ \A a \in 1..Len(t) : u[a] = t[a]
        BY <3>1, <3>4
      <4>2. f[n] = u
        BY <3>3, <3>7
      <4> HIDE DEF u
      <4>3. ASSUME NEW x PROVE (\E a \in 1..Len(u) : u[a] = x) <=> x \in S /\ \E i \in 1..n : s[i] = x
        <5>1. (\E a \in 1..Len(u) : u[a] = x) <=> (\E a \in 1..Len(t) : t[a] = x) \/ x = s[n]
          <6>1. ASSUME NEW a \in 1..Len(u), u[a] = x PROVE (\E b \in 1..Len(t) : t[b] = x) \/ x = s[n]
            <7>1. a \in 1..Len(t) \/ a = Len(t) + 1
              BY <4>1
            <7> QED BY <4>1, <6>1, <7>1
          <6>2. ASSUME NEW a \in 1..Len(t), t[a] = x PROVE \E b \in 1..Len(u) : u[b] = x
            <7>1. a \in 1..Len(u) /\ u[a] = x
              BY <4>1, <6>2
            <7> QED BY <7>1
          <6>3. ASSUME x = s[n] PROVE \E b \in 1..Len(u) : u[b] = x
            <7>1. Len(t) + 1 \in 1..Len(u) /\ u[Len(t) + 1] = x
              BY <4>1, <6>3
            <7> QED BY <7>1
          <6> QED BY <6>1, <6>2, <6>3
        <5>2. (\E i \in 1..n : s[i] = x) <=> (\E i \in 1..(n - 1) : s[i] = x) \/ x = s[n]
          BY <3>1, <3>5
        <5> QED BY <5>1, <5>2, <3>4, <3>7
      <4>4. ASSUME NEW a \in 1..Len(u), NEW b \in 1..Len(u), a < b
            PROVE  \E i, j \in 1..n : i < j /\ u[a] = s[i] /\ u[b] = s[j]
        <5>1. a \in 1..Len(t) /\ u[a] = t[a]
          BY <4>1, <4>4
        <5>2. CASE b \in 1..Len(t)
          <6>1. u[b] = t[b]
            BY <4>1, <5>2
          <6>2. PICK i, j \in 1..(n - 1) : i < j /\ t[a] = s[i] /\ t[b] = s[j]
            BY <5>1, <5>2, <3>4, <4>4
          <6>3. i \in 1..n /\ j \in 1..n
            BY <3>5
          <6> QED BY <5>1, <6>1, <6>2, <6>3
        <5>3. CASE b \notin 1..Len(t)
          <6>1. u[b] = s[n]
            BY <4>1, <5>3
          <6>2. PICK i \in 1..(n - 1) : s[i] = t[a]
            BY <5>1, <3>4
          <6>3. i \in 1..n /\ n \in 1..n /\ i < n
            BY <3>5
          <6> QED BY <5>1, <6>1, <6>2, <6>3
        <5> QED BY <5>2, <5>3
      <4>5. KeptRight(T, u, s, S, n)
        <5>1. Len(u) <= n /\ u \in Seq(T)
          BY <3>0, <3>4, <4>1
        <5> QED BY <4>3, <4>4, <5>1 DEF KeptRight
      <4> QED BY <2>3, <4>2, <4>5
    <3> QED BY <3>6, <3>7
  <2> QED BY <2>4, <2>5
<1>5. KeptRight(T, f[Len(s)], s, S, Len(s))
  BY <1>0, <1>4
<1> DEFINE k == f[Len(s)]
<1>6. /\ k \in Seq(T) /\ Len(k) <= Len(s) /\ DOMAIN k = 1..Len(k)
      /\ \A x : (\E a \in 1..Len(k) : k[a] = x) <=> x \in S /\ \E i \in 1..Len(s) : s[i] = x
      /\ \A a, b \in 1..Len(k) : a < b => \E i, j \in 1..Len(s) : i < j /\ k[a] = s[i] /\ k[b] = s[j]
  <2>1. KeptRight(T, k, s, S, Len(s))
    BY <1>5
  <2> HIDE DEF k
  <2>2. k \in Seq(T) /\ Len(k) <= Len(s)
    BY <2>1 DEF KeptRight
  <2>3. DOMAIN k = 1..Len(k)
    BY <2>2
  <2> QED BY <2>1, <2>2, <2>3, Zenon DEF KeptRight
<1> HIDE DEF k
<1>7. ToSet(k) = ToSet(s) \cap S
  <2>1. \A x : x \in ToSet(k) <=> \E a \in 1..Len(k) : k[a] = x
    BY <1>6 DEF ToSet
  <2>2. \A x : x \in ToSet(s) <=> \E i \in 1..Len(s) : s[i] = x
    BY <1>0 DEF ToSet
  <2> QED BY <1>6, <2>1, <2>2
<1>8. Keep(s, S) = k
  BY <1>1 DEF k
<1>9. ASSUME NEW a \in DOMAIN k, NEW b \in DOMAIN k, a < b PROVE \E i, j \in DOMAIN s : i < j /\ k[a] = s[i] /\ k[b] = s[j]
  <2>1. a \in 1..Len(k) /\ b \in 1..Len(k)
    BY <1>6
  <2>2. \E i, j \in 1..Len(s) : i < j /\ k[a] = s[i] /\ k[b] = s[j]
    BY <1>6, <1>9, <2>1, Zenon
  <2> QED BY <1>0, <2>2, Zenon
<1> QED BY <1>6, <1>7, <1>8, <1>9

\* The same of records.
LEMMA KeepIs ==
  ASSUME NEW s \in Seq(Texts), NEW S
  PROVE  /\ Keep(s, S) \in Seq(Texts)
         /\ ToSet(Keep(s, S)) = ToSet(s) \cap S
         /\ \A a, b \in DOMAIN Keep(s, S) : a < b =>
              \E i, j \in DOMAIN s : i < j /\ Keep(s, S)[a] = s[i] /\ Keep(s, S)[b] = s[j]
BY KeepOf

\* What is in a sequence has a place in it.
LEMMA PlacesIn ==
  ASSUME NEW s \in Seq(Texts)
  PROVE  /\ Len(s) \in Nat /\ DOMAIN s = 1..Len(s) /\ \A i \in 1..Len(s) : s[i] \in Texts
         /\ ToSet(s) \subseteq Texts /\ \A x : x \in ToSet(s) <=> \E i \in 1..Len(s) : s[i] = x
<1>1. Len(s) \in Nat /\ DOMAIN s = 1..Len(s) /\ \A i \in 1..Len(s) : s[i] \in Texts
  OBVIOUS
<1> QED BY <1>1 DEF ToSet

\* Nothing is kept twice.
LEMMA KeepOnce ==
  ASSUME NEW s \in Seq(Texts), NEW S, Distinct(s)
  PROVE  Distinct(Keep(s, S))
<1> DEFINE k == Keep(s, S)
<1>1. k \in Seq(Texts) /\ \A a, b \in DOMAIN k : a < b => \E i, j \in DOMAIN s : i < j /\ k[a] = s[i] /\ k[b] = s[j]
  BY KeepIs
<1> HIDE DEF k
<1>2. DOMAIN k = 1..Len(k) /\ Len(k) \in Nat /\ DOMAIN s = 1..Len(s) /\ Len(s) \in Nat
  BY <1>1, PlacesIn
<1>3. ASSUME NEW a \in DOMAIN k, NEW b \in DOMAIN k, a < b PROVE k[a] # k[b]
  <2>1. PICK i, j \in DOMAIN s : i < j /\ k[a] = s[i] /\ k[b] = s[j]
    BY <1>1, <1>3, Zenon
  <2>2. i # j
    BY <1>2, <2>1
  <2> QED BY <2>1, <2>2 DEF Distinct
<1>4. Distinct(k)
  BY <1>2, <1>3 DEF Distinct
<1> QED BY <1>4 DEF k

\* A record at the end.
LEMMA AddIs ==
  ASSUME NEW s \in Seq(Texts), NEW m \in Texts
  PROVE  /\ Append(s, m) \in Seq(Texts) /\ ToSet(Append(s, m)) = ToSet(s) \union {m}
         /\ Distinct(s) /\ m \notin ToSet(s) => Distinct(Append(s, m))
         /\ DOMAIN Append(s, m) = 1..(Len(s) + 1) /\ Append(s, m)[Len(s) + 1] = m
         /\ \A i \in 1..Len(s) : Append(s, m)[i] = s[i]
<1> DEFINE t == Append(s, m)
<1>1. /\ t \in Seq(Texts) /\ Len(t) = Len(s) + 1 /\ DOMAIN t = 1..(Len(s) + 1) /\ t[Len(s) + 1] = m
      /\ \A i \in 1..Len(s) : t[i] = s[i]
  OBVIOUS
<1> HIDE DEF t
<1>2. Len(s) \in Nat /\ DOMAIN s = 1..Len(s) /\ \A x : x \in ToSet(s) <=> \E i \in 1..Len(s) : s[i] = x
  BY PlacesIn
<1>3. \A x : x \in ToSet(t) <=> \E i \in 1..(Len(s) + 1) : t[i] = x
  BY <1>1, PlacesIn
<1>4. \A i \in 1..(Len(s) + 1) : i \in 1..Len(s) \/ i = Len(s) + 1
  BY <1>2
<1>5. \A i \in 1..Len(s) : i \in 1..(Len(s) + 1)
  BY <1>2
<1>6. Len(s) + 1 \in 1..(Len(s) + 1)
  BY <1>2
<1>7. \A x : x \in ToSet(t) <=> x \in ToSet(s) \/ x = m
  BY <1>1, <1>2, <1>3, <1>4, <1>5, <1>6
<1>8. ASSUME Distinct(s), m \notin ToSet(s) PROVE Distinct(t)
  BY <1>1, <1>2, <1>4, <1>8 DEF Distinct
<1> QED BY <1>1, <1>7, <1>8 DEF t

\* One log before another.
LEMMA JoinIs ==
  ASSUME NEW s \in Seq(Texts), NEW t \in Seq(Texts)
  PROVE  /\ s \o t \in Seq(Texts) /\ ToSet(s \o t) = ToSet(s) \union ToSet(t)
         /\ Distinct(s) /\ Distinct(t) /\ ToSet(s) \cap ToSet(t) = {} => Distinct(s \o t)
<1> DEFINE u == s \o t
           n == Len(s)
           l == Len(t)
<1>1. u \in Seq(Texts) /\ Len(u) = n + l /\ DOMAIN u = 1..(n + l)
      /\ \A i \in 1..(n + l) : u[i] = IF i <= n THEN s[i] ELSE t[i - n]
  OBVIOUS
<1>2. /\ n \in Nat /\ DOMAIN s = 1..n /\ \A x : x \in ToSet(s) <=> \E i \in 1..n : s[i] = x
      /\ l \in Nat /\ DOMAIN t = 1..l /\ \A x : x \in ToSet(t) <=> \E i \in 1..l : t[i] = x
  BY PlacesIn
<1>3. \A x : x \in ToSet(u) <=> \E i \in DOMAIN u : u[i] = x
  BY DEF ToSet
<1> HIDE DEF u, n, l
<1>4. \A i \in 1..(n + l) : (i \in 1..n /\ u[i] = s[i]) \/ (i > n /\ i - n \in 1..l /\ u[i] = t[i - n])
  BY <1>1, <1>2
<1>5. \A i \in 1..n : i \in 1..(n + l) /\ u[i] = s[i]
  BY <1>1, <1>2
<1>6. \A i \in 1..l : n + i \in 1..(n + l) /\ u[n + i] = t[i]
  <2>1. \A i \in 1..l : n + i \in 1..(n + l) /\ ~(n + i <= n) /\ (n + i) - n = i
    BY <1>2
  <2> QED BY <1>1, <2>1
<1>7. ToSet(u) = ToSet(s) \union ToSet(t)
  <2>1. ASSUME NEW x \in ToSet(u) PROVE x \in ToSet(s) \union ToSet(t)
    BY <1>1, <1>2, <1>3, <1>4, <2>1
  <2>2. ASSUME NEW x \in ToSet(s) PROVE x \in ToSet(u)
    BY <1>1, <1>2, <1>3, <1>5
  <2>3. ASSUME NEW x \in ToSet(t) PROVE x \in ToSet(u)
    BY <1>1, <1>2, <1>3, <1>6
  <2> QED BY <2>1, <2>2, <2>3
<1>8. ASSUME Distinct(s), Distinct(t), ToSet(s) \cap ToSet(t) = {}, NEW i \in 1..(n + l), NEW j \in 1..(n + l), u[i] = u[j]
      PROVE  i = j
  <2>1. CASE i \in 1..n /\ u[i] = s[i] /\ j \in 1..n /\ u[j] = s[j]
    BY <1>2, <1>8, <2>1 DEF Distinct
  <2>2. CASE i \in 1..n /\ u[i] = s[i] /\ j - n \in 1..l /\ u[j] = t[j - n]
    BY <1>2, <1>8, <2>2
  <2>3. CASE j \in 1..n /\ u[j] = s[j] /\ i - n \in 1..l /\ u[i] = t[i - n]
    BY <1>2, <1>8, <2>3
  <2>4. CASE i - n \in 1..l /\ u[i] = t[i - n] /\ j - n \in 1..l /\ u[j] = t[j - n]
    <3>1. i - n = j - n
      BY <1>2, <1>8, <2>4 DEF Distinct
    <3> QED BY <1>2, <3>1
  <2> QED BY <1>4, <2>1, <2>2, <2>3, <2>4
<1>9. Distinct(s) /\ Distinct(t) /\ ToSet(s) \cap ToSet(t) = {} => Distinct(u)
  BY <1>1, <1>8 DEF Distinct
<1> QED BY <1>1, <1>7, <1>9 DEF u

\* A page is a stretch of the log: behind its cursor, and before the cursor it was asked with,
\* it leaves nothing out.
LEMMA SliceIs ==
  ASSUME NEW f \in Seq(Texts), Distinct(f), NEW before \in Cursors
  PROVE  LET s == Slice(f, before)
         IN /\ s.recs \in Seq(Texts) /\ Distinct(s.recs) /\ ToSet(s.recs) \subseteq ToSet(f)
            /\ s.next \in ToSet(f) \union {Start}
            /\ \A k \in 1..Len(f) :
                 before = Start \/ (\E p \in 1..Len(f) : f[p] = before /\ k < p) =>
                   f[k] \in ToSet(s.recs) \/ \E q \in 1..Len(f) : s.next = f[q] /\ k < q
<1> DEFINE places == {i \in DOMAIN f : f[i] = before}
           end == IF before = Start THEN Len(f) ELSE IF places = {} THEN 0 ELSE (CHOOSE i \in places : TRUE) - 1
           start == IF end > PageSize THEN end - PageSize ELSE 0
           r == SubSeq(f, start + 1, end)
<1>0. Start \notin Texts
  BY PanelAssumption DEF Start, Texts
<1>1. Len(f) \in Nat /\ DOMAIN f = 1..Len(f) /\ (\A i \in 1..Len(f) : f[i] \in Texts)
      /\ \A x : x \in ToSet(f) <=> \E i \in 1..Len(f) : f[i] = x
  BY PlacesIn
<1>2. Slice(f, before) = [recs |-> r, next |-> IF start > 0 THEN f[start + 1] ELSE Start]
  BY DEF Slice
<1>3. end \in 0..Len(f) /\ \A k, p \in 1..Len(f) : before = Start \/ (f[p] = before /\ k < p) => k <= end
  <2>1. CASE before = Start
    BY <1>1, <2>1
  <2>2. CASE before # Start /\ places = {}
    BY <1>1, <2>2
  <2>3. CASE before # Start /\ places # {}
    <3> DEFINE c == CHOOSE i \in places : TRUE
    <3>1. c \in places
      BY <2>3
    <3>2. end = c - 1
      BY <2>3
    <3> HIDE DEF c, end
    <3>3. c \in 1..Len(f) /\ \A p \in 1..Len(f) : f[p] = before => p = c
      BY <1>1, <3>1 DEF Distinct
    <3> QED BY <1>1, <2>3, <3>2, <3>3
  <2> QED BY <2>1, <2>2, <2>3
<1> HIDE DEF end
<1>4. start \in 0..end /\ PageSize \in Nat \ {0}
  BY <1>1, <1>3, PanelAssumption
<1> HIDE DEF start
<1>5. /\ r \in Seq(Texts) /\ Len(r) = end - start /\ \A i \in 1..(end - start) : r[i] = f[start + i]
  <2>1. \A i \in (start + 1)..end : f[i] \in Texts
    BY <1>1, <1>3, <1>4
  <2>2. start + 1 \in Int /\ end \in Int
    BY <1>1, <1>3, <1>4
  <2>3. Len(r) = (IF start + 1 <= end THEN end - (start + 1) + 1 ELSE 0)
    BY <2>2
  <2>4. Len(r) = end - start
    BY <1>1, <1>3, <1>4, <2>3
  <2>5. \A i \in 1..(end - start) : r[i] = f[start + i]
    <3>1. \A i \in 1..(end - start) : i \in 1..(end - (start + 1) + 1) /\ start + 1 + i - 1 = start + i
      BY <1>1, <1>3, <1>4
    <3> QED BY <1>3, <1>4, <2>2, <3>1
  <2>6. r \in Seq(Texts)
    BY <1>1, <1>3, <1>4, <2>1, SubSeqProperties
  <2> QED BY <2>4, <2>5, <2>6
<1> HIDE DEF r
<1>6. DOMAIN r = 1..(end - start) /\ \A x : x \in ToSet(r) <=> \E i \in 1..(end - start) : r[i] = x
  BY <1>5, PlacesIn
<1>7. \A i \in 1..(end - start) : start + i \in 1..Len(f)
  BY <1>1, <1>3, <1>4
<1>8. Distinct(r)
  <2>1. ASSUME NEW i \in 1..(end - start), NEW j \in 1..(end - start), r[i] = r[j] PROVE i = j
    <3>1. start + i = start + j
      BY <1>1, <1>5, <1>7, <2>1 DEF Distinct
    <3> QED BY <1>1, <1>3, <1>4, <3>1
  <2> QED BY <1>6, <2>1 DEF Distinct
<1>9. ToSet(r) \subseteq ToSet(f)
  BY <1>1, <1>5, <1>6, <1>7
<1>10. start > 0 => start + 1 \in 1..Len(f)
  <2>1. start > 0 => start < end
    BY <1>1, <1>3, <1>4, PanelAssumption DEF start
  <2> QED BY <1>1, <1>3, <1>4, <2>1
<1>11. ASSUME NEW k \in 1..Len(f), before = Start \/ (\E p \in 1..Len(f) : f[p] = before /\ k < p)
       PROVE  f[k] \in ToSet(r) \/ (start > 0 /\ k < start + 1)
  <2>1. k <= end
    BY <1>3, <1>11
  <2>2. CASE k > start
    <3>1. k - start \in 1..(end - start) /\ start + (k - start) = k
      BY <1>1, <1>3, <1>4, <2>1, <2>2
    <3> QED BY <1>5, <1>6, <3>1
  <2>3. CASE k <= start
    BY <1>1, <1>3, <1>4, <2>3
  <2> QED BY <1>1, <1>3, <1>4, <2>2, <2>3
<1> DEFINE s == Slice(f, before)
<1>12. s.recs = r /\ s.next = IF start > 0 THEN f[start + 1] ELSE Start
  BY <1>2
<1> HIDE DEF s
<1>13. s.next \in ToSet(f) \union {Start}
  BY <1>1, <1>10, <1>12
<1>14. ASSUME NEW k \in 1..Len(f), before = Start \/ (\E p \in 1..Len(f) : f[p] = before /\ k < p)
       PROVE  f[k] \in ToSet(s.recs) \/ \E q \in 1..Len(f) : s.next = f[q] /\ k < q
  BY <1>10, <1>11, <1>12, <1>14
<1>15. s.recs \in Seq(Texts) /\ Distinct(s.recs) /\ ToSet(s.recs) \subseteq ToSet(f)
  BY <1>5, <1>8, <1>9, <1>12
<1> QED BY <1>13, <1>14, <1>15 DEF s

\* What leaves and what comes, by the events on the wire.
LEMMA Ways ==
  /\ \A x : x \in Leaving <=> x \in wiping.ids \/ \E e \in OnWire : e.type # "message" /\ x \in e.ids
  /\ \A x : x \in Coming <=> (\E e \in OnWire : e.type = "message" /\ x = e.m) \/ (x \in Texts /\ post[x] \in {"appended", "told"})
<1>1. \A x : x \in Leaving <=> x \in wiping.ids \/ \E i \in DOMAIN wire : wire[i].type # "message" /\ x \in wire[i].ids
  BY DEF Leaving, Told
<1>2. \A x : x \in Coming <=> (\E i \in DOMAIN wire : wire[i].type = "message" /\ x = wire[i].m) \/ (x \in Texts /\ post[x] \in {"appended", "told"})
  BY DEF Coming, Told
<1> QED BY <1>1, <1>2 DEF OnWire

\* The same after a step.
LEMMA WaysNext ==
  /\ \A x : x \in Leaving' <=> x \in wiping'.ids \/ \E e \in OnWire' : e.type # "message" /\ x \in e.ids
  /\ \A x : x \in Coming' <=> (\E e \in OnWire' : e.type = "message" /\ x = e.m) \/ (x \in Texts /\ post'[x] \in {"appended", "told"})
<1>1. \A x : x \in Leaving' <=> x \in wiping'.ids \/ \E i \in DOMAIN wire' : wire'[i].type # "message" /\ x \in wire'[i].ids
  BY DEF Leaving, Told
<1>2. \A x : x \in Coming' <=> (\E i \in DOMAIN wire' : wire'[i].type = "message" /\ x = wire'[i].m) \/ (x \in Texts /\ post'[x] \in {"appended", "told"})
  BY DEF Coming, Told
<1> QED BY <1>1, <1>2 DEF OnWire

\* A record's event goes to the open socket; to a closed one, it is in doubt.
LEMMA Pushed ==
  ASSUME PaTyped, NEW e \in PaEvent, NEW about \in SUBSET Texts, Push(e, about)
  PROVE  /\ wire' \in Seq(PaEvent) /\ doubt' \subseteq Texts /\ doubt \subseteq doubt'
         /\ \/ OnWire' = OnWire \union {e}
            \/ OnWire' = OnWire /\ about \subseteq doubt'
<1>0. wire \in Seq(PaEvent) /\ doubt \subseteq Texts
  BY DEF PaTyped
<1>1. CASE wire' = Append(wire, e) /\ doubt' = doubt
  <2>1. /\ wire' \in Seq(PaEvent) /\ Len(wire) \in Nat /\ DOMAIN wire = 1..Len(wire) /\ DOMAIN wire' = 1..(Len(wire) + 1)
        /\ wire'[Len(wire) + 1] = e /\ \A i \in 1..Len(wire) : wire'[i] = wire[i]
    BY <1>0, <1>1
  <2>2. \A i \in 1..(Len(wire) + 1) : i \in 1..Len(wire) \/ i = Len(wire) + 1
    BY <2>1
  <2>3. (\A i \in 1..Len(wire) : i \in 1..(Len(wire) + 1)) /\ Len(wire) + 1 \in 1..(Len(wire) + 1)
    BY <2>1
  <2>4. \A x : x \in OnWire' <=> x \in OnWire \/ x = e
    BY <2>1, <2>2, <2>3 DEF OnWire
  <2> QED BY <1>0, <1>1, <2>1, <2>4
<1>2. CASE wire' = wire /\ doubt' = doubt \union about
  BY <1>0, <1>2 DEF OnWire
<1> QED BY <1>1, <1>2 DEF Push

\* What the sets of records are of.
LEMMA Sorts ==
  ASSUME PaTyped
  PROVE  /\ Logged \subseteq Texts /\ Shown \subseteq Texts /\ (\A r \in Requests : pages[r] \in PageRecord /\ pages[r].recs \in Seq(Texts) /\ ToSet(pages[r].recs) \subseteq Texts)
         /\ thread.recs \in Seq(Texts) /\ OnWire \subseteq PaEvent
         /\ Viewed \subseteq Texts /\ wiping.ids \subseteq Texts /\ Start \notin Texts /\ Cursors = Texts \union {Start}
<1>1. thread.recs \in Seq(Texts) /\ (\A r \in Requests : pages[r] \in PageRecord /\ pages[r].recs \in Seq(Texts)) /\ records \in Seq(Texts)
  BY DEF PaTyped, ThreadRecord, PageRecord
<1>2. OnWire \subseteq PaEvent
  BY DEF PaTyped, OnWire
<1>3. Start \notin Texts
  BY PanelAssumption DEF Start, Texts
<1> QED BY <1>1, <1>2, <1>3, PlacesIn DEF Logged, Shown, Viewed, PaTyped, Cursors

\* A record joins the log behind the others.
LEMMA Appending ==
  ASSUME PaInv, NEW m \in Texts, post[m] = "new", records' = Append(records, m)
  PROVE  /\ records' \in Seq(Texts) /\ Logged' = Logged \union {m} /\ m \notin Logged /\ m \notin Leaving /\ m \notin Old
         /\ Distinct(records')
         /\ \A a, b \in DOMAIN records' : a < b /\ records'[b] \in Old => Before(records'[a], records'[b])
<1>1. records \in Seq(Texts) /\ Distinct(records) /\ m \notin Logged /\ m \notin Leaving /\ m \notin Old
  BY DEF PaInv, PaTyped, Once, PastFirst
<1>2. /\ records' \in Seq(Texts) /\ Logged' = Logged \union {m} /\ Distinct(records')
      /\ DOMAIN records' = 1..(Len(records) + 1) /\ records'[Len(records) + 1] = m
      /\ \A i \in 1..Len(records) : records'[i] = records[i]
  BY <1>1, AddIs DEF Logged
<1>3. Len(records) \in Nat /\ DOMAIN records = 1..Len(records)
  BY <1>1
<1>4. ASSUME NEW a \in DOMAIN records', NEW b \in DOMAIN records', a < b, records'[b] \in Old PROVE Before(records'[a], records'[b])
  <2>1. b \in 1..Len(records)
    BY <1>1, <1>2, <1>3, <1>4
  <2>2. a \in 1..Len(records)
    BY <1>2, <1>3, <1>4, <2>1
  <2> QED BY <1>2, <1>3, <1>4, <2>1, <2>2 DEF PaInv, PastFirst
<1> QED BY <1>1, <1>2, <1>4

\* A request that is left alone stays right, while no more of the past is to be shown and
\* none of it leaves the screen.
LEMMA RequestKept ==
  ASSUME NEW r, RequestRight(r), pages'[r] = pages[r], Viewed' = Viewed, Logged' \cap Old \subseteq Logged \cap Old,
         \A x : Kept(x)' => Kept(x),
         \A x : Kept(x)' /\ x \in Shown => x \in Shown'
  PROVE  RequestRight(r)'
<1>1. {pages'[r].before, pages'[r].next} \subseteq Viewed' \union {Start}
  BY DEF RequestRight
<1>2. ASSUME pages'[r].at = "asked", Logged' \cap Old # {}, pages'[r].before # Start,
             NEW x, Kept(x)', AtOrBehind(pages'[r].before, x)
      PROVE  x \in Shown'
  <2>1. Kept(x) /\ AtOrBehind(pages[r].before, x) /\ pages[r].at = "asked" /\ Logged \cap Old # {} /\ pages[r].before # Start
    BY <1>2
  <2>2. x \in Shown
    BY <2>1 DEF RequestRight
  <2> QED BY <1>2, <2>2
<1>3. ASSUME pages'[r].at = "answered", pages'[r].known, NEW x, Kept(x)', AtOrBehind(pages'[r].next, x)
      PROVE  x \in Shown' \/ x \in ToSet(pages'[r].recs)
  <2>1. Kept(x) /\ AtOrBehind(pages[r].next, x) /\ pages[r].at = "answered" /\ pages[r].known
    BY <1>3
  <2>2. x \in Shown \/ x \in ToSet(pages[r].recs)
    BY <2>1 DEF RequestRight
  <2> QED BY <1>3, <2>2
<1> QED BY <1>1, <1>2, <1>3 DEF RequestRight

\* One request moves.
LEMMA OneRequest ==
  ASSUME PaTyped, NEW r \in Requests, NEW x \in PageRecord, pages' = [pages EXCEPT ![r] = x]
  PROVE  pages' \in [Requests -> PageRecord] /\ pages'[r] = x /\ \A q \in Requests : q # r => pages'[q] = pages[q]
BY DEF PaTyped

\* The same of all of them.
LEMMA RequestsKept ==
  ASSUME PaInv, pages' = pages, Viewed' = Viewed, Logged' \cap Old \subseteq Logged \cap Old,
         \A x : Kept(x)' => Kept(x),
         \A x : Kept(x)' /\ x \in Shown => x \in Shown'
  PROVE  \A r \in Requests : RequestRight(r)'
<1> SUFFICES ASSUME NEW r \in Requests PROVE RequestRight(r)'
  OBVIOUS
<1>1. RequestRight(r)
  BY DEF PaInv, PastLoaded
<1> QED BY <1>1, RequestKept

\* A record that is new to the log, or on its way, does not disturb what is shown.
LEMMA SayingStep ==
  ASSUME PaInv, PaTyped', NEW m \in Texts \ Old,
         view' = view, thread' = thread, pages' = pages, wiping' = wiping,
         post'[m] # "new", \A x \in Texts : x # m => post'[x] = post[x],
         doubt \subseteq doubt',
         records' = records \/ (post[m] = "new" /\ records' = Append(records, m)),
         OnWire' = OnWire \/ OnWire' = OnWire \union {[type |-> "message", m |-> m]},
         m \in Coming' \/ m \in doubt'
  PROVE  PaInv'
<1>1. /\ records' \in Seq(Texts) /\ Distinct(records') /\ Logged \subseteq Logged' /\ Logged' \subseteq Logged \union {m}
      /\ \A a, b \in DOMAIN records' : a < b /\ records'[b] \in Old => Before(records'[a], records'[b])
      /\ m \in Logged' => m \in Logged \/ m \notin Leaving
  <2>1. CASE records' = records
    BY <2>1 DEF PaInv, PaTyped, Once, PastFirst, Logged
  <2>2. CASE post[m] = "new" /\ records' = Append(records, m)
    BY <2>2, Appending
  <2> QED BY <2>1, <2>2
<1>2. Shown' = Shown /\ Viewed' = Viewed
  BY DEF Shown, Viewed
<1>3. \A x : x \in Leaving' <=> x \in Leaving
  BY Ways, WaysNext
<1>4. \A x : x \in Coming => x \in Coming' \/ x = m
  BY Ways, WaysNext
<1>5. Once'
  <2>1. \A x \in Texts : post'[x] = "new" => x # m /\ post[x] = "new"
    OBVIOUS
  <2>2. Distinct(thread.recs) /\ (\A r \in Requests : Distinct(pages[r].recs)) /\ (\A x \in Texts : post[x] = "new" => x \notin Logged /\ x \notin Leaving)
        /\ \A x \in Leaving : x \notin Logged
    BY DEF PaInv, Once
  <2>3. \A x \in Texts : post'[x] = "new" => x \notin Logged' /\ x \notin Leaving'
    BY <1>1, <1>3, <2>1, <2>2
  <2>4. \A x \in Leaving' : x \notin Logged'
    BY <1>1, <1>3, <2>2
  <2> QED BY <1>1, <2>2, <2>3, <2>4 DEF Once
<1>6. PastFirst'
  <2>1. \A x \in Old : x \in Texts /\ post'[x] = "done"
    BY DEF PaInv, PastFirst
  <2>2. \A e \in OnWire' : e.type = "message" => e.m \notin Old /\ post'[e.m] # "new"
    <3>1. \A e \in OnWire : e.type = "message" => e.m \notin Old /\ e.m \in Texts /\ post[e.m] # "new"
      <4>1. OnWire \subseteq PaEvent
        BY Sorts DEF PaInv
      <4> QED BY <4>1 DEF PaInv, PastFirst, PaEvent
    <3> QED BY <3>1
  <2> QED BY <1>1, <2>1, <2>2 DEF PastFirst
<1>7. NoGhosts'
  BY <1>1, <1>2, <1>3 DEF PaInv, NoGhosts
<1>8. NewCome'
  BY <1>1, <1>2, <1>4 DEF PaInv, NewCome
<1>9. PastLoaded'
  <2>1. Logged' \cap Old = Logged \cap Old
    BY <1>1
  <2>2. AllGone'
    BY <2>1 DEF PaInv, PastLoaded, AllGone
  <2>3. \A x : Kept(x)' => Kept(x)
    BY <1>2, <2>1 DEF Kept
  <2>4. thread'.before \in Viewed' \union {Start}
    BY <1>2 DEF PaInv, PastLoaded
  <2>6. thread'.loaded => \A x : Kept(x)' /\ AtOrBehind(thread'.before, x) => x \in Shown'
    BY <1>2, <2>3 DEF PaInv, PastLoaded
  <2>7. \A r \in Requests : RequestRight(r)'
    BY <1>2, <2>1, <2>3, RequestsKept
  <2> QED BY <2>2, <2>4, <2>6, <2>7 DEF PastLoaded
<1> QED BY <1>5, <1>6, <1>7, <1>8, <1>9 DEF PaInv

\* A send is recorded, or fails to be: its echo is still to come.
LEMMA RecordSentStep ==
  ASSUME PaInv, NEW m \in Texts, RecordSent(m)
  PROVE  PaInv'
<1>1. /\ post[m] = "new" /\ post' = [post EXCEPT ![m] = "appended"]
      /\ view' = view /\ thread' = thread /\ pages' = pages /\ wiping' = wiping /\ wire' = wire /\ socket' = socket /\ wipes' = wipes
  BY DEF RecordSent
<1>2. m \notin Old
  BY <1>1 DEF PaInv, PastFirst
<1>3. /\ records' = records \/ records' = Append(records, m)
      /\ doubt \subseteq doubt' /\ doubt' \subseteq Texts /\ breaks' \in 0..MaxBreaks
  BY PanelAssumption DEF RecordSent, PaBreak, PaInv, PaTyped
<1>4. PaTyped'
  <2>1. records' \in Seq(Texts)
    <3>1. records \in Seq(Texts)
      BY DEF PaInv, PaTyped
    <3> QED BY <1>3, <3>1, AddIs
  <2>2. post' \in [Texts -> {"new", "appended", "told", "done"}]
    BY <1>1 DEF PaInv, PaTyped
  <2> QED BY <1>1, <1>3, <2>1, <2>2 DEF PaInv, PaTyped
<1>5. post'[m] = "appended" /\ \A x \in Texts : x # m => post'[x] = post[x]
  BY <1>1 DEF PaInv, PaTyped
<1>6. m \in Coming'
  BY <1>5, WaysNext
<1>7. OnWire' = OnWire
  BY <1>1 DEF OnWire
<1> QED BY <1>1, <1>2, <1>3, <1>4, <1>5, <1>6, <1>7, SayingStep

\* The echo of a send takes the place of the call that sends it.
LEMMA TellSentStep ==
  ASSUME PaInv, NEW m \in Texts, TellSent(m)
  PROVE  PaInv'
<1> DEFINE e == [type |-> "message", m |-> m]
<1>1. /\ post[m] = "appended" /\ post' = [post EXCEPT ![m] = "told"] /\ Push(e, {m})
      /\ view' = view /\ thread' = thread /\ pages' = pages /\ wiping' = wiping /\ records' = records /\ socket' = socket
      /\ wipes' = wipes /\ breaks' = breaks
  BY DEF TellSent
<1>2. m \notin Old
  BY <1>1 DEF PaInv, PastFirst
<1>3. e \in PaEvent
  BY DEF PaEvent
<1>4. /\ wire' \in Seq(PaEvent) /\ doubt' \subseteq Texts /\ doubt \subseteq doubt'
      /\ OnWire' = OnWire \union {e} \/ OnWire' = OnWire
  BY <1>1, <1>3, Pushed DEF PaInv
<1>5. PaTyped'
  <2>1. post' \in [Texts -> {"new", "appended", "told", "done"}]
    BY <1>1 DEF PaInv, PaTyped
  <2> QED BY <1>1, <1>4, <2>1 DEF PaInv, PaTyped
<1>6. post'[m] = "told" /\ \A x \in Texts : x # m => post'[x] = post[x]
  BY <1>1 DEF PaInv, PaTyped
<1>7. m \in Coming'
  BY <1>6, WaysNext
<1> QED BY <1>1, <1>2, <1>4, <1>5, <1>6, <1>7, SayingStep

\* The agent's message is in the log and on the socket at once.
LEMMA DeliverTheirsStep ==
  ASSUME PaInv, NEW m \in Texts, DeliverTheirs(m)
  PROVE  PaInv'
<1> DEFINE e == [type |-> "message", m |-> m]
<1>1. /\ post[m] = "new" /\ post' = [post EXCEPT ![m] = "done"] /\ Push(e, {m})
      /\ view' = view /\ thread' = thread /\ pages' = pages /\ wiping' = wiping /\ records' = Append(records, m) /\ socket' = socket
      /\ wipes' = wipes /\ breaks' = breaks
  BY DEF DeliverTheirs
<1>2. m \notin Old
  BY <1>1 DEF PaInv, PastFirst
<1>3. e \in PaEvent /\ e.type = "message" /\ e.m = m
  BY DEF PaEvent
<1>4. /\ wire' \in Seq(PaEvent) /\ doubt' \subseteq Texts /\ doubt \subseteq doubt'
      /\ OnWire' = OnWire \union {e} \/ (OnWire' = OnWire /\ {m} \subseteq doubt')
  BY <1>1, <1>3, Pushed DEF PaInv
<1>5. PaTyped'
  <2>1. post' \in [Texts -> {"new", "appended", "told", "done"}]
    BY <1>1 DEF PaInv, PaTyped
  <2>2. records' \in Seq(Texts)
    <3>1. records \in Seq(Texts)
      BY DEF PaInv, PaTyped
    <3> QED BY <1>1, <3>1, AddIs
  <2> QED BY <1>1, <1>4, <2>1, <2>2 DEF PaInv, PaTyped
<1>6. post'[m] = "done" /\ \A x \in Texts : x # m => post'[x] = post[x]
  BY <1>1 DEF PaInv, PaTyped
<1>7. m \in Coming' \/ m \in doubt'
  <2>1. CASE OnWire' = OnWire \union {e}
    <3>1. e \in OnWire'
      BY <2>1
    <3> HIDE DEF e
    <3> QED BY <1>3, <3>1, WaysNext
  <2> QED BY <1>4, <2>1
<1> QED BY <1>1, <1>2, <1>4, <1>5, <1>6, <1>7, SayingStep

\* What a removal takes from the log leaves.
LEMMA WipeStep ==
  ASSUME PaInv, Wipe
  PROVE  PaInv'
<1>1. PICK w \in {"all"} \union Threads :
        LET ids == {m \in Logged : w \in {"all", ThreadOf[m]}}
        IN wiping' = [what |-> w, ids |-> ids] /\ records' = Keep(records, Texts \ ids)
  BY DEF Wipe
<1> DEFINE ids == {m \in Logged : w \in {"all", ThreadOf[m]}}
<1>2. /\ wiping = NoWipe /\ wiping' = [what |-> w, ids |-> ids] /\ records' = Keep(records, Texts \ ids)
      /\ wipes' \in 0..MaxWipes
      /\ view' = view /\ post' = post /\ thread' = thread /\ pages' = pages /\ wire' = wire /\ socket' = socket
      /\ doubt' = doubt /\ breaks' = breaks
  <2>1. wipes' \in 0..MaxWipes
    BY PanelAssumption DEF Wipe, PaInv, PaTyped
  <2>2. wiping' = [what |-> w, ids |-> ids] /\ records' = Keep(records, Texts \ ids)
    BY <1>1
  <2> HIDE DEF ids
  <2> QED BY <2>1, <2>2 DEF Wipe
<1>3. ids \subseteq Logged /\ (w = "all" => ids = Logged) /\ records \in Seq(Texts) /\ Logged \subseteq Texts
  BY Sorts DEF PaInv, PaTyped
<1> HIDE DEF ids
<1>4. /\ records' \in Seq(Texts) /\ Logged' = Logged \ ids /\ Distinct(records')
      /\ \A a, b \in DOMAIN records' : a < b =>
           \E i, j \in DOMAIN records : i < j /\ records'[a] = records[i] /\ records'[b] = records[j]
  <2>1. Distinct(records)
    BY DEF PaInv, Once
  <2>2. ToSet(records') = ToSet(records) \cap (Texts \ ids)
    BY <1>2, <1>3, KeepIs
  <2>3. Logged' = Logged \ ids
    BY <1>3, <2>2 DEF Logged
  <2>4. Distinct(records')
    BY <1>2, <1>3, <2>1, KeepOnce
  <2> DEFINE k == Keep(records, Texts \ ids)
  <2>5. /\ k \in Seq(Texts)
        /\ \A a, b \in DOMAIN k : a < b => \E i, j \in DOMAIN records : i < j /\ k[a] = records[i] /\ k[b] = records[j]
    BY <1>3, KeepIs
  <2>6. records' = k
    BY <1>2
  <2> HIDE DEF k
  <2> QED BY <2>3, <2>4, <2>5, <2>6
<1>5. PaTyped'
  BY <1>2, <1>3, <1>4 DEF PaInv, PaTyped
<1>6. Shown' = Shown /\ Viewed' = Viewed /\ OnWire' = OnWire
  BY <1>2 DEF Shown, Viewed, OnWire
<1>7. \A x : x \in Leaving' <=> x \in Leaving \/ x \in ids
  BY <1>2, <1>6, Ways, WaysNext DEF NoWipe
<1>8. \A x : x \in Coming' <=> x \in Coming
  BY <1>2, <1>6, Ways, WaysNext
<1>9. Once'
  BY <1>2, <1>3, <1>4, <1>7 DEF PaInv, Once
<1>10. PastFirst'
  <2>1. ASSUME NEW a \in DOMAIN records', NEW b \in DOMAIN records', a < b, records'[b] \in Old PROVE Before(records'[a], records'[b])
    <3>1. PICK i, j \in DOMAIN records : i < j /\ records'[a] = records[i] /\ records'[b] = records[j]
      BY <1>4, <2>1, Zenon
    <3> QED BY <2>1, <3>1 DEF PaInv, PastFirst
  <2> QED BY <1>2, <1>6, <2>1 DEF PaInv, PastFirst
<1>11. NoGhosts'
  BY <1>2, <1>4, <1>6, <1>7 DEF PaInv, NoGhosts
<1>12. NewCome'
  BY <1>2, <1>4, <1>6, <1>8 DEF PaInv, NewCome
<1>13. PastLoaded'
  <2>1. AllGone'
    <3>1. CASE w = "all"
      BY <1>3, <1>4, <3>1 DEF AllGone
    <3>2. CASE w # "all"
      BY <1>2, <1>4, <1>6, <3>2 DEF PaInv, PastLoaded, AllGone
    <3> QED BY <3>1, <3>2
  <2>2. \A x : Kept(x)' => Kept(x)
    BY <1>2, <1>4, <1>6 DEF Kept
  <2>3. thread'.loaded => \A x : Kept(x)' /\ AtOrBehind(thread'.before, x) => x \in Shown'
    BY <1>2, <1>6, <2>2 DEF PaInv, PastLoaded
  <2>4. \A r \in Requests : RequestRight(r)'
    BY <1>2, <1>4, <1>6, <2>2, RequestsKept
  <2>5. thread'.before \in Viewed' \union {Start}
    BY <1>2, <1>4, <1>6 DEF PaInv, PastLoaded
  <2> QED BY <2>1, <2>3, <2>4, <2>5 DEF PastLoaded
<1> QED BY <1>5, <1>9, <1>10, <1>11, <1>12, <1>13 DEF PaInv

\* A step that leaves the log, the screen and the requests as they are, and only moves
\* what leaves or comes, or puts it in doubt.
LEMMA MovingStep ==
  ASSUME PaInv, PaTyped',
         view' = view, records' = records, thread' = thread, pages' = pages, post' = post,
         doubt \subseteq doubt',
         \A x : x \in Leaving' => x \in Leaving,
         \A x : x \in Leaving => x \in Leaving' \/ x \in doubt',
         \A x : x \in Coming => x \in Coming' \/ x \in doubt',
         \A e \in OnWire' : e.type = "message" => e \in OnWire,
         AllGone'
  PROVE  PaInv'
<1>1. Shown' = Shown /\ Viewed' = Viewed /\ Logged' = Logged
  BY DEF Shown, Viewed, Logged
<1>2. Once'
  BY <1>1 DEF PaInv, Once
<1>3. PastFirst'
  BY DEF PaInv, PastFirst
<1>4. NoGhosts'
  BY <1>1 DEF PaInv, NoGhosts
<1>5. NewCome'
  BY <1>1 DEF PaInv, NewCome
<1>6. PastLoaded'
  <2>1. \A x : Kept(x)' => Kept(x)
    BY <1>1 DEF Kept
  <2>2. thread'.loaded => \A x : Kept(x)' /\ AtOrBehind(thread'.before, x) => x \in Shown'
    BY <1>1, <2>1 DEF PaInv, PastLoaded
  <2>3. \A r \in Requests : RequestRight(r)'
    BY <1>1, <2>1, RequestsKept
  <2>4. thread'.before \in Viewed' \union {Start}
    BY <1>1 DEF PaInv, PastLoaded
  <2> QED BY <2>2, <2>3, <2>4 DEF PastLoaded
<1> QED BY <1>2, <1>3, <1>4, <1>5, <1>6 DEF PaInv

\* The event of a removal takes the place of the removal.
LEMMA TellWipeStep ==
  ASSUME PaInv, TellWipe
  PROVE  PaInv'
<1> DEFINE e == [type |-> "history-cleared", ids |-> wiping.ids, all |-> wiping.what = "all"]
<1>1. /\ Push(e, wiping.ids) /\ wiping' = NoWipe
      /\ view' = view /\ records' = records /\ post' = post /\ socket' = socket /\ thread' = thread /\ pages' = pages
      /\ wipes' = wipes /\ breaks' = breaks
  BY DEF TellWipe
<1>2. e \in PaEvent /\ e.type # "message" /\ e.ids = wiping.ids /\ (e.all <=> wiping.what = "all") /\ wiping.ids \in SUBSET Texts
  BY DEF PaEvent, PaInv, PaTyped
<1> HIDE DEF e
<1>3. /\ wire' \in Seq(PaEvent) /\ doubt' \subseteq Texts /\ doubt \subseteq doubt'
      /\ OnWire' = OnWire \union {e} \/ (OnWire' = OnWire /\ wiping.ids \subseteq doubt')
  BY <1>1, <1>2, Pushed DEF PaInv
<1>4. PaTyped'
  <2>1. wiping' \in [what : {"none", "all"} \union Threads, ids : SUBSET Texts]
    BY <1>1 DEF NoWipe
  <2> QED BY <1>1, <1>3, <2>1 DEF PaInv, PaTyped
<1>5. \A x : x \in Leaving' => x \in Leaving
  <2>1. \A x : x \in Leaving' => \E d \in OnWire' : d.type # "message" /\ x \in d.ids
    BY <1>1, WaysNext DEF NoWipe
  <2>2. \A d \in OnWire' : d \in OnWire \/ d = e
    BY <1>3
  <2> QED BY <1>2, <2>1, <2>2, Ways
<1>6. \A x : x \in Leaving => x \in Leaving' \/ x \in doubt'
  BY <1>2, <1>3, Ways, WaysNext
<1>7. \A x : x \in Coming => x \in Coming'
  BY <1>1, <1>3, Ways, WaysNext
<1>8. \A d \in OnWire' : d.type = "message" => d \in OnWire
  BY <1>2, <1>3
<1>9. AllGone'
  <2>1. Logged' = Logged
    BY <1>1 DEF Logged
  <2>2. (\E d \in OnWire' : d.type # "message" /\ d.all) => wiping.what = "all" \/ \E d \in OnWire : d.type # "message" /\ d.all
    BY <1>2, <1>3
  <2> QED BY <1>1, <2>1, <2>2 DEF AllGone, PaInv, PastLoaded, NoWipe
<1> QED BY <1>1, <1>3, <1>4, <1>5, <1>6, <1>7, <1>8, <1>9, MovingStep

\* What was on the socket is in doubt.
LEMMA SocketBreaksStep ==
  ASSUME PaInv, SocketBreaks
  PROVE  PaInv'
<1> DEFINE unshown == UNION {IF i \in Told THEN {wire[i].m} ELSE wire[i].ids : i \in DOMAIN wire}
<1>1. /\ wire' = <<>> /\ doubt' = doubt \union unshown /\ socket' = FALSE /\ breaks' \in 0..MaxBreaks
      /\ view' = view /\ records' = records /\ wiping' = wiping /\ post' = post /\ thread' = thread /\ pages' = pages /\ wipes' = wipes
  BY PanelAssumption DEF SocketBreaks, PaBreak, PaInv, PaTyped
<1>2. \A x : x \in unshown <=> \E e \in OnWire : IF e.type = "message" THEN x = e.m ELSE x \in e.ids
  BY DEF OnWire, Told
<1> HIDE DEF unshown
<1>3. unshown \subseteq Texts
  BY <1>2, Sorts DEF PaInv, PaEvent
<1>4. PaTyped'
  <2>1. wire' \in Seq(PaEvent)
    BY <1>1
  <2>2. doubt' \subseteq Texts /\ socket' \in BOOLEAN
    BY <1>1, <1>3 DEF PaInv, PaTyped
  <2> QED BY <1>1, <2>1, <2>2 DEF PaInv, PaTyped
<1>5. OnWire' = {}
  BY <1>1 DEF OnWire
<1>6. \A x : x \in Leaving' => x \in Leaving
  BY <1>1, <1>5, Ways, WaysNext
<1>7. \A x : x \in Leaving => x \in Leaving' \/ x \in doubt'
  BY <1>1, <1>2, Ways, WaysNext
<1>8. \A x : x \in Coming => x \in Coming' \/ x \in doubt'
  BY <1>1, <1>2, Ways, WaysNext
<1>9. AllGone'
  <2>1. Logged' = Logged
    BY <1>1 DEF Logged
  <2> QED BY <1>1, <1>5, <2>1 DEF AllGone, PaInv, PastLoaded
<1> QED BY <1>1, <1>4, <1>5, <1>6, <1>7, <1>8, <1>9, MovingStep

\* A new socket starts with nothing on it.
LEMMA SocketOpensStep ==
  ASSUME PaInv, SocketOpens
  PROVE  PaInv'
<1>1. /\ socket' = TRUE /\ wire' = wire /\ doubt' = doubt /\ breaks' = breaks
      /\ view' = view /\ records' = records /\ wiping' = wiping /\ post' = post /\ thread' = thread /\ pages' = pages /\ wipes' = wipes
  BY DEF SocketOpens
<1>2. PaTyped'
  BY <1>1 DEF PaInv, PaTyped
<1>3. OnWire' = OnWire /\ Logged' = Logged
  BY <1>1 DEF OnWire, Logged
<1>4. AllGone'
  BY <1>1, <1>3 DEF AllGone, PaInv, PastLoaded
<1>5. (\A x : x \in Leaving' <=> x \in Leaving) /\ \A x : x \in Coming' <=> x \in Coming
  BY <1>1, <1>3, Ways, WaysNext
<1> QED BY <1>1, <1>2, <1>3, <1>4, <1>5, MovingStep

\* The view asks from its own cursor on.
LEMMA AskPageStep ==
  ASSUME PaInv, NEW r \in Requests, AskPage(r)
  PROVE  PaInv'
<1> DEFINE b == IF thread.loaded THEN thread.before ELSE Start
           page == [NoPage EXCEPT !.at = "asked", !.before = b]
<1>1. /\ pages' = [pages EXCEPT ![r] = page]
      /\ view' = view /\ records' = records /\ wiping' = wiping /\ post' = post /\ socket' = socket /\ wire' = wire
      /\ thread' = thread /\ doubt' = doubt /\ wipes' = wipes /\ breaks' = breaks
  BY DEF AskPage
<1>2. /\ page.at = "asked" /\ page.before = b /\ page.recs = <<>> /\ page.next = Start
  <2> HIDE DEF b
  <2>1. page.at = "asked"
    BY DEF NoPage
  <2>2. page.before = b
    BY DEF NoPage
  <2>3. page.recs = <<>> /\ page.next = Start
    BY DEF NoPage
  <2> QED BY <2>1, <2>2, <2>3
<1>3. thread.before \in Cursors /\ Start \in Cursors /\ <<>> \in Seq(Texts)
  BY DEF PaInv, PaTyped, ThreadRecord, Cursors
<1>a. page \in PageRecord
  <2>1. b \in Cursors
    BY <1>3
  <2>2. NoPage \in PageRecord
    BY <1>3 DEF NoPage, PageRecord
  <2> HIDE DEF b
  <2> QED BY <2>1, <2>2 DEF PageRecord
<1> HIDE DEF page
<1>b. pages' \in [Requests -> PageRecord] /\ pages'[r] = page /\ \A q \in Requests : q # r => pages'[q] = pages[q]
  BY <1>1, <1>a, OneRequest DEF PaInv
<1>4. PaTyped'
  BY <1>1, <1>b DEF PaInv, PaTyped
<1>5. Shown' = Shown /\ Viewed' = Viewed /\ Logged' = Logged /\ OnWire' = OnWire
  BY <1>1 DEF Shown, Viewed, Logged, OnWire
<1>6. (\A x : x \in Leaving' <=> x \in Leaving) /\ \A x : x \in Coming' <=> x \in Coming
  BY <1>1, <1>5, Ways, WaysNext
<1>7. Once'
  <2>1. Distinct(<<>>)
    BY DEF Distinct
  <2>2. \A q \in Requests : Distinct(pages'[q].recs)
    BY <1>2, <1>b, <2>1 DEF PaInv, Once
  <2> QED BY <1>1, <1>5, <1>6, <2>2 DEF PaInv, Once
<1>8. PastFirst'
  BY <1>1, <1>5 DEF PaInv, PastFirst
<1>9. NoGhosts'
  BY <1>1, <1>5, <1>6 DEF PaInv, NoGhosts
<1>10. NewCome'
  BY <1>1, <1>5, <1>6 DEF PaInv, NewCome
<1>11. PastLoaded'
  <2>1. \A x : Kept(x)' => Kept(x)
    BY <1>1, <1>5 DEF Kept
  <2>2. AllGone'
    BY <1>1, <1>5 DEF PaInv, PastLoaded, AllGone
  <2>3. thread'.loaded => \A x : Kept(x)' /\ AtOrBehind(thread'.before, x) => x \in Shown'
    BY <1>1, <1>5, <2>1 DEF PaInv, PastLoaded
  <2>4. thread'.before \in Viewed' \union {Start}
    BY <1>1, <1>5 DEF PaInv, PastLoaded
  <2>5. RequestRight(r)'
    <3>1. page.before \in Viewed' \union {Start}
      BY <1>2, <1>5 DEF PaInv, PastLoaded
    <3>2. page.before = Start \/ \A x : Kept(x)' /\ AtOrBehind(page.before, x) => x \in Shown'
      BY <1>1, <1>2, <2>3
    <3> QED BY <1>2, <1>b, <3>1, <3>2 DEF RequestRight
  <2>6. ASSUME NEW q \in Requests, q # r PROVE RequestRight(q)'
    <3>1. RequestRight(q) /\ pages'[q] = pages[q]
      BY <1>b, <2>6 DEF PaInv, PastLoaded
    <3> QED BY <1>5, <2>1, <3>1, RequestKept
  <2> QED BY <2>2, <2>3, <2>4, <2>5, <2>6 DEF PastLoaded
<1> QED BY <1>4, <1>7, <1>8, <1>9, <1>10, <1>11 DEF PaInv

\* Before is an order of the past: nobody is before himself, by way of another.
LEMMA NotBothWays ==
  ASSUME NEW a, NEW b
  PROVE  ~(Before(a, b) /\ Before(b, a)) /\ ~Before(a, a)
<1>1. /\ DOMAIN Past = 1..Len(Past) /\ Len(Past) \in Nat
      /\ \A i, j \in DOMAIN Past : Past[i] = Past[j] => i = j
  BY PanelAssumption
<1>2. ~(Before(a, b) /\ Before(b, a))
  <2>1. SUFFICES ASSUME Before(a, b), Before(b, a) PROVE FALSE
    OBVIOUS
  <2>2. PICK i, j \in DOMAIN Past : i < j /\ Past[i] = a /\ Past[j] = b
    BY <2>1 DEF Before
  <2>3. PICK k, l \in DOMAIN Past : k < l /\ Past[k] = b /\ Past[l] = a
    BY <2>1 DEF Before
  <2>4. k = j /\ l = i
    BY <1>1, <2>2, <2>3
  <2> QED BY <1>1, <2>2, <2>3, <2>4
<1>3. ~Before(a, a)
  BY <1>1 DEF Before
<1> QED BY <1>2, <1>3

\* The answer to the request for the newest page, or for the page before a cursor that all
\* is shown for: with what is shown, all of the past from its own cursor on.
LEMMA AnswerBrings ==
  ASSUME PaInv, NEW r \in Requests, pages[r].at = "asked", pages[r].before \in Logged \union {Start},
         NEW m, Kept(m),
         LET s == Slice(Keep(records, Viewed), pages[r].before) IN AtOrBehind(s.next, m)
  PROVE  m \in Shown \/ m \in ToSet(Slice(Keep(records, Viewed), pages[r].before).recs)
<1> DEFINE f == Keep(records, Viewed)
           s == Slice(f, pages[r].before)
           b == pages[r].before
<1>0. RequestRight(r)
  BY DEF PaInv, PastLoaded
<1>1. /\ records \in Seq(Texts) /\ Distinct(records) /\ b \in Cursors
      /\ \A i, j \in DOMAIN records : i < j /\ records[j] \in Old => Before(records[i], records[j])
  BY DEF PaInv, PaTyped, Once, PastFirst, PageRecord
<1>2. /\ f \in Seq(Texts) /\ ToSet(f) = Logged \cap Viewed /\ Distinct(f)
      /\ \A i, j \in DOMAIN f : i < j => \E k, l \in DOMAIN records : k < l /\ f[i] = records[k] /\ f[j] = records[l]
  BY <1>1, KeepIs, KeepOnce DEF Logged
<1> HIDE DEF f
<1>3. /\ s.recs \in Seq(Texts) /\ s.next \in ToSet(f) \union {Start}
      /\ \A k \in 1..Len(f) :
           b = Start \/ (\E p \in 1..Len(f) : f[p] = b /\ k < p) =>
             f[k] \in ToSet(s.recs) \/ \E q \in 1..Len(f) : s.next = f[q] /\ k < q
  BY <1>1, <1>2, SliceIs
<1>4. Len(f) \in Nat /\ DOMAIN f = 1..Len(f) /\ (\A i \in 1..Len(f) : f[i] \in Texts) /\ \A x : x \in ToSet(f) <=> \E i \in 1..Len(f) : f[i] = x
  BY <1>2, PlacesIn
<1> HIDE DEF s
<1>5. m \in Logged /\ m \in Viewed /\ m \in Old /\ AtOrBehind(s.next, m)
  BY DEF Kept, s, f
<1>6. PICK k \in 1..Len(f) : f[k] = m
  BY <1>2, <1>4, <1>5
<1>7. \A i, j \in 1..Len(f) : i < j /\ f[j] \in Old => Before(f[i], f[j])
  <2>1. SUFFICES ASSUME NEW i \in 1..Len(f), NEW j \in 1..Len(f), i < j, f[j] \in Old PROVE Before(f[i], f[j])
    OBVIOUS
  <2>2. PICK c, d \in DOMAIN records : c < d /\ f[i] = records[c] /\ f[j] = records[d]
    BY <1>2, <1>4, <2>1
  <2> QED BY <1>1, <2>1, <2>2
<1>8. \A q \in 1..Len(f) : s.next = f[q] => ~(k < q)
  <2>1. SUFFICES ASSUME NEW q \in 1..Len(f), s.next = f[q], k < q PROVE FALSE
    OBVIOUS
  <2>2. s.next # Start /\ s.next # m
    <3>1. Start \notin Texts
      BY Sorts DEF PaInv
    <3>2. f[q] \in Texts /\ f[q] # f[k]
      <4>1. q # k
        BY <1>4, <2>1
      <4> QED BY <1>2, <1>4, <1>6, <2>1, <4>1 DEF Distinct
    <3> QED BY <1>6, <2>1, <3>1, <3>2
  <2>3. Before(s.next, m)
    BY <1>5, <2>2 DEF AtOrBehind
  <2>4. s.next \in Old
    BY <2>3 DEF Before, Old, ToSet
  <2>5. Before(m, s.next)
    BY <1>6, <1>7, <2>1, <2>4
  <2> QED BY <2>3, <2>5, NotBothWays
<1>9. CASE b = Start \/ \E p \in 1..Len(f) : f[p] = b /\ k < p
  <2>1. f[k] \in ToSet(s.recs) \/ \E q \in 1..Len(f) : s.next = f[q] /\ k < q
    BY <1>3, <1>9
  <2> QED BY <1>6, <1>8, <2>1 DEF s, f
<1>10. CASE b # Start /\ ~\E p \in 1..Len(f) : f[p] = b /\ k < p
  <2>1. b \in Logged /\ b \in Viewed
    BY <1>0, <1>10 DEF RequestRight
  <2>2. PICK p \in 1..Len(f) : f[p] = b
    BY <1>2, <1>4, <2>1
  <2>3. p = k \/ p < k
    BY <1>4, <1>10, <2>2
  <2>4. b = m \/ Before(b, m)
    BY <1>5, <1>6, <1>7, <2>2, <2>3
  <2>5. AtOrBehind(b, m) /\ Logged \cap Old # {}
    BY <1>5, <2>4 DEF AtOrBehind
  <2> QED BY <1>0, <1>10, <2>5 DEF RequestRight
<1> QED BY <1>9, <1>10

\* The answer brings a stretch of the log that reaches to that cursor.
LEMMA AnswerPageStep ==
  ASSUME PaInv, NEW r \in Requests, AnswerPage(r)
  PROVE  PaInv'
<1> DEFINE f == Keep(records, Viewed)
           b == pages[r].before
           s == Slice(f, b)
           known == b \in Logged \union {Start}
           page == [at |-> "answered", before |-> b, recs |-> s.recs, next |-> s.next, known |-> known]
<1>1. /\ pages[r].at = "asked"
      /\ pages' = [pages EXCEPT ![r] = page]
      /\ view' = view /\ records' = records /\ wiping' = wiping /\ post' = post /\ socket' = socket /\ wire' = wire
      /\ thread' = thread /\ doubt' = doubt /\ wipes' = wipes /\ breaks' = breaks
  BY DEF AnswerPage
<1>2. /\ records \in Seq(Texts) /\ Distinct(records) /\ b \in Cursors
  BY DEF PaInv, PaTyped, Once, PageRecord
<1>3. f \in Seq(Texts) /\ ToSet(f) = Logged \cap Viewed /\ Distinct(f)
  BY <1>2, KeepIs, KeepOnce DEF Logged
<1>4. s.recs \in Seq(Texts) /\ Distinct(s.recs) /\ s.next \in (Logged \cap Viewed) \union {Start}
  <2> HIDE DEF f
  <2> QED BY <1>2, <1>3, SliceIs
<1>5. /\ page.at = "answered" /\ page.before = b /\ page.recs = s.recs /\ page.next = s.next
      /\ (page.known <=> b \in Logged \union {Start}) /\ page.known \in BOOLEAN
  <2>1. known \in BOOLEAN
    OBVIOUS
  <2> HIDE DEF s, f, b, known
  <2>2. page.at = "answered" /\ page.before = b /\ page.recs = s.recs /\ page.next = s.next /\ page.known = known
    OBVIOUS
  <2> QED BY <2>1, <2>2 DEF known
<1>6. \A m : Kept(m) /\ AtOrBehind(s.next, m) /\ b \in Logged \union {Start} => m \in Shown \/ m \in ToSet(s.recs)
  BY <1>1, AnswerBrings
<1>a. page \in PageRecord
  <2> HIDE DEF s, f, b
  <2>1. s.next \in Cursors
    BY <1>4, Sorts DEF PaInv
  <2> QED BY <1>2, <1>4, <2>1 DEF PageRecord
<1>b. b \in Viewed \union {Start}
  BY DEF PaInv, PastLoaded, RequestRight
<1> HIDE DEF page, known, s, f, b
<1>c. pages' \in [Requests -> PageRecord] /\ pages'[r] = page /\ \A q \in Requests : q # r => pages'[q] = pages[q]
  BY <1>1, <1>a, OneRequest DEF PaInv
<1>7. PaTyped'
  BY <1>1, <1>c DEF PaInv, PaTyped
<1>8. Shown' = Shown /\ Viewed' = Viewed /\ Logged' = Logged /\ OnWire' = OnWire
  BY <1>1 DEF Shown, Viewed, Logged, OnWire
<1>9. (\A x : x \in Leaving' <=> x \in Leaving) /\ \A x : x \in Coming' <=> x \in Coming
  BY <1>1, <1>8, Ways, WaysNext
<1>10. Once'
  <2>1. \A q \in Requests : Distinct(pages'[q].recs)
    BY <1>4, <1>5, <1>c DEF PaInv, Once
  <2> QED BY <1>1, <1>8, <1>9, <2>1 DEF PaInv, Once
<1>11. PastFirst'
  BY <1>1, <1>8 DEF PaInv, PastFirst
<1>12. NoGhosts'
  BY <1>1, <1>8, <1>9 DEF PaInv, NoGhosts
<1>13. NewCome'
  BY <1>1, <1>8, <1>9 DEF PaInv, NewCome
<1>14. PastLoaded'
  <2>1. \A x : Kept(x)' <=> Kept(x)
    BY <1>1, <1>8 DEF Kept
  <2>2. AllGone'
    BY <1>1, <1>8 DEF PaInv, PastLoaded, AllGone
  <2>3. thread'.loaded => \A x : Kept(x)' /\ AtOrBehind(thread'.before, x) => x \in Shown'
    BY <1>1, <1>8, <2>1 DEF PaInv, PastLoaded
  <2>4. thread'.before \in Viewed' \union {Start}
    BY <1>1, <1>8 DEF PaInv, PastLoaded
  <2>5. RequestRight(r)'
    <3>1. page.known => \A x : Kept(x)' /\ AtOrBehind(page.next, x) => x \in Shown' \/ x \in ToSet(page.recs)
      BY <1>5, <1>6, <1>8, <2>1
    <3>2. {page.before, page.next} \subseteq Viewed' \union {Start}
      BY <1>4, <1>5, <1>8, <1>b
    <3> QED BY <1>5, <1>c, <3>1, <3>2 DEF RequestRight
  <2>6. ASSUME NEW q \in Requests, q # r PROVE RequestRight(q)'
    <3>1. RequestRight(q) /\ pages'[q] = pages[q]
      BY <1>c, <2>6 DEF PaInv, PastLoaded
    <3> QED BY <1>8, <2>1, <3>1, RequestKept
  <2> QED BY <2>2, <2>3, <2>4, <2>5, <2>6 DEF PastLoaded
<1> QED BY <1>7, <1>10, <1>11, <1>12, <1>13, <1>14 DEF PaInv

\* The page closes the gap to the new cursor.  What is gone since is in doubt.
LEMMA PageArrivesStep ==
  ASSUME PaInv, NEW r \in Requests, PageArrives(r)
  PROVE  PaInv'
<1> DEFINE page == pages[r]
           k == Keep(page.recs, Texts \ Shown)
           got == ToSet(page.recs)
           unshown == IF page.known THEN {} ELSE (Logged \ Shown) \ Coming
<1>1. /\ page.at = "answered" /\ pages' = [pages EXCEPT ![r] = NoPage]
      /\ thread' = [recs |-> k \o thread.recs, loaded |-> TRUE, before |-> page.next, there |-> TRUE]
      /\ doubt' = (doubt \ Logged) \union (doubt \ got) \union ((got \ Logged) \ Leaving) \union unshown
      /\ view' = view /\ records' = records /\ wiping' = wiping /\ post' = post /\ socket' = socket /\ wire' = wire
      /\ wipes' = wipes /\ breaks' = breaks
  BY DEF PageArrives, HistoryPage, Shown, Ghosts
<1>2. thread.recs \in Seq(Texts) /\ page.recs \in Seq(Texts) /\ Distinct(thread.recs) /\ Distinct(page.recs)
      /\ page.next \in Cursors /\ Shown \subseteq Texts /\ got \subseteq Texts /\ Logged \subseteq Texts /\ doubt \subseteq Texts
  BY Sorts DEF PaInv, PaTyped, Once, PageRecord
<1>3. k \in Seq(Texts) /\ ToSet(k) = got \cap (Texts \ Shown) /\ Distinct(k)
  BY <1>2, KeepIs, KeepOnce
<1> HIDE DEF k
<1>4. /\ k \o thread.recs \in Seq(Texts) /\ ToSet(k \o thread.recs) = Shown \union got /\ Distinct(k \o thread.recs)
  <2>1. ToSet(k) \cap ToSet(thread.recs) = {}
    BY <1>3 DEF Shown
  <2>2. /\ k \o thread.recs \in Seq(Texts) /\ ToSet(k \o thread.recs) = ToSet(k) \union Shown /\ Distinct(k \o thread.recs)
    BY <1>2, <1>3, <2>1, JoinIs DEF Shown
  <2>3. ToSet(k) \union Shown = Shown \union got
    BY <1>2, <1>3
  <2> QED BY <2>2, <2>3
<1>5. Shown' = Shown \union got /\ thread'.recs = k \o thread.recs /\ thread'.loaded = TRUE /\ thread'.before = page.next /\ thread'.there = TRUE
  BY <1>1, <1>4 DEF Shown
<1>a. NoPage \in PageRecord
  <2>1. Start \in Cursors /\ <<>> \in Seq(Texts)
    BY DEF Cursors
  <2> QED BY <2>1 DEF NoPage, PageRecord
<1>b. pages' \in [Requests -> PageRecord] /\ pages'[r] = NoPage /\ \A q \in Requests : q # r => pages'[q] = pages[q]
  BY <1>1, <1>a, OneRequest DEF PaInv
<1>6. NoPage.at = "none" /\ NoPage.before = Start /\ NoPage.next = Start /\ NoPage.recs = <<>>
  BY DEF NoPage
<1>7. Viewed' = Viewed /\ Logged' = Logged /\ OnWire' = OnWire
  BY <1>1 DEF Viewed, Logged, OnWire
<1>8. (\A x : x \in Leaving' <=> x \in Leaving) /\ \A x : x \in Coming' <=> x \in Coming
  BY <1>1, <1>7, Ways, WaysNext
<1>9. \A x : x \notin doubt' =>
        /\ x \notin doubt \/ (x \in Logged /\ x \in got)
        /\ x \in got => x \in Logged \/ x \in Leaving
        /\ ~page.known => x \notin Logged \/ x \in Shown \/ x \in Coming
  BY <1>1
<1>10. PaTyped'
  <2>2. thread' \in ThreadRecord
    BY <1>1, <1>2, <1>4 DEF ThreadRecord
  <2>3. doubt' \subseteq Texts
    BY <1>1, <1>2
  <2> QED BY <1>1, <1>b, <2>2, <2>3 DEF PaInv, PaTyped
<1> HIDE DEF unshown
<1>11. Once'
  <2>1. Distinct(<<>>)
    BY DEF Distinct
  <2>2. (\A q \in Requests : Distinct(pages'[q].recs)) /\ Distinct(thread'.recs)
    BY <1>4, <1>5, <1>6, <1>b, <2>1 DEF PaInv, Once
  <2> QED BY <1>1, <1>7, <1>8, <2>2 DEF PaInv, Once
<1>12. PastFirst'
  BY <1>1, <1>7 DEF PaInv, PastFirst
<1>13. NoGhosts'
  <2>1. ASSUME NEW x \in Shown' \ doubt' PROVE x \in Logged \/ x \in Leaving
    BY <1>5, <1>9, <2>1 DEF PaInv, NoGhosts
  <2> QED BY <1>5, <1>7, <1>8, <2>1 DEF NoGhosts
<1>14. NewCome'
  <2>1. ASSUME NEW x \in (Logged \cap Viewed) \ doubt' PROVE x \in Old \/ x \in Shown' \/ x \in Coming
    BY <1>5, <1>9, <2>1 DEF PaInv, NewCome
  <2> QED BY <1>7, <1>8, <2>1 DEF NewCome
<1>15. PastLoaded'
  <2>1. \A x \in Old : x \notin Coming
    <3>1. \A x \in Old : post[x] = "done" /\ \A e \in OnWire : e.type = "message" => e.m # x
      BY DEF PaInv, PastFirst
    <3> QED BY <3>1, Ways
  <2>2. AllGone'
    BY <1>1, <1>7 DEF PaInv, PastLoaded, AllGone
  <2>3. ASSUME NEW x, Kept(x)', AtOrBehind(page.next, x) PROVE x \in Shown'
    <3>1. x \in Logged /\ x \in Viewed /\ x \in Old /\ x \notin doubt'
      BY <1>7, <2>3 DEF Kept
    <3>2. CASE x \in got
      BY <1>5, <3>2
    <3>3. CASE x \notin got /\ page.known
      <4>1. Kept(x)
        BY <1>9, <3>1, <3>3 DEF Kept
      <4>2. RequestRight(r)
        BY DEF PaInv, PastLoaded
      <4> QED BY <1>1, <1>5, <2>3, <3>3, <4>1, <4>2 DEF RequestRight
    <3>4. CASE ~page.known
      BY <1>5, <1>9, <2>1, <3>1, <3>4
    <3> QED BY <3>2, <3>3, <3>4
  <2>4. thread'.before \in Viewed' \union {Start}
    BY <1>5, <1>7 DEF PaInv, PastLoaded, RequestRight
  <2>5. \A x : Kept(x)' /\ AtOrBehind(thread'.before, x) => x \in Shown'
    BY <1>5, <2>3
  <2>6. RequestRight(r)'
    BY <1>6, <1>b DEF RequestRight
  <2>7. ASSUME NEW q \in Requests, q # r PROVE RequestRight(q)'
    <3>1. RequestRight(q)
      BY DEF PaInv, PastLoaded
    <3>2. ASSUME pages[q].at = "asked", Logged \cap Old # {}, pages[q].before # Start,
                 NEW x, Kept(x)', AtOrBehind(pages[q].before, x)
          PROVE  x \in Shown'
      <4>1. CASE x \in got
        BY <1>5, <4>1
      <4>2. CASE x \notin got
        <5>1. Kept(x)
          BY <1>7, <1>9, <3>2, <4>2 DEF Kept
        <5> QED BY <1>5, <3>1, <3>2, <5>1 DEF RequestRight
      <4> QED BY <4>1, <4>2
    <3>3. ASSUME pages[q].at = "answered", pages[q].known, NEW x, Kept(x)', AtOrBehind(pages[q].next, x)
          PROVE  x \in Shown' \/ x \in ToSet(pages[q].recs)
      <4>1. CASE x \in got
        BY <1>5, <4>1
      <4>2. CASE x \notin got
        <5>1. Kept(x)
          BY <1>7, <1>9, <3>3, <4>2 DEF Kept
        <5> QED BY <1>5, <3>1, <3>3, <5>1 DEF RequestRight
      <4> QED BY <4>1, <4>2
    <3>4. pages'[q] = pages[q]
      BY <1>b, <2>7
    <3> QED BY <1>7, <3>1, <3>2, <3>3, <3>4 DEF RequestRight
  <2> QED BY <1>5, <2>2, <2>4, <2>5, <2>6, <2>7 DEF PastLoaded
<1> QED BY <1>10, <1>11, <1>12, <1>13, <1>14, <1>15 DEF PaInv

\* A record is filed: once in the thread, if it belongs there.
LEMMA WithRecordIs ==
  ASSUME PaInv, NEW m \in Texts, WithRecord(m)
  PROVE  /\ thread' \in ThreadRecord /\ Distinct(thread'.recs) /\ Shown' = Shown \union ({m} \cap Viewed)
         /\ thread'.loaded = thread.loaded /\ thread'.before = thread.before
         /\ ~thread'.there => Shown' = {}
<1>1. thread \in ThreadRecord /\ thread.recs \in Seq(Texts) /\ Distinct(thread.recs) /\ (~thread.there => Shown = {})
  BY DEF PaInv, PaTyped, ThreadRecord, Once, NoGhosts
<1>2. CASE m \in Viewed \ Shown
  <2> DEFINE r == Append(thread.recs, m)
  <2>1. thread' = [thread EXCEPT !.recs = r, !.there = TRUE]
    BY <1>2 DEF WithRecord
  <2>2. r \in Seq(Texts) /\ ToSet(r) = Shown \union {m} /\ Distinct(r)
    BY <1>1, <1>2, AddIs DEF Shown
  <2> HIDE DEF r
  <2>3. thread' \in ThreadRecord /\ thread'.recs = r /\ thread'.loaded = thread.loaded /\ thread'.before = thread.before /\ thread'.there = TRUE
    BY <1>1, <2>1, <2>2 DEF ThreadRecord
  <2>4. Shown' = ToSet(r)
    BY <2>3 DEF Shown
  <2> QED BY <1>2, <2>2, <2>3, <2>4
<1>3. CASE m \notin Viewed \ Shown
  <2>1. thread' = thread
    BY <1>3 DEF WithRecord
  <2>2. Shown' = Shown
    BY <2>1 DEF Shown
  <2> QED BY <1>1, <1>3, <2>1, <2>2
<1> QED BY <1>2, <1>3

\* An answer or an event files its record.
LEMMA FilingStep ==
  ASSUME PaInv, PaTyped', NEW m \in Texts \ Old, WithRecord(m),
         view' = view, records' = records, pages' = pages, wiping' = wiping,
         doubt' = doubt \union Ghosts({m}),
         \A x \in Texts : x # m => post'[x] = post[x],
         post[m] # "new" /\ post'[m] # "new",
         \A e \in OnWire' : e \in OnWire,
         \A e \in OnWire : e \in OnWire' \/ e = [type |-> "message", m |-> m]
  PROVE  PaInv'
<1>1. /\ Distinct(thread'.recs) /\ Shown' = Shown \union ({m} \cap Viewed)
      /\ thread'.loaded = thread.loaded /\ thread'.before = thread.before
      /\ ~thread'.there => Shown' = {}
  BY WithRecordIs
<1>2. Viewed' = Viewed /\ Logged' = Logged
  BY DEF Viewed, Logged
<1>3. \A x : x \in Leaving' <=> x \in Leaving
  BY Ways, WaysNext
<1>4. \A x : x \in Coming => x \in Coming' \/ x = m
  BY Ways, WaysNext
<1>5. \A x : x \notin doubt' => x \notin doubt /\ (x = m => x \in Logged \/ x \in Leaving)
  BY DEF Ghosts
<1>6. Once'
  BY <1>1, <1>2, <1>3 DEF PaInv, Once
<1>7. PastFirst'
  <2>1. \A e \in OnWire : e.type = "message" => e.m \notin Old /\ e.m \in Texts /\ post[e.m] # "new"
    <3>1. OnWire \subseteq PaEvent
      BY Sorts DEF PaInv
    <3> QED BY <3>1 DEF PaInv, PastFirst, PaEvent
  <2>2. \A e \in OnWire' : e.type = "message" => e.m \notin Old /\ post'[e.m] # "new"
    BY <2>1
  <2> QED BY <2>2 DEF PaInv, PastFirst
<1>8. NoGhosts'
  BY <1>1, <1>2, <1>3, <1>5 DEF PaInv, NoGhosts
<1>9. NewCome'
  BY <1>1, <1>2, <1>4, <1>5 DEF PaInv, NewCome
<1>10. PastLoaded'
  <2>1. \A x : Kept(x)' => Kept(x)
    BY <1>2, <1>5 DEF Kept
  <2>2. AllGone'
    BY <1>2 DEF PaInv, PastLoaded, AllGone
  <2>3. thread'.loaded => \A x : Kept(x)' /\ AtOrBehind(thread'.before, x) => x \in Shown'
    BY <1>1, <2>1 DEF PaInv, PastLoaded
  <2>4. \A r \in Requests : RequestRight(r)'
    BY <1>1, <1>2, <2>1, RequestsKept
  <2>5. thread'.before \in Viewed' \union {Start}
    BY <1>1, <1>2 DEF PaInv, PastLoaded
  <2> QED BY <2>2, <2>3, <2>4, <2>5 DEF PastLoaded
<1> QED BY <1>6, <1>7, <1>8, <1>9, <1>10 DEF PaInv

\* The answer to a send files its record.
LEMMA SendReturnsStep ==
  ASSUME PaInv, NEW m \in Texts, SendReturns(m)
  PROVE  PaInv'
<1>1. /\ post[m] = "told" /\ post' = [post EXCEPT ![m] = "done"] /\ WithRecord(m) /\ doubt' = doubt \union Ghosts({m})
      /\ view' = view /\ records' = records /\ wiping' = wiping /\ socket' = socket /\ wire' = wire /\ pages' = pages
      /\ wipes' = wipes /\ breaks' = breaks
  BY DEF SendReturns
<1>2. m \notin Old
  BY <1>1 DEF PaInv, PastFirst
<1>3. post'[m] = "done" /\ \A x \in Texts : x # m => post'[x] = post[x]
  BY <1>1 DEF PaInv, PaTyped
<1>4. PaTyped'
  <2>1. post' \in [Texts -> {"new", "appended", "told", "done"}]
    BY <1>1 DEF PaInv, PaTyped
  <2>2. thread' \in ThreadRecord
    BY <1>1, WithRecordIs
  <2>3. doubt' \subseteq Texts
    BY <1>1 DEF PaInv, PaTyped, Ghosts
  <2> QED BY <1>1, <2>1, <2>2, <2>3 DEF PaInv, PaTyped
<1>5. OnWire' = OnWire
  BY <1>1 DEF OnWire
<1> QED BY <1>1, <1>2, <1>3, <1>4, <1>5, FilingStep

\* Some of a thread leaves it, and an event of the socket is done with: what is gone
\* from the screen has left the log, or is in doubt.
LEMMA ClearingStep ==
  ASSUME PaInv, PaTyped', NEW e \in OnWire, e.type # "message",
         view' = view, records' = records, pages' = pages, wiping' = wiping, post' = post,
         doubt \subseteq doubt',
         \A d \in OnWire' : d \in OnWire,
         \A d \in OnWire : d \in OnWire' \/ d = e,
         Distinct(thread'.recs), Shown' \subseteq Shown,
         ~thread'.there => Shown' = {},
         \A x \in Shown' \ doubt' : x \notin e.ids,
         \A x \in Shown \ Shown' : x \in doubt' \/ x \notin Logged,
         \/ thread'.loaded = thread.loaded /\ thread'.before = thread.before
         \/ Logged \cap Old = {} /\ thread'.before = Start
  PROVE  PaInv'
<1>1. Viewed' = Viewed /\ Logged' = Logged
  BY DEF Viewed, Logged
<1>2. (\A x : x \in Leaving' => x \in Leaving) /\ \A x : x \in Leaving => x \in Leaving' \/ x \in e.ids
  BY Ways, WaysNext
<1>3. \A x : x \in Coming => x \in Coming'
  BY Ways, WaysNext
<1>4. Once'
  BY <1>1, <1>2 DEF PaInv, Once
<1>5. PastFirst'
  BY DEF PaInv, PastFirst
<1>6. NoGhosts'
  BY <1>1, <1>2 DEF PaInv, NoGhosts
<1>7. NewCome'
  BY <1>1, <1>3 DEF PaInv, NewCome
<1>8. PastLoaded'
  <2>1. \A x : Kept(x)' => Kept(x) /\ x \in Logged /\ x \in Old /\ x \notin doubt'
    BY <1>1 DEF Kept
  <2>2. AllGone'
    BY <1>1 DEF PaInv, PastLoaded, AllGone
  <2>3. ASSUME NEW x, Kept(x)', x \in Shown PROVE x \in Shown'
    BY <2>1, <2>3
  <2>4. thread'.loaded => \A x : Kept(x)' /\ AtOrBehind(thread'.before, x) => x \in Shown'
    BY <2>1, <2>3 DEF PaInv, PastLoaded
  <2>5. \A r \in Requests : RequestRight(r)'
    BY <1>1, <2>1, <2>3, RequestsKept
  <2>6. thread'.before \in Viewed' \union {Start}
    BY <1>1 DEF PaInv, PastLoaded
  <2> QED BY <2>2, <2>4, <2>5, <2>6 DEF PastLoaded
<1> QED BY <1>4, <1>5, <1>6, <1>7, <1>8 DEF PaInv

\* An event files its record, or takes records off.
LEMMA EventArrivesStep ==
  ASSUME PaInv, EventArrives
  PROVE  PaInv'
<1> DEFINE e == Head(wire)
<1>1. /\ wire # <<>> /\ wire' = Tail(wire)
      /\ \/ e.type = "message" /\ WithRecord(e.m) /\ doubt' = doubt \union Ghosts({e.m})
         \/ /\ e.type = "history-cleared" /\ WithCleared(e)
            /\ doubt' = doubt \union (IF ~e.all THEN {} ELSE IF view = "self" THEN e.ids ELSE Shown \ e.ids)
      /\ view' = view /\ records' = records /\ wiping' = wiping /\ post' = post /\ socket' = socket /\ pages' = pages
      /\ wipes' = wipes /\ breaks' = breaks
  BY DEF EventArrives
<1>2. /\ e \in OnWire /\ wire' \in Seq(PaEvent)
      /\ \A d \in OnWire' : d \in OnWire
      /\ \A d \in OnWire : d \in OnWire' \/ d = e
  <2>1. wire \in Seq(PaEvent) /\ wire # <<>>
    BY <1>1 DEF PaInv, PaTyped
  <2>2. /\ e = wire[1] /\ Len(wire) \in Nat /\ Len(wire) >= 1 /\ DOMAIN wire = 1..Len(wire)
        /\ wire' \in Seq(PaEvent) /\ DOMAIN wire' = 1..(Len(wire) - 1)
        /\ \A i \in 1..(Len(wire) - 1) : wire'[i] = wire[i + 1]
    <3>1. Len(wire) \in Nat /\ Len(wire) >= 1 /\ DOMAIN wire = 1..Len(wire) /\ e = wire[1]
      BY <2>1, EmptySeq
    <3>2. Tail(wire) \in Seq(PaEvent) /\ Len(Tail(wire)) = Len(wire) - 1 /\ \A i \in 1..(Len(wire) - 1) : Tail(wire)[i] = wire[i + 1]
      BY <2>1, <3>1, HeadTailProperties
    <3>3. DOMAIN Tail(wire) = 1..(Len(wire) - 1)
      BY <3>2
    <3> QED BY <1>1, <3>1, <3>2, <3>3
  <2> HIDE DEF e
  <2>3. e \in OnWire
    BY <2>2 DEF OnWire
  <2>4. \A i \in 1..(Len(wire) - 1) : i + 1 \in 1..Len(wire)
    BY <2>2
  <2>5. \A i \in 1..Len(wire) : i = 1 \/ (i - 1 \in 1..(Len(wire) - 1) /\ (i - 1) + 1 = i)
    BY <2>2
  <2>6. \A d \in OnWire' : d \in OnWire
    BY <2>2, <2>4 DEF OnWire
  <2>7. \A d \in OnWire : d \in OnWire' \/ d = e
    <3>1. SUFFICES ASSUME NEW d \in OnWire PROVE d \in OnWire' \/ d = e
      OBVIOUS
    <3>2. PICK i \in 1..Len(wire) : wire[i] = d
      BY <2>2 DEF OnWire
    <3>3. CASE i = 1
      BY <2>2, <3>2, <3>3
    <3>4. CASE i # 1
      <4>1. i - 1 \in 1..(Len(wire) - 1) /\ (i - 1) + 1 = i
        BY <2>5, <3>4
      <4>2. wire'[i - 1] = d
        BY <2>2, <3>2, <4>1
      <4> QED BY <2>2, <4>1, <4>2 DEF OnWire
    <3> QED BY <3>3, <3>4
  <2> QED BY <2>2, <2>3, <2>6, <2>7
<1> HIDE DEF e
<1>3. e \in PaEvent
  BY <1>2, Sorts DEF PaInv
<1>4. CASE e.type = "message"
  <2>1. e.m \in Texts /\ e = [type |-> "message", m |-> e.m]
    BY <1>3, <1>4 DEF PaEvent
  <2>2. e.m \notin Old /\ post[e.m] # "new"
    BY <1>2, <1>4 DEF PaInv, PastFirst
  <2>3. WithRecord(e.m) /\ doubt' = doubt \union Ghosts({e.m})
    BY <1>1, <1>4
  <2>4. PaTyped'
    <3>1. thread' \in ThreadRecord
      BY <2>1, <2>3, WithRecordIs
    <3>2. doubt' \subseteq Texts
      BY <2>1, <2>3 DEF PaInv, PaTyped, Ghosts
    <3> QED BY <1>1, <1>2, <3>1, <3>2 DEF PaInv, PaTyped
  <2> DEFINE m == e.m
  <2>5. /\ m \in Texts \ Old /\ WithRecord(m) /\ doubt' = doubt \union Ghosts({m})
        /\ post[m] # "new" /\ post'[m] # "new"
        /\ \A d \in OnWire : d \in OnWire' \/ d = [type |-> "message", m |-> m]
    BY <1>1, <1>2, <2>1, <2>2, <2>3
  <2> HIDE DEF m
  <2> QED BY <1>1, <1>2, <2>4, <2>5, FilingStep
<1>5. CASE e.type # "message"
  <2>1. /\ WithCleared(e) /\ doubt' = doubt \union (IF ~e.all THEN {} ELSE IF view = "self" THEN e.ids ELSE Shown \ e.ids)
    BY <1>1, <1>5
  <2>2. e.ids \subseteq Texts /\ e.all \in BOOLEAN
    BY <1>3, <1>5 DEF PaEvent
  <2>3. /\ thread \in ThreadRecord /\ thread.recs \in Seq(Texts) /\ Distinct(thread.recs) /\ (~thread.there => Shown = {})
        /\ view \in Views /\ Shown \subseteq Texts
    BY Sorts DEF PaInv, PaTyped, ThreadRecord, Once, NoGhosts
  <2>4. e.ids \cap Logged = {}
    <3>1. \A x \in e.ids : x \in Leaving
      BY <1>2, <1>5, Ways
    <3> QED BY <3>1 DEF PaInv, Once
  <2>5. e.all => Logged \cap Old = {}
    BY <1>2, <1>5 DEF PaInv, PastLoaded, AllGone
  <2>6. doubt \subseteq doubt' /\ doubt' \subseteq Texts
    BY <2>1, <2>2, <2>3 DEF PaInv, PaTyped
  <2>7. /\ thread' \in ThreadRecord /\ Distinct(thread'.recs) /\ Shown' \subseteq Shown /\ (~thread'.there => Shown' = {})
        /\ \A x \in Shown' \ doubt' : x \notin e.ids
        /\ \A x \in Shown \ Shown' : x \in doubt' \/ x \notin Logged
        /\ \/ thread'.loaded = thread.loaded /\ thread'.before = thread.before
           \/ Logged \cap Old = {} /\ thread'.before = Start
    <3>1. CASE ~e.all
      <4> DEFINE k == Keep(thread.recs, Texts \ e.ids)
      <4>1. thread' = [thread EXCEPT !.recs = k]
        BY <2>1, <3>1 DEF WithCleared
      <4>2. k \in Seq(Texts) /\ ToSet(k) = Shown \cap (Texts \ e.ids) /\ Distinct(k)
        BY <2>3, KeepIs, KeepOnce DEF Shown
      <4> HIDE DEF k
      <4>3. thread' \in ThreadRecord /\ thread'.recs = k /\ thread'.loaded = thread.loaded /\ thread'.before = thread.before /\ thread'.there = thread.there
        BY <2>3, <4>1, <4>2 DEF ThreadRecord
      <4>4. Shown' = Shown \cap (Texts \ e.ids)
        BY <4>2, <4>3 DEF Shown
      <4> QED BY <2>3, <2>4, <4>2, <4>3, <4>4
    <3>2. CASE e.all /\ (view = "chat" \/ (view \in Threads /\ thread.there))
      <4>1. thread' = [recs |-> <<>>, loaded |-> TRUE, before |-> Start, there |-> TRUE]
        BY <2>1, <3>2 DEF WithCleared
      <4>2. thread' \in ThreadRecord /\ thread'.recs = <<>> /\ thread'.before = Start /\ thread'.there = TRUE
        <5>1. Start \in Cursors /\ <<>> \in Seq(Texts)
          BY DEF Cursors
        <5> QED BY <4>1, <5>1 DEF ThreadRecord
      <4>3. Shown' = {} /\ Distinct(thread'.recs)
        BY <4>2 DEF Shown, Distinct, ToSet
      <4>4. \A x \in Shown : x \in doubt' \/ x \notin Logged
        <5>1. CASE view = "self"
          BY <3>2, <5>1, PanelAssumption
        <5>2. CASE view # "self"
          BY <3>2, <5>2, <2>1, <2>4
        <5> QED BY <5>1, <5>2
      <4> QED BY <2>5, <3>2, <4>2, <4>3, <4>4
    <3>3. CASE e.all /\ ~(view = "chat" \/ (view \in Threads /\ thread.there))
      <4>1. thread' = thread
        BY <2>1, <2>2, <3>3 DEF WithCleared
      <4>2. Shown' = Shown
        BY <4>1 DEF Shown
      <4>3. view = "self" \/ (view # "self" /\ Shown = {})
        BY <2>3, <3>3 DEF Views
      <4>4. \A x \in Shown \ doubt' : x \notin e.ids
        BY <2>1, <3>3, <4>3
      <4> QED BY <2>3, <4>1, <4>2, <4>4
    <3> QED BY <3>1, <3>2, <3>3
  <2>8. PaTyped'
    BY <1>1, <1>2, <2>6, <2>7 DEF PaInv, PaTyped
  <2> QED BY <1>1, <1>2, <1>5, <2>6, <2>7, <2>8, ClearingStep
<1> QED BY <1>4, <1>5

\* A tab opens on a log, and shows nothing of it yet.
LEMMA StartStep ==
  ASSUME PaStart
  PROVE  PaInv
<1>1. /\ view \in Views /\ records = Past /\ wiping = NoWipe
      /\ post = [m \in Texts |-> IF m \in Old THEN "done" ELSE "new"]
      /\ socket = TRUE /\ wire = <<>> /\ thread = Absent /\ pages = [r \in Requests |-> NoPage] /\ doubt = {} /\ wipes = 0 /\ breaks = 0
  BY DEF PaStart, Old
<1>2. Past \in Seq(Texts) /\ Distinct(Past) /\ Old \subseteq Texts /\ Logged = Old
  <2>1. Past \in Seq(Texts) /\ Distinct(Past)
    BY PanelAssumption DEF Texts, Distinct
  <2> QED BY <1>1, <2>1, PlacesIn DEF Logged, Old
<1>3. Start \in Cursors /\ <<>> \in Seq(Texts) /\ <<>> \in Seq(PaEvent)
  BY DEF Cursors
<1>4. PaTyped
  <2>1. thread \in ThreadRecord
    BY <1>1, <1>3 DEF Absent, ThreadRecord
  <2>2. pages \in [Requests -> PageRecord]
    <3>1. NoPage \in PageRecord
      BY <1>3 DEF NoPage, PageRecord
    <3> QED BY <1>1, <3>1
  <2>3. wiping \in [what : {"none", "all"} \union Threads, ids : SUBSET Texts]
    BY <1>1 DEF NoWipe
  <2>4. 0 \in 0..MaxWipes /\ 0 \in 0..MaxBreaks
    BY PanelAssumption
  <2> QED BY <1>1, <1>2, <1>3, <2>1, <2>2, <2>3, <2>4 DEF PaTyped
<1>5. Shown = {} /\ OnWire = {} /\ thread.before = Start
      /\ thread.loaded = FALSE /\ thread.recs = <<>> /\ wiping.ids = {} /\ wiping.what = "none"
  BY <1>1 DEF Shown, OnWire, Absent, NoWipe, ToSet
<1>a. \A r \in Requests : pages[r].at = "none" /\ pages[r].before = Start /\ pages[r].next = Start /\ pages[r].recs = <<>>
  BY <1>1 DEF NoPage
<1>6. \A x : x \notin Leaving
  BY <1>5, Ways
<1>7. Once
  <2>1. Distinct(<<>>)
    BY DEF Distinct
  <2>2. \A m \in Texts : post[m] = "new" => m \notin Logged
    BY <1>1, <1>2
  <2> QED BY <1>1, <1>2, <1>5, <1>6, <1>a, <2>1, <2>2 DEF Once
<1>8. PastFirst
  <2>1. \A a, b \in DOMAIN records : a < b => Before(records[a], records[b])
    BY <1>1 DEF Before
  <2>2. \A m \in Old : m \in Texts /\ post[m] = "done"
    BY <1>1, <1>2
  <2> QED BY <1>5, <2>1, <2>2 DEF PastFirst
<1>9. NoGhosts
  BY <1>5 DEF NoGhosts
<1>10. NewCome
  BY <1>2 DEF NewCome
<1>11. PastLoaded
  <2>1. AllGone
    BY <1>5 DEF AllGone
  <2> QED BY <1>5, <1>a, <2>1 DEF PastLoaded, RequestRight
<1> QED BY <1>4, <1>7, <1>8, <1>9, <1>10, <1>11 DEF PaInv

\* Every step of the server and of the tab keeps the invariant.
LEMMA PanelStep ==
  ASSUME PaInv, [PaNext]_paVars
  PROVE  PaInv'
<1>1. CASE UNCHANGED paVars
  <2>1. view' = view /\ records' = records /\ wiping' = wiping /\ post' = post /\ socket' = socket /\ wire' = wire
        /\ thread' = thread /\ pages' = pages /\ doubt' = doubt /\ wipes' = wipes /\ breaks' = breaks
    BY <1>1 DEF paVars
  <2>2. PaTyped'
    BY <2>1 DEF PaInv, PaTyped
  <2>3. OnWire' = OnWire /\ Logged' = Logged
    BY <2>1 DEF OnWire, Logged
  <2>4. AllGone'
    BY <2>1, <2>3 DEF AllGone, PaInv, PastLoaded
  <2>5. (\A x : x \in Leaving' <=> x \in Leaving) /\ \A x : x \in Coming' <=> x \in Coming
    BY <2>1, <2>3, Ways, WaysNext
  <2> QED BY <2>1, <2>2, <2>3, <2>4, <2>5, MovingStep
<1>2. CASE \E m \in Texts : RecordSent(m) \/ TellSent(m) \/ DeliverTheirs(m) \/ SendReturns(m)
  BY <1>2, RecordSentStep, TellSentStep, DeliverTheirsStep, SendReturnsStep
<1>3. CASE Wipe \/ TellWipe
  BY <1>3, WipeStep, TellWipeStep
<1>4. CASE \E r \in Requests : AskPage(r) \/ AnswerPage(r) \/ PageArrives(r)
  BY <1>4, AskPageStep, AnswerPageStep, PageArrivesStep
<1>5. CASE EventArrives \/ SocketBreaks \/ SocketOpens
  BY <1>5, EventArrivesStep, SocketBreaksStep, SocketOpensStep
<1> QED BY <1>1, <1>2, <1>3, <1>4, <1>5 DEF PaNext

\* What the invariant says once nothing is on its way.
LEMMA PanelQuiet ==
  ASSUME PaInv
  PROVE  FeedComplete
<1> SUFFICES ASSUME NothingComes, thread.loaded
             PROVE  (Owed \ doubt \subseteq Shown) /\ (Shown \ doubt \subseteq Logged) /\ IsInjective(thread.recs)
  BY DEF FeedComplete
<1>1. OnWire = {} /\ wiping.ids = {} /\ \A m \in Texts : post[m] \notin {"appended", "told"}
  BY DEF NothingComes, OnWire, NoWipe
<1>2. (\A x : x \notin Leaving) /\ \A x : x \notin Coming
  BY <1>1, Ways
<1>3. IsInjective(thread.recs)
  BY DEF PaInv, Once, Distinct, IsInjective
<1>4. Shown \ doubt \subseteq Logged
  BY <1>2 DEF PaInv, NoGhosts
<1>5. ASSUME NEW m \in Owed \ doubt PROVE m \in Shown
  <2> DEFINE c == thread.before
  <2>1. m \in Logged /\ m \in Viewed /\ m \notin doubt /\ (c = Start \/ (c \in Logged /\ PlaceOf(m) >= PlaceOf(c)))
    BY <1>5 DEF Owed
  <2>2. m \in Old \/ m \in Shown
    BY <1>2, <2>1 DEF PaInv, NewCome
  <2>3. CASE m \in Old
    <3>1. Kept(m)
      BY <2>1, <2>3 DEF Kept
    <3>2. AtOrBehind(c, m)
      <4>1. CASE c = Start
        BY <4>1 DEF AtOrBehind
      <4>2. CASE c \in Logged /\ PlaceOf(m) >= PlaceOf(c)
        <5>1. records \in Seq(Texts) /\ DOMAIN records = 1..Len(records)
          BY DEF PaInv, PaTyped
        <5>2. \A x \in Logged : PlaceOf(x) \in DOMAIN records /\ records[PlaceOf(x)] = x
          BY DEF Logged, ToSet, PlaceOf
        <5> DEFINE a == PlaceOf(c)
                   b == PlaceOf(m)
        <5>3. a \in DOMAIN records /\ b \in DOMAIN records /\ records[a] = c /\ records[b] = m /\ b >= a
          BY <2>1, <4>2, <5>2
        <5> HIDE DEF a, b, c
        <5>4. CASE a = b
          BY <5>3, <5>4 DEF AtOrBehind
        <5>5. CASE a # b
          <6>1. a < b /\ records[b] \in Old
            BY <2>3, <5>1, <5>3, <5>5
          <6>2. Before(c, m)
            BY <5>3, <6>1 DEF PaInv, PastFirst
          <6> QED BY <6>2 DEF AtOrBehind
        <5> QED BY <5>4, <5>5
      <4> QED BY <2>1, <4>1, <4>2
    <3> QED BY <3>1, <3>2 DEF PaInv, PastLoaded
  <2> QED BY <2>2, <2>3
<1> QED BY <1>3, <1>4, <1>5

\* What the invariant says of the variables' types.
LEMMA PanelTypes == PaInv => PaTypeOK
<1> SUFFICES ASSUME PaInv PROVE PaTypeOK
  OBVIOUS
<1>1. Logged \subseteq Texts /\ Shown \subseteq Texts /\ \A r \in Requests : pages[r] \in PageRecord /\ ToSet(pages[r].recs) \subseteq Texts
  BY Sorts DEF PaInv
<1>2. \A i \in DOMAIN wire :
        \/ wire[i].type = "message" /\ wire[i].m \in Texts
        \/ wire[i].type = "history-cleared" /\ wire[i].ids \subseteq Texts /\ wire[i].all \in BOOLEAN
  <2>1. \A i \in DOMAIN wire : wire[i] \in PaEvent
    BY DEF PaInv, PaTyped
  <2> QED BY <2>1 DEF PaEvent
<1>3. /\ thread.before \in Cursors /\ thread.loaded \in BOOLEAN /\ thread.there \in BOOLEAN
      /\ \A r \in Requests : /\ pages[r].at \in {"none", "asked", "answered"} /\ pages[r].before \in Cursors
                            /\ pages[r].next \in Cursors /\ pages[r].known \in BOOLEAN
  BY <1>1 DEF PaInv, PaTyped, ThreadRecord, PageRecord
<1>4. wiping.what \in {"none", "all"} \union Threads /\ wiping.ids \subseteq Texts
  BY DEF PaInv, PaTyped
<1> QED BY <1>1, <1>2, <1>3, <1>4 DEF PaInv, PaTyped, PaTypeOK, Logged, Shown

\* The invariant holds in every state of every behaviour.
LEMMA PanelHolds == PaSpec => []PaInv
BY StartStep, PanelStep, PTL DEF PaSpec

\* The variables of a tab have their types.
THEOREM PanelTypeCorrect == PaSpec => []PaTypeOK
BY PanelHolds, PanelTypes, PTL

\* Once nothing is on its way, a loaded view shows all it owes of the log, nothing that is
\* not in it, and nothing twice.
THEOREM FeedIsComplete == PaSpec => []FeedComplete
BY PanelHolds, PanelQuiet, PTL

(***************************************************************************)
(* The badges.                                                             *)
(***************************************************************************)

Event == [type : {"status"}, seen : Sightings] \union [type : {"ack"}]
           \union [type : {"queue-progress"}, phase : Dirs]

BaTyped ==
  /\ BaTypeOK
  /\ poll \in [at : {"off", "countPending", "countCur"} \union Dirs, mood : Moods \union {Nil}, depth : 0..1]
  /\ poll.at \in {"countPending", "countCur"} => poll.mood \in Moods
  /\ events \in Seq(Event)
  /\ snapshot \in [at : {"none", "asked", "count", "answered", "used"}, seen : Sightings]
  /\ snapshot.at = "count" => snapshot.seen.depth <= 1
  /\ snapshot.seen # Unknown

About(e) == IF e.type = "status" THEN "badge" ELSE "phase"
Silent(what) == \A i \in DOMAIN events : About(events[i]) # what
LastOf(what, i) ==
  i \in DOMAIN events /\ About(events[i]) = what /\ \A j \in DOMAIN events : j > i => About(events[j]) # what

\* What the tab will show of the agent, once it has heard all: the poll's last word.
BadgeFits ==
  "badge" \notin astray =>
    /\ \A i \in DOMAIN events : LastOf("badge", i) => events[i].seen = dynamics
    /\ Silent("badge") /\ badge # Unknown /\ dynamics # Unknown => badge = dynamics

\* And of the message.
Word(e) == IF e.type = "ack" THEN "queued" ELSE e.phase
Final == IF tracked = Nil THEN {"done", "failed"} ELSE {tracked}
PhaseFits ==
  "phase" \notin astray /\ sending \in {"told", "returned"} =>
    /\ \A i \in DOMAIN events : LastOf("phase", i) => Word(events[i]) \in Final
    /\ Silent("phase") => phase \in Final

BaInv == BaTyped /\ BadgeFits /\ PhaseFits

\* An event joins behind the others, and is then the last of its kind.
LEMMA EventAdded ==
  ASSUME events \in Seq(Event), NEW e \in Event, events' = Append(events, e), NEW what
  PROVE  /\ events' \in Seq(Event)
         /\ About(e) = what => ~Silent(what)' /\ \A i : LastOf(what, i)' => events'[i] = e
         /\ About(e) # what => (Silent(what)' => Silent(what)) /\ \A i : LastOf(what, i)' => LastOf(what, i) /\ events'[i] = events[i]
<1> DEFINE n == Len(events)
<1>1. /\ n \in Nat /\ DOMAIN events = 1..n /\ DOMAIN events' = 1..(n + 1) /\ events' \in Seq(Event)
      /\ events'[n + 1] = e /\ \A i \in 1..n : events'[i] = events[i]
  OBVIOUS
<1> HIDE DEF n
<1>2. ASSUME About(e) = what PROVE ~Silent(what)' /\ \A i : LastOf(what, i)' => events'[i] = e
  <2>1. n + 1 \in DOMAIN events' /\ About(events'[n + 1]) = what
    BY <1>1, <1>2
  <2>2. ASSUME NEW i, LastOf(what, i)' PROVE i = n + 1
    BY <1>1, <2>1, <2>2 DEF LastOf
  <2> QED BY <1>1, <2>1, <2>2 DEF Silent
<1>3. ASSUME About(e) # what PROVE (Silent(what)' => Silent(what)) /\ \A i : LastOf(what, i)' => LastOf(what, i) /\ events'[i] = events[i]
  <2>1. Silent(what)' => Silent(what)
    BY <1>1 DEF Silent
  <2>2. ASSUME NEW i, LastOf(what, i)' PROVE LastOf(what, i) /\ events'[i] = events[i]
    <3>1. i \in 1..(n + 1) /\ About(events'[i]) = what /\ \A j \in 1..(n + 1) : j > i => About(events'[j]) # what
      BY <1>1, <2>2 DEF LastOf
    <3>2. i \in 1..n
      BY <1>1, <1>3, <3>1
    <3>3. \A j \in 1..n : j > i => About(events[j]) # what
      BY <1>1, <3>1
    <3> QED BY <1>1, <3>1, <3>2, <3>3 DEF LastOf
  <2> QED BY <2>1, <2>2
<1> QED BY <1>1, <1>2, <1>3

\* The first event leaves: the others keep their order, and it was the last of its kind if
\* there is no other.
LEMMA EventHeard ==
  ASSUME events \in Seq(Event), events # <<>>, events' = Tail(events), NEW what
  PROVE  /\ events' \in Seq(Event) /\ Head(events) = events[1] /\ events[1] \in Event
         /\ \A i : LastOf(what, i)' => LastOf(what, i + 1) /\ events'[i] = events[i + 1]
         /\ Silent(what)' => (IF About(events[1]) = what THEN LastOf(what, 1) ELSE Silent(what))
<1> DEFINE n == Len(events)
<1>1. /\ n \in Nat \ {0} /\ DOMAIN events = 1..n /\ DOMAIN events' = 1..(n - 1) /\ events' \in Seq(Event)
      /\ Head(events) = events[1] /\ events[1] \in Event /\ \A i \in 1..(n - 1) : events'[i] = events[i + 1]
  <2>1. n \in Nat /\ n # 0
    BY EmptySeq
  <2>2. Tail(events) \in Seq(Event) /\ Len(Tail(events)) = n - 1 /\ \A i \in 1..(n - 1) : Tail(events)[i] = events[i + 1]
    BY <2>1
  <2> QED BY <2>1, <2>2
<1> HIDE DEF n
<1>2. ASSUME NEW i, LastOf(what, i)' PROVE LastOf(what, i + 1) /\ events'[i] = events[i + 1]
  <2>1. i \in 1..(n - 1) /\ About(events'[i]) = what /\ \A j \in 1..(n - 1) : j > i => About(events'[j]) # what
    BY <1>1, <1>2 DEF LastOf
  <2>2. i + 1 \in 1..n /\ About(events[i + 1]) = what
    BY <1>1, <2>1
  <2>3. ASSUME NEW j \in 1..n, j > i + 1 PROVE About(events[j]) # what
    <3>1. j - 1 \in 1..(n - 1) /\ j - 1 > i /\ (j - 1) + 1 = j
      BY <1>1, <2>1, <2>3
    <3>2. About(events'[j - 1]) # what /\ events'[j - 1] = events[j]
      BY <1>1, <2>1, <3>1
    <3> QED BY <3>2
  <2> QED BY <1>1, <2>1, <2>2, <2>3 DEF LastOf
<1>3. ASSUME Silent(what)', NEW j \in 1..n, j > 1 PROVE About(events[j]) # what
  <2>1. j - 1 \in 1..(n - 1) /\ (j - 1) + 1 = j
    BY <1>1, <1>3
  <2>2. About(events'[j - 1]) # what /\ events'[j - 1] = events[j]
    BY <1>1, <1>3, <2>1 DEF Silent
  <2> QED BY <2>2
<1>4. Silent(what)' => (IF About(events[1]) = what THEN LastOf(what, 1) ELSE Silent(what))
  <2>1. 1 \in 1..n /\ \A j \in 1..n : j = 1 \/ j > 1
    BY <1>1
  <2> QED BY <1>1, <1>3, <2>1 DEF LastOf, Silent
<1> QED BY <1>1, <1>2, <1>4

\* An open socket takes the event as its last; a closed one leaves the tab astray.
LEMMA Telling ==
  ASSUME BaTyped, NEW e \in Event, Tell(e, About(e))
  PROVE  \/ /\ events' = Append(events, e) /\ astray' = astray \ {About(e)}
         \/ /\ events' = events /\ astray' = astray \union {About(e)}
BY DEF Tell

\* A sighting is a status and a depth of at most two.
LEMMA Seen ==
  ASSUME NEW a \in Moods, NEW n \in 0..2
  PROVE  Pair(a, n) \in Sightings /\ Pair(a, n) # Unknown /\ Pair(a, n).depth = n
BY BadgesAssumption DEF Pair, Sightings, Unknown, Nil

\* A step keeps the types.
LEMMA BaTypedStep ==
  ASSUME BaTyped, BaNext
  PROVE  BaTyped'
<1> USE BadgesAssumption
<1>1. Unknown \in Sightings
  BY DEF Sightings
<1>2. CASE AgentMoves
  <2>1. mood' \in Moods /\ place' \in Dirs \union {"none", "gone"}
    BY <1>2 DEF AgentMoves, BaTyped, BaTypeOK, Dirs
  <2> QED BY <1>2, <2>1 DEF AgentMoves, BaTyped, BaTypeOK
<1>3. CASE BaRoute
  BY <1>3 DEF BaRoute, BaTyped, BaTypeOK, Dirs
<1>4. ASSUME NEW e \in Event, Tell(e, About(e)) PROVE events' \in Seq(Event) /\ astray' \subseteq {"badge", "phase"}
        /\ \A i \in DOMAIN events' : events'[i].type \in {"status", "ack", "queue-progress"}
  <2>1. events' \in Seq(Event)
    BY <1>4, Telling, EventAdded DEF BaTyped
  <2>2. astray' \subseteq {"badge", "phase"}
    BY <1>4, Telling DEF BaTyped, BaTypeOK, About
  <2> QED BY <2>1, <2>2 DEF Event
<1>5. CASE BaTrack
  <2>1. [type |-> "ack"] \in Event /\ About([type |-> "ack"]) = "phase"
    BY DEF Event, About
  <2>2. events' \in Seq(Event) /\ astray' \subseteq {"badge", "phase"}
        /\ \A i \in DOMAIN events' : events'[i].type \in {"status", "ack", "queue-progress"}
    BY <1>4, <1>5, <2>1 DEF BaTrack
  <2> QED BY <1>5, <2>2 DEF BaTrack, BaTyped, BaTypeOK
<1>6. CASE PollStarts \/ PollCounts
  <2>1. poll' \in [at : {"off", "countPending", "countCur"} \union Dirs, mood : Moods \union {Nil}, depth : 0..1]
        /\ (poll'.at \in {"countPending", "countCur"} => poll'.mood \in Moods)
    <3>1. CASE PollStarts
      BY <3>1 DEF PollStarts, BaTyped, BaTypeOK
    <3>2. CASE PollCounts
      <4>1. poll' = [poll EXCEPT !.at = "countCur", !.depth = IF place = "pending" THEN 1 ELSE 0] /\ poll.mood \in Moods
        BY <3>2 DEF PollCounts, BaTyped
      <4>2. (IF place = "pending" THEN 1 ELSE 0) \in 0..1
        OBVIOUS
      <4> QED BY <4>1, <4>2 DEF BaTyped
    <3> QED BY <1>6, <3>1, <3>2
  <2> QED BY <1>6, <2>1 DEF PollStarts, PollCounts, BaTyped, BaTypeOK, Dirs
<1>7. CASE PollTells
  <2> DEFINE d == Pair(poll.mood, poll.depth + IF place = "cur" THEN 1 ELSE 0)
  <2>1. poll.mood \in Moods /\ poll.depth + (IF place = "cur" THEN 1 ELSE 0) \in 0..2
    BY <1>7 DEF PollTells, BaTyped
  <2>2. d \in Sightings
    BY <2>1, Seen
  <2>3. [type |-> "status", seen |-> d] \in Event /\ About([type |-> "status", seen |-> d]) = "badge"
    BY <2>2 DEF Event, About
  <2> HIDE DEF d
  <2>4. IF Changed(d) THEN dynamics' = d /\ Tell([type |-> "status", seen |-> d], "badge") ELSE UNCHANGED <<dynamics, events, astray>>
    BY <1>7 DEF PollTells, d
  <2>5. events' \in Seq(Event) /\ astray' \subseteq {"badge", "phase"} /\ dynamics' \in Sightings
        /\ \A i \in DOMAIN events' : events'[i].type \in {"status", "ack", "queue-progress"}
    BY <1>4, <2>2, <2>3, <2>4 DEF BaTyped, BaTypeOK
  <2>6. poll' \in [at : {"off", "countPending", "countCur"} \union Dirs, mood : Moods \union {Nil}, depth : 0..1]
        /\ poll'.at \notin {"countPending", "countCur"}
    BY <1>7 DEF PollTells, NoPoll, Dirs
  <2> QED BY <1>7, <2>5, <2>6 DEF PollTells, BaTyped, BaTypeOK, Dirs
<1>8. CASE PollLists
  <2>1. events' \in Seq(Event) /\ astray' \subseteq {"badge", "phase"} /\ tracked' \in Dirs \union {"queued", Nil}
        /\ \A i \in DOMAIN events' : events'[i].type \in {"status", "ack", "queue-progress"}
    <3>1. CASE place = poll.at /\ place # tracked
      <4>1. place \in Dirs /\ [type |-> "queue-progress", phase |-> place] \in Event
            /\ About([type |-> "queue-progress", phase |-> place]) = "phase"
        BY <1>8, <3>1 DEF PollLists, Event, About
      <4> QED BY <1>4, <1>8, <3>1, <4>1 DEF PollLists
    <3>2. CASE ~(place = poll.at /\ place # tracked)
      BY <1>8, <3>2 DEF PollLists, BaTyped, BaTypeOK
    <3> QED BY <3>1, <3>2
  <2>2. poll' \in [at : {"off", "countPending", "countCur"} \union Dirs, mood : Moods \union {Nil}, depth : 0..1]
        /\ poll'.at \notin {"countPending", "countCur"}
    BY <1>8 DEF PollLists, NoPoll, Dirs, NextDir, BaTyped
  <2> QED BY <1>8, <2>1, <2>2 DEF PollLists, BaTyped, BaTypeOK, Dirs
<1>9. CASE AskPeers \/ CountPeers
  <2>1. snapshot' \in [at : {"none", "asked", "count", "answered", "used"}, seen : Sightings]
        /\ (snapshot'.at = "count" => snapshot'.seen.depth <= 1) /\ snapshot'.seen # Unknown
    <3>1. CASE AskPeers
      BY <1>9, <3>1 DEF AskPeers, BaTyped
    <3>2. CASE CountPeers /\ snapshot.at = "asked"
      <4>1. snapshot' = [at |-> "count", seen |-> Pair(mood, IF place = "pending" THEN 1 ELSE 0)]
        BY <3>2 DEF CountPeers
      <4>2. mood \in Moods /\ (IF place = "pending" THEN 1 ELSE 0) \in 0..2
        BY DEF BaTyped, BaTypeOK
      <4> QED BY <4>1, <4>2, Seen
    <3>3. CASE CountPeers /\ snapshot.at = "count"
      <4>1. snapshot' = [at |-> "answered", seen |-> Pair(mood, snapshot.seen.depth + IF place = "cur" THEN 1 ELSE 0)]
        BY <3>3 DEF CountPeers
      <4>2. mood \in Moods /\ snapshot.seen.depth \in 0..1
        BY <3>3 DEF BaTyped, BaTypeOK, Sightings, Unknown, Pair
      <4>3. (snapshot.seen.depth + IF place = "cur" THEN 1 ELSE 0) \in 0..2
        BY <4>2
      <4> QED BY <4>1, <4>2, <4>3, Seen
    <3> QED BY <1>9, <3>1, <3>2, <3>3 DEF CountPeers
  <2> QED BY <1>9, <2>1 DEF AskPeers, CountPeers, BaTyped, BaTypeOK
<1>10. CASE PeersArrive
  BY <1>10 DEF PeersArrive, BaTyped, BaTypeOK
<1>11. CASE SendAnswered
  BY <1>11 DEF SendAnswered, BaTyped, BaTypeOK
<1>12. CASE HearEvent
  <2>1. events # <<>> /\ events' = Tail(events) /\ events \in Seq(Event)
    BY <1>12 DEF HearEvent, BaTyped
  <2>2. events' \in Seq(Event) /\ Head(events) \in Event
    BY <2>1, EventHeard
  <2>3. badge' \in Sightings /\ phase' \in Dirs \union {"queued", Nil}
    BY <1>12, <2>2 DEF HearEvent, Event, BaTyped, BaTypeOK
  <2>4. \A i \in DOMAIN events' : events'[i].type \in {"status", "ack", "queue-progress"}
    BY <2>2 DEF Event
  <2> QED BY <1>12, <2>2, <2>3, <2>4 DEF HearEvent, BaTyped, BaTypeOK
<1>13. CASE FeedOpens
  BY <1>13 DEF FeedOpens, BaTyped, BaTypeOK
<1>14. CASE FeedBreaks
  <2>1. events' \in Seq(Event) /\ \A i \in DOMAIN events' : FALSE
    BY <1>14 DEF FeedBreaks
  <2>2. astray' \subseteq {"badge", "phase"}
    BY <1>14 DEF FeedBreaks, BaTyped, BaTypeOK
  <2>3. drops' \in 0..MaxDrops
    BY <1>14 DEF FeedBreaks, BaTyped, BaTypeOK
  <2>4. listens' \in BOOLEAN /\ UNCHANGED <<mood, place, poll, dynamics, tracked, sending, snapshot, badge, phase, moves>>
    BY <1>14 DEF FeedBreaks
  <2>5. BaTypeOK'
    BY <2>1, <2>2, <2>3, <2>4 DEF BaTyped, BaTypeOK
  <2> QED BY <2>1, <2>4, <2>5 DEF BaTyped
<1> QED BY <1>2, <1>3, <1>5, <1>6, <1>7, <1>8, <1>9, <1>10, <1>11, <1>12, <1>13, <1>14 DEF BaNext

\* What is told of one of the two does not touch the other's last word; what is not told
\* leaves the tab astray.
LEMMA BadgeStep ==
  ASSUME BaTyped, BadgeFits, BaNext
  PROVE  BadgeFits'
<1>0. events \in Seq(Event)
  BY DEF BaTyped
<1>1. ASSUME UNCHANGED <<events, badge, dynamics>>, "badge" \in astray => "badge" \in astray' PROVE BadgeFits'
  BY <1>1 DEF BadgeFits, LastOf, Silent
<1>2. CASE AgentMoves \/ BaRoute \/ PollStarts \/ PollCounts \/ AskPeers \/ CountPeers \/ SendAnswered \/ FeedOpens
  <2>1. UNCHANGED <<events, badge, dynamics>> /\ ("badge" \in astray => "badge" \in astray')
    BY <1>2 DEF AgentMoves, BaRoute, PollStarts, PollCounts, AskPeers, CountPeers, SendAnswered, FeedOpens
  <2> QED BY <1>1, <2>1
<1>3. ASSUME NEW e \in Event, About(e) = "phase", Tell(e, "phase"), UNCHANGED <<badge, dynamics>> PROVE BadgeFits'
  <2>1. "badge" \in astray => "badge" \in astray'
    BY <1>3 DEF Tell
  <2>2. CASE events' = events
    BY <1>1, <1>3, <2>1, <2>2
  <2>3. CASE events' = Append(events, e)
    <3>1. (Silent("badge")' => Silent("badge")) /\ \A i : LastOf("badge", i)' => LastOf("badge", i) /\ events'[i] = events[i]
      BY <1>0, <1>3, <2>3, EventAdded
    <3>2. \A i \in DOMAIN events' : LastOf("badge", i)' => i \in DOMAIN events /\ events'[i] = events[i] /\ LastOf("badge", i)
      BY <3>1 DEF LastOf
    <3> QED BY <1>3, <2>1, <3>1, <3>2 DEF BadgeFits
  <2> QED BY <1>3, <2>2, <2>3 DEF Tell
<1>4. CASE BaTrack
  <2>1. [type |-> "ack"] \in Event /\ About([type |-> "ack"]) = "phase"
    BY DEF Event, About
  <2> QED BY <1>3, <1>4, <2>1 DEF BaTrack
<1>5. CASE PollLists
  <2>1. CASE place = poll.at /\ place # tracked
    <3>1. place \in Dirs /\ [type |-> "queue-progress", phase |-> place] \in Event
          /\ About([type |-> "queue-progress", phase |-> place]) = "phase"
      BY <1>5, <2>1 DEF PollLists, Event, About
    <3> QED BY <1>3, <1>5, <2>1, <3>1 DEF PollLists
  <2>2. CASE ~(place = poll.at /\ place # tracked)
    BY <1>1, <1>5, <2>2 DEF PollLists
  <2> QED BY <2>1, <2>2
<1>6. CASE PollTells
  <2> DEFINE d == Pair(poll.mood, poll.depth + IF place = "cur" THEN 1 ELSE 0)
             e == [type |-> "status", seen |-> d]
  <2>1. poll.mood \in Moods /\ poll.depth + (IF place = "cur" THEN 1 ELSE 0) \in 0..2
    BY <1>6 DEF PollTells, BaTyped
  <2>2. d \in Sightings
    BY <2>1, Seen
  <2>3. e \in Event /\ About(e) = "badge" /\ e.seen = d
    BY <2>2 DEF Event, About
  <2> HIDE DEF d, e
  <2>4. badge' = badge /\ IF Changed(d) THEN dynamics' = d /\ Tell(e, "badge") ELSE UNCHANGED <<dynamics, events, astray>>
    BY <1>6 DEF PollTells, d, e
  <2>5. CASE ~Changed(d)
    BY <1>1, <2>4, <2>5
  <2>6. CASE dynamics' = d /\ events' = Append(events, e)
    <3>1. ~Silent("badge")' /\ \A i : LastOf("badge", i)' => events'[i] = e
      BY <1>0, <2>3, <2>6, EventAdded
    <3> QED BY <2>3, <2>6, <3>1 DEF BadgeFits
  <2>7. CASE "badge" \in astray'
    BY <2>7 DEF BadgeFits
  <2> QED BY <2>4, <2>5, <2>6, <2>7 DEF Tell
<1>7. CASE PeersArrive
  <2>1. UNCHANGED <<events, dynamics>> /\ badge' = snapshot.seen
    BY <1>7 DEF PeersArrive
  <2>2. CASE \E i \in DOMAIN events : events[i].type = "status"
    <3>1. astray' = astray /\ ~Silent("badge")'
      BY <1>7, <2>1, <2>2 DEF PeersArrive, Silent, About
    <3> QED BY <2>1, <3>1 DEF BadgeFits, LastOf
  <2>3. CASE ~\E i \in DOMAIN events : events[i].type = "status"
    <3>1. \A i : ~LastOf("badge", i)'
      BY <2>1, <2>3 DEF LastOf, About
    <3>2. "badge" \notin astray' => dynamics \in {Unknown, snapshot.seen}
      BY <1>7, <2>3 DEF PeersArrive
    <3> QED BY <2>1, <3>1, <3>2 DEF BadgeFits
  <2> QED BY <2>2, <2>3
<1>8. CASE HearEvent
  <2>1. events # <<>> /\ events' = Tail(events) /\ UNCHANGED <<dynamics, astray>>
        /\ badge' = IF Head(events).type = "status" /\ badge # Unknown THEN Head(events).seen ELSE badge
    BY <1>8 DEF HearEvent
  <2>2. /\ Head(events) = events[1] /\ events[1] \in Event
        /\ \A i : LastOf("badge", i)' => LastOf("badge", i + 1) /\ events'[i] = events[i + 1]
        /\ Silent("badge")' => (IF About(events[1]) = "badge" THEN LastOf("badge", 1) ELSE Silent("badge"))
    BY <1>0, <2>1, EventHeard
  <2>3. \A i : LastOf("badge", i) => i \in DOMAIN events
    BY DEF LastOf
  <2>4. About(events[1]) = "badge" <=> events[1].type = "status"
    BY DEF About
  <2>5. ASSUME "badge" \notin astray, NEW i, LastOf("badge", i)' PROVE events'[i].seen = dynamics
    BY <2>2, <2>3, <2>5 DEF BadgeFits
  <2>6. ASSUME "badge" \notin astray, Silent("badge")', badge' # Unknown, dynamics # Unknown PROVE badge' = dynamics
    BY <2>1, <2>2, <2>3, <2>4, <2>6 DEF BadgeFits
  <2> QED BY <2>1, <2>5, <2>6 DEF BadgeFits
<1>9. CASE FeedBreaks
  <2>1. UNCHANGED <<badge, dynamics>> /\ events' = <<>>
        /\ astray' = astray \union {IF events[i].type = "status" THEN "badge" ELSE "phase" : i \in DOMAIN events}
    BY <1>9 DEF FeedBreaks
  <2>2. "badge" \notin astray' => "badge" \notin astray /\ Silent("badge")
    BY <2>1 DEF Silent, About
  <2>3. \A i : ~LastOf("badge", i)'
    BY <2>1 DEF LastOf
  <2> QED BY <2>1, <2>2, <2>3 DEF BadgeFits
<1> QED BY <1>2, <1>4, <1>5, <1>6, <1>7, <1>8, <1>9 DEF BaNext

\* The same of the message, whose phase the answer to the send sets back.
LEMMA PhaseStep ==
  ASSUME BaTyped, PhaseFits, BaNext
  PROVE  PhaseFits'
<1>0. events \in Seq(Event) /\ tracked \in Dirs \union {"queued", Nil} /\ phase \in Dirs \union {"queued", Nil}
  BY DEF BaTyped, BaTypeOK
<1>1. ASSUME UNCHANGED <<events, phase, tracked>>, "phase" \in astray => "phase" \in astray',
             sending' \in {"told", "returned"} => sending \in {"told", "returned"}
      PROVE PhaseFits'
  BY <1>1 DEF PhaseFits, LastOf, Silent, Final, Word
<1>2. CASE AgentMoves \/ BaRoute \/ PollStarts \/ PollCounts \/ AskPeers \/ CountPeers \/ PeersArrive \/ FeedOpens
  <2>1. UNCHANGED <<events, phase, tracked>> /\ ("phase" \in astray => "phase" \in astray')
        /\ (sending' \in {"told", "returned"} => sending \in {"told", "returned"})
    BY <1>2 DEF AgentMoves, BaRoute, PollStarts, PollCounts, AskPeers, CountPeers, PeersArrive, FeedOpens
  <2> QED BY <1>1, <2>1
<1>3. ASSUME NEW e \in Event, About(e) = "phase", Tell(e, "phase"), Word(e) \in Final' PROVE PhaseFits'
  <2>1. CASE events' = Append(events, e)
    <3>1. ~Silent("phase")' /\ \A i : LastOf("phase", i)' => events'[i] = e
      BY <1>0, <1>3, <2>1, EventAdded
    <3> QED BY <1>3, <3>1 DEF PhaseFits, Word
  <2>2. CASE "phase" \in astray'
    BY <2>2 DEF PhaseFits
  <2> QED BY <1>3, <2>1, <2>2 DEF Tell
<1>4. CASE BaTrack
  <2>1. [type |-> "ack"] \in Event /\ About([type |-> "ack"]) = "phase" /\ Word([type |-> "ack"]) = "queued"
    BY DEF Event, About, Word
  <2>2. "queued" \in Final'
    BY <1>4 DEF BaTrack, Final, Nil
  <2> QED BY <1>3, <1>4, <2>1, <2>2 DEF BaTrack
<1>5. CASE PollLists
  <2>1. CASE place = poll.at /\ place # tracked
    <3> DEFINE e == [type |-> "queue-progress", phase |-> place]
    <3>1. place \in Dirs /\ e \in Event /\ About(e) = "phase" /\ Word(e) = place
      BY <1>5, <2>1 DEF PollLists, Event, About, Word
    <3>2. place \in Final'
      BY <1>5, <2>1, <3>1 DEF PollLists, Final, Dirs, Nil
    <3> HIDE DEF e
    <3>3. Tell(e, "phase")
      BY <1>5, <2>1 DEF PollLists, e
    <3> QED BY <1>3, <3>1, <3>2, <3>3
  <2>2. CASE ~(place = poll.at /\ place # tracked)
    BY <1>1, <1>5, <2>2 DEF PollLists
  <2> QED BY <2>1, <2>2
<1>6. CASE PollTells
  <2> DEFINE d == Pair(poll.mood, poll.depth + IF place = "cur" THEN 1 ELSE 0)
             e == [type |-> "status", seen |-> d]
  <2>1. poll.mood \in Moods /\ poll.depth + (IF place = "cur" THEN 1 ELSE 0) \in 0..2
    BY <1>6 DEF PollTells, BaTyped
  <2>2. d \in Sightings
    BY <2>1, Seen
  <2>3. e \in Event /\ About(e) = "badge"
    BY <2>2 DEF Event, About
  <2> HIDE DEF d, e
  <2>4. UNCHANGED <<phase, tracked, sending>> /\ (Tell(e, "badge") \/ UNCHANGED <<events, astray>>)
    BY <1>6 DEF PollTells, d, e
  <2>5. "phase" \in astray => "phase" \in astray'
    BY <2>4 DEF Tell
  <2>6. CASE events' = Append(events, e)
    <3>1. (Silent("phase")' => Silent("phase")) /\ \A i : LastOf("phase", i)' => LastOf("phase", i) /\ events'[i] = events[i]
      BY <1>0, <2>3, <2>6, EventAdded
    <3>2. \A i \in DOMAIN events' : LastOf("phase", i)' => i \in DOMAIN events /\ events'[i] = events[i] /\ LastOf("phase", i)
      BY <3>1 DEF LastOf
    <3> QED BY <2>4, <2>5, <3>1, <3>2 DEF PhaseFits, Final, Word
  <2>7. CASE events' = events
    BY <1>1, <2>4, <2>5, <2>7
  <2> QED BY <2>4, <2>6, <2>7 DEF Tell
<1>7. CASE SendAnswered
  <2>1. /\ UNCHANGED <<events, tracked>> /\ sending = "told" /\ phase' = "queued"
        /\ astray' = IF phase \in Dirs THEN astray \union {"phase"} ELSE astray
    BY <1>7 DEF SendAnswered
  <2>2. ASSUME "phase" \notin astray' PROVE "phase" \notin astray /\ phase \notin Dirs
    BY <2>1, <2>2
  <2>3. ASSUME "phase" \notin astray', Silent("phase") PROVE "queued" \in Final
    BY <1>0, <2>1, <2>2, <2>3 DEF PhaseFits, Final, Dirs
  <2> QED BY <2>1, <2>2, <2>3 DEF PhaseFits, Final, Word, LastOf, Silent
<1>8. CASE HearEvent
  <2>1. events # <<>> /\ events' = Tail(events) /\ UNCHANGED <<tracked, sending, astray>>
        /\ phase' = CASE Head(events).type = "ack" -> "queued"
                      [] Head(events).type = "queue-progress" -> Head(events).phase
                      [] OTHER -> phase
    BY <1>8 DEF HearEvent
  <2>2. /\ Head(events) = events[1] /\ events[1] \in Event
        /\ \A i : LastOf("phase", i)' => LastOf("phase", i + 1) /\ events'[i] = events[i + 1]
        /\ Silent("phase")' => (IF About(events[1]) = "phase" THEN LastOf("phase", 1) ELSE Silent("phase"))
    BY <1>0, <2>1, EventHeard
  <2>3. \A i : LastOf("phase", i) => i \in DOMAIN events
    BY DEF LastOf
  <2>4. phase' = IF About(events[1]) = "phase" THEN Word(events[1]) ELSE phase
    BY <2>1, <2>2 DEF About, Event, Word
  <2>5. ASSUME "phase" \notin astray, sending \in {"told", "returned"}, NEW i, LastOf("phase", i)' PROVE Word(events'[i]) \in Final
    BY <2>2, <2>3, <2>5 DEF PhaseFits
  <2>6. ASSUME "phase" \notin astray, sending \in {"told", "returned"}, Silent("phase")' PROVE phase' \in Final
    BY <2>2, <2>3, <2>4, <2>6 DEF PhaseFits
  <2>7. Final' = Final
    BY <2>1 DEF Final
  <2>8. \A i : Word(events[i])' = Word(events'[i])
    BY DEF Word
  <2> QED BY <2>1, <2>5, <2>6, <2>7, <2>8 DEF PhaseFits
<1>9. CASE FeedBreaks
  <2>1. UNCHANGED <<phase, tracked, sending>> /\ events' = <<>>
        /\ astray' = astray \union {IF events[i].type = "status" THEN "badge" ELSE "phase" : i \in DOMAIN events}
    BY <1>9 DEF FeedBreaks
  <2>2. "phase" \notin astray' => "phase" \notin astray /\ Silent("phase")
    BY <2>1 DEF Silent, About
  <2>3. \A i : ~LastOf("phase", i)'
    BY <2>1 DEF LastOf
  <2> QED BY <2>1, <2>2, <2>3 DEF PhaseFits, Final
<1> QED BY <1>2, <1>4, <1>5, <1>6, <1>7, <1>8, <1>9 DEF BaNext

\* The invariant of the badges holds when a tab has not yet asked for anything.
LEMMA BadgesStart == BaStart => BaInv
<1> SUFFICES ASSUME BaStart PROVE BaInv
  OBVIOUS
<1>1. Pair(mood, 0) \in Sightings /\ Pair(mood, 0) # Unknown /\ Pair(mood, 0).depth = 0 /\ Unknown \in Sightings
  <2>1. mood \in Moods /\ 0 \in 0..2
    BY DEF BaStart
  <2>2. Unknown \in Sightings
    BY DEF Sightings
  <2> QED BY <2>1, <2>2, Seen
<1>2. MaxMoves \in Nat /\ MaxDrops \in Nat /\ mood \in Moods
  BY BadgesAssumption DEF BaStart
<1>3. BaTypeOK
  <2>1. events = <<>> /\ \A i \in DOMAIN events : FALSE
    BY DEF BaStart
  <2>2. poll = NoPoll /\ dynamics = Unknown /\ badge = Unknown /\ snapshot.at = "none" /\ tracked = Nil /\ phase = Nil
    BY DEF BaStart
  <2>3. place = "none" /\ sending = "none" /\ listens \in BOOLEAN /\ astray = {} /\ moves = 0 /\ drops = 0
    BY DEF BaStart
  <2>4. poll.at = "off" /\ poll.mood = Nil /\ poll.depth = 0
    BY <2>2 DEF NoPoll
  <2> QED BY <1>1, <1>2, <2>1, <2>2, <2>3, <2>4 DEF BaTypeOK
<1>4. BaTyped
  BY <1>1, <1>3 DEF BaStart, BaTyped, NoPoll
<1> QED BY <1>4 DEF BaStart, BaInv, BadgeFits, PhaseFits, LastOf

\* Every step of the agent, the poll and the tab keeps it.
LEMMA BadgesStep == BaInv /\ [BaNext]_baVars => BaInv'
<1> SUFFICES ASSUME BaInv, [BaNext]_baVars PROVE BaInv'
  OBVIOUS
<1>1. CASE BaNext
  BY <1>1, BaTypedStep, BadgeStep, PhaseStep DEF BaInv
<1>2. CASE UNCHANGED baVars
  <2>1. BaTyped'
    BY <1>2 DEF baVars, BaInv, BaTyped, BaTypeOK
  <2>2. BadgeFits' /\ PhaseFits'
    BY <1>2 DEF baVars, BaInv, BadgeFits, PhaseFits, LastOf, Silent, Word, Final
  <2> QED BY <2>1, <2>2 DEF BaInv
<1> QED BY <1>1, <1>2

\* Once nothing is on its way the badge and the phase are the agent's.
LEMMA BadgesQuiet == BaInv => BadgesTell
<1> SUFFICES ASSUME BaInv, events = <<>>, poll = NoPoll
    PROVE  /\ (badge # Unknown /\ dynamics = Pair(mood, Depth) /\ "badge" \notin astray) => badge = Pair(mood, Depth)
           /\ (sending = "returned" /\ "phase" \notin astray) =>
                \/ tracked # Nil /\ phase = tracked
                \/ tracked = Nil /\ phase \in {"done", "failed"}
  BY DEF BadgesTell
<1>1. Silent("badge") /\ Silent("phase")
  BY DEF Silent
<1>2. mood \in Moods /\ Depth \in 0..2
  BY DEF BaInv, BaTyped, BaTypeOK, Depth
<1>3. Pair(mood, Depth) # Unknown
  BY <1>2, Seen
<1> QED BY <1>1, <1>3 DEF BaInv, BadgeFits, PhaseFits, Final

\* Once the poll has told all and the tab has heard it, the tab shows the agent's status and the
\* depth of its queue, and where the message is, unless it was led astray on the way (pollOnce,
\* applyPeers, applyOutgoing).
THEOREM BadgesAreTrue == BaSpec => []BadgesTell
BY BadgesStart, BadgesStep, BadgesQuiet, PTL DEF BaSpec

(***************************************************************************)
(* The shelves of prompts.                                                 *)
(***************************************************************************)

(* Shelves and prompts: items with ids. *)

IdsIn(s) == {s[i].id : i \in DOMAIN s}
OneEach(s) == \A i, j \in DOMAIN s : s[i].id = s[j].id => i = j

\* What is in a sequence, by its places.
LEMMA ItemsOf ==
  ASSUME NEW T, NEW s \in Seq(T)
  PROVE  /\ Len(s) \in Nat /\ DOMAIN s = 1..Len(s) /\ \A i \in 1..Len(s) : s[i] \in T
         /\ \A x : x \in ToSet(s) <=> \E i \in 1..Len(s) : s[i] = x
         /\ \A x : x \in IdsIn(s) <=> \E i \in 1..Len(s) : s[i].id = x
         /\ IdsIn(s) = {x.id : x \in ToSet(s)}
<1>1. Len(s) \in Nat /\ DOMAIN s = 1..Len(s) /\ \A i \in 1..Len(s) : s[i] \in T
  OBVIOUS
<1> QED BY <1>1 DEF ToSet, IdsIn

\* The function that Without is written with.
RestTo(f, s, id) ==
  f = [n \in 0..Len(s) |->
         IF n = 0 THEN <<>> ELSE IF s[n].id # id THEN Append(f[n - 1], s[n]) ELSE f[n - 1]]

\* The items but for those of an id: filter, as Keep has it.
LEMMA RestIsKept ==
  ASSUME NEW T, NEW s \in Seq(T), NEW id
  PROVE  Without(s, id) = Keep(s, {x \in T : x.id # id})
<1> DEFINE S == {x \in T : x.id # id}
           f == CHOOSE g : RestTo(g, s, id)
           k == CHOOSE g : KeptTo(g, s, S, Len(s))
<1>0. Len(s) \in Nat /\ \A i \in 1..Len(s) : s[i] \in T
  OBVIOUS
<1>1. Without(s, id) = f[Len(s)] /\ Keep(s, S) = k[Len(s)]
  BY DEF Without, RestTo, Keep, KeptTo
<1>2. ASSUME NEW g PROVE RestTo(g, s, id) <=> KeptTo(g, s, S, Len(s))
  <2> DEFINE a == [n \in 0..Len(s) |-> IF n = 0 THEN <<>> ELSE IF s[n].id # id THEN Append(g[n - 1], s[n]) ELSE g[n - 1]]
             b == [n \in 0..Len(s) |-> IF n = 0 THEN <<>> ELSE IF s[n] \in S THEN Append(g[n - 1], s[n]) ELSE g[n - 1]]
  <2>1. ASSUME NEW n \in 0..Len(s) PROVE a[n] = b[n]
    <3>1. n # 0 => (s[n].id # id <=> s[n] \in S)
      BY <1>0
    <3> QED BY <3>1
  <2>2. a = b
    <3>1. a = [n \in 0..Len(s) |-> a[n]] /\ b = [n \in 0..Len(s) |-> b[n]]
      OBVIOUS
    <3> HIDE DEF a, b
    <3> QED BY <2>1, <3>1
  <2> QED BY <2>2 DEF RestTo, KeptTo
<1> HIDE DEF S
<1>3. KeptTo(k, s, S, Len(s))
  BY <1>0, KeptExists
<1>4. f = k
  BY <1>2, Zenon
<1> QED BY <1>1, <1>4 DEF S

\* What is left has each of its items once.
LEMMA WithoutIs ==
  ASSUME NEW T, NEW s \in Seq(T), NEW id
  PROVE  /\ Without(s, id) \in Seq(T) /\ Len(Without(s, id)) <= Len(s)
         /\ \A x : x \in ToSet(Without(s, id)) <=> x \in ToSet(s) /\ x.id # id
         /\ OneEach(s) => OneEach(Without(s, id))
<1> DEFINE S == {x \in T : x.id # id}
           w == Keep(s, S)
<1>0. Without(s, id) = w
  BY RestIsKept
<1> HIDE DEF S
<1>1. /\ w \in Seq(T) /\ Len(w) <= Len(s) /\ ToSet(w) = ToSet(s) \cap S
      /\ \A a, b \in DOMAIN w : a < b => \E i, j \in DOMAIN s : i < j /\ w[a] = s[i] /\ w[b] = s[j]
  BY KeepOf
<1>2. ToSet(s) \subseteq T
  BY ItemsOf
<1>3. \A x : x \in ToSet(w) <=> x \in ToSet(s) /\ x.id # id
  BY <1>1, <1>2 DEF S
<1> HIDE DEF w
<1>4. DOMAIN w = 1..Len(w) /\ Len(w) \in Nat /\ DOMAIN s = 1..Len(s) /\ Len(s) \in Nat
  BY <1>1
<1>5. ASSUME OneEach(s) PROVE OneEach(w)
  <2>1. ASSUME NEW a \in DOMAIN w, NEW b \in DOMAIN w, a < b PROVE w[a].id # w[b].id
    <3>1. PICK i, j \in DOMAIN s : i < j /\ w[a] = s[i] /\ w[b] = s[j]
      BY <1>1, <2>1, Zenon
    <3>2. i # j
      BY <1>4, <3>1
    <3> QED BY <1>5, <3>1, <3>2 DEF OneEach
  <2> QED BY <1>4, <2>1 DEF OneEach
<1> QED BY <1>0, <1>1, <1>3, <1>5

\* Two sequences, one behind the other, by their places.
LEMMA BothOf ==
  ASSUME NEW T, NEW a \in Seq(T), NEW b \in Seq(T), NEW c, c = a \o b
  PROVE  /\ c \in Seq(T) /\ Len(c) = Len(a) + Len(b) /\ Len(a) \in Nat /\ Len(b) \in Nat
         /\ \A i \in 1..Len(a) : c[i] = a[i]
         /\ \A i \in 1..Len(b) : c[Len(a) + i] = b[i]
<1>1. Len(a) \in Nat /\ Len(b) \in Nat
  OBVIOUS
<1>2. c \in Seq(T) /\ Len(c) = Len(a) + Len(b)
  BY ConcatProperties
<1>3. \A i \in 1..Len(a) + Len(b) : c[i] = IF i <= Len(a) THEN a[i] ELSE b[i - Len(a)]
  BY ConcatProperties
<1>4. ASSUME NEW i \in 1..Len(b) PROVE c[Len(a) + i] = b[i]
  <2>1. Len(a) + i \in 1..Len(a) + Len(b) /\ ~(Len(a) + i <= Len(a)) /\ (Len(a) + i) - Len(a) = i
    BY <1>1
  <2> QED BY <1>3, <2>1
<1>5. ASSUME NEW i \in 1..Len(a) PROVE c[i] = a[i]
  <2>1. i \in 1..Len(a) + Len(b) /\ i <= Len(a)
    BY <1>1
  <2> QED BY <1>3, <2>1
<1> QED BY <1>1, <1>2, <1>4, <1>5

\* An item taken out and put in again elsewhere: the places are permuted.
LEMMA MovedIs ==
  ASSUME NEW T, NEW s \in Seq(T), NEW from \in DOMAIN s, NEW to \in Nat
  PROVE  /\ Moved(s, from, to) \in Seq(T) /\ Len(Moved(s, from, to)) = Len(s)
         /\ ToSet(Moved(s, from, to)) = ToSet(s)
         /\ OneEach(s) => OneEach(Moved(s, from, to))
<1> DEFINE n == Len(s) rest == RemoveAt(s, from) at == IF to > Len(rest) THEN Len(rest) ELSE to
           m == InsertAt(rest, at + 1, s[from])
<1>0. n \in Nat /\ from \in 1..n /\ \A i \in 1..n : s[i] \in T
  BY ItemsOf
<1>1. rest \in Seq(T) /\ Len(rest) = n - 1 /\ \A i \in 1..(n - 1) : rest[i] = s[IF i < from THEN i ELSE i + 1]
  <2> DEFINE a == SubSeq(s, 1, from - 1) b == SubSeq(s, from + 1, n)
  <2>1. a \in Seq(T) /\ Len(a) = from - 1 /\ \A i \in 1..(from - 1) : a[i] = s[i]
    BY <1>0
  <2>2. b \in Seq(T) /\ Len(b) = n - from /\ \A i \in 1..(n - from) : b[i] = s[from + i]
    BY <1>0
  <2>3. rest = a \o b
    BY DEF RemoveAt
  <2> HIDE DEF a, b, rest
  <2>4. /\ rest \in Seq(T) /\ Len(rest) = Len(a) + Len(b)
        /\ (\A i \in 1..Len(a) : rest[i] = a[i]) /\ \A i \in 1..Len(b) : rest[Len(a) + i] = b[i]
    <3>1. a \in Seq(T) /\ b \in Seq(T)
      BY <2>1, <2>2
    <3> QED BY <3>1, <2>3, BothOf
  <2>5. ASSUME NEW i \in 1..(n - 1) PROVE rest[i] = s[IF i < from THEN i ELSE i + 1]
    <3>1. CASE i < from
      <4>1. i \in 1..(from - 1)
        BY <1>0, <3>1
      <4> QED BY <2>1, <2>4, <3>1, <4>1
    <3>2. CASE ~(i < from)
      <4>1. /\ i - (from - 1) \in 1..(n - from) /\ from + (i - (from - 1)) = i + 1
            /\ (from - 1) + (i - (from - 1)) = i
        BY <1>0, <3>2
      <4>2. rest[i] = b[i - (from - 1)]
        <5> DEFINE h == i - (from - 1)
        <5>1. h \in 1..Len(b) /\ Len(a) + h = i
          BY <2>1, <2>2, <4>1
        <5> HIDE DEF h
        <5>2. rest[Len(a) + h] = b[h]
          BY <2>4, <5>1
        <5> QED BY <5>1, <5>2 DEF h
      <4>3. b[i - (from - 1)] = s[from + (i - (from - 1))]
        BY <2>2, <4>1
      <4> QED BY <3>2, <4>1, <4>2, <4>3
    <3> QED BY <3>1, <3>2
  <2> QED BY <1>0, <2>1, <2>2, <2>4, <2>5
<1> HIDE DEF rest
<1>2. at \in 0..(n - 1)
  BY <1>0, <1>1
<1> HIDE DEF at
<1>3. m \in Seq(T) /\ Len(m) = n /\ \A i \in 1..n : m[i] = IF i <= at THEN rest[i] ELSE IF i = at + 1 THEN s[from] ELSE rest[i - 1]
  <2> DEFINE a == SubSeq(rest, 1, at) b == SubSeq(rest, at + 1, n - 1) c == a \o <<s[from]>>
  <2>1. a \in Seq(T) /\ Len(a) = at /\ \A i \in 1..at : a[i] = rest[i]
    BY <1>0, <1>1, <1>2
  <2>2. b \in Seq(T) /\ Len(b) = n - 1 - at /\ \A i \in 1..(n - 1 - at) : b[i] = rest[at + i]
    BY <1>0, <1>1, <1>2
  <2>3. m = c \o b
    <3>1. (at + 1) - 1 = at
      BY <1>2
    <3> QED BY <1>1, <3>1 DEF InsertAt
  <2> HIDE DEF a, b
  <2>4. <<s[from]>> \in Seq(T) /\ Len(<<s[from]>>) = 1 /\ <<s[from]>>[1] = s[from]
    BY <1>0
  <2>5. c \in Seq(T) /\ Len(c) = at + 1 /\ (\A i \in 1..at : c[i] = a[i]) /\ c[at + 1] = s[from]
    <3> DEFINE e == <<s[from]>>
    <3>1. c = a \o e
      OBVIOUS
    <3> HIDE DEF c, e
    <3>2. e \in Seq(T) /\ Len(e) = 1 /\ e[1] = s[from] /\ 1 \in 1..Len(e)
      BY <2>4 DEF e
    <3>3. /\ c \in Seq(T) /\ Len(c) = Len(a) + Len(e)
          /\ (\A i \in 1..Len(a) : c[i] = a[i]) /\ \A i \in 1..Len(e) : c[Len(a) + i] = e[i]
      <4>1. a \in Seq(T) /\ e \in Seq(T)
        BY <2>1, <3>2
      <4> QED BY <3>1, <4>1, BothOf
    <3> QED BY <2>1, <3>2, <3>3
  <2> HIDE DEF c, m
  <2>6. /\ m \in Seq(T) /\ Len(m) = Len(c) + Len(b)
        /\ (\A i \in 1..Len(c) : m[i] = c[i]) /\ \A i \in 1..Len(b) : m[Len(c) + i] = b[i]
    <3>1. c \in Seq(T) /\ b \in Seq(T)
      BY <2>2, <2>5
    <3> QED BY <2>3, <3>1, BothOf
  <2>7. ASSUME NEW i \in 1..n PROVE m[i] = IF i <= at THEN rest[i] ELSE IF i = at + 1 THEN s[from] ELSE rest[i - 1]
    <3>1. CASE i <= at + 1
      <4>1. i \in 1..Len(c) /\ (i \in 1..at \/ i = at + 1)
        BY <1>0, <1>2, <2>5, <3>1
      <4>2. m[i] = c[i]
        BY <2>6, <4>1
      <4> QED BY <1>2, <2>1, <2>5, <4>1, <4>2
    <3>2. CASE ~(i <= at + 1)
      <4>1. /\ i - (at + 1) \in 1..(n - 1 - at) /\ at + (i - (at + 1)) = i - 1
            /\ (at + 1) + (i - (at + 1)) = i
        BY <1>0, <1>2, <3>2
      <4>2. m[i] = b[i - (at + 1)]
        <5> DEFINE h == i - (at + 1)
        <5>1. h \in 1..Len(b) /\ Len(c) + h = i
          BY <2>2, <2>5, <4>1
        <5> HIDE DEF h
        <5>2. m[Len(c) + h] = b[h]
          BY <2>6, <5>1
        <5> QED BY <5>1, <5>2 DEF h
      <4>3. b[i - (at + 1)] = rest[at + (i - (at + 1))]
        BY <2>2, <4>1
      <4> QED BY <1>2, <3>2, <4>1, <4>2, <4>3
    <3> QED BY <3>1, <3>2
  <2> QED BY <1>0, <1>2, <2>2, <2>5, <2>6, <2>7
<1>4. Moved(s, from, to) = m
  BY DEF Moved, at, rest
<1> HIDE DEF m
<1> DEFINE p(i) == IF i = at + 1 THEN from
                   ELSE LET r == IF i <= at THEN i ELSE i - 1 IN IF r < from THEN r ELSE r + 1
<1>5. ASSUME NEW i \in 1..n PROVE p(i) \in 1..n /\ m[i] = s[p(i)]
  <2>1. CASE i = at + 1
    BY <1>0, <1>2, <1>3, <2>1
  <2>2. CASE i <= at
    <3>1. i \in 1..(n - 1) /\ i # at + 1
      BY <1>0, <1>2, <2>2
    <3> QED BY <1>0, <1>1, <1>2, <1>3, <2>2, <3>1
  <2>3. CASE i > at + 1
    <3>1. i - 1 \in 1..(n - 1) /\ ~(i <= at) /\ i # at + 1
      BY <1>0, <1>2, <2>3
    <3>2. m[i] = rest[i - 1]
      BY <1>3, <3>1
    <3>3. rest[i - 1] = s[IF i - 1 < from THEN i - 1 ELSE (i - 1) + 1]
      BY <1>1, <3>1
    <3>4. p(i) = IF i - 1 < from THEN i - 1 ELSE (i - 1) + 1
      BY <3>1
    <3>5. p(i) \in 1..n
      BY <1>0, <3>1, <3>4
    <3> QED BY <3>2, <3>3, <3>4, <3>5
  <2> QED BY <1>2, <2>1, <2>2, <2>3
<1>6. ASSUME NEW i \in 1..n, NEW j \in 1..n, p(i) = p(j) PROVE i = j
  BY <1>0, <1>2, <1>6
<1>7. ASSUME NEW j \in 1..n PROVE \E i \in 1..n : p(i) = j
  <2> DEFINE r == IF j < from THEN j ELSE j - 1
             i == IF j = from THEN at + 1 ELSE IF r <= at THEN r ELSE r + 1
  <2>1. i \in 1..n /\ p(i) = j
    BY <1>0, <1>2
  <2> QED BY <2>1
<1> HIDE DEF p
<1>8. DOMAIN m = 1..n /\ DOMAIN s = 1..n
  BY <1>0, <1>3
<1>9. ToSet(m) = ToSet(s)
  <2>1. ASSUME NEW x PROVE x \in ToSet(m) <=> x \in ToSet(s)
    <3>1. ASSUME x \in ToSet(m) PROVE x \in ToSet(s)
      <4>1. PICK i \in 1..n : m[i] = x
        BY <1>8, <3>1 DEF ToSet
      <4>2. p(i) \in 1..n /\ s[p(i)] = x
        BY <1>5, <4>1
      <4> QED BY <1>8, <4>2 DEF ToSet
    <3>2. ASSUME x \in ToSet(s) PROVE x \in ToSet(m)
      <4>1. PICK j \in 1..n : s[j] = x
        BY <1>8, <3>2 DEF ToSet
      <4>2. PICK i \in 1..n : p(i) = j
        BY <1>7
      <4>3. m[i] = x
        BY <1>5, <4>1, <4>2
      <4> QED BY <1>8, <4>3 DEF ToSet
    <3> QED BY <3>1, <3>2
  <2> QED BY <2>1
<1>10. OneEach(s) => OneEach(m)
  BY <1>5, <1>6, <1>8 DEF OneEach
<1> QED BY <1>3, <1>4, <1>9, <1>10

-----------------------------------------------------------------------------
(* The rack: shelves and prompts are there once. *)

Good(x) == x \in Shelf /\ OneEach(x.prompts) /\ Len(x.prompts) <= PerShelfMax
Apart(x, y) == x.id # y.id => IdsIn(x.prompts) \cap IdsIn(y.prompts) = {}
Rack(lib) ==
  /\ lib \in Seq(Shelf) /\ OneEach(lib) /\ Len(lib) <= ShelvesMax
  /\ \A x \in ToSet(lib) : Good(x)
  /\ \A x, y \in ToSet(lib) : Apart(x, y)
Uses(lib) == {x.id : x \in ToSet(lib)} \union UNION {IdsIn(x.prompts) : x \in ToSet(lib)}

\* Fewer shelves, or the same in another order, are a rack.
LEMMA RackPart ==
  ASSUME NEW lib, Rack(lib), NEW w \in Seq(Shelf), OneEach(w), Len(w) <= Len(lib), ToSet(w) \subseteq ToSet(lib)
  PROVE  Rack(w) /\ Uses(w) \subseteq Uses(lib)
<1>1. Len(w) \in Nat /\ Len(lib) \in Nat /\ ShelvesMax \in Nat
  BY PromptsAssumption DEF Rack
<1>2. Len(w) <= ShelvesMax
  BY <1>1 DEF Rack
<1>3. Uses(w) \subseteq Uses(lib)
  BY DEF Uses
<1> QED BY <1>2, <1>3, Zenon DEF Rack

\* One item is replaced by one with its id: the ids stay.
LEMMA ReplacedIs ==
  ASSUME NEW s, NEW i \in DOMAIN s, NEW w, DOMAIN w = DOMAIN s, w[i].id = s[i].id,
         \A j \in DOMAIN s : j # i => w[j] = s[j]
  PROVE  /\ \A y : y \in ToSet(w) => y = w[i] \/ y \in ToSet(s)
         /\ OneEach(s) => OneEach(w)
         /\ IdsIn(w) = IdsIn(s)
<1>1. \A j \in DOMAIN s : w[j].id = s[j].id
  OBVIOUS
<1>2. \A y : y \in ToSet(w) => y = w[i] \/ y \in ToSet(s)
  BY DEF ToSet
<1>3. OneEach(s) => OneEach(w)
  BY <1>1 DEF OneEach
<1>4. IdsIn(w) = IdsIn(s)
  BY <1>1 DEF IdsIn
<1> QED BY <1>2, <1>3, <1>4

\* A rack with another shelf of the same id in its place is one, if its prompts are nowhere else.
LEMMA RackPatched ==
  ASSUME NEW lib, Rack(lib), NEW i \in DOMAIN lib, NEW w \in Seq(Shelf), Len(w) = Len(lib),
         Good(w[i]), w[i].id = lib[i].id, \A j \in DOMAIN lib : j # i => w[j] = lib[j],
         \A y \in ToSet(lib) : Apart(w[i], y)
  PROVE  Rack(w) /\ Uses(w) \subseteq Uses(lib) \union IdsIn(w[i].prompts)
<1> DEFINE x == w[i]
<1>1. lib \in Seq(Shelf) /\ OneEach(lib) /\ Len(lib) <= ShelvesMax
  BY DEF Rack
<1>0. DOMAIN w = DOMAIN lib
  BY <1>1
<1>2. /\ OneEach(w)
      /\ \A y : y \in ToSet(w) => y = x \/ y \in ToSet(lib)
  BY <1>0, <1>1, ReplacedIs
<1>7. Good(x) /\ x.id = lib[i].id /\ \A y \in ToSet(lib) : Apart(x, y)
  OBVIOUS
<1> HIDE DEF x
<1>3. \A y \in ToSet(w) : Good(y)
  BY <1>2, <1>7 DEF Rack
<1>4. \A y, z \in ToSet(w) : Apart(y, z)
  <2>1. \A y, z : Apart(y, z) => Apart(z, y)
    BY DEF Apart
  <2>2. Apart(x, x)
    BY DEF Apart
  <2>3. \A y, z \in ToSet(lib) : Apart(y, z)
    BY DEF Rack
  <2> QED BY <1>2, <1>7, <2>1, <2>2, <2>3, Zenon
<1>5. Uses(w) \subseteq Uses(lib) \union IdsIn(x.prompts)
  <2>1. lib[i] \in ToSet(lib)
    BY DEF ToSet
  <2>2. x.id \in Uses(lib)
    BY <1>7, <2>1 DEF Uses
  <2> QED BY <1>2, <2>2 DEF Uses
<1>6. Rack(w)
  BY <1>1, <1>2, <1>3, <1>4 DEF Rack
<1> QED BY <1>5, <1>6 DEF x

\* Something new at the end.
LEMMA AppendedIs ==
  ASSUME NEW T, NEW s \in Seq(T), NEW x \in T
  PROVE  LET w == Append(s, x)
         IN /\ w \in Seq(T) /\ Len(w) = Len(s) + 1 /\ Len(s) \in Nat
            /\ ToSet(w) = ToSet(s) \union {x} /\ IdsIn(w) = IdsIn(s) \union {x.id}
            /\ OneEach(s) /\ x.id \notin IdsIn(s) => OneEach(w)
            /\ w[Len(s) + 1] = x
<1> DEFINE w == Append(s, x)
<1>1. /\ Len(s) \in Nat /\ DOMAIN s = 1..Len(s) /\ DOMAIN w = 1..Len(s) + 1 /\ w \in Seq(T) /\ Len(w) = Len(s) + 1
      /\ w[Len(s) + 1] = x /\ \A i \in 1..Len(s) : w[i] = s[i]
  OBVIOUS
<1> HIDE DEF w
<1>2. ToSet(w) = ToSet(s) \union {x}
  BY <1>1 DEF ToSet
<1>3. IdsIn(w) = IdsIn(s) \union {x.id}
  BY <1>1 DEF IdsIn
<1>4. OneEach(s) /\ x.id \notin IdsIn(s) => OneEach(w)
  BY <1>1 DEF OneEach, IdsIn
<1> QED BY <1>1, <1>2, <1>3, <1>4 DEF w

\* The same for a position that is given or not.
LEMMA PlacedIs ==
  ASSUME NEW T, NEW s \in Seq(T), NEW i \in DOMAIN s, NEW position \in Nat \union {Nowhere}
  PROVE  LET w == Placed(s, i, position)
         IN /\ w \in Seq(T) /\ Len(w) = Len(s) /\ ToSet(w) = ToSet(s) /\ IdsIn(w) = IdsIn(s)
            /\ OneEach(s) => OneEach(w)
<1> DEFINE w == Placed(s, i, position)
<1>1. w \in Seq(T) /\ Len(w) = Len(s) /\ ToSet(w) = ToSet(s) /\ (OneEach(s) => OneEach(w))
  <2>1. CASE position = Nowhere
    BY <2>1 DEF Placed
  <2>2. CASE position # Nowhere
    <3>1. position \in Nat /\ w = Moved(s, i, position)
      BY <2>2 DEF Placed
    <3> QED BY <3>1, MovedIs
  <2> QED BY <2>1, <2>2
<1> HIDE DEF w
<1>2. IdsIn(w) = {x.id : x \in ToSet(w)} /\ IdsIn(s) = {x.id : x \in ToSet(s)}
  BY <1>1, ItemsOf
<1> QED BY <1>1, <1>2 DEF w

-----------------------------------------------------------------------------
(* The changes keep a rack, and use no id but the new one. *)

PrOps == {"createShelf", "updateShelf", "deleteShelf", "createPrompt", "updatePrompt", "deletePrompt"}
PrRequest == [op : PrOps, name : PrNames \union {Same}, id : 1..4, shelf : {0, 1, 2},
              position : Nat \union {Nowhere}, new : PrIds, at : {"queued", "write", "answer"}, read : Seq(Shelf), blind : BOOLEAN]
PrEdit(e) == e \in PrRequest /\ (e.op \in {"createShelf", "createPrompt"} => e.name \in PrNames)
KeepsRack(made, lib, e) == made.ok => Rack(made.lib) /\ Uses(made.lib) \subseteq Uses(lib) \union {e.new}

\* What is looked for by its id.
LEMMA FoundAt ==
  ASSUME NEW items, NEW id, id \in IdsIn(items)
  PROVE  IndexOf(items, id) \in DOMAIN items /\ items[IndexOf(items, id)].id = id
<1>1. \E i \in DOMAIN items : items[i].id = id
  BY DEF IdsIn
<1> QED BY <1>1, Zenon DEF IndexOf

\* A shelf of a rack.
LEMMA ShelfAt ==
  ASSUME NEW lib, Rack(lib), NEW i \in DOMAIN lib
  PROVE  /\ lib \in Seq(Shelf) /\ lib[i] \in ToSet(lib) /\ lib[i] \in Shelf /\ Good(lib[i])
         /\ lib[i].prompts \in Seq(Prompt) /\ lib[i].id \in Uses(lib) /\ IdsIn(lib[i].prompts) \subseteq Uses(lib)
<1>1. lib[i] \in ToSet(lib)
  BY DEF ToSet
<1>2. Good(lib[i]) /\ lib \in Seq(Shelf)
  BY <1>1 DEF Rack
<1>3. lib[i] \in Shelf /\ lib[i].prompts \in Seq(Prompt)
  BY <1>2 DEF Good, Shelf
<1> QED BY <1>1, <1>2, <1>3 DEF Uses

Put(lib, i, ps) == [lib EXCEPT ![i].prompts = ps]
\* Its own, and ids that no other shelf has.
Fits(lib, i, ps, fresh) ==
  /\ ps \in Seq(Prompt) /\ OneEach(ps) /\ Len(ps) <= PerShelfMax
  /\ IdsIn(ps) \subseteq IdsIn(lib[i].prompts) \union fresh
  /\ \A y \in ToSet(lib) : y.id # lib[i].id => IdsIn(y.prompts) \cap fresh = {}

\* A shelf is given other prompts.
LEMMA PromptsPut ==
  ASSUME NEW lib, Rack(lib), NEW i \in DOMAIN lib, NEW ps, NEW fresh, Fits(lib, i, ps, fresh),
         NEW w, w = Put(lib, i, ps)
  PROVE  /\ Rack(w) /\ Uses(w) \subseteq Uses(lib) \union fresh
         /\ DOMAIN w = DOMAIN lib /\ w[i].prompts = ps /\ w[i].id = lib[i].id
         /\ \A j \in DOMAIN lib : j # i => w[j] = lib[j]
<1>1. lib \in Seq(Shelf) /\ lib[i] \in Shelf /\ lib[i] \in ToSet(lib) /\ IdsIn(lib[i].prompts) \subseteq Uses(lib)
  BY ShelfAt
<1>0. /\ ps \in Seq(Prompt) /\ OneEach(ps) /\ Len(ps) <= PerShelfMax
      /\ IdsIn(ps) \subseteq IdsIn(lib[i].prompts) \union fresh
      /\ \A y \in ToSet(lib) : y.id # lib[i].id => IdsIn(y.prompts) \cap fresh = {}
  BY DEF Fits
<1> DEFINE x == [lib[i] EXCEPT !.prompts = ps]
<1>2. x \in Shelf /\ x.id = lib[i].id /\ x.prompts = ps
  BY <1>0, <1>1 DEF Shelf
<1>3. Good(x)
  BY <1>0, <1>2 DEF Good
<1>4. w = [lib EXCEPT ![i] = x]
  BY DEF Put
<1> HIDE DEF x
<1>5. /\ w \in Seq(Shelf) /\ Len(w) = Len(lib) /\ DOMAIN w = DOMAIN lib /\ w[i] = x
      /\ \A j \in DOMAIN lib : j # i => w[j] = lib[j]
  BY <1>1, <1>2, <1>4
<1>6. ASSUME NEW y \in ToSet(lib) PROVE Apart(x, y)
  <2>1. Apart(lib[i], y)
    BY <1>1 DEF Rack
  <2> QED BY <1>0, <1>2, <2>1 DEF Apart
<1>7. Rack(w) /\ Uses(w) \subseteq Uses(lib) \union IdsIn(w[i].prompts)
  <2>1. Good(w[i]) /\ w[i].id = lib[i].id /\ \A y \in ToSet(lib) : Apart(w[i], y)
    BY <1>2, <1>3, <1>5, <1>6
  <2> QED BY <1>5, <2>1, RackPatched
<1>8. Uses(w) \subseteq Uses(lib) \union fresh
  BY <1>0, <1>1, <1>2, <1>5, <1>7
<1> QED BY <1>2, <1>5, <1>7, <1>8

\* Each of the operations.
LEMMA CreateShelfKeeps ==
  ASSUME NEW lib, Rack(lib), NEW e, PrEdit(e), e.op = "createShelf", e.new \notin Uses(lib)
  PROVE  KeepsRack(CreateShelf(lib, e), lib, e)
<1> SUFFICES ASSUME CreateShelf(lib, e).ok PROVE Rack(CreateShelf(lib, e).lib) /\ Uses(CreateShelf(lib, e).lib) \subseteq Uses(lib) \union {e.new}
  BY DEF KeepsRack
<1> DEFINE x == [id |-> e.new, name |-> e.name, prompts |-> <<>>] w == Append(lib, x)
<1>1. CreateShelf(lib, e).lib = w /\ Len(lib) < ShelvesMax
  <2>1. lib \in Seq(Shelf) /\ Len(lib) \in Nat /\ ShelvesMax \in Nat
    BY PromptsAssumption DEF Rack
  <2> QED BY <2>1 DEF CreateShelf, Made, Refused
<1>2. x \in Shelf /\ x.id = e.new /\ x.prompts = <<>>
  BY DEF PrEdit, PrRequest, Shelf
<1>3. Good(x) /\ IdsIn(x.prompts) = {}
  <2>1. Len(<<>>) = 0 /\ DOMAIN <<>> = {} /\ PerShelfMax \in Nat
    BY PromptsAssumption
  <2> QED BY <1>2, <2>1 DEF Good, OneEach, IdsIn
<1> HIDE DEF x
<1>4. lib \in Seq(Shelf) /\ OneEach(lib) /\ Len(lib) \in Nat /\ ShelvesMax \in Nat
  BY PromptsAssumption DEF Rack
<1>5. IdsIn(lib) \subseteq Uses(lib)
  BY <1>4, ItemsOf DEF Uses
<1>6. /\ w \in Seq(Shelf) /\ Len(w) = Len(lib) + 1 /\ ToSet(w) = ToSet(lib) \union {x} /\ OneEach(w)
  <2>1. x.id \notin IdsIn(lib)
    BY <1>2, <1>5
  <2> QED BY <1>2, <1>4, <2>1, AppendedIs
<1> HIDE DEF w
<1>7. \A y, z \in ToSet(w) : Apart(y, z)
  <2>1. \A y, z \in ToSet(lib) : Apart(y, z)
    BY DEF Rack
  <2>2. \A y : Apart(x, y) /\ Apart(y, x)
    BY <1>3 DEF Apart
  <2> QED BY <1>6, <2>1, <2>2
<1>8. Rack(w)
  <2>1. Len(w) <= ShelvesMax
    BY <1>1, <1>4, <1>6
  <2>2. \A y \in ToSet(w) : Good(y)
    BY <1>3, <1>6 DEF Rack
  <2> QED BY <1>6, <1>7, <2>1, <2>2 DEF Rack
<1>9. Uses(w) \subseteq Uses(lib) \union {e.new}
  BY <1>2, <1>3, <1>6 DEF Uses
<1> QED BY <1>1, <1>8, <1>9

LEMMA UpdateShelfKeeps ==
  ASSUME NEW lib, Rack(lib), NEW e, PrEdit(e)
  PROVE  KeepsRack(UpdateShelf(lib, e), lib, e)
<1> SUFFICES ASSUME UpdateShelf(lib, e).ok PROVE Rack(UpdateShelf(lib, e).lib) /\ Uses(UpdateShelf(lib, e).lib) \subseteq Uses(lib)
  BY DEF KeepsRack
<1> DEFINE i == IndexOf(lib, e.id) x == Renamed(lib[i], e.name) v == [lib EXCEPT ![i] = x]
           w == Placed(v, i, e.position)
<1>1. e.id \in IdsIn(lib) /\ UpdateShelf(lib, e).lib = w
  BY DEF UpdateShelf, Made, Refused, ShelfIds, IdsIn
<1>2. i \in DOMAIN lib
  BY <1>1, FoundAt
<1> HIDE DEF i
<1>3. /\ lib \in Seq(Shelf) /\ lib[i] \in ToSet(lib) /\ lib[i] \in Shelf /\ Good(lib[i])
      /\ IdsIn(lib[i].prompts) \subseteq Uses(lib)
  BY <1>2, ShelfAt
<1>4. x \in Shelf /\ x.id = lib[i].id /\ x.prompts = lib[i].prompts
  <2>1. CASE e.name = Same
    BY <1>3, <2>1 DEF Renamed
  <2>2. CASE e.name # Same
    <3>1. e.name \in PrNames
      BY <2>2 DEF PrEdit, PrRequest
    <3> QED BY <1>3, <2>2, <3>1 DEF Renamed, Shelf
  <2> QED BY <2>1, <2>2
<1> HIDE DEF x
<1>5. Good(x)
  BY <1>3, <1>4 DEF Good
<1>6. \A y \in ToSet(lib) : Apart(x, y)
  <2>1. \A y \in ToSet(lib) : Apart(lib[i], y)
    BY <1>3 DEF Rack
  <2> QED BY <1>4, <2>1 DEF Apart
<1>7. v \in Seq(Shelf) /\ Len(v) = Len(lib) /\ DOMAIN v = DOMAIN lib /\ v[i] = x /\ \A j \in DOMAIN lib : j # i => v[j] = lib[j]
  BY <1>2, <1>3, <1>4
<1> HIDE DEF v
<1>8. Rack(v) /\ Uses(v) \subseteq Uses(lib) \union IdsIn(v[i].prompts)
  BY <1>2, <1>4, <1>5, <1>6, <1>7, RackPatched
<1>9. Uses(v) \subseteq Uses(lib)
  BY <1>3, <1>4, <1>7, <1>8
<1>10. w \in Seq(Shelf) /\ Len(w) = Len(v) /\ ToSet(w) = ToSet(v) /\ OneEach(w)
  <2>1. i \in DOMAIN v /\ OneEach(v) /\ e.position \in Nat \union {Nowhere}
    BY <1>2, <1>7, <1>8 DEF Rack, PrEdit, PrRequest
  <2> QED BY <1>7, <2>1, PlacedIs
<1> HIDE DEF w
<1>11. Rack(w) /\ Uses(w) \subseteq Uses(v)
  <2>1. Len(v) \in Nat
    BY <1>7
  <2>2. Len(w) <= Len(v)
    BY <1>10, <2>1
  <2> QED BY <1>8, <1>10, <2>2, RackPart
<1> QED BY <1>1, <1>9, <1>11

LEMMA DeleteShelfKeeps ==
  ASSUME NEW lib, Rack(lib), NEW e
  PROVE  KeepsRack(DeleteShelf(lib, e), lib, e)
<1> SUFFICES ASSUME DeleteShelf(lib, e).ok PROVE Rack(DeleteShelf(lib, e).lib) /\ Uses(DeleteShelf(lib, e).lib) \subseteq Uses(lib)
  BY DEF KeepsRack
<1> DEFINE w == Without(lib, e.id)
<1>1. DeleteShelf(lib, e).lib = w
  BY DEF DeleteShelf, Made, Refused
<1>2. lib \in Seq(Shelf) /\ OneEach(lib)
  BY DEF Rack
<1>3. /\ w \in Seq(Shelf) /\ Len(w) <= Len(lib)
      /\ (\A x : x \in ToSet(w) <=> x \in ToSet(lib) /\ x.id # e.id) /\ OneEach(w)
  BY <1>2, WithoutIs
<1> HIDE DEF w
<1>4. ToSet(w) \subseteq ToSet(lib)
  BY <1>3
<1> QED BY <1>1, <1>3, <1>4, RackPart

\* A prompt with a new id.
LEMMA CreatePromptKeeps ==
  ASSUME NEW lib, Rack(lib), NEW e, PrEdit(e), e.op = "createPrompt", e.new \notin Uses(lib)
  PROVE  KeepsRack(CreatePrompt(lib, e), lib, e)
<1> SUFFICES ASSUME CreatePrompt(lib, e).ok
             PROVE  Rack(CreatePrompt(lib, e).lib) /\ Uses(CreatePrompt(lib, e).lib) \subseteq Uses(lib) \union {e.new}
  BY DEF KeepsRack
<1> DEFINE i == IndexOf(lib, e.shelf) p == [id |-> e.new, name |-> e.name]
           ps == Append(lib[i].prompts, p) w == [lib EXCEPT ![i].prompts = ps]
<1>1. e.shelf \in IdsIn(lib) /\ CreatePrompt(lib, e).lib = w /\ ~(Len(lib[i].prompts) >= PerShelfMax)
  BY DEF CreatePrompt, Made, Refused, ShelfIds, IdsIn
<1>2. i \in DOMAIN lib
  BY <1>1, FoundAt
<1> HIDE DEF i
<1>3. /\ lib \in Seq(Shelf) /\ lib[i].prompts \in Seq(Prompt) /\ Good(lib[i])
      /\ IdsIn(lib[i].prompts) \subseteq Uses(lib)
  BY <1>2, ShelfAt
<1>4. p \in Prompt /\ p.id = e.new
  BY DEF PrEdit, PrRequest, Prompt
<1> HIDE DEF p
<1>5. /\ ps \in Seq(Prompt) /\ Len(ps) = Len(lib[i].prompts) + 1 /\ Len(lib[i].prompts) \in Nat
      /\ IdsIn(ps) = IdsIn(lib[i].prompts) \union {e.new} /\ OneEach(ps)
  <2>1. OneEach(lib[i].prompts) /\ p.id \notin IdsIn(lib[i].prompts)
    BY <1>3, <1>4 DEF Good
  <2> QED BY <1>3, <1>4, <2>1, AppendedIs
<1>6. Len(ps) <= PerShelfMax
  BY <1>1, <1>5, PromptsAssumption
<1> HIDE DEF ps
<1>7. \A y \in ToSet(lib) : y.id # lib[i].id => IdsIn(y.prompts) \cap {e.new} = {}
  BY DEF Uses
<1>8. w = Put(lib, i, ps)
  BY DEF Put
<1> HIDE DEF w
<1>9. Fits(lib, i, ps, {e.new})
  BY <1>5, <1>6, <1>7 DEF Fits
<1> QED BY <1>1, <1>2, <1>8, <1>9, PromptsPut

\* The prompt that is found.
LEMMA PromptAt ==
  ASSUME NEW lib, NEW e, NEW p \in PromptsOf(lib), lib[p[1]].prompts[p[2]].id = e.id
  PROVE  p[1] \in DOMAIN lib /\ p[2] \in DOMAIN lib[p[1]].prompts
<1>1. PICK i \in DOMAIN lib : \E j \in DOMAIN lib[i].prompts : p = <<i, j>>
  BY DEF PromptsOf
<1>2. PICK j \in DOMAIN lib[i].prompts : p = <<i, j>>
  BY <1>1
<1>3. p[1] = i /\ p[2] = j
  BY <1>2
<1> QED BY <1>3

TakeOut(lib, i, id) == Put(lib, i, Without(lib[i].prompts, id))

\* The prompts of a shelf but for one.
LEMMA TakenOut ==
  ASSUME NEW lib, Rack(lib), NEW i \in DOMAIN lib, NEW id, NEW w,
         w = TakeOut(lib, i, id)
  PROVE  /\ Rack(w) /\ Uses(w) \subseteq Uses(lib) /\ DOMAIN w = DOMAIN lib
         /\ w[i].id = lib[i].id /\ id \notin IdsIn(w[i].prompts)
         /\ \A j \in DOMAIN lib : j # i => w[j] = lib[j]
<1> DEFINE s == lib[i].prompts ps == Without(s, id)
<1>1. s \in Seq(Prompt) /\ OneEach(s) /\ Len(s) <= PerShelfMax /\ PerShelfMax \in Nat
  BY ShelfAt, PromptsAssumption DEF Good
<1> HIDE DEF s
<1>2. /\ ps \in Seq(Prompt) /\ Len(ps) <= Len(s) /\ OneEach(ps)
      /\ \A x : x \in ToSet(ps) <=> x \in ToSet(s) /\ x.id # id
  BY <1>1, WithoutIs
<1>3. Len(ps) <= PerShelfMax
  BY <1>1, <1>2
<1> HIDE DEF ps
<1>4. IdsIn(ps) = {x.id : x \in ToSet(ps)} /\ IdsIn(s) = {x.id : x \in ToSet(s)}
  BY <1>1, <1>2, ItemsOf
<1>5. IdsIn(ps) \subseteq IdsIn(s) \union {} /\ id \notin IdsIn(ps)
  BY <1>2, <1>4
<1>6. IdsIn(ps) \subseteq IdsIn(lib[i].prompts) \union {} /\ w = Put(lib, i, ps)
  BY <1>5 DEF s, ps, TakeOut
<1>7. \A y \in ToSet(lib) : y.id # lib[i].id => IdsIn(y.prompts) \cap {} = {}
  OBVIOUS
<1>9. Fits(lib, i, ps, {})
  BY <1>2, <1>3, <1>6, <1>7 DEF Fits
<1>8. /\ Rack(w) /\ Uses(w) \subseteq Uses(lib) \union {}
      /\ DOMAIN w = DOMAIN lib /\ w[i].prompts = ps /\ w[i].id = lib[i].id
      /\ \A j \in DOMAIN lib : j # i => w[j] = lib[j]
  BY <1>6, <1>9, PromptsPut
<1> QED BY <1>5, <1>8

\* The first that is found.
LEMMA DeletePromptKeeps ==
  ASSUME NEW lib, Rack(lib), NEW e
  PROVE  KeepsRack(DeletePrompt(lib, e), lib, e)
<1> SUFFICES ASSUME DeletePrompt(lib, e).ok
             PROVE  Rack(DeletePrompt(lib, e).lib) /\ Uses(DeletePrompt(lib, e).lib) \subseteq Uses(lib)
  BY DEF KeepsRack
<1> DEFINE found == {p \in PromptsOf(lib) : lib[p[1]].prompts[p[2]].id = e.id}
           i == (CHOOSE p \in found : TRUE)[1]
           w == [lib EXCEPT ![i].prompts = Without(lib[i].prompts, e.id)]
<1>1. found # {} /\ DeletePrompt(lib, e).lib = w
  BY DEF DeletePrompt, Made, Refused
<1>2. i \in DOMAIN lib
  <2> DEFINE p == CHOOSE p \in found : TRUE
  <2>1. p \in found
    BY <1>1, Zenon
  <2> HIDE DEF p
  <2>2. p[1] \in DOMAIN lib
    BY <2>1, PromptAt
  <2> QED BY <2>2 DEF p
<1> HIDE DEF i
<1>3. w = TakeOut(lib, i, e.id)
  BY DEF Put, TakeOut
<1> HIDE DEF w, found
<1> QED BY <1>1, <1>2, <1>3, TakenOut

\* A prompt's other name.
LEMMA RenamedIs ==
  ASSUME NEW x \in Prompt, NEW e, PrEdit(e)
  PROVE  Renamed(x, e.name) \in Prompt /\ Renamed(x, e.name).id = x.id
<1>1. CASE e.name = Same
  BY <1>1 DEF Renamed
<1>2. CASE e.name # Same
  <2>1. e.name \in PrNames
    BY <1>2 DEF PrEdit, PrRequest
  <2> QED BY <1>2, <2>1 DEF Renamed, Prompt
<1> QED BY <1>1, <1>2

\* Within its shelf: another name and another place.
LEMMA StaysKeeps ==
  ASSUME NEW lib, Rack(lib), NEW e, PrEdit(e), NEW i \in DOMAIN lib, NEW at \in DOMAIN lib[i].prompts,
         NEW next \in Prompt, next.id = lib[i].prompts[at].id,
         NEW w, w = Put(lib, i, Placed([lib[i].prompts EXCEPT ![at] = next], at, e.position))
  PROVE  Rack(w) /\ Uses(w) \subseteq Uses(lib)
<1> DEFINE s == lib[i].prompts v == [s EXCEPT ![at] = next] ps == Placed(v, at, e.position)
<1>1. s \in Seq(Prompt) /\ OneEach(s) /\ Len(s) <= PerShelfMax
  BY ShelfAt DEF Good
<1>2. at \in DOMAIN s /\ next.id = s[at].id
  OBVIOUS
<1> HIDE DEF s
<1>3. /\ v \in Seq(Prompt) /\ Len(v) = Len(s) /\ DOMAIN v = DOMAIN s /\ v[at] = next
      /\ \A j \in DOMAIN s : j # at => v[j] = s[j]
  BY <1>1, <1>2
<1> HIDE DEF v
<1>4. OneEach(v) /\ IdsIn(v) = IdsIn(s)
  <2>1. v[at].id = s[at].id
    BY <1>2, <1>3
  <2> QED BY <1>1, <1>2, <1>3, <2>1, ReplacedIs
<1>5. ps \in Seq(Prompt) /\ Len(ps) = Len(v) /\ IdsIn(ps) = IdsIn(v) /\ OneEach(ps)
  <2>1. at \in DOMAIN v /\ e.position \in Nat \union {Nowhere}
    BY <1>2, <1>3 DEF PrEdit, PrRequest, PrRequest
  <2> QED BY <1>3, <1>4, <2>1, PlacedIs
<1> HIDE DEF ps
<1>6. IdsIn(ps) \subseteq IdsIn(lib[i].prompts) \union {} /\ Len(ps) <= PerShelfMax
  BY <1>1, <1>3, <1>4, <1>5 DEF s
<1>7. w = Put(lib, i, ps)
  BY DEF ps, v, s
<1>8. \A y \in ToSet(lib) : y.id # lib[i].id => IdsIn(y.prompts) \cap {} = {}
  OBVIOUS
<1>9. Fits(lib, i, ps, {})
  BY <1>5, <1>6, <1>8 DEF Fits
<1>10. Rack(w) /\ Uses(w) \subseteq Uses(lib) \union {}
  BY <1>7, <1>9, PromptsPut
<1> QED BY <1>10

\* To another shelf, that has room: out of the one, then at the end or a place of the other.
LEMMA GoesKeeps ==
  ASSUME NEW lib, Rack(lib), NEW e, PrEdit(e), NEW from \in DOMAIN lib, NEW to \in DOMAIN lib, to # from,
         NEW at \in DOMAIN lib[from].prompts, NEW next \in Prompt, next.id = lib[from].prompts[at].id,
         Len(lib[to].prompts) < PerShelfMax,
         NEW v, v = TakeOut(lib, from, next.id),
         NEW w, w = Put(v, to, Placed(Append(lib[to].prompts, next), Len(lib[to].prompts) + 1, e.position))
  PROVE  Rack(w) /\ Uses(w) \subseteq Uses(lib)
<1> DEFINE s == lib[to].prompts a == Append(s, next) ps == Placed(a, Len(s) + 1, e.position)
<1>1. s \in Seq(Prompt) /\ OneEach(s) /\ lib[from] \in ToSet(lib) /\ lib[to] \in ToSet(lib) /\ lib[from].id # lib[to].id
  <2>1. OneEach(lib)
    BY DEF Rack
  <2>2. lib[from].id # lib[to].id
    BY <2>1 DEF OneEach
  <2>3. s \in Seq(Prompt) /\ Good(lib[to]) /\ lib[to] \in ToSet(lib) /\ lib[from] \in ToSet(lib)
    BY ShelfAt
  <2> QED BY <2>2, <2>3 DEF Good
<1>2. next.id \in IdsIn(lib[from].prompts) /\ next.id \in Uses(lib)
  BY <1>1 DEF IdsIn, Uses
<1>3. \A y \in ToSet(lib) : y.id # lib[from].id => next.id \notin IdsIn(y.prompts)
  BY <1>1, <1>2 DEF Rack, Apart
<1>4. next.id \notin IdsIn(s)
  BY <1>1, <1>3
<1> HIDE DEF s
<1>5. /\ a \in Seq(Prompt) /\ Len(a) = Len(s) + 1 /\ Len(s) \in Nat /\ IdsIn(a) = IdsIn(s) \union {next.id}
      /\ OneEach(a)
  BY <1>1, <1>4, AppendedIs
<1>6. Len(s) + 1 \in DOMAIN a
  BY <1>5
<1> HIDE DEF a
<1>7. ps \in Seq(Prompt) /\ Len(ps) = Len(a) /\ IdsIn(ps) = IdsIn(a) /\ OneEach(ps)
  <2>1. e.position \in Nat \union {Nowhere}
    BY DEF PrEdit, PrRequest
  <2> QED BY <1>5, <1>6, <2>1, PlacedIs
<1> HIDE DEF ps
<1>8. Len(ps) <= PerShelfMax
  BY <1>5, <1>7, PromptsAssumption DEF s
<1>9. /\ Rack(v) /\ Uses(v) \subseteq Uses(lib) /\ DOMAIN v = DOMAIN lib
      /\ v[from].id = lib[from].id /\ next.id \notin IdsIn(v[from].prompts)
      /\ \A j \in DOMAIN lib : j # from => v[j] = lib[j]
  BY TakenOut
<1>10. to \in DOMAIN v /\ v[to] = lib[to] /\ IdsIn(ps) \subseteq IdsIn(v[to].prompts) \union {next.id}
  BY <1>5, <1>7, <1>9 DEF s
<1>11. \A y \in ToSet(v) : y.id # v[to].id => IdsIn(y.prompts) \cap {next.id} = {}
  <2>1. ASSUME NEW j \in DOMAIN v, j # to PROVE next.id \notin IdsIn(v[j].prompts)
    <3>1. CASE j = from
      BY <1>9, <3>1
    <3>2. CASE j # from
      <4>1. v[j] = lib[j] /\ lib[j].id # lib[from].id /\ lib[j] \in ToSet(lib)
        BY <1>9, <3>2 DEF Rack, OneEach, ToSet
      <4> QED BY <1>3, <4>1
    <3> QED BY <3>1, <3>2
  <2> QED BY <2>1 DEF ToSet
<1>12. w = Put(v, to, ps)
  BY DEF ps, a, s
<1>14. Fits(v, to, ps, {next.id})
  BY <1>7, <1>8, <1>10, <1>11 DEF Fits
<1>13. Rack(w) /\ Uses(w) \subseteq Uses(v) \union {next.id}
  BY <1>9, <1>10, <1>12, <1>14, PromptsPut
<1> QED BY <1>2, <1>9, <1>13

\* Within its shelf or to another.
LEMMA UpdatePromptKeeps ==
  ASSUME NEW lib, Rack(lib), NEW e, PrEdit(e)
  PROVE  KeepsRack(UpdatePrompt(lib, e), lib, e)
<1> SUFFICES ASSUME UpdatePrompt(lib, e).ok
             PROVE  Rack(UpdatePrompt(lib, e).lib) /\ Uses(UpdatePrompt(lib, e).lib) \subseteq Uses(lib)
  BY DEF KeepsRack
<1> DEFINE found == {p \in PromptsOf(lib) : lib[p[1]].prompts[p[2]].id = e.id}
           from == (CHOOSE p \in found : TRUE)[1]
           at == (CHOOSE p \in found : TRUE)[2]
           to == IF e.shelf = 0 THEN from ELSE IndexOf(lib, e.shelf)
           target == lib[to].prompts
           next == Renamed(lib[from].prompts[at], e.name)
           w == UpdatePrompt(lib, e).lib
<1>1. /\ found # {} /\ e.shelf \in ShelfIds(lib) \union {0}
      /\ ~(to # from /\ Len(target) >= PerShelfMax)
  BY DEF UpdatePrompt, Refused
<1>2. w = IF to = from
          THEN [lib EXCEPT ![to].prompts = Placed([lib[to].prompts EXCEPT ![at] = next], at, e.position)]
          ELSE [[lib EXCEPT ![from].prompts = Without(lib[from].prompts, e.id)]
                  EXCEPT ![to].prompts = Placed(Append(lib[to].prompts, next), Len(lib[to].prompts) + 1, e.position)]
  BY DEF UpdatePrompt, Made, Refused
<1>3. from \in DOMAIN lib /\ at \in DOMAIN lib[from].prompts /\ lib[from].prompts[at].id = e.id
  <2> DEFINE p == CHOOSE p \in found : TRUE
  <2>1. p \in found
    BY <1>1, Zenon
  <2> HIDE DEF p
  <2>2. p[1] \in DOMAIN lib /\ p[2] \in DOMAIN lib[p[1]].prompts /\ lib[p[1]].prompts[p[2]].id = e.id
    BY <2>1, PromptAt
  <2> QED BY <2>2 DEF p
<1> HIDE DEF found, from, at, w
<1>4. to \in DOMAIN lib
  <2>1. CASE e.shelf = 0
    BY <1>3, <2>1
  <2>2. CASE e.shelf # 0
    <3>1. e.shelf \in IdsIn(lib)
      BY <1>1, <2>2 DEF ShelfIds, IdsIn
    <3> QED BY <2>2, <3>1, FoundAt
  <2> QED BY <2>1, <2>2
<1> HIDE DEF to
<1>5. next \in Prompt /\ next.id = e.id
  <2>1. lib[from].prompts \in Seq(Prompt)
    BY <1>3, ShelfAt
  <2>2. lib[from].prompts[at] \in Prompt
    BY <1>3, <2>1
  <2> QED BY <1>3, <2>2, RenamedIs
<1> HIDE DEF next
<1>6. CASE to = from
  <2>1. w = Put(lib, from, Placed([lib[from].prompts EXCEPT ![at] = next], at, e.position))
    BY <1>2, <1>6 DEF Put
  <2>2. next.id = lib[from].prompts[at].id
    BY <1>3, <1>5
  <2> QED BY <1>3, <1>5, <2>1, <2>2, StaysKeeps DEF w
<1>7. CASE to # from
  <2> DEFINE v == TakeOut(lib, from, next.id)
  <2>1. w = Put(v, to, Placed(Append(lib[to].prompts, next), Len(lib[to].prompts) + 1, e.position))
    BY <1>2, <1>5, <1>7 DEF Put, TakeOut
  <2>2. next.id = lib[from].prompts[at].id
    BY <1>3, <1>5
  <2>3. Len(lib[to].prompts) < PerShelfMax
    <3>1. lib[to].prompts \in Seq(Prompt)
      BY <1>4, ShelfAt
    <3> QED BY <1>1, <1>7, <3>1, PromptsAssumption
  <2>4. v = TakeOut(lib, from, next.id)
    OBVIOUS
  <2> HIDE DEF v
  <2>5. Rack(w) /\ Uses(w) \subseteq Uses(lib)
    BY <1>3, <1>4, <1>5, <1>7, <2>1, <2>2, <2>3, <2>4, GoesKeeps
  <2> QED BY <2>5 DEF w
<1> QED BY <1>6, <1>7

\* All of them.
LEMMA AppliedKeeps ==
  ASSUME NEW lib, Rack(lib), NEW e, PrEdit(e), e.new \notin Uses(lib)
  PROVE  KeepsRack(Applied(lib, e), lib, e)
<1>1. CASE e.op = "createShelf"
  BY <1>1, CreateShelfKeeps DEF Applied
<1>2. CASE e.op = "updateShelf"
  BY <1>2, UpdateShelfKeeps DEF Applied
<1>3. CASE e.op = "deleteShelf"
  BY <1>3, DeleteShelfKeeps DEF Applied
<1>4. CASE e.op = "createPrompt"
  BY <1>4, CreatePromptKeeps DEF Applied
<1>5. CASE e.op = "updatePrompt"
  BY <1>5, UpdatePromptKeeps DEF Applied
<1>6. CASE e.op = "deletePrompt"
  BY <1>6, DeletePromptKeeps DEF Applied
<1> QED BY <1>1, <1>2, <1>3, <1>4, <1>5, <1>6 DEF PrEdit, PrRequest, PrOps

\* A place of a prompt, taken apart.
LEMMA PromptPlace ==
  ASSUME NEW lib, NEW p \in PromptsOf(lib)
  PROVE  /\ p[1] \in DOMAIN lib /\ p[2] \in DOMAIN lib[p[1]].prompts /\ p = <<p[1], p[2]>>
<1>1. PICK i \in DOMAIN lib : \E j \in DOMAIN lib[i].prompts : p = <<i, j>>
  BY DEF PromptsOf
<1>2. PICK j \in DOMAIN lib[i].prompts : p = <<i, j>>
  BY <1>1
<1>3. p[1] = i /\ p[2] = j
  BY <1>2
<1> QED BY <1>2, <1>3

\* And put together.
LEMMA ItsPlace ==
  ASSUME NEW lib, NEW i \in DOMAIN lib, NEW j \in DOMAIN lib[i].prompts
  PROVE  <<i, j>> \in PromptsOf(lib) /\ <<i, j>>[1] = i /\ <<i, j>>[2] = j
BY DEF PromptsOf

\* By places or by sets, it is the same rack.
LEMMA RackIsSound ==
  ASSUME NEW lib \in Seq(Shelf)
  PROVE  Rack(lib) <=> RackSound(lib)
<1>1. ASSUME RackSound(lib) PROVE Rack(lib)
  <2>1. OneEach(lib) /\ Len(lib) <= ShelvesMax
    BY <1>1 DEF RackSound, OneEach
  <2>2. ASSUME NEW i \in DOMAIN lib, NEW k \in DOMAIN lib,
               NEW a \in DOMAIN lib[i].prompts, NEW b \in DOMAIN lib[k].prompts,
               lib[i].prompts[a].id = lib[k].prompts[b].id
        PROVE  i = k /\ a = b
    <3> DEFINE p == <<i, a>> q == <<k, b>>
    <3>1. p \in PromptsOf(lib) /\ q \in PromptsOf(lib) /\ p[1] = i /\ p[2] = a /\ q[1] = k /\ q[2] = b
      BY ItsPlace
    <3> HIDE DEF p, q
    <3>2. p = q
      BY <1>1, <2>2, <3>1 DEF RackSound
    <3> QED BY <3>1, <3>2
  <2>3. ASSUME NEW i \in DOMAIN lib PROVE Good(lib[i])
    <3>1. lib[i] \in Shelf
      OBVIOUS
    <3>2. Len(lib[i].prompts) <= PerShelfMax
      BY <1>1 DEF RackSound
    <3>3. OneEach(lib[i].prompts)
      BY <2>2 DEF OneEach
    <3> QED BY <3>1, <3>2, <3>3 DEF Good
  <2>4. ASSUME NEW i \in DOMAIN lib, NEW k \in DOMAIN lib PROVE Apart(lib[i], lib[k])
    BY <2>2 DEF Apart, IdsIn
  <2> QED BY <2>1, <2>3, <2>4 DEF Rack, ToSet
<1>2. ASSUME Rack(lib) PROVE RackSound(lib)
  <2>1. ASSUME NEW p \in PromptsOf(lib), NEW q \in PromptsOf(lib),
               lib[p[1]].prompts[p[2]].id = lib[q[1]].prompts[q[2]].id
        PROVE  p = q
    <3>1. /\ p[1] \in DOMAIN lib /\ p[2] \in DOMAIN lib[p[1]].prompts /\ p = <<p[1], p[2]>>
          /\ q[1] \in DOMAIN lib /\ q[2] \in DOMAIN lib[q[1]].prompts /\ q = <<q[1], q[2]>>
      BY PromptPlace
    <3>2. p[1] = q[1]
      <4> SUFFICES ASSUME p[1] # q[1] PROVE FALSE
        OBVIOUS
      <4>1. lib[p[1]].id # lib[q[1]].id
        BY <1>2, <3>1 DEF Rack, OneEach
      <4>2. Apart(lib[p[1]], lib[q[1]])
        BY <1>2, <3>1 DEF Rack, ToSet
      <4> QED BY <2>1, <3>1, <4>1, <4>2 DEF Apart, IdsIn
    <3>3. p[2] = q[2]
      <4>1. OneEach(lib[p[1]].prompts)
        BY <1>2, <3>1, ShelfAt DEF Good
      <4> QED BY <2>1, <3>1, <3>2, <4>1 DEF OneEach
    <3> QED BY <3>1, <3>2, <3>3
  <2>2. /\ \A i, j \in DOMAIN lib : lib[i].id = lib[j].id => i = j
        /\ Len(lib) <= ShelvesMax
        /\ \A i \in DOMAIN lib : Len(lib[i].prompts) <= PerShelfMax
    BY <1>2, ShelfAt DEF Rack, OneEach, Good
  <2> QED BY <2>1, <2>2 DEF RackSound
<1> QED BY <1>1, <1>2

-----------------------------------------------------------------------------
(* The requests, one behind the other. *)

Pending(s) == edits[s] # None
Base(e, lib) == IF e.blind THEN <<>> ELSE lib
\* How far an edit is: the first may read, has read what it will write over, or waits for
\* its answer and is in the file.
Along(e, s, q, lib, racks) ==
  /\ e.at = "queued" => ~e.blind
  /\ e.at \in {"write", "answer"} => Head(q) = s
  /\ e.at = "write" => e.read = Base(e, lib)
  /\ e.at = "answer" => lib \in Outcomes(racks, e)
  /\ e.at # "answer" => e.new \notin Uses(lib)
PrInv ==
  /\ DOMAIN edits = PrSlots /\ queue \in Seq(PrSlots) /\ editsMade \in 0..MaxEdits
  /\ \A s \in PrSlots : Pending(s) =>
       /\ PrEdit(edits[s]) /\ s \in ToSet(queue) /\ edits[s].new \in 5..4 + editsMade
       /\ Along(edits[s], s, queue, library, expected)
  /\ \A s, t \in PrSlots : Pending(s) /\ Pending(t) /\ edits[s].new = edits[t].new => s = t
  /\ Rack(library) /\ Uses(library) \subseteq 1..4 + editsMade
  /\ (\A s \in PrSlots : Pending(s) => edits[s].at # "answer") => library \in expected

\* The first library was written by this store.
LEMMA PrInvInit ==
  PrStart => PrInv
<1> SUFFICES ASSUME PrStart PROVE PrInv
  OBVIOUS
<1>1. /\ library \in Seq(Shelf) /\ RackSound(library) /\ ShelfIds(library) \subseteq 1..4
      /\ \A p \in PromptsOf(library) : library[p[1]].prompts[p[2]].id \in 1..4
  BY PromptsAssumption DEF PrStart
<1>2. Rack(library)
  BY <1>1, RackIsSound
<1>3. Uses(library) \subseteq 1..4
  <2>1. ASSUME NEW i \in DOMAIN library PROVE library[i].id \in 1..4 /\ IdsIn(library[i].prompts) \subseteq 1..4
    <3>1. library[i].id \in 1..4
      BY <1>1 DEF ShelfIds
    <3>2. ASSUME NEW j \in DOMAIN library[i].prompts PROVE library[i].prompts[j].id \in 1..4
      <4> DEFINE p == <<i, j>>
      <4>1. p \in PromptsOf(library) /\ p[1] = i /\ p[2] = j
        BY ItsPlace
      <4> HIDE DEF p
      <4>2. library[p[1]].prompts[p[2]].id \in 1..4
        BY <1>1, <4>1
      <4> QED BY <4>1, <4>2
    <3> QED BY <3>1, <3>2 DEF IdsIn
  <2> QED BY <2>1 DEF Uses, ToSet
<1>4. editsMade = 0 /\ queue = <<>> /\ edits = [s \in PrSlots |-> None] /\ library \in expected /\ MaxEdits \in Nat
  BY PromptsAssumption DEF PrStart
<1> QED BY <1>2, <1>3, <1>4 DEF PrInv, Pending

\* One more at the end of the chain, with an id of its own.
LEMMA RequestKeeps ==
  ASSUME PrInv, NEW s \in PrSlots, RequestEdit(s)
  PROVE  PrInv'
<1> DEFINE e == edits'[s]
<1>1. /\ edits[s] = None /\ editsMade < MaxEdits /\ editsMade' = editsMade + 1 /\ queue' = Append(queue, s)
      /\ library' = library /\ expected' = expected
  BY DEF RequestEdit
<1>2. DOMAIN edits = PrSlots /\ queue \in Seq(PrSlots) /\ editsMade \in 0..MaxEdits /\ MaxEdits \in Nat
  BY PromptsAssumption DEF PrInv
<1>3. \E r : PrEdit(r) /\ edits' = [edits EXCEPT ![s] = r] /\ r.new = 5 + editsMade /\ r.at = "queued" /\ ~r.blind
  <2>1. PICK name \in PrNames \union {Same}, id \in 1..4, shelf \in {0, 1, 2}, position \in {Nowhere, 0, 9} :
          \/ name # Same /\ edits' = [edits EXCEPT ![s] = Asked("createShelf", name, id, shelf, position)]
          \/ edits' = [edits EXCEPT ![s] = Asked("updateShelf", name, id, shelf, position)]
          \/ edits' = [edits EXCEPT ![s] = Asked("deleteShelf", name, id, shelf, position)]
          \/ name # Same /\ edits' = [edits EXCEPT ![s] = Asked("createPrompt", name, id, shelf, position)]
          \/ edits' = [edits EXCEPT ![s] = Asked("updatePrompt", name, id, shelf, position)]
          \/ edits' = [edits EXCEPT ![s] = Asked("deletePrompt", name, id, shelf, position)]
    BY DEF RequestEdit
  <2>2. PICK op \in PrOps :
          /\ edits' = [edits EXCEPT ![s] = Asked(op, name, id, shelf, position)]
          /\ op \in {"createShelf", "createPrompt"} => name # Same
    BY <2>1 DEF PrOps
  <2> DEFINE r == Asked(op, name, id, shelf, position)
  <2>3. PrEdit(r) /\ r.new = 5 + editsMade /\ r.at = "queued" /\ ~r.blind
    <3>1. 5 + editsMade \in PrIds /\ position \in Nat \union {Nowhere} /\ <<>> \in Seq(Shelf)
      BY <1>1, <1>2 DEF PrIds
    <3>2. r \in PrRequest
      BY <3>1 DEF PrRequest, Asked
    <3> QED BY <2>2, <3>2 DEF PrEdit, Asked
  <2> QED BY <2>2, <2>3
<1>13. PICK r : PrEdit(r) /\ edits' = [edits EXCEPT ![s] = r] /\ r.new = 5 + editsMade /\ r.at = "queued" /\ ~r.blind
  BY <1>3, Zenon
<1>4. DOMAIN edits' = PrSlots /\ e = r /\ \A t \in PrSlots : t # s => edits'[t] = edits[t]
  BY <1>2, <1>13
<1>5. PrEdit(e) /\ e.new = 5 + editsMade /\ e.at = "queued" /\ ~e.blind
  BY <1>4, <1>13
<1> HIDE DEF e
<1>6. /\ queue' \in Seq(PrSlots) /\ ToSet(queue') = ToSet(queue) \union {s}
      /\ queue # <<>> => Head(queue') = Head(queue)
  <2>1. ToSet(queue') = ToSet(queue) \union {s}
    BY <1>1, <1>2, AppendedIs
  <2> QED BY <1>1, <1>2, <2>1
<1>7. ASSUME NEW t \in PrSlots, Pending(t)', t # s
      PROVE  /\ Pending(t) /\ PrEdit(edits'[t]) /\ t \in ToSet(queue') /\ edits'[t].new \in 5..4 + editsMade
             /\ Along(edits'[t], t, queue', library', expected') /\ edits'[t] = edits[t]
  <2>1. edits'[t] = edits[t] /\ Pending(t)
    BY <1>4, <1>7 DEF Pending
  <2>2. t \in ToSet(queue) /\ queue # <<>> /\ Along(edits[t], t, queue, library, expected)
    BY <2>1 DEF PrInv, ToSet
  <2>3. Along(edits'[t], t, queue', library', expected')
    BY <1>1, <1>6, <2>1, <2>2 DEF Along
  <2> QED BY <1>6, <2>1, <2>2, <2>3 DEF PrInv
<1>8. /\ e.new \notin Uses(library') /\ e.new \in 5..4 + editsMade' /\ s \in ToSet(queue')
      /\ Along(e, s, queue', library', expected')
  <2>1. e.new \notin Uses(library') /\ e.new \in 5..4 + editsMade' /\ s \in ToSet(queue')
    BY <1>1, <1>2, <1>5, <1>6 DEF PrInv
  <2> QED BY <1>5, <2>1 DEF Along
<1>9. \A t, u \in PrSlots : Pending(t)' /\ Pending(u)' /\ edits'[t].new = edits'[u].new => t = u
  <2>1. \A t \in PrSlots : t # s /\ Pending(t)' => edits'[t].new # e.new
    BY <1>2, <1>5, <1>7
  <2>2. \A t, u \in PrSlots : t # s /\ u # s /\ Pending(t)' /\ Pending(u)' /\ edits'[t].new = edits'[u].new => t = u
    BY <1>4, <1>7 DEF PrInv
  <2> QED BY <2>1, <2>2 DEF e
<1>10. ASSUME NEW t \in PrSlots, Pending(t)'
       PROVE  /\ PrEdit(edits'[t]) /\ t \in ToSet(queue') /\ edits'[t].new \in 5..4 + editsMade'
              /\ Along(edits'[t], t, queue', library', expected')
  <2>1. CASE t = s
    BY <1>5, <1>8, <2>1 DEF e
  <2>2. CASE t # s
    <3>1. 5..4 + editsMade \subseteq 5..4 + editsMade'
      BY <1>1, <1>2
    <3> QED BY <1>7, <1>10, <2>2, <3>1
  <2> QED BY <2>1, <2>2
<1>11. /\ Rack(library') /\ Uses(library') \subseteq 1..4 + editsMade'
       /\ (\A t \in PrSlots : Pending(t)' => edits'[t].at # "answer") => library' \in expected'
  <2>1. 1..4 + editsMade \subseteq 1..4 + editsMade'
    BY <1>1, <1>2
  <2>2. ASSUME \A t \in PrSlots : Pending(t)' => edits'[t].at # "answer" PROVE library' \in expected'
    <3>1. ASSUME NEW t \in PrSlots, Pending(t) PROVE edits[t].at # "answer"
      BY <1>1, <1>4, <2>2, <3>1 DEF Pending
    <3> QED BY <1>1, <3>1 DEF PrInv
  <2> QED BY <1>1, <2>1, <2>2 DEF PrInv
<1>12. editsMade' \in 0..MaxEdits
  BY <1>1, <1>2
<1> QED BY <1>4, <1>6, <1>9, <1>10, <1>11, <1>12 DEF PrInv

\* The first in the chain goes on and is what it was but for how far it is: the others
\* notice nothing.
LEMMA GoesOn ==
  ASSUME PrInv, NEW s \in PrSlots, Pending(s), Head(queue) = s, NEW e, PrEdit(e),
         e.new = edits[s].new, edits' = [edits EXCEPT ![s] = e],
         queue' = queue, expected' = expected, editsMade' = editsMade,
         Along(e, s, queue', library', expected'), Rack(library'),
         Uses(library') \subseteq Uses(library) \union {e.new},
         e.at # "answer" => library' = library /\ edits[s].at # "answer"
  PROVE  PrInv'
<1>1. DOMAIN edits = PrSlots
  BY DEF PrInv
<1>2. DOMAIN edits' = PrSlots /\ edits'[s] = e /\ \A t \in PrSlots : t # s => edits'[t] = edits[t]
  BY <1>1
<1>3. ASSUME NEW t \in PrSlots, Pending(t)'
      PROVE  /\ Pending(t) /\ PrEdit(edits'[t]) /\ edits'[t].new = edits[t].new
             /\ t \in ToSet(queue') /\ edits'[t].new \in 5..4 + editsMade'
             /\ Along(edits'[t], t, queue', library', expected')
  <2>1. CASE t = s
    BY <1>2, <2>1 DEF PrInv
  <2>2. CASE t # s
    <3>1. Pending(t) /\ edits'[t] = edits[t]
      BY <1>2, <1>3, <2>2 DEF Pending
    <3>2. Along(edits[t], t, queue, library, expected) /\ PrEdit(edits[t])
      BY <3>1 DEF PrInv
    <3>3. edits[t].at \notin {"write", "answer"} /\ edits[t].new \notin Uses(library)
      BY <2>2, <3>2 DEF Along
    <3>4. edits[t].new # e.new
      BY <2>2, <3>1 DEF PrInv
    <3>5. Along(edits'[t], t, queue', library', expected')
      BY <3>1, <3>2, <3>3, <3>4 DEF Along
    <3> QED BY <3>1, <3>2, <3>5 DEF PrInv
  <2> QED BY <2>1, <2>2
<1>4. \A t, u \in PrSlots : Pending(t)' /\ Pending(u)' /\ edits'[t].new = edits'[u].new => t = u
  BY <1>3 DEF PrInv
<1>5. Uses(library') \subseteq 1..4 + editsMade'
  <2>1. e.new \in 5..4 + editsMade /\ editsMade \in Nat
    BY DEF PrInv
  <2>2. e.new \in 1..4 + editsMade /\ Uses(library) \subseteq 1..4 + editsMade
    BY <2>1 DEF PrInv
  <2> QED BY <2>2
<1>6. ASSUME \A t \in PrSlots : Pending(t)' => edits'[t].at # "answer" PROVE library' \in expected'
  <2>1. Pending(s)'
    BY <1>2 DEF Pending, PrEdit, PrRequest, None, PrOps
  <2>2. library' = library /\ edits[s].at # "answer"
    BY <1>2, <1>6, <2>1
  <2>3. ASSUME NEW t \in PrSlots, Pending(t) PROVE edits[t].at # "answer"
    BY <1>2, <1>6, <2>2, <2>3 DEF Pending
  <2> QED BY <2>2, <2>3 DEF PrInv
<1> QED BY <1>2, <1>3, <1>4, <1>5, <1>6 DEF PrInv

\* Whoever is first reads what it will write over, or nothing.
LEMMA ReadKeeps ==
  ASSUME PrInv, NEW s \in PrSlots, ReadLibrary(s) \/ ReadFails(s)
  PROVE  PrInv'
<1>1. PICK lost \in BOOLEAN :
        /\ edits[s] # None /\ edits[s].at = "queued" /\ Head(queue) = s
        /\ edits' = IF lost THEN [edits EXCEPT ![s].at = "write", ![s].read = <<>>, ![s].blind = TRUE]
                    ELSE [edits EXCEPT ![s].at = "write", ![s].read = library]
        /\ library' = library /\ queue' = queue /\ expected' = expected /\ editsMade' = editsMade
  BY DEF ReadLibrary, ReadFails, MayRead
<1>2. /\ PrEdit(edits[s]) /\ DOMAIN edits = PrSlots /\ Pending(s) /\ Rack(library)
      /\ Along(edits[s], s, queue, library, expected)
  BY <1>1 DEF PrInv, Pending
<1> DEFINE e == IF lost THEN [edits[s] EXCEPT !.at = "write", !.read = <<>>, !.blind = TRUE]
                ELSE [edits[s] EXCEPT !.at = "write", !.read = library]
<1>3. edits' = [edits EXCEPT ![s] = e]
  <2>1. CASE lost
    BY <1>1, <1>2, <2>1
  <2>2. CASE ~lost
    BY <1>1, <1>2, <2>2
  <2> QED BY <2>1, <2>2
<1>4. /\ PrEdit(e) /\ e.new = edits[s].new /\ e.at = "write" /\ e.read = (IF lost THEN <<>> ELSE library)
      /\ e.blind = (IF lost THEN TRUE ELSE edits[s].blind)
  <2>1. edits[s] \in PrRequest /\ library \in Seq(Shelf) /\ <<>> \in Seq(Shelf)
    BY <1>2 DEF PrEdit, Rack
  <2>2. CASE lost
    BY <1>2, <2>1, <2>2 DEF PrEdit, PrRequest
  <2>3. CASE ~lost
    BY <1>2, <2>1, <2>3 DEF PrEdit, PrRequest
  <2> QED BY <2>2, <2>3
<1> HIDE DEF e
<1>5. Along(e, s, queue, library, expected)
  <2>1. ~edits[s].blind /\ edits[s].new \notin Uses(library)
    BY <1>1, <1>2 DEF Along
  <2>2. e.read = Base(e, library)
    BY <1>4, <2>1 DEF Base
  <2> QED BY <1>1, <1>4, <2>1, <2>2 DEF Along
<1>6. Along(e, s, queue', library', expected') /\ Rack(library') /\ Uses(library') \subseteq Uses(library) \union {e.new}
  BY <1>1, <1>2, <1>5
<1> QED BY <1>1, <1>2, <1>3, <1>4, <1>6, GoesOn

\* The first library that an edit changes, the one it could not read included.
LEMMA NothingIsARack == Rack(<<>>) /\ Uses(<<>>) = {}
<1>1. <<>> \in Seq(Shelf) /\ Len(<<>>) = 0 /\ DOMAIN <<>> = {} /\ ShelvesMax \in Nat
  BY PromptsAssumption
<1>2. OneEach(<<>>)
  BY <1>1 DEF OneEach
<1>3. ToSet(<<>>) = {}
  BY <1>1 DEF ToSet
<1> QED BY <1>1, <1>2, <1>3 DEF Rack, Uses

\* It writes what it read and changed, and its id is used.
LEMMA WriteKeeps ==
  ASSUME PrInv, NEW s \in PrSlots, WriteLibrary(s)
  PROVE  PrInv'
<1> DEFINE made == Applied(edits[s].read, edits[s])
<1>1. /\ Pending(s) /\ edits[s].at = "write" /\ made.ok /\ library' = made.lib
      /\ edits' = [edits EXCEPT ![s].at = "answer"]
      /\ queue' = queue /\ expected' = expected /\ editsMade' = editsMade
  BY DEF WriteLibrary, Pending
<1>2. /\ PrEdit(edits[s]) /\ Rack(library) /\ Along(edits[s], s, queue, library, expected)
      /\ DOMAIN edits = PrSlots
  BY <1>1 DEF PrInv
<1>3. /\ edits[s].read = Base(edits[s], library) /\ edits[s].new \notin Uses(library) /\ Head(queue) = s
  BY <1>1, <1>2 DEF Along
<1>4. Rack(edits[s].read) /\ Uses(edits[s].read) \subseteq Uses(library)
  BY <1>2, <1>3, NothingIsARack DEF Base
<1>5. KeepsRack(made, edits[s].read, edits[s])
  BY <1>2, <1>3, <1>4, AppliedKeeps
<1> HIDE DEF made
<1>6. Rack(library') /\ Uses(library') \subseteq Uses(library) \union {edits[s].new}
  BY <1>1, <1>4, <1>5 DEF KeepsRack
<1> DEFINE e == [edits[s] EXCEPT !.at = "answer"]
<1>7. PrEdit(e) /\ e.new = edits[s].new /\ e.at = "answer" /\ edits' = [edits EXCEPT ![s] = e]
  BY <1>1, <1>2 DEF PrEdit, PrRequest
<1>8. e.blind = edits[s].blind /\ \A lib : Applied(lib, e) = Applied(lib, edits[s])
  <2>1. /\ e.blind = edits[s].blind /\ e.op = edits[s].op /\ e.name = edits[s].name /\ e.id = edits[s].id
        /\ e.shelf = edits[s].shelf /\ e.position = edits[s].position /\ e.new = edits[s].new
    BY <1>2 DEF PrEdit, PrRequest
  <2> HIDE DEF e
  <2>2. ASSUME NEW lib PROVE Applied(lib, e) = Applied(lib, edits[s])
    BY <2>1 DEF Applied, CreateShelf, UpdateShelf, DeleteShelf, CreatePrompt, UpdatePrompt, DeletePrompt
  <2> QED BY <2>1, <2>2
<1> HIDE DEF e
<1>9. library' \in Outcomes(expected', e)
  <2>1. PICK lib \in (IF e.blind THEN {<<>>} ELSE expected) : edits[s].read = lib
    <3>1. CASE e.blind
      BY <1>3, <1>8, <3>1 DEF Base
    <3>2. CASE ~e.blind
      <4>1. \A t \in PrSlots : Pending(t) => edits[t].at # "answer"
        <5>1. ASSUME NEW t \in PrSlots, Pending(t), edits[t].at = "answer" PROVE FALSE
          <6>1. Head(queue) = t
            BY <5>1 DEF PrInv, Along
          <6> QED BY <1>1, <1>3, <5>1, <6>1
        <5> QED BY <5>1
      <4>2. library \in expected
        BY <4>1 DEF PrInv
      <4> QED BY <1>3, <1>8, <3>2, <4>2 DEF Base
    <3> QED BY <3>1, <3>2
  <2>2. made = Applied(lib, e)
    BY <1>8, <2>1 DEF made
  <2>3. Applied(lib, e).ok /\ library' = Applied(lib, e).lib
    BY <1>1, <2>2
  <2> QED BY <1>1, <2>1, <2>3 DEF Outcomes
<1>10. Along(e, s, queue', library', expected')
  BY <1>1, <1>3, <1>7, <1>9 DEF Along
<1>11. Uses(library') \subseteq Uses(library) \union {e.new}
  BY <1>6, <1>7
<1> QED BY <1>1, <1>3, <1>6, <1>7, <1>10, <1>11, GoesOn

\* What is pending when the first one has left: the others, that wait to read.
LEMMA LeaveKeeps ==
  ASSUME PrInv, NEW s \in PrSlots, Pending(s), Head(queue) = s, Leave(s)
  PROVE  /\ DOMAIN edits' = PrSlots /\ queue' \in Seq(PrSlots)
         /\ \A t \in PrSlots : Pending(t)' =>
              /\ t # s /\ Pending(t) /\ edits'[t] = edits[t] /\ t \in ToSet(queue')
              /\ edits[t].at = "queued"
<1>1. /\ DOMAIN edits = PrSlots /\ queue \in Seq(PrSlots) /\ s \in ToSet(queue) /\ Head(queue) = s
      /\ edits' = [edits EXCEPT ![s] = None] /\ queue' = Tail(queue)
  BY DEF PrInv, Leave
<1>2. queue # <<>>
  BY <1>1 DEF ToSet
<1>3. /\ queue' \in Seq(PrSlots) /\ Len(queue) \in Nat \ {0} /\ Len(queue') = Len(queue) - 1
      /\ queue[1] = s /\ \A i \in 1..Len(queue) - 1 : queue'[i] = queue[i + 1]
  BY <1>1, <1>2
<1>4. ASSUME NEW t \in ToSet(queue), t # s PROVE t \in ToSet(queue')
  <2>1. PICK i \in 1..Len(queue) : queue[i] = t
    BY <1>1 DEF ToSet
  <2>2. i # 1 /\ i - 1 \in 1..Len(queue) - 1 /\ (i - 1) + 1 = i
    BY <1>3, <1>4, <2>1
  <2>3. queue'[i - 1] = t /\ i - 1 \in DOMAIN queue'
    BY <1>3, <2>1, <2>2
  <2> QED BY <2>3 DEF ToSet
<1>5. ASSUME NEW t \in PrSlots, Pending(t)'
      PROVE  t # s /\ Pending(t) /\ edits'[t] = edits[t] /\ t \in ToSet(queue') /\ edits[t].at = "queued"
  <2>1. t # s /\ edits'[t] = edits[t] /\ Pending(t)
    BY <1>1, <1>5 DEF Pending
  <2>2. t \in ToSet(queue) /\ PrEdit(edits[t]) /\ (edits[t].at \in {"write", "answer"} => Head(queue) = t)
    BY <2>1 DEF PrInv, Along
  <2>3. edits[t].at \in {"queued", "write", "answer"}
    BY <2>2 DEF PrEdit, PrRequest
  <2> QED BY <1>1, <1>4, <2>1, <2>2, <2>3
<1> QED BY <1>1, <1>3, <1>5

\* The first one leaves: whatever its answer, the file is one that the answers allow.
LEMMA LeftKeeps ==
  ASSUME PrInv, NEW s \in PrSlots, Pending(s), Head(queue) = s, Leave(s),
         library' = library, editsMade' = editsMade, library' \in expected'
  PROVE  PrInv'
<1>1. /\ DOMAIN edits' = PrSlots /\ queue' \in Seq(PrSlots)
      /\ \A t \in PrSlots : Pending(t)' =>
           /\ t # s /\ Pending(t) /\ edits'[t] = edits[t] /\ t \in ToSet(queue')
           /\ edits[t].at = "queued"
  BY LeaveKeeps
<1>2. ASSUME NEW t \in PrSlots, Pending(t)'
      PROVE  /\ PrEdit(edits'[t]) /\ t \in ToSet(queue') /\ edits'[t].new \in 5..4 + editsMade'
             /\ Along(edits'[t], t, queue', library', expected')
  <2>1. /\ PrEdit(edits[t]) /\ edits[t].new \in 5..4 + editsMade
        /\ Along(edits[t], t, queue, library, expected)
    BY <1>1, <1>2 DEF PrInv
  <2>2. Along(edits'[t], t, queue', library', expected')
    BY <1>1, <1>2, <2>1 DEF Along
  <2> QED BY <1>1, <1>2, <2>1, <2>2
<1>3. \A t, u \in PrSlots : Pending(t)' /\ Pending(u)' /\ edits'[t].new = edits'[u].new => t = u
  BY <1>1 DEF PrInv
<1> QED BY <1>1, <1>2, <1>3 DEF PrInv

\* A refusal and a failed write leave the file alone.
LEMMA FailKeeps ==
  ASSUME PrInv, NEW s \in PrSlots, FailEdit(s)
  PROVE  PrInv'
<1>1. /\ Pending(s) /\ edits[s].at = "write" /\ Leave(s)
      /\ library' = library /\ expected' = expected /\ editsMade' = editsMade
  BY DEF FailEdit, Pending
<1>2. Head(queue) = s
  BY <1>1 DEF PrInv, Along
<1>3. library \in expected
  <2>1. ASSUME NEW t \in PrSlots, Pending(t), edits[t].at = "answer" PROVE FALSE
    <3>1. Head(queue) = t
      BY <2>1 DEF PrInv, Along
    <3> QED BY <1>1, <1>2, <2>1, <3>1
  <2> QED BY <2>1 DEF PrInv
<1> QED BY <1>1, <1>2, <1>3, LeftKeeps

\* An answer tells of the edit that is in the file.
LEMMA AnswerKeeps ==
  ASSUME PrInv, NEW s \in PrSlots, AnswerEdit(s)
  PROVE  PrInv'
<1>1. /\ Pending(s) /\ edits[s].at = "answer" /\ Leave(s) /\ library' = library
      /\ expected' = Outcomes(expected, edits[s]) /\ editsMade' = editsMade
  BY DEF AnswerEdit, Pending
<1>2. Head(queue) = s /\ library \in Outcomes(expected, edits[s])
  BY <1>1 DEF PrInv, Along
<1> QED BY <1>1, <1>2, LeftKeeps

\* The file is the one that was answered for, but for the edit whose answer is due.
LEMMA FilePossible == PrInv => library \in Possible
<1> SUFFICES ASSUME PrInv PROVE library \in Possible
  OBVIOUS
<1>1. CASE \A s \in PrSlots : Pending(s) => edits[s].at # "answer"
  BY <1>1 DEF PrInv, Possible
<1>2. ASSUME NEW s \in PrSlots, Pending(s), edits[s].at = "answer" PROVE library \in Possible
  <2>1. library \in Outcomes(expected, edits[s]) /\ s \in Unanswered
    BY <1>2 DEF PrInv, Along, Pending, Unanswered
  <2> QED BY <2>1 DEF Possible
<1> QED BY <1>1, <1>2

\* Every step.
LEMMA PrInvStep ==
  PrInv /\ [PrNext]_prVars => PrInv'
<1> SUFFICES ASSUME PrInv, [PrNext]_prVars PROVE PrInv'
  OBVIOUS
<1>1. ASSUME NEW s \in PrSlots, RequestEdit(s) PROVE PrInv'
  BY <1>1, RequestKeeps
<1>2. ASSUME NEW s \in PrSlots, ReadLibrary(s) \/ ReadFails(s) PROVE PrInv'
  BY <1>2, ReadKeeps
<1>3. ASSUME NEW s \in PrSlots, WriteLibrary(s) PROVE PrInv'
  BY <1>3, WriteKeeps
<1>4. ASSUME NEW s \in PrSlots, FailEdit(s) PROVE PrInv'
  BY <1>4, FailKeeps
<1>5. ASSUME NEW s \in PrSlots, AnswerEdit(s) PROVE PrInv'
  BY <1>5, AnswerKeeps
<1>6. CASE PrCrash
  <2>1. library' \in expected'
    BY <1>6, FilePossible DEF PrCrash
  <2>2. /\ DOMAIN edits' = PrSlots /\ queue' = <<>> /\ \A s \in PrSlots : ~Pending(s)'
        /\ library' = library /\ editsMade' = editsMade
    BY <1>6 DEF PrCrash, Pending
  <2> QED BY <2>1, <2>2 DEF PrInv
<1>7. CASE UNCHANGED prVars
  BY <1>7 DEF prVars, PrInv, Pending
<1> QED BY <1>1, <1>2, <1>3, <1>4, <1>5, <1>6, <1>7 DEF PrNext

\* What the invariant says of the file.
LEMMA RackQuiet == PrInv => RackKept
<1> SUFFICES ASSUME PrInv PROVE RackKept
  OBVIOUS
<1>1. library \in Possible /\ Rack(library) /\ library \in Seq(Shelf)
  BY FilePossible DEF PrInv, Rack
<1> QED BY <1>1, RackIsSound DEF RackKept

\* The file holds the edits that were answered, and of the others at most the one whose
\* answer is due or was cut off by a crash; an edit that could not read the file begins
\* the rack anew; a shelf and a prompt are there once, whatever was moved where, and the
\* limits hold (PromptStore).
THEOREM RackIsKept == PrSpec => []RackKept
<1> QED BY RackQuiet, PrInvInit, PrInvStep, PTL DEF PrSpec
================================================================================
