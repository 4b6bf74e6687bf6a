--------------------------- MODULE FederationProofs ---------------------------
(***************************************************************************)
(* Proofs about the messages between servers, for every topology, every    *)
(* plan of messages, every hop cap and every kind of disturbance.          *)
(*                                                                         *)
(* A record never leaves the way its name describes: Trail(m) is the way   *)
(* of message m, the name of its sender as the last server would stamp it. *)
(*                                                                         *)
(* A message and its receipt pass the queues of that way, out and back, as *)
(* one journey in stages.  Who has sent a record off, or is about to hear  *)
(* that it arrived, can rely on it that some later stage holds it or that  *)
(* it is over (SentInv): a record is acknowledged after it was queued      *)
(* again, and dropped only where it was sent off before.                   *)
(*                                                                         *)
(* There is one copy of an envelope, or of its receipt, at a time, until a *)
(* server has to send one twice: what it says is then true (ReportInv).    *)
(***************************************************************************)
EXTENDS Federation, SequenceTheorems, TLAPS

NameSeq == {s \in Seq(Names) : Len(s) >= 1}
Rec == [id : Ids, code : Codes, from : NameSeq, to : NameSeq, hops : Nat]
Refs == Ids \X BOOLEAN
RecordFrame == [type : {"record"}, record : Rec]
AckFrame == [type : {"ack"}, ref : Refs]
Frame == RecordFrame \union AckFrame
Handler == [side : Sides, record : Rec, delivered : BOOLEAN, heard : BOOLEAN]
Mail == [id : Ids, from : {s \in Seq(Names) : Len(s) >= 2}]
LinkQueue == [pending : Seq(Rec), cur : Seq(Rec), done : SUBSET Refs]

\* The types of the links, of the handlers and of what actors keep.
LinksTyped ==
  /\ queue \in [Sides -> LinkQueue]
  /\ push \in [Sides -> [waits : BOOLEAN, sent : Ids \union {NoReply}]]
  /\ open \in [Sides -> BOOLEAN]
  /\ stale \in [Sides -> BOOLEAN]
  /\ frames \in [Sides -> Seq(Frame)]
HandlersTyped == handlers \subseteq Handler
ActorsTyped ==
  /\ inbox \in [Actors -> SUBSET Mail]
  /\ notices \subseteq Actors \X Ids
  /\ refusing \subseteq Actors
  /\ journal \subseteq Actors \X Seq(Names) \X Ids
  /\ accepted \subseteq Ids
  /\ repeated \subseteq Ids
  /\ faults \in Nat
FedTyped == LinksTyped /\ HandlersTyped /\ ActorsTyped

-----------------------------------------------------------------------------
(* Sequences. *)

\* A name loses its last server at each hop.
LEMMA FrontSub ==
  ASSUME NEW S, NEW t \in Seq(S), NEW j \in 1..Len(t)
  PROVE  /\ SubSeq(t, 1, j) \in Seq(S)
         /\ Len(SubSeq(t, 1, j)) = j
         /\ Last(SubSeq(t, 1, j)) = t[j]
         /\ Front(SubSeq(t, 1, j)) = SubSeq(t, 1, j - 1)
  BY DEF Front, Last

\* ... and the sender's gains one.
LEMMA GrowSub ==
  ASSUME NEW S, NEW t \in Seq(S), NEW j \in Nat, j + 1 <= Len(t)
  PROVE  Append(SubSeq(t, 1, j), t[j + 1]) = SubSeq(t, 1, j + 1)
  OBVIOUS

\* The shortest part of a way.
LEMMA OneSub ==
  ASSUME NEW S, NEW t \in Seq(S), Len(t) >= 1
  PROVE  SubSeq(t, 1, 1) = <<t[1]>>
<1>1. 1 \in 1..Len(t)
  OBVIOUS
<1>2. t[1] \in S
  BY <1>1, ElementOfSeq
<1>3. SubSeq(t, 1, 1) \in Seq(S) /\ Len(SubSeq(t, 1, 1)) = 1
  BY <1>1, FrontSub
<1>4. SubSeq(t, 1, 1)[1] = t[1]
  BY <1>1
<1>5. \A q \in Seq(S) : Len(q) = 1 => q = <<q[1]>>
  OBVIOUS
<1> QED
  BY <1>3, <1>4, <1>5

\* The front of a sequence, and its last element.
LEMMA FrontTypes ==
  ASSUME NEW S, NEW s \in Seq(S), Len(s) >= 1
  PROVE  /\ Front(s) \in Seq(S) /\ Len(Front(s)) = Len(s) - 1
         /\ Last(s) \in S
<1>1. Len(s) \in 1..Len(s)
  OBVIOUS
<1>2. s[Len(s)] \in S
  BY <1>1, ElementOfSeq
<1>3. SubSeq(s, 1, Len(s) - 1) \in Seq(S) /\ Len(SubSeq(s, 1, Len(s) - 1)) = Len(s) - 1
  <2>1. CASE Len(s) = 1
    <3>1. SubSeq(s, 1, 0) = <<>>
      BY SubSeqEmpty
    <3> QED
      BY <2>1, <3>1
  <2>2. CASE Len(s) # 1
    <3>1. Len(s) \in Nat
      OBVIOUS
    <3>2. \A k \in Nat : k >= 1 /\ k # 1 => k - 1 \in 1..k
      OBVIOUS
    <3>3. Len(s) - 1 \in 1..Len(s)
      BY <2>2, <3>1, <3>2
    <3> QED
      BY <3>3, FrontSub
  <2> QED
    BY <2>1, <2>2
<1> QED
  BY <1>2, <1>3 DEF Front, Last

\* The elements of a queue after an arrival, and after the head was taken.
LEMMA RangeAppend ==
  ASSUME NEW S, NEW s \in Seq(S), NEW e \in S
  PROVE  Range(Append(s, e)) = Range(s) \union {e}
<1>1. Append(s, e) \in Seq(S) /\ Len(Append(s, e)) = Len(s) + 1
  OBVIOUS
<1>2. \A i \in 1..Len(s) : Append(s, e)[i] = s[i]
  OBVIOUS
<1>3. Append(s, e)[Len(s) + 1] = e
  OBVIOUS
<1>4. \A i \in 1..(Len(s) + 1) : i \in 1..Len(s) \/ i = Len(s) + 1
  OBVIOUS
<1>5. \A i \in 1..Len(s) : i \in 1..(Len(s) + 1)
  OBVIOUS
<1>6. Len(s) + 1 \in 1..(Len(s) + 1)
  OBVIOUS
<1> DEFINE q == Append(s, e)
<1>7. DOMAIN q = 1..(Len(s) + 1) /\ DOMAIN s = 1..Len(s)
  BY <1>1
<1> HIDE DEF q
<1> QED
  BY <1>2, <1>3, <1>4, <1>5, <1>6, <1>7 DEF Range, q

\* Taking the head of a sequence removes nothing but what the head holds.
LEMMA RangeTail ==
  ASSUME NEW S, NEW s \in Seq(S), s # <<>>
  PROVE  /\ Range(Tail(s)) \subseteq Range(s)
         /\ Head(s) \in Range(s)
         /\ Range(s) = Range(Tail(s)) \union {Head(s)}
<1> DEFINE q == Tail(s)
<1>1. q \in Seq(S) /\ Len(q) = Len(s) - 1 /\ Len(s) >= 1
  OBVIOUS
<1>2. \A i \in 1..(Len(s) - 1) : q[i] = s[i + 1]
  OBVIOUS
<1>3. \A i \in 1..Len(s) : i = 1 \/ (i - 1 \in 1..(Len(s) - 1) /\ (i - 1) + 1 = i)
  BY <1>1
<1>4. \A i \in 1..(Len(s) - 1) : i + 1 \in 1..Len(s)
  BY <1>1
<1>5. DOMAIN q = 1..(Len(s) - 1) /\ DOMAIN s = 1..Len(s) /\ 1 \in 1..Len(s)
  BY <1>1
<1>6. Head(s) = s[1]
  OBVIOUS
<1> HIDE DEF q
<1>7. Range(s) \subseteq Range(q) \union {s[1]}
  <2>1. \A i \in 1..Len(s) : i # 1 => i - 1 \in DOMAIN q /\ s[i] = q[i - 1]
    BY <1>2, <1>3, <1>5
  <2> QED
    BY <1>5, <2>1 DEF Range
<1>8. Range(q) \subseteq Range(s) /\ s[1] \in Range(s)
  BY <1>2, <1>4, <1>5 DEF Range
<1> QED
  BY <1>6, <1>7, <1>8 DEF q

-----------------------------------------------------------------------------
(* The way of a message. *)

\* The two ends of a side, and the side at its other end.
LEMMA SidesPairs ==
  ASSUME NEW p \in Sides
  PROVE  /\ Back(p) \in Sides /\ Back(Back(p)) = p
         /\ p[1] \in Servers /\ p[2] \in Servers /\ p = <<p[1], p[2]>>
         /\ Back(p) = <<p[2], p[1]>>
  BY TopologyAssumption DEF Sides, Back

\* wireName keeps the length of a name, and a qualified name as it is.
LEMMA WireNameTypes ==
  ASSUME NEW name \in NameSeq
  PROVE  /\ WireName(name) \in NameSeq
         /\ Len(WireName(name)) = Len(name)
         /\ Len(name) > 1 => WireName(name) = name
<1>1. CASE ~IsFqn(name) /\ name[1] \in DOMAIN ExportedAs
  <2>1. ExportedAs[name[1]] \in Names
    BY <1>1 DEF Names
  <2>2. <<ExportedAs[name[1]]>> \in Seq(Names) /\ Len(<<ExportedAs[name[1]]>>) = 1
    BY <2>1
  <2>3. Len(name) = 1
    <3>1. Len(name) \in Nat /\ Len(name) >= 1
      BY DEF NameSeq
    <3>2. ~(Len(name) > 1)
      BY <1>1 DEF IsFqn
    <3>3. \A k \in Nat : k >= 1 /\ ~(k > 1) => k = 1
      OBVIOUS
    <3> QED
      BY <3>1, <3>2, <3>3
  <2> QED
    BY <1>1, <2>2, <2>3 DEF WireName, NameSeq
<1>2. CASE ~(~IsFqn(name) /\ name[1] \in DOMAIN ExportedAs)
  BY <1>2 DEF WireName, NameSeq
<1> QED
  BY <1>1, <1>2

\* The stamped name of the sender of m: its wire name, its home, and every server
\* on the way, the last one included.
Sender(m) == Plan[m].from
Hops(m) == Len(Plan[m].to)
Trail(m) ==
  [i \in 1..(Hops(m) + 1) |->
     IF i = 1 THEN WireName(<<Sender(m)>>)[1]
     ELSE IF i = 2 THEN Home[Sender(m)] ELSE Plan[m].to[Hops(m) + 3 - i]]

\* What is known of the plan and of the way of a message.
LEMMA TrailTypes ==
  ASSUME NEW m \in Messages
  PROVE  /\ Sender(m) \in Actors
         /\ Plan[m].to \in Seq(Names) /\ Hops(m) \in Nat /\ Hops(m) > 1
         /\ WireName(<<Sender(m)>>) \in Seq(Names) /\ Len(WireName(<<Sender(m)>>)) = 1
         /\ Trail(m) \in Seq(Names) /\ Len(Trail(m)) = Hops(m) + 1
         /\ <<Trail(m)[1]>> = WireName(<<Sender(m)>>)
         /\ Trail(m)[2] = Home[Sender(m)]
         /\ \A i \in 3..(Hops(m) + 1) : Trail(m)[i] = Plan[m].to[Hops(m) + 3 - i]
<1>1. /\ Sender(m) \in Actors /\ Sender(m) \in Names
      /\ Plan[m].to \in Seq(Names) /\ Hops(m) \in Nat /\ Hops(m) > 1
  BY PlanAssumption DEF Sender, Hops, Names
<1>2. /\ WireName(<<Sender(m)>>) \in Seq(Names)
      /\ Len(WireName(<<Sender(m)>>)) = 1
  <2>1. <<Sender(m)>> \in NameSeq /\ Len(<<Sender(m)>>) = 1
    BY <1>1 DEF NameSeq
  <2> QED
    BY <2>1, WireNameTypes DEF NameSeq
<1> DEFINE w == WireName(<<Sender(m)>>)
<1>3. w[1] \in Names /\ <<w[1]>> = w
  <2> HIDE DEF w
  <2>1. ASSUME NEW v \in Seq(Names), Len(v) = 1
        PROVE  v[1] \in Names /\ <<v[1]>> = v
    <3>1. 1 \in 1..Len(v)
      BY <2>1
    <3>2. v[1] \in Names
      BY <3>1, ElementOfSeq
    <3> QED
      BY <2>1, <3>2
  <2> QED
    BY <1>2, <2>1 DEF w
<1>4. Home[Sender(m)] \in Names
  BY <1>1, TopologyAssumption DEF Names
<1>5. \A i \in 3..(Hops(m) + 1) : Plan[m].to[Hops(m) + 3 - i] \in Names
  <2>1. \A i \in 3..(Hops(m) + 1) : Hops(m) + 3 - i \in 1..Hops(m)
    BY <1>1
  <2>2. \A k \in 1..Hops(m) : Plan[m].to[k] \in Names
    BY <1>1, ElementOfSeq DEF Hops
  <2> QED
    BY <2>1, <2>2
<1>6. \A i \in 1..(Hops(m) + 1) : i = 1 \/ i = 2 \/ i \in 3..(Hops(m) + 1)
  BY <1>1
<1>7. Trail(m) \in [1..(Hops(m) + 1) -> Names]
  BY <1>3, <1>4, <1>5, <1>6 DEF Trail
<1>8. Hops(m) + 1 \in Nat
  BY <1>1
<1>9. Trail(m) \in Seq(Names) /\ Len(Trail(m)) = Hops(m) + 1
  BY <1>7, <1>8, SeqDef, LenProperties
<1>10. 1 \in 1..(Hops(m) + 1) /\ 2 \in 1..(Hops(m) + 1)
       /\ \A i \in 3..(Hops(m) + 1) : i \in 1..(Hops(m) + 1) /\ i # 1 /\ i # 2
  BY <1>1
<1>11. Trail(m)[1] = w[1] /\ Trail(m)[2] = Home[Sender(m)]
       /\ \A i \in 3..(Hops(m) + 1) : Trail(m)[i] = Plan[m].to[Hops(m) + 3 - i]
  BY <1>10 DEF Trail
<1> QED
  BY <1>1, <1>2, <1>3, <1>9, <1>11

IsAsk(r) == r.id[2] = "ask"

\* A message on its way out over p: the names it has left, and the side that the
\* next of them was.
OutWay(r, p) ==
  LET m == r.id[1]
      j == Len(r.to)
  IN  /\ j <= Hops(m) - 1
      /\ r.to = SubSeq(Plan[m].to, 1, j)
      /\ p = <<Trail(m)[Hops(m) - j + 1], Trail(m)[Hops(m) - j + 2]>>

\* The stamps it has collected.
Stamps(r) == r.from = SubSeq(Trail(r.id[1]), 1, Hops(r.id[1]) - Len(r.to))

\* A receipt on its way back over p.
BackWay(r, p) ==
  LET m == r.id[1]
      j == Len(r.to)
  IN  /\ j <= Hops(m) - 1
      /\ r.to = SubSeq(Trail(m), 1, j)
      /\ p = <<Trail(m)[j + 2], Trail(m)[j + 1]>>

\* On the wire of p, or in a handler that received it; and in the queue of p, where
\* the sender is not named by its wire name yet.
OnWay(r, p) == IF IsReceipt(r) THEN BackWay(r, p) ELSE OutWay(r, p) /\ Stamps(r)
AtSource(r) == Len(r.to) = Hops(r.id[1]) - 1
Waiting(r, p) ==
  IF IsReceipt(r) THEN BackWay(r, p)
  ELSE OutWay(r, p) /\ (IF AtSource(r) THEN r.from = <<Sender(r.id[1])>> ELSE Stamps(r))

\* The record as #push sends it.
Wired1(r) == [r EXCEPT !.from = WireName(@)]

\* The fields of a record.
LEMMA RecFields ==
  ASSUME NEW r \in Rec
  PROVE  /\ r.id \in Ids /\ r.id[1] \in Messages /\ r.code \in Codes /\ r.hops \in Nat
         /\ r.to \in Seq(Names) /\ Len(r.to) \in Nat /\ Len(r.to) >= 1
         /\ r.from \in Seq(Names) /\ Len(r.from) \in Nat /\ Len(r.from) >= 1
<1>1. /\ r.id \in Ids /\ r.code \in Codes /\ r.hops \in Nat
      /\ r.to \in NameSeq /\ r.from \in NameSeq
  BY DEF Rec
<1>2. r.id[1] \in Messages
  BY <1>1 DEF Ids
<1> QED
  BY <1>1, <1>2 DEF NameSeq

\* #push and deliver put a record on the wire under the sender's wire name.
LEMMA PushKeepsWay ==
  ASSUME NEW r \in Rec, NEW p \in Sides
  PROVE  /\ Wired1(r) \in Rec
         /\ Wired1(r).id = r.id
         /\ IsAsk(r) /\ Waiting(r, p) => OnWay(Wired1(r), p)
<1> DEFINE q == Wired1(r)
<1>1. r.from \in NameSeq /\ WireName(r.from) \in NameSeq /\ Len(WireName(r.from)) = Len(r.from)
      /\ (Len(r.from) > 1 => WireName(r.from) = r.from)
  BY WireNameTypes DEF Rec
<1>2. /\ q \in Rec /\ q.id = r.id /\ q.to = r.to /\ q.code = r.code
      /\ q.from = WireName(r.from)
  BY <1>1 DEF Rec, Wired1
<1>3. ASSUME IsAsk(r), Waiting(r, p) PROVE OnWay(q, p)
  <2> HIDE DEF q
  <2> DEFINE m == r.id[1]
  <2>1. m \in Messages /\ Len(r.to) \in Nat /\ Len(r.to) >= 1
    BY RecFields
  <2>2. CASE IsReceipt(r)
    BY <1>2, <1>3, <2>2 DEF IsReceipt, OnWay, Waiting, BackWay
  <2>3. CASE ~IsReceipt(r)
    <3>1. OutWay(q, p) /\ ~IsReceipt(q)
      BY <1>2, <1>3, <2>3 DEF IsReceipt, Waiting, OutWay
    <3>2. /\ Hops(m) \in Nat /\ Hops(m) > 1 /\ Len(Trail(m)) = Hops(m) + 1
          /\ Trail(m) \in Seq(Names)
          /\ <<Trail(m)[1]>> = WireName(<<Sender(m)>>)
      BY <2>1, TrailTypes
    <3>3. CASE AtSource(r)
      <4>1. q.from = <<Trail(m)[1]>>
        BY <1>2, <1>3, <2>3, <3>2, <3>3 DEF Waiting
      <4>2. Hops(m) - Len(r.to) = 1
        BY <2>1, <3>2, <3>3 DEF AtSource
      <4>3. SubSeq(Trail(m), 1, 1) = <<Trail(m)[1]>>
        BY <3>2, OneSub
      <4> QED
        BY <1>2, <3>1, <4>1, <4>2, <4>3 DEF OnWay, Stamps
    <3>4. CASE ~AtSource(r)
      <4>1. Stamps(r) /\ Len(r.to) <= Hops(m) - 1 /\ Len(r.to) # Hops(m) - 1
        BY <1>3, <2>3, <3>4 DEF Waiting, OutWay, AtSource
      <4>2. Hops(m) - Len(r.to) >= 2 /\ Hops(m) - Len(r.to) \in 1..Len(Trail(m))
        BY <2>1, <3>2, <4>1
      <4>3. Len(r.from) = Hops(m) - Len(r.to)
        BY <3>2, <4>1, <4>2, FrontSub DEF Stamps
      <4>4. q.from = r.from
        BY <1>1, <1>2, <4>2, <4>3, RecFields
      <4> QED
        BY <1>2, <3>1, <4>1, <4>4 DEF OnWay, Stamps
    <3> QED
      BY <3>3, <3>4
  <2> QED
    BY <2>2, <2>3
<1> QED
  BY <1>2, <1>3

\* What a handler was given.
LEMMA HandlerFields ==
  ASSUME NEW h \in Handler
  PROVE  /\ h.side \in Sides /\ h.record \in Rec
         /\ Back(h.side) \in Sides /\ Back(Back(h.side)) = h.side
         /\ Back(h.side) = <<h.side[2], h.side[1]>>
         /\ h.side = <<h.side[1], h.side[2]>>
         /\ h.side[1] \in Servers /\ h.side[2] \in Servers /\ h.side[2] \in Names
  BY SidesPairs DEF Handler, Names

\* The sender as the receiving side stamps it, for any message: one name longer.
LEMMA StampTypes ==
  ASSUME NEW h \in Handler
  PROVE  /\ Stamped(h) \in Seq(Names)
         /\ Len(Stamped(h)) = Len(h.record.from) + 1
         /\ Stamped(h) \in NameSeq
<1>1. h.record.from \in Seq(Names) /\ h.side[2] \in Names
  BY HandlerFields, RecFields
<1>2. \A s \in Seq(Names), e \in Names :
        Append(s, e) \in Seq(Names) /\ Len(Append(s, e)) = Len(s) + 1
  OBVIOUS
<1>3. Stamped(h) \in Seq(Names) /\ Len(Stamped(h)) = Len(h.record.from) + 1
  BY <1>1, <1>2 DEF Stamped
<1>4. Len(h.record.from) \in Nat
  BY <1>1
<1> QED
  BY <1>3, <1>4 DEF NameSeq

\* Transit (federated ingress): the forwarded copy is on the way of its message, over
\* the side that its name asks for.
LEMMA ForwardKeepsWay ==
  ASSUME NEW h \in Handler, IsFqn(h.record.to)
  PROVE  /\ Forwarded(h) \in Rec
         /\ Forwarded(h).id = h.record.id /\ Forwarded(h).code = h.record.code
         /\ Forwarded(h).to = Front(h.record.to)
         /\ IsAsk(h.record) /\ OnWay(h.record, Back(h.side)) =>
              Waiting(Forwarded(h), NextSide(h))
<1> DEFINE r == h.record
           q == Forwarded(h)
           j == Len(r.to)
           m == r.id[1]
<1>1. /\ r \in Rec /\ r.to \in Seq(Names) /\ j \in Nat /\ j > 1 /\ m \in Messages
  BY HandlerFields, RecFields DEF IsFqn
<1>2. Front(r.to) \in Seq(Names) /\ Len(Front(r.to)) = j - 1
  BY <1>1, FrontTypes
<1>3. /\ q \in Rec /\ q.id = r.id /\ q.code = r.code
      /\ q.to = Front(r.to) /\ q.from = Stamped(h) /\ Len(q.to) = j - 1
  <2>1. Front(r.to) \in NameSeq
    BY <1>1, <1>2 DEF NameSeq
  <2>2. r.hops + 1 \in Nat
    BY <1>1, RecFields
  <2> QED
    BY <1>1, <1>2, <2>1, <2>2, StampTypes DEF Forwarded, Rec
<1>4. ASSUME IsAsk(r), OnWay(r, Back(h.side))
      PROVE  Waiting(q, NextSide(h))
  <2> DEFINE T == Trail(m)
             n == Hops(m)
  <2>1. /\ n \in Nat /\ n > 1 /\ T \in Seq(Names) /\ Len(T) = n + 1
        /\ Plan[m].to \in Seq(Names) /\ Len(Plan[m].to) = n
        /\ \A i \in 3..(n + 1) : T[i] = Plan[m].to[n + 3 - i]
    BY <1>1, TrailTypes DEF Hops
  <2>2. IsReceipt(q) <=> IsReceipt(r)
    BY <1>3 DEF IsReceipt
  <2> HIDE DEF q, T, n, m
  <2>3. CASE IsReceipt(r)
    <3>1. /\ j <= n - 1 /\ r.to = SubSeq(T, 1, j)
          /\ Back(h.side) = <<T[j + 2], T[j + 1]>>
      BY <1>4, <2>3 DEF OnWay, BackWay, m, n, T
    <3>2. j \in 1..Len(T)
      BY <1>1, <2>1, <3>1
    <3>3. Last(r.to) = T[j] /\ Front(r.to) = SubSeq(T, 1, j - 1)
      BY <2>1, <3>1, <3>2, FrontSub
    <3>4. NextSide(h) = <<T[j + 1], T[j]>>
      BY <3>1, <3>3, HandlerFields DEF NextSide
    <3>5. j - 1 <= n - 1 /\ (j - 1) + 2 = j + 1 /\ (j - 1) + 1 = j
      BY <1>1, <2>1, <3>1
    <3>6. BackWay(q, NextSide(h))
      BY <1>3, <3>3, <3>4, <3>5 DEF BackWay, m, n, T
    <3> QED
      BY <2>2, <2>3, <3>6 DEF Waiting
  <2>4. CASE ~IsReceipt(r)
    <3>1. /\ j <= n - 1 /\ r.to = SubSeq(Plan[m].to, 1, j)
          /\ Back(h.side) = <<T[n - j + 1], T[n - j + 2]>>
          /\ r.from = SubSeq(T, 1, n - j)
      BY <1>4, <2>4 DEF OnWay, OutWay, Stamps, m, n, T
    <3>2. j \in 1..n
      BY <1>1, <2>1, <3>1
    <3>3. Last(r.to) = Plan[m].to[j] /\ Front(r.to) = SubSeq(Plan[m].to, 1, j - 1)
      BY ZenonT(30), <2>1, <3>1, <3>2, FrontSub
    <3>4. n + 3 - j \in 3..(n + 1) /\ n + 3 - (n + 3 - j) = j
      <4>1. \A p, k \in Nat : k > 1 /\ k <= p - 1 =>
              p + 3 - k \in 3..(p + 1) /\ p + 3 - (p + 3 - k) = k
        OBVIOUS
      <4> HIDE DEF j
      <4> QED
        BY <1>1, <2>1, <3>1, <4>1
    <3>5. T[n + 3 - j] = Plan[m].to[j]
      BY <2>1, <3>4
    <3>6. NextSide(h) = <<T[n - j + 2], T[n + 3 - j]>>
      BY <3>1, <3>3, <3>5, HandlerFields DEF NextSide
    <3>7. /\ j - 1 <= n - 1 /\ n - (j - 1) + 1 = n - j + 2
          /\ n - (j - 1) + 2 = n + 3 - j /\ n - (j - 1) = n - j + 1
          /\ j - 1 # n - 1 /\ n - j \in Nat /\ n - j + 1 <= n + 1
      <4>1. \A p, k \in Nat : k > 1 /\ k <= p - 1 =>
              /\ k - 1 <= p - 1 /\ p - (k - 1) + 1 = p - k + 2
              /\ p - (k - 1) + 2 = p + 3 - k /\ p - (k - 1) = p - k + 1
              /\ k - 1 # p - 1 /\ p - k \in Nat /\ p - k + 1 <= p + 1
        OBVIOUS
      <4> HIDE DEF j
      <4> QED
        BY <1>1, <2>1, <3>1, <4>1
    <3>8. OutWay(q, NextSide(h))
      BY <1>3, <3>3, <3>6, <3>7 DEF OutWay, m, n, T
    <3>9. Stamped(h) = Append(SubSeq(T, 1, n - j), T[n - j + 1])
      <4>1. <<h.side[2], h.side[1]>> = <<T[n - j + 1], T[n - j + 2]>>
        BY <3>1, HandlerFields
      <4>2. h.side[2] = T[n - j + 1]
        BY <4>1
      <4> QED
        BY <3>1, <4>2 DEF Stamped
    <3>10. Stamped(h) = SubSeq(T, 1, n - j + 1)
      BY <2>1, <3>7, <3>9, GrowSub
    <3>11. Stamps(q)
      BY <1>3, <3>7, <3>10 DEF Stamps, m, n, T
    <3>12. ~AtSource(q)
      BY <1>3, <3>7 DEF AtSource, m, n
    <3> QED
      BY <2>2, <2>4, <3>8, <3>11, <3>12 DEF Waiting
  <2> QED
    BY <2>3, <2>4
<1> QED
  BY <1>3, <1>4

\* The receipt of a message starts on the way back, over the side it came in by.
LEMMA ReceiptKeepsWay ==
  ASSUME NEW h \in Handler, NEW code \in Codes \ {"none"}
  PROVE  /\ ReceiptFor(h, code) \in Rec
         /\ ReceiptFor(h, code).id = h.record.id
         /\ IsReceipt(ReceiptFor(h, code))
         /\ ~IsReceipt(h.record) /\ IsAsk(h.record) /\ OnWay(h.record, Back(h.side)) =>
              Waiting(ReceiptFor(h, code), h.side)
<1> DEFINE r == h.record
           q == ReceiptFor(h, code)
           m == r.id[1]
           T == Trail(m)
           n == Hops(m)
           j == Len(r.to)
<1>1. /\ r \in Rec /\ r.to \in NameSeq /\ r.from \in NameSeq /\ r.id \in Ids
      /\ m \in Messages /\ j \in Nat /\ j >= 1
  BY HandlerFields, RecFields DEF Rec
<1>2. /\ q \in Rec /\ q.id = r.id /\ q.to = r.from /\ q.code = code /\ IsReceipt(q)
  BY <1>1 DEF ReceiptFor, Record, Rec, IsReceipt
<1>3. ASSUME ~IsReceipt(r), IsAsk(r), OnWay(r, Back(h.side))
      PROVE  Waiting(q, h.side)
  <2>1. n \in Nat /\ n > 1 /\ T \in Seq(Names) /\ Len(T) = n + 1
    BY <1>1, TrailTypes
  <2> HIDE DEF q, m, n, T, j
  <2>2. /\ j <= n - 1
        /\ <<h.side[2], h.side[1]>> = <<T[n - j + 1], T[n - j + 2]>>
        /\ r.from = SubSeq(T, 1, n - j)
    BY <1>3, HandlerFields DEF OnWay, OutWay, Stamps, m, n, T, j
  <2>3. /\ n - j \in 1..Len(T) /\ n - j <= n - 1
    BY <1>1, <2>1, <2>2
  <2>4. Len(q.to) = n - j
    BY <1>2, <2>1, <2>2, <2>3, FrontSub
  <2>5. h.side = <<T[n - j + 2], T[n - j + 1]>>
    BY <2>2, HandlerFields
  <2>6. BackWay(q, h.side)
    BY <1>2, <2>2, <2>3, <2>4, <2>5 DEF BackWay, m, n, T
  <2> QED
    BY <1>2, <2>6 DEF Waiting
<1> QED
  BY <1>2, <1>3

\* A message that is delivered carries every stamp of its way.
LEMMA DeliveredWay ==
  ASSUME NEW h \in Handler, ~IsReceipt(h.record), IsAsk(h.record), ~IsFqn(h.record.to),
         OnWay(h.record, Back(h.side))
  PROVE  Stamped(h) = SubSeq(Trail(h.record.id[1]), 1, Hops(h.record.id[1]))
<1> DEFINE r == h.record
           m == r.id[1]
           T == Trail(m)
           n == Hops(m)
<1>1. r \in Rec /\ m \in Messages /\ Len(r.to) = 1
  <2>1. Len(r.to) \in Nat /\ Len(r.to) >= 1 /\ ~(Len(r.to) > 1)
    BY HandlerFields, RecFields DEF IsFqn
  <2>2. \A k \in Nat : k >= 1 /\ ~(k > 1) => k = 1
    OBVIOUS
  <2> QED
    BY <2>1, <2>2, HandlerFields, RecFields
<1>2. n \in Nat /\ n > 1 /\ T \in Seq(Names) /\ Len(T) = n + 1
  BY <1>1, TrailTypes
<1>3. /\ <<h.side[2], h.side[1]>> = <<T[n], T[n + 1]>>
      /\ r.from = SubSeq(T, 1, n - 1)
  <2>1. n - 1 + 1 = n /\ n - 1 + 2 = n + 1
    BY <1>2
  <2> QED
    BY <1>1, <2>1, HandlerFields DEF OnWay, OutWay, Stamps
<1> HIDE DEF T, n, m
<1>4. n - 1 \in Nat /\ (n - 1) + 1 = n /\ n <= Len(T)
  BY <1>2
<1>5. Stamped(h) = Append(SubSeq(T, 1, n - 1), T[n])
  BY <1>3 DEF Stamped
<1> QED
  BY <1>2, <1>4, <1>5, GrowSub DEF T, n, m

\* ... and so its sender's name is the one that leads back.
LEMMA WayIs ==
  ASSUME NEW m \in Messages
  PROVE  /\ Way(m) \in Seq(Names) /\ Len(Way(m)) = Hops(m)
         /\ \A i \in 1..Hops(m) : Way(m)[i] = Trail(m)[i + 1]
<1> DEFINE T == Trail(m)
           n == Hops(m)
           t == Plan[m].to
           s == Home[Plan[m].from]
           u == SubSeq(t, 2, n)
           v == Way(m)
<1>1. /\ t \in Seq(Names) /\ Len(t) = n /\ n \in Nat /\ n > 1
      /\ T \in Seq(Names) /\ Len(T) = n + 1 /\ T[2] = s
      /\ \A i \in 3..(n + 1) : T[i] = t[n + 3 - i]
  BY TrailTypes DEF Sender, Hops
<1>2. s \in Names
  BY TopologyAssumption, PlanAssumption DEF Names
<1> HIDE DEF T, n, t, s
<1>3. /\ u \in Seq(Names) /\ Len(u) = n - 1
      /\ \A i \in 1..(n - 1) : u[i] = t[i + 1]
  <2>1. 2 \in 1..Len(t) /\ n \in 2..Len(t)
    BY <1>1
  <2>2. \A q \in Seq(Names), a, b \in Nat : a \in 1..Len(q) /\ b \in a..Len(q) =>
          /\ SubSeq(q, a, b) \in Seq(Names) /\ Len(SubSeq(q, a, b)) = b - a + 1
          /\ \A i \in 1..(b - a + 1) : SubSeq(q, a, b)[i] = q[a + i - 1]
    OBVIOUS
  <2>3. /\ u \in Seq(Names) /\ Len(u) = n - 2 + 1
        /\ \A i \in 1..(n - 2 + 1) : u[i] = t[2 + i - 1]
    BY <1>1, <2>1, <2>2
  <2>4. n - 2 + 1 = n - 1 /\ \A i \in 1..(n - 1) : 2 + i - 1 = i + 1
    BY <1>1
  <2> HIDE DEF u
  <2> QED
    BY <2>3, <2>4
<1> HIDE DEF u
<1>4. /\ Reverse(u) \in Seq(Names) /\ Len(Reverse(u)) = n - 1
      /\ \A i \in 1..(n - 1) : Reverse(u)[i] = u[(n - 1) - i + 1]
  <2> DEFINE f == Reverse(u)
  <2>1. f = [i \in 1..(n - 1) |-> u[((n - 1) - i) + 1]]
    BY <1>3 DEF Reverse
  <2>2. \A i \in 1..(n - 1) : ((n - 1) - i) + 1 \in 1..Len(u)
    BY <1>1, <1>3
  <2>3. \A i \in 1..(n - 1) : u[((n - 1) - i) + 1] \in Names
    BY <1>3, <2>2, ElementOfSeq
  <2>4. n - 1 \in Nat
    BY <1>1
  <2> HIDE DEF f
  <2>5. f \in [1..(n - 1) -> Names]
    BY <2>1, <2>3
  <2>6. f \in Seq(Names) /\ Len(f) = n - 1
    BY <2>4, <2>5, SeqDef, LenProperties
  <2>7. \A i \in 1..(n - 1) : f[i] = u[(n - 1) - i + 1]
    BY <2>1
  <2> QED
    BY <2>6, <2>7 DEF f
<1>5. \A i \in 1..(n - 1) : Reverse(u)[i] = T[i + 2]
  <2> SUFFICES ASSUME NEW i \in 1..(n - 1)
               PROVE  Reverse(u)[i] = T[i + 2]
    OBVIOUS
  <2>1. /\ (n - 1) - i + 1 \in 1..(n - 1) /\ i + 2 \in 3..(n + 1)
        /\ ((n - 1) - i + 1) + 1 = n + 3 - (i + 2)
    BY <1>1
  <2>2. Reverse(u)[i] = u[(n - 1) - i + 1]
    BY <1>4
  <2>3. u[(n - 1) - i + 1] = t[((n - 1) - i + 1) + 1]
    BY <1>3, <2>1
  <2>4. T[i + 2] = t[n + 3 - (i + 2)]
    BY <1>1, <2>1
  <2> QED
    BY <2>1, <2>2, <2>3, <2>4
<1>6. /\ v \in Seq(Names) /\ Len(v) = n
      /\ \A i \in 1..n : v[i] = T[i + 1]
  <2> DEFINE f == Reverse(u)
  <2>1. v = <<s>> \o f
    BY <1>1 DEF Way, Visited, u, s, t
  <2> HIDE DEF f, v
  <2>2. f \in Seq(Names) /\ Len(f) = n - 1 /\ \A i \in 1..(n - 1) : f[i] = T[i + 2]
    BY <1>4, <1>5 DEF f
  <2>3. \A e \in Names, q \in Seq(Names) :
          /\ <<e>> \o q \in Seq(Names) /\ Len(<<e>> \o q) = Len(q) + 1
          /\ (<<e>> \o q)[1] = e
          /\ \A i \in 2..(Len(q) + 1) : (<<e>> \o q)[i] = q[i - 1]
    OBVIOUS
  <2>4. /\ v \in Seq(Names) /\ Len(v) = (n - 1) + 1 /\ v[1] = s
        /\ \A i \in 2..((n - 1) + 1) : v[i] = f[i - 1]
    BY <1>2, <2>1, <2>2, <2>3
  <2>5. (n - 1) + 1 = n
    BY <1>1
  <2>6. \A i \in 2..n : i - 1 \in 1..(n - 1) /\ (i - 1) + 2 = i + 1
    BY <1>1
  <2>7. \A i \in 2..n : v[i] = T[i + 1]
    BY <2>2, <2>4, <2>5, <2>6
  <2>8. \A i \in 1..n : i = 1 \/ i \in 2..n
    BY <1>1
  <2>9. v[1] = T[1 + 1]
    BY <1>1, <2>4
  <2>10. \A i \in 1..n : v[i] = T[i + 1]
    BY <2>7, <2>8, <2>9
  <2> QED
    BY <2>4, <2>5, <2>10
<1> QED
  BY <1>6 DEF T, n

\* ... and the name that was sent to, read from its end, leads back.
LEMMA TrailLeadsBack ==
  ASSUME NEW m \in Messages
  PROVE  SubSeq(Trail(m), 1, Hops(m)) =
           WireName(<<Plan[m].from>>) \o Front(Visited(Home[Plan[m].from], Plan[m].to))
<1> DEFINE T == Trail(m)
           n == Hops(m)
           w == WireName(<<Plan[m].from>>)
           v == Visited(Home[Plan[m].from], Plan[m].to)
<1>1. /\ n \in Nat /\ n > 1
      /\ w \in Seq(Names) /\ Len(w) = 1 /\ <<T[1]>> = w
      /\ T \in Seq(Names) /\ Len(T) = n + 1
  BY TrailTypes DEF Sender, Hops
<1>6. /\ v \in Seq(Names) /\ Len(v) = n
      /\ \A i \in 1..n : v[i] = T[i + 1]
  BY WayIs DEF Way
<1> HIDE DEF T, n, w, v
<1>7. /\ Front(v) \in Seq(Names) /\ Len(Front(v)) = n - 1
      /\ \A i \in 1..(n - 1) : Front(v)[i] = v[i]
  <2>1. n - 1 \in 1..Len(v) /\ Front(v) = SubSeq(v, 1, n - 1)
    BY <1>1, <1>6 DEF Front
  <2>2. \A q \in Seq(Names), k \in Nat : k \in 1..Len(q) =>
          /\ SubSeq(q, 1, k) \in Seq(Names) /\ Len(SubSeq(q, 1, k)) = k
          /\ \A i \in 1..k : SubSeq(q, 1, k)[i] = q[i]
    OBVIOUS
  <2>3. n - 1 \in Nat
    BY <1>1
  <2> QED
    BY <1>6, <2>1, <2>2, <2>3
<1>8. SubSeq(T, 1, n) = w \o Front(v)
  <2> DEFINE lhs == SubSeq(T, 1, n)
             f == Front(v)
             rhs == w \o f
  <2>1. lhs \in Seq(Names) /\ Len(lhs) = n /\ \A i \in 1..n : lhs[i] = T[i]
    <3>1. n \in 1..Len(T)
      BY <1>1
    <3> QED
      BY <1>1, <3>1
  <2>2. f \in Seq(Names) /\ Len(f) = n - 1 /\ \A i \in 1..(n - 1) : f[i] = T[i + 1]
    <3>1. \A i \in 1..(n - 1) : i \in 1..n
      BY <1>1
    <3> QED
      BY <1>6, <1>7, <3>1
  <2> HIDE DEF f
  <2>3. /\ rhs \in Seq(Names) /\ Len(rhs) = n /\ rhs[1] = T[1]
        /\ \A i \in 2..n : rhs[i] = f[i - 1]
    <3>1. \A e \in Names, q \in Seq(Names) :
            /\ <<e>> \o q \in Seq(Names) /\ Len(<<e>> \o q) = Len(q) + 1
            /\ (<<e>> \o q)[1] = e
            /\ \A i \in 2..(Len(q) + 1) : (<<e>> \o q)[i] = q[i - 1]
      OBVIOUS
    <3>2. T[1] \in Names
      <4>1. 1 \in 1..Len(T)
        BY <1>1
      <4> QED
        BY <1>1, <4>1, ElementOfSeq
    <3>3. rhs = <<T[1]>> \o f
      BY <1>1
    <3> HIDE DEF rhs
    <3>4. /\ rhs \in Seq(Names) /\ Len(rhs) = (n - 1) + 1 /\ rhs[1] = T[1]
          /\ \A i \in 2..((n - 1) + 1) : rhs[i] = f[i - 1]
      BY <2>2, <3>1, <3>2, <3>3
    <3>5. (n - 1) + 1 = n
      BY <1>1
    <3> QED
      BY <3>4, <3>5
  <2> HIDE DEF lhs, rhs
  <2>4. \A i \in 2..n : i - 1 \in 1..(n - 1) /\ (i - 1) + 1 = i
    BY <1>1
  <2>5. \A i \in 2..n : rhs[i] = T[i]
    BY <2>2, <2>3, <2>4
  <2>6. \A i \in 1..n : i = 1 \/ i \in 2..n
    BY <1>1
  <2>7. \A i \in 1..n : lhs[i] = rhs[i]
    BY <2>1, <2>3, <2>5, <2>6
  <2>8. lhs = rhs
    BY <2>1, <2>3, <2>7
  <2> QED
    BY <2>8 DEF lhs, rhs, f
<1> QED
  BY <1>8 DEF T, n, w, v

\* A receipt that has arrived is at the home of the sender, under its wire name.
LEMMA ReceiptHome ==
  ASSUME NEW h \in Handler, IsReceipt(h.record), IsAsk(h.record), ~IsFqn(h.record.to),
         OnWay(h.record, Back(h.side))
  PROVE  /\ <<h.record.to[1]>> = WireName(<<Sender(h.record.id[1])>>)
         /\ h.side[1] = Home[Sender(h.record.id[1])]
<1> DEFINE r == h.record
           m == r.id[1]
           T == Trail(m)
<1>1. r \in Rec /\ m \in Messages /\ Len(r.to) = 1
  <2>1. Len(r.to) \in Nat /\ Len(r.to) >= 1 /\ ~(Len(r.to) > 1)
    BY HandlerFields, RecFields DEF IsFqn
  <2>2. \A k \in Nat : k >= 1 /\ ~(k > 1) => k = 1
    OBVIOUS
  <2> QED
    BY <2>1, <2>2, HandlerFields, RecFields
<1>2. /\ T \in Seq(Names) /\ Len(T) >= 1
      /\ <<T[1]>> = WireName(<<Sender(m)>>) /\ T[2] = Home[Sender(m)]
  <2> HIDE DEF T, m
  <2>1. /\ Len(T) = Hops(m) + 1 /\ Hops(m) \in Nat /\ T \in Seq(Names)
        /\ <<T[1]>> = WireName(<<Sender(m)>>) /\ T[2] = Home[Sender(m)]
    BY <1>1, TrailTypes DEF T
  <2>2. Len(T) >= 1
    BY <2>1
  <2> QED
    BY <2>1, <2>2
<1>3. /\ r.to = SubSeq(T, 1, 1)
      /\ <<h.side[2], h.side[1]>> = <<T[3], T[2]>>
  BY <1>1, HandlerFields DEF OnWay, BackWay
<1>4. r.to = <<T[1]>>
  BY <1>2, <1>3, OneSub
<1>5. r.to[1] = T[1]
  BY <1>4
<1> QED
  BY <1>2, <1>3, <1>5

-----------------------------------------------------------------------------
(* What an action adds to the queues and to the wires. *)

OnWire(p) == Range(frames[p])

\* Everything in a queue and on a wire is of its type.
LEMMA ElementTypes ==
  ASSUME LinksTyped, NEW p \in Sides
  PROVE  /\ queue[p] \in LinkQueue
         /\ queue[p].pending \in Seq(Rec) /\ queue[p].cur \in Seq(Rec)
         /\ queue[p].done \subseteq Refs
         /\ frames[p] \in Seq(Frame)
         /\ Held(p) \subseteq Rec
         /\ OnWire(p) \subseteq Frame
<1>1. queue[p] \in LinkQueue /\ frames[p] \in Seq(Frame)
  BY DEF LinksTyped
<1>2. queue[p].pending \in Seq(Rec) /\ queue[p].cur \in Seq(Rec) /\ queue[p].done \subseteq Refs
  BY <1>1 DEF LinkQueue
<1>3. \A S : \A s \in Seq(S) : Range(s) \subseteq S
  <2> SUFFICES ASSUME NEW S, NEW s \in Seq(S), NEW e \in Range(s)
               PROVE  e \in S
    OBVIOUS
  <2>1. PICK i \in DOMAIN s : e = s[i]
    BY DEF Range
  <2>2. i \in 1..Len(s)
    BY <2>1
  <2> QED
    BY <2>1, <2>2, ElementOfSeq
<1> QED
  BY <1>1, <1>2, <1>3 DEF Held, OnWire

\* An enqueue adds one record to one queue.
LEMMA EnqueueEffect ==
  ASSUME LinksTyped, NEW p \in Sides, NEW r \in Rec, queue' = Enqueue(queue, p, r)
  PROVE  /\ queue' \in [Sides -> LinkQueue]
         /\ \A q \in Sides : queue'[q].cur = queue[q].cur /\ queue'[q].done = queue[q].done
         /\ \A q \in Sides : Held(q)' = IF q = p THEN Held(q) \union {r} ELSE Held(q)
<1>1. queue[p].pending \in Seq(Rec)
  BY ElementTypes
<1>2. Append(queue[p].pending, r) \in Seq(Rec)
  BY <1>1
<1>3. queue' = [queue EXCEPT ![p].pending = Append(queue[p].pending, r)]
  BY DEF Enqueue
<1>4. \A q \in Sides : queue[q] \in LinkQueue
  BY ElementTypes
<1>5. /\ queue' \in [Sides -> LinkQueue]
      /\ queue'[p] = [queue[p] EXCEPT !.pending = Append(queue[p].pending, r)]
      /\ \A q \in Sides : q # p => queue'[q] = queue[q]
  BY ZenonT(30), <1>2, <1>3, <1>4 DEF LinksTyped, LinkQueue
<1>6. /\ queue'[p].pending = Append(queue[p].pending, r)
      /\ queue'[p].cur = queue[p].cur /\ queue'[p].done = queue[p].done
  BY <1>4, <1>5 DEF LinkQueue
<1>7. Range(queue'[p].pending) = Range(queue[p].pending) \union {r}
  BY <1>1, <1>6, RangeAppend
<1>8. Held(p)' = Range(queue'[p].pending) \union Range(queue'[p].cur)
  BY DEF Held
<1>9. Held(p)' = Held(p) \union {r}
  BY <1>6, <1>7, <1>8 DEF Held
<1>10. \A q \in Sides : q # p => Held(q)' = Held(q)
  BY <1>5 DEF Held
<1> QED
  BY <1>5, <1>6, <1>9, <1>10

\* A frame that is sent reaches the wire of a connection that is up, and only it.
LEMMA SendEffect ==
  ASSUME LinksTyped, NEW p \in Sides, NEW f \in Frame, frames' = SendFrame(frames, p, f)
  PROVE  /\ frames' \in [Sides -> Seq(Frame)]
         /\ \A q \in Sides :
              OnWire(q)' = IF q = p /\ Wired(p) THEN OnWire(q) \union {f} ELSE OnWire(q)
<1>1. frames \in [Sides -> Seq(Frame)] /\ frames[p] \in Seq(Frame)
  BY DEF LinksTyped
<1>2. CASE Wired(p)
  <2>1. frames' = [frames EXCEPT ![p] = Append(frames[p], f)] /\ Append(frames[p], f) \in Seq(Frame)
    BY <1>1, <1>2 DEF SendFrame
  <2>2. /\ frames' \in [Sides -> Seq(Frame)] /\ frames'[p] = Append(frames[p], f)
        /\ \A q \in Sides : q # p => frames'[q] = frames[q]
    BY <1>1, <2>1
  <2>3. Range(frames'[p]) = Range(frames[p]) \union {f}
    BY <1>1, <2>2, RangeAppend
  <2> QED
    BY <1>2, <2>2, <2>3 DEF OnWire
<1>3. CASE ~Wired(p)
  BY <1>1, <1>3 DEF SendFrame, OnWire
<1> QED
  BY <1>2, <1>3

\* The end of a handler: it is gone, and at most its acknowledgement is on the wire.
LEMMA AcksEffect ==
  ASSUME FedTyped, NEW h \in handlers, Acks(h)
  PROVE  /\ h \in Handler
         /\ handlers' = handlers \ {h}
         /\ frames' \in [Sides -> Seq(Frame)]
         /\ UNCHANGED <<push, open, stale>>
         /\ \A q \in Sides : OnWire(q) \subseteq OnWire(q)'
         /\ \A q \in Sides : \A f \in OnWire(q)' :
              f \in OnWire(q) \/ (q = h.side /\ f = [type |-> "ack", ref |-> FileId(h.record)])
<1> DEFINE a == [type |-> "ack", ref |-> FileId(h.record)]
<1>1. h \in Handler
  BY DEF FedTyped, HandlersTyped
<1>2. h.side \in Sides /\ h.record \in Rec
  BY <1>1 DEF Handler
<1>3. a \in Frame
  BY <1>2, RecFields DEF FileId, IsReceipt, Frame, AckFrame, Refs
<1>4. handlers' = handlers \ {h} /\ UNCHANGED <<push, open, stale>>
      /\ (frames' = SendFrame(frames, h.side, a) \/ frames' = frames)
  BY DEF Acks
<1> HIDE DEF a
<1>5. CASE frames' = SendFrame(frames, h.side, a)
  BY <1>1, <1>2, <1>3, <1>4, <1>5, SendEffect DEF FedTyped, a
<1>6. CASE frames' = frames
  BY <1>1, <1>4, <1>6 DEF FedTyped, LinksTyped, OnWire
<1> QED
  BY <1>4, <1>5, <1>6

\* A frame that arrives leaves the wire.
LEMMA ArriveEffect ==
  ASSUME LinksTyped, NEW p \in Sides, NEW type \in {"record", "ack"}, Arrives(p, type)
  PROVE  /\ frames' \in [Sides -> Seq(Frame)]
         /\ Head(frames[Back(p)]) \in OnWire(Back(p))
         /\ Head(frames[Back(p)]).type = type
         /\ \A q \in Sides : OnWire(q)' \subseteq OnWire(q)
         /\ \A q \in Sides : \A f \in OnWire(q) :
              f \in OnWire(q)' \/ (q = Back(p) /\ f = Head(frames[Back(p)]))
<1> DEFINE b == Back(p)
<1>1. /\ b \in Sides /\ frames[b] # <<>> /\ Head(frames[b]).type = type
      /\ frames' = [frames EXCEPT ![b] = Tail(frames[b])]
  BY SidesPairs DEF Arrives
<1>2. frames \in [Sides -> Seq(Frame)] /\ frames[b] \in Seq(Frame)
  BY <1>1 DEF LinksTyped
<1> HIDE DEF b
<1>3. /\ Tail(frames[b]) \in Seq(Frame)
      /\ Range(frames[b]) = Range(Tail(frames[b])) \union {Head(frames[b])}
  BY <1>1, <1>2, RangeTail
<1>4. /\ frames' \in [Sides -> Seq(Frame)] /\ frames'[b] = Tail(frames[b])
      /\ \A q \in Sides : q # b => frames'[q] = frames[q]
  BY <1>1, <1>2, <1>3
<1> QED
  BY <1>1, <1>3, <1>4 DEF OnWire, b

\* dequeue takes the oldest record into the slot, or drops it as a repetition.
LEMMA DequeueEffect ==
  ASSUME LinksTyped, NEW p \in Sides, Dequeue(p)
  PROVE  /\ queue' \in [Sides -> LinkQueue]
         /\ \A q \in Sides : queue'[q].done = queue[q].done
         /\ \A q \in Sides : Held(q)' \subseteq Held(q)
         /\ \A q \in Sides : \A e \in Held(q) : e \in Held(q)' \/ FileId(e) \in queue[q].done
<1> DEFINE s == queue[p].pending
           r == Head(s)
           c == IF FileId(r) \in queue[p].done THEN <<>> ELSE <<r>>
<1>1. queue[p].cur = <<>> /\ s # <<>> /\ s \in Seq(Rec) /\ queue[p] \in LinkQueue
  BY ElementTypes DEF Dequeue
<1>2. /\ r \in Rec /\ Tail(s) \in Seq(Rec)
      /\ Range(s) = Range(Tail(s)) \union {r}
  BY <1>1, RangeTail, HeadTailProperties
<1> HIDE DEF s
<1>3. c \in Seq(Rec)
  BY <1>2
<1>4. queue' = [queue EXCEPT ![p].pending = Tail(s), ![p].cur = c]
  BY DEF Dequeue, s
<1>5. /\ queue' \in [Sides -> LinkQueue]
      /\ queue'[p].pending = Tail(s) /\ queue'[p].cur = c /\ queue'[p].done = queue[p].done
      /\ \A q \in Sides : q # p => queue'[q] = queue[q]
  BY <1>1, <1>2, <1>3, <1>4 DEF LinksTyped, LinkQueue
<1>6. \A e : Range(<<e>>) = {e}
  BY DEF Range
<1>7. Range(<<>>) = {}
  BY DEF Range
<1>8. Held(p) = Range(Tail(s)) \union {r}
  BY <1>1, <1>2, <1>7 DEF Held, s
<1>9. Held(p)' = Range(queue'[p].pending) \union Range(queue'[p].cur)
  BY DEF Held
<1>10. Held(p)' = Range(Tail(s)) \union (IF FileId(r) \in queue[p].done THEN {} ELSE {r})
  BY <1>5, <1>6, <1>7, <1>9
<1>11. \A q \in Sides : q # p => Held(q)' = Held(q)
  BY <1>5 DEF Held
<1> QED
  BY <1>5, <1>8, <1>10, <1>11

\* An acknowledgement completes the record it was waited for, or changes nothing.
LEMMA AcknowledgedEffect ==
  ASSUME LinksTyped, NEW p \in Sides, Acknowledged(p)
  PROVE  LET ref == Head(frames[Back(p)]).ref
             taken == push[p].waits /\ FileId(queue[p].cur[1]) = ref
         IN  /\ ref \in Refs
             /\ [type |-> "ack", ref |-> ref] \in OnWire(Back(p))
             /\ queue' \in [Sides -> LinkQueue]
             /\ \A q \in Sides : Held(q)' \subseteq Held(q)
             /\ ~taken => queue' = queue /\ push' = push
             /\ taken => /\ \A q \in Sides : q # p => queue'[q] = queue[q]
                         /\ queue'[p].pending = queue[p].pending
                         /\ queue'[p].cur = <<>>
                         /\ queue'[p].done = queue[p].done \union {ref}
                         /\ push' = [push EXCEPT ![p] = [waits |-> FALSE, sent |-> NoReply]]
<1> DEFINE f == Head(frames[Back(p)])
           ref == f.ref
<1>1. f \in OnWire(Back(p)) /\ f.type = "ack" /\ Back(p) \in Sides
  BY ArriveEffect, SidesPairs DEF Acknowledged
<1>2. f \in AckFrame
  BY <1>1, ElementTypes DEF Frame, RecordFrame
<1>3. ref \in Refs /\ f = [type |-> "ack", ref |-> ref]
  BY <1>1, <1>2 DEF AckFrame
<1>4. queue[p] \in LinkQueue
  BY ElementTypes
<1>5. CASE push[p].waits /\ FileId(queue[p].cur[1]) = ref
  <2>1. /\ queue' = [queue EXCEPT ![p].cur = <<>>, ![p].done = @ \union {ref}]
        /\ push' = [push EXCEPT ![p] = [waits |-> FALSE, sent |-> NoReply]]
    BY <1>5 DEF Acknowledged
  <2> HIDE DEF ref
  <2> DEFINE d == queue[p].done \union {ref}
  <2>a. d \in SUBSET Refs /\ <<>> \in Seq(Rec)
    BY <1>3, ElementTypes
  <2>b. queue' = [queue EXCEPT ![p].cur = <<>>, ![p].done = d]
    BY <2>1
  <2> HIDE DEF d
  <2>c. /\ queue' \in [Sides -> LinkQueue]
        /\ queue'[p].pending = queue[p].pending /\ queue'[p].cur = <<>>
        /\ queue'[p].done = d
        /\ \A q \in Sides : q # p => queue'[q] = queue[q]
    BY <1>4, <2>a, <2>b DEF LinksTyped, LinkQueue
  <2>2. /\ queue' \in [Sides -> LinkQueue]
        /\ queue'[p].pending = queue[p].pending /\ queue'[p].cur = <<>>
        /\ queue'[p].done = queue[p].done \union {ref}
        /\ \A q \in Sides : q # p => queue'[q] = queue[q]
    BY <2>c DEF d
  <2>3. Range(<<>>) = {}
    BY DEF Range
  <2>4. Held(p)' = Range(queue'[p].pending) \union Range(queue'[p].cur)
    BY DEF Held
  <2>5. Held(p)' \subseteq Held(p)
    BY <2>2, <2>3, <2>4 DEF Held
  <2>6. \A q \in Sides : Held(q)' \subseteq Held(q)
    BY <2>2, <2>5 DEF Held
  <2> QED
    BY <1>1, <1>3, <1>5, <2>1, <2>2, <2>6 DEF ref
<1>6. CASE ~(push[p].waits /\ FileId(queue[p].cur[1]) = ref)
  <2>1. queue' = queue /\ push' = push
    BY <1>6 DEF Acknowledged
  <2> QED
    BY <1>1, <1>3, <1>6, <2>1 DEF LinksTyped, Held
<1> QED
  BY <1>5, <1>6

\* What a sender's router enqueues.
LEMMA RouteTypes ==
  ASSUME NEW a \in Actors, NEW fqn \in Seq(Names), Len(fqn) >= 2, NEW id \in Ids
  PROVE  Record(id, "none", <<a>>, Front(fqn), 0) \in Rec
<1>1. Front(fqn) \in Seq(Names) /\ Len(Front(fqn)) = Len(fqn) - 1 /\ Len(fqn) \in Nat
  BY FrontTypes
<1>2. Front(fqn) \in NameSeq
  BY <1>1 DEF NameSeq
<1>3. a \in Names
  BY DEF Names
<1>4. <<a>> \in NameSeq
  BY <1>3 DEF NameSeq
<1> QED
  BY <1>2, <1>4 DEF Record, Rec, Codes

\* The producers that call it: an ask of the plan ...
LEMMA SendArguments ==
  ASSUME NEW m \in Messages
  PROVE  /\ Plan[m].from \in Actors /\ Plan[m].to \in Seq(Names) /\ Len(Plan[m].to) >= 2
         /\ <<m, "ask">> \in Ids
  BY PlanAssumption DEF Ids

\* ... or an answer to what was received, under the id of its own and to the name
\* that was stamped.
LEMMA AnswerArguments ==
  ASSUME FedTyped, NEW r \in Actors, NEW mail \in inbox[r]
  PROVE  /\ mail.from \in Seq(Names) /\ Len(mail.from) >= 2
         /\ mail.id \in Ids /\ mail.id[1] \in Messages
         /\ <<mail.id[1], "answer">> \in Ids
<1>1. mail \in Mail
  BY DEF FedTyped, ActorsTyped
<1>2. mail.id \in Ids /\ mail.from \in Seq(Names) /\ Len(mail.from) >= 2
  BY <1>1 DEF Mail
<1> QED
  BY <1>2 DEF Ids

-----------------------------------------------------------------------------
(* Type correctness. *)

\* The gates name recipients that are actors of the server, and codes.
LEMMA GateTypes ==
  ASSUME NEW h \in Handler
  PROVE  /\ Recipients(h) \subseteq Actors
         /\ Verdict(h) \in Codes
         /\ Verdict(h) # "ok" => Verdict(h) \in Codes \ {"none"}
         /\ Verdict(h) # "none"
<1>1. Recipients(h) \subseteq Actors
  BY TopologyAssumption DEF Recipients, ExportedToLocal
<1> QED
  BY <1>1 DEF Verdict, Codes

\* Each producer, and each gate that turns, keeps the types.
LEMMA AgentTypes ==
  ASSUME FedTyped, AgentNext
  PROVE  FedTyped'
<1> USE DEF FedTyped, LinksTyped, HandlersTyped, ActorsTyped, linkVars, actorVars
<1>1. ASSUME NEW a \in Actors, NEW fqn \in Seq(Names), Len(fqn) >= 2, NEW id \in Ids,
             RouteEgress(a, fqn, id)
      PROVE  FedTyped'
  <2> DEFINE side == <<Home[a], Last(fqn)>>
             r == Record(id, "none", <<a>>, Front(fqn), 0)
  <2>1. side \in Sides /\ queue' = Enqueue(queue, side, r) /\ r \in Rec
    BY <1>1, RouteTypes DEF RouteEgress
  <2>2. queue' \in [Sides -> LinkQueue]
    BY <2>1, EnqueueEffect
  <2>3. journal' = journal \union {<<a, fqn, id>>} /\ accepted' = accepted \union {id}
        /\ UNCHANGED <<linkVars, handlers, actorVars, repeated, faults>>
    BY <1>1 DEF RouteEgress, Journaled
  <2> QED
    BY <2>2, <2>3
<1>2. CASE \E m \in Messages : Send(m)
  BY <1>1, <1>2, SendArguments DEF Send
<1>3. CASE \E r \in Actors : \E mail \in inbox[r] : Answer(r, mail)
  <2>1. PICK r \in Actors : \E mail \in inbox[r] : Answer(r, mail)
    BY <1>3
  <2>2. PICK mail \in inbox[r] : Answer(r, mail)
    BY <2>1
  <2> QED
    BY <1>1, <2>2, AnswerArguments DEF Answer
<1>4. CASE \E r \in Pausable : GateTurns(r)
  <2>1. PICK r \in Pausable : GateTurns(r)
    BY <1>4
  <2>2. /\ refusing' \subseteq refusing \union {r} /\ faults' = faults + 1
        /\ UNCHANGED <<queue, linkVars, handlers, inbox, notices, journal, histVars>>
    BY <2>1 DEF GateTurns, Event
  <2> QED
    BY <2>2, TopologyAssumption DEF histVars
<1> QED
  BY <1>2, <1>3, <1>4 DEF AgentNext

\* Each step of a link's egress and of its sockets keeps the types.
LEMMA LinkTypes ==
  ASSUME FedTyped, NEW p \in Sides, EgressNext(p) \/ SocketNext(p)
  PROVE  FedTyped'
<1> USE DEF FedTyped, LinksTyped, HandlersTyped, ActorsTyped, actorVars, histVars, linkVars
<1>0. Back(p) \in Sides
  BY SidesPairs
<1>1. \A S \in SUBSET Handler, q \in Sides : Unheard(q, S) \subseteq Handler
  BY DEF Unheard, Handler
<1>2. Rejected(p) \in [Sides -> [waits : BOOLEAN, sent : Ids \union {NoReply}]]
  BY DEF Rejected
<1>3. CASE Dequeue(p)
  <2>1. queue' \in [Sides -> LinkQueue]
    BY <1>3, DequeueEffect
  <2> QED
    BY <1>3, <2>1 DEF Dequeue
<1>4. CASE Push(p)
  <2> DEFINE r == queue[p].cur[1]
             f == [type |-> "record", record |-> Wired1(r)]
  <2>1. r \in Rec
    <3>1. queue[p].cur \in Seq(Rec) /\ queue[p].cur # <<>>
      BY <1>4, ElementTypes DEF Push
    <3>2. 1 \in 1..Len(queue[p].cur)
      BY <3>1
    <3> QED
      BY <3>1, <3>2, ElementOfSeq
  <2>2. Wired1(r) \in Rec
    BY <2>1, PushKeepsWay
  <2>3. f \in Frame
    BY <2>2 DEF Frame, RecordFrame
  <2>4. frames' = SendFrame(frames, p, f)
    BY <1>4 DEF Push, Wired1
  <2>5. frames' \in [Sides -> Seq(Frame)]
    BY <2>3, <2>4, SendEffect
  <2>6. r.id \in Ids
    BY <2>1, RecFields
  <2> HIDE DEF r
  <2>7. /\ push' = [push EXCEPT ![p] = [waits |-> TRUE, sent |-> r.id]]
        /\ repeated' \subseteq repeated \union {r.id}
        /\ UNCHANGED <<queue, open, stale, handlers, actorVars, journal, accepted, faults>>
    BY <1>4 DEF Push, r
  <2> QED
    BY <2>5, <2>6, <2>7
<1>5. CASE AckTimeout(p)
  BY <1>2, <1>5 DEF AckTimeout, Event
<1>6. CASE Connect(p)
  <2>1. handlers' \subseteq Handler
    BY <1>0, <1>1, <1>6 DEF Connect
  <2>2. /\ open' \in [Sides -> BOOLEAN] /\ stale' \in [Sides -> BOOLEAN]
        /\ UNCHANGED <<queue, push, actorVars, journal, histVars, faults>>
    BY <1>0, <1>6 DEF Connect
  <2>3. frames' \in [Sides -> Seq(Frame)]
    <3>1. <<>> \in Seq(Frame)
      OBVIOUS
    <3> QED
      BY <1>0, <1>6, <3>1 DEF Connect
  <2> QED
    BY <2>1, <2>2, <2>3
<1>7. CASE Close(p)
  <2>1. handlers' \subseteq Handler
    BY <1>1, <1>7 DEF Close
  <2>2. frames' \in [Sides -> Seq(Frame)]
    <3>1. <<>> \in Seq(Frame)
      OBVIOUS
    <3> QED
      BY <1>0, <1>7, <3>1 DEF Close
  <2>3. /\ open' \in [Sides -> BOOLEAN] /\ push' = Rejected(p) /\ faults' \in Nat
        /\ UNCHANGED <<queue, stale, actorVars, journal, histVars>>
    BY <1>7 DEF Close, Event
  <2> QED
    BY <1>2, <2>1, <2>2, <2>3
<1>8. CASE StaleClose(p)
  BY <1>2, <1>8 DEF StaleClose
<1>9. CASE Acknowledged(p)
  <2>1. queue' \in [Sides -> LinkQueue]
    BY <1>9, AcknowledgedEffect
  <2>2. frames' \in [Sides -> Seq(Frame)]
    BY <1>9, ArriveEffect DEF Acknowledged
  <2>3. push' = push \/ push' = [push EXCEPT ![p] = [waits |-> FALSE, sent |-> NoReply]]
    BY <1>9, AcknowledgedEffect
  <2>4. UNCHANGED <<open, stale, handlers, actorVars, journal, histVars, faults>>
    BY <1>9 DEF Acknowledged
  <2>5. push' \in [Sides -> [waits : BOOLEAN, sent : Ids \union {NoReply}]]
    <3> DEFINE Pushes == [waits : BOOLEAN, sent : Ids \union {NoReply}]
               none == [waits |-> FALSE, sent |-> NoReply]
    <3>1. push \in [Sides -> Pushes] /\ none \in Pushes
      OBVIOUS
    <3>2. push' = push \/ push' = [push EXCEPT ![p] = none]
      BY <2>3
    <3> HIDE DEF Pushes, none
    <3>3. push' \in [Sides -> Pushes]
      BY <3>1, <3>2
    <3> QED
      BY <3>3 DEF Pushes
  <2> QED
    BY <2>1, <2>2, <2>4, <2>5
<1>10. CASE Received(p)
  <2> DEFINE f == Head(frames[Back(p)])
  <2>1. f \in Frame /\ f.type = "record" /\ frames' \in [Sides -> Seq(Frame)]
    BY <1>0, <1>10, ArriveEffect, ElementTypes DEF Received
  <2>2. f.record \in Rec
    BY <2>1 DEF Frame, RecordFrame, AckFrame
  <2> HIDE DEF f
  <2>3. /\ handlers' = handlers \union
             {[side |-> p, record |-> f.record, delivered |-> FALSE, heard |-> TRUE]}
        /\ UNCHANGED <<queue, push, open, stale, actorVars, journal, histVars, faults>>
    BY <1>10 DEF Received, f
  <2> DEFINE new == [side |-> p, record |-> f.record, delivered |-> FALSE, heard |-> TRUE]
  <2>4. new \in Handler
    BY <2>2 DEF Handler
  <2> HIDE DEF new
  <2>5. handlers' = handlers \union {new}
    BY <2>3 DEF new
  <2>6. handlers' \subseteq Handler
    BY <2>4, <2>5
  <2> QED
    BY <2>1, <2>3, <2>6
<1> QED
  BY <1>3, <1>4, <1>5, <1>6, <1>7, <1>8, <1>9, <1>10 DEF EgressNext, SocketNext

\* Each step of a handler keeps the types.
LEMMA HandlerTypes ==
  ASSUME FedTyped, NEW h \in handlers, HandlerNext(h) \/ IngressFails(h)
  PROVE  FedTyped'
<1> USE DEF FedTyped, LinksTyped, HandlersTyped, ActorsTyped, actorVars, histVars, linkVars
<1>0. h \in Handler /\ h.side \in Sides /\ h.record \in Rec
  BY DEF Handler
<1>1. CASE Refuse(h)
  <2>1. Verdict(h) \in Codes \ {"none"}
    BY <1>0, <1>1, GateTypes DEF Refuse
  <2>2. ReceiptFor(h, Verdict(h)) \in Rec
    BY <1>0, <2>1, ReceiptKeepsWay
  <2>3. queue' \in [Sides -> LinkQueue]
    BY <1>0, <1>1, <2>2, EnqueueEffect DEF Refuse
  <2> QED
    BY <1>1, <2>3, AcksEffect DEF Refuse
<1>2. CASE Transit(h)
  <2>1. Forwarded(h) \in Rec
    BY <1>0, <1>2, ForwardKeepsWay DEF Transit
  <2>2. NextSide(h) \in Sides
    BY <1>2 DEF Transit, Verdict, Onward
  <2>3. queue' \in [Sides -> LinkQueue]
    BY <1>2, <2>1, <2>2, EnqueueEffect DEF Transit
  <2> QED
    BY <1>2, <2>3, AcksEffect DEF Transit
<1>3. CASE Deliver(h)
  <2>1. PICK r \in Recipients(h) :
          /\ inbox' = [inbox EXCEPT ![r] = @ \union {[id |-> h.record.id, from |-> Stamped(h)]}]
          /\ Journaled(<<r, Stamped(h), h.record.id>>)
    BY <1>3 DEF Deliver
  <2>2. r \in Actors
    BY <1>0, GateTypes
  <2>3. Stamped(h) \in Seq(Names) /\ Len(Stamped(h)) >= 2 /\ h.record.id \in Ids
    <3>1. /\ Stamped(h) \in Seq(Names) /\ Len(Stamped(h)) = Len(h.record.from) + 1
          /\ Len(h.record.from) \in Nat /\ Len(h.record.from) >= 1
      BY <1>0, StampTypes, RecFields
    <3> QED
      BY <1>0, <3>1, RecFields
  <2> DEFINE mail == [id |-> h.record.id, from |-> Stamped(h)]
             done1 == [h EXCEPT !.delivered = TRUE]
  <2>4. mail \in Mail
    BY <2>3 DEF Mail
  <2>5. done1 \in Handler
    BY <1>0 DEF Handler
  <2> HIDE DEF mail, done1
  <2>6. inbox' = [inbox EXCEPT ![r] = @ \union {mail}]
    BY <2>1 DEF mail
  <2>7. inbox' \in [Actors -> SUBSET Mail]
    BY <2>2, <2>4, <2>6
  <2>8. journal' = journal \union {<<r, Stamped(h), h.record.id>>}
    BY <2>1 DEF Journaled
  <2>9. journal' \subseteq Actors \X Seq(Names) \X Ids
    BY <2>2, <2>3, <2>8
  <2>10. handlers' = (handlers \ {h}) \union {done1}
         /\ UNCHANGED <<queue, linkVars, notices, refusing, histVars, faults>>
    BY <1>3 DEF Deliver, done1
  <2> QED
    BY <2>5, <2>7, <2>9, <2>10
<1>4. CASE ReceiptQueued(h)
  <2>1. ReceiptFor(h, "ok") \in Rec
    BY <1>0, ReceiptKeepsWay DEF Codes
  <2>2. queue' \in [Sides -> LinkQueue]
    BY <1>0, <1>4, <2>1, EnqueueEffect DEF ReceiptQueued
  <2> QED
    BY <1>4, <2>2, AcksEffect DEF ReceiptQueued
<1>5. CASE ReceiptTransit(h)
  <2>1. Forwarded(h) \in Rec
    BY <1>0, <1>5, ForwardKeepsWay DEF ReceiptTransit
  <2>2. queue' = queue \/ (NextSide(h) \in Sides /\ queue' = Enqueue(queue, NextSide(h), Forwarded(h)))
    BY <1>5 DEF ReceiptTransit
  <2>3. queue' \in [Sides -> LinkQueue]
    BY <2>1, <2>2, EnqueueEffect
  <2> QED
    BY <1>5, <2>3, AcksEffect DEF ReceiptTransit
<1>6. CASE ReceiptComesHome(h)
  <2> DEFINE name == h.record.to[1]
  <2>1. Stamped(h) \in Seq(Names) /\ h.record.id \in Ids
    BY <1>0, StampTypes, RecFields
  <2>2. \/ /\ name \in Actors
           /\ notices' = notices \union {<<name, h.record.id>>}
           /\ journal' = journal \union {<<name, Stamped(h), h.record.id>>}
        \/ UNCHANGED <<notices, journal>>
    BY <1>6 DEF ReceiptComesHome, QueueKeyOf, Journaled
  <2> HIDE DEF name
  <2>3. notices' \subseteq Actors \X Ids /\ journal' \subseteq Actors \X Seq(Names) \X Ids
    BY <2>1, <2>2
  <2> QED
    BY <1>6, <2>3, AcksEffect DEF ReceiptComesHome
<1>7. CASE IngressFails(h)
  BY <1>7 DEF IngressFails, Event
<1> QED
  BY <1>1, <1>2, <1>3, <1>4, <1>5, <1>6, <1>7 DEF HandlerNext

\* A crash keeps the types.
LEMMA CrashTypes ==
  ASSUME FedTyped, NEW s \in Servers, Crash(s)
  PROVE  FedTyped'
<1> USE DEF FedTyped, LinksTyped, HandlersTyped, ActorsTyped, actorVars, histVars
<1>1. <<>> \in Seq(Frame)
  OBVIOUS
<1>2. frames' \in [Sides -> Seq(Frame)]
  BY <1>1 DEF Crash
<1>3. push' \in [Sides -> [waits : BOOLEAN, sent : Ids \union {NoReply}]]
  BY ZenonT(30) DEF Crash
<1>4. open' \in [Sides -> BOOLEAN] /\ stale' \in [Sides -> BOOLEAN] /\ handlers' \subseteq handlers
  BY DEF Crash
<1>5. faults' \in Nat /\ UNCHANGED <<queue, actorVars, journal, histVars>>
  BY DEF Crash, Event
<1> QED
  BY <1>2, <1>3, <1>4, <1>5

\* Every step keeps the types.
LEMMA TypedStep ==
  ASSUME FedTyped, [Next]_vars
  PROVE  FedTyped'
<1>1. CASE \E p \in Sides : EgressNext(p) \/ SocketNext(p)
  BY <1>1, LinkTypes
<1>2. CASE \E h \in handlers : HandlerNext(h) \/ IngressFails(h)
  BY <1>2, HandlerTypes
<1>3. CASE AgentNext
  BY <1>3, AgentTypes
<1>4. CASE \E s \in Servers : Crash(s)
  BY <1>4, CrashTypes
<1>5. CASE UNCHANGED vars
  BY <1>5 DEF vars, linkVars, actorVars, histVars, FedTyped, LinksTyped, HandlersTyped, ActorsTyped
<1> QED
  BY <1>1, <1>2, <1>3, <1>4, <1>5 DEF Next

\* Empty queues, wires and inboxes are of their types.
LEMMA TypedInit ==
  ASSUME Init
  PROVE  FedTyped
<1>1. <<>> \in Seq(Rec) /\ <<>> \in Seq(Frame)
  OBVIOUS
<1>2. queue \in [Sides -> LinkQueue] /\ frames \in [Sides -> Seq(Frame)]
  BY <1>1 DEF Init, LinkQueue
<1>3. push \in [Sides -> [waits : BOOLEAN, sent : Ids \union {NoReply}]]
  BY DEF Init
<1> QED
  BY <1>2, <1>3, TopologyAssumption
  DEF Init, FedTyped, LinksTyped, HandlersTyped, ActorsTyped

-----------------------------------------------------------------------------
(* Every record is on the way of its message. *)

QueuesOnWay == \A p \in Sides : \A r \in Held(p) : IsAsk(r) => Waiting(r, p)
WireOnWay == \A p \in Sides : \A f \in OnWire(p) :
  f.type = "record" /\ IsAsk(f.record) => OnWay(f.record, p)
HandlersOnWay == \A h \in handlers :
  /\ IsAsk(h.record) => OnWay(h.record, Back(h.side))
  /\ h.delivered => ~IsReceipt(h.record)
WayInv == QueuesOnWay /\ WireOnWay /\ HandlersOnWay

\* A new record is put on its way by its sender ...
LEMMA SendOnWay ==
  ASSUME FedTyped, WayInv, NEW m \in Messages, Send(m)
  PROVE  WayInv'
<1> DEFINE a == Plan[m].from
           t == Plan[m].to
           n == Hops(m)
           side == <<Home[a], Last(t)>>
           r == Record(<<m, "ask">>, "none", <<a>>, Front(t), 0)
<1>1. /\ side \in Sides /\ queue' = Enqueue(queue, side, r) /\ r \in Rec
      /\ UNCHANGED <<frames, handlers>>
  BY SendArguments, RouteTypes DEF Send, RouteEgress, linkVars
<1>2. /\ t \in Seq(Names) /\ Len(t) = n /\ n \in Nat /\ n > 1
      /\ Trail(m)[2] = Home[a] /\ Trail(m)[3] = t[n]
  <2>1. /\ t \in Seq(Names) /\ Len(t) = n /\ n \in Nat /\ n > 1 /\ Trail(m)[2] = Home[a]
        /\ \A i \in 3..(n + 1) : Trail(m)[i] = t[n + 3 - i]
    BY TrailTypes DEF Hops, Sender
  <2>2. 3 \in 3..(n + 1) /\ n + 3 - 3 = n
    BY <2>1
  <2> QED
    BY <2>1, <2>2
<1>3. /\ r.id = <<m, "ask">> /\ r.from = <<a>> /\ r.to = Front(t) /\ r.code = "none"
      /\ r.id[1] = m
  BY DEF Record
<1>4. Waiting(r, side)
  <2> HIDE DEF r, n, t
  <2>1. Front(t) = SubSeq(t, 1, n - 1) /\ Len(Front(t)) = n - 1 /\ Last(t) = t[n]
    BY <1>2, FrontTypes DEF Front, Last
  <2>2. n - (n - 1) + 1 = 2 /\ n - (n - 1) + 2 = 3 /\ n - 1 <= n - 1
    BY <1>2
  <2>3. OutWay(r, side)
    BY <1>2, <1>3, <2>1, <2>2 DEF OutWay, n, t
  <2>4. AtSource(r) /\ ~IsReceipt(r)
    BY <1>3, <2>1 DEF AtSource, IsReceipt, n, t
  <2> QED
    BY <1>3, <2>3, <2>4 DEF Waiting, Sender
<1> HIDE DEF r, side
<1>5. \A q \in Sides : Held(q)' = IF q = side THEN Held(q) \union {r} ELSE Held(q)
  BY <1>1, EnqueueEffect DEF FedTyped
<1> QED
  BY <1>1, <1>4, <1>5 DEF WayInv, QueuesOnWay, WireOnWay, HandlersOnWay, OnWire

\* ... and an answer is no ask.
LEMMA AnswerOnWay ==
  ASSUME FedTyped, WayInv, NEW a \in Actors, NEW mail \in inbox[a], Answer(a, mail)
  PROVE  WayInv'
<1> DEFINE id == <<mail.id[1], "answer">>
           side == <<Home[a], Last(mail.from)>>
           r == Record(id, "none", <<a>>, Front(mail.from), 0)
<1>1. /\ side \in Sides /\ queue' = Enqueue(queue, side, r) /\ r \in Rec
      /\ UNCHANGED <<frames, handlers>>
  BY AnswerArguments, RouteTypes DEF Answer, RouteEgress, linkVars
<1>2. ~IsAsk(r)
  BY DEF IsAsk, Record
<1> HIDE DEF r, side
<1>3. \A q \in Sides : Held(q)' = IF q = side THEN Held(q) \union {r} ELSE Held(q)
  BY <1>1, EnqueueEffect DEF FedTyped
<1> QED
  BY <1>1, <1>2, <1>3 DEF WayInv, QueuesOnWay, WireOnWay, HandlersOnWay, OnWire

\* What becomes of a handler whose connection closes.
SameWork(h, k) == h.side = k.side /\ h.record = k.record /\ h.delivered = k.delivered

\* Between two servers a record keeps its way.
LEMMA LinkOnWay ==
  ASSUME FedTyped, WayInv, NEW p \in Sides, EgressNext(p) \/ SocketNext(p)
  PROVE  WayInv'
<1> USE DEF WayInv, QueuesOnWay, WireOnWay, HandlersOnWay
<1>0. /\ LinksTyped /\ handlers \subseteq Handler
      /\ Back(p) \in Sides /\ Back(Back(p)) = p
  BY SidesPairs DEF FedTyped, HandlersTyped
<1>1. \A S, q : S \subseteq Handler =>
        /\ Unheard(q, S) \subseteq Handler
        /\ \A h \in Unheard(q, S) : \E k \in S : SameWork(h, k)
  <2> SUFFICES ASSUME NEW S, S \subseteq Handler, NEW q, NEW k \in S
               PROVE  LET h == IF k.side = q THEN [k EXCEPT !.heard = FALSE] ELSE k
                      IN  SameWork(h, k) /\ h \in Handler
    BY DEF Unheard
  <2> QED
    BY ZenonT(30) DEF Handler, SameWork
<1>2. Range(<<>>) = {}
  BY DEF Range
<1>3. CASE Dequeue(p)
  <2>1. \A q \in Sides : Held(q)' \subseteq Held(q)
    BY <1>0, <1>3, DequeueEffect
  <2>2. UNCHANGED <<frames, handlers>>
    BY <1>3 DEF Dequeue, linkVars
  <2> QED
    BY <2>1, <2>2 DEF OnWire
<1>4. CASE Push(p)
  <2> DEFINE r == queue[p].cur[1]
             f == [type |-> "record", record |-> Wired1(r)]
  <2>1. r \in Held(p) /\ r \in Rec
    <3>1. queue[p].cur \in Seq(Rec) /\ queue[p].cur # <<>>
      BY <1>0, <1>4, ElementTypes DEF Push
    <3>2. 1 \in 1..Len(queue[p].cur)
      BY <3>1
    <3>3. 1 \in DOMAIN queue[p].cur
      BY <3>1, <3>2
    <3> QED
      BY <1>0, <3>3, ElementTypes DEF Held, Range
  <2>2. /\ Wired1(r) \in Rec /\ Wired1(r).id = r.id
        /\ (IsAsk(r) => OnWay(Wired1(r), p))
    BY <2>1, PushKeepsWay
  <2>3. f \in Frame
    BY <2>2 DEF Frame, RecordFrame
  <2>4. frames' = SendFrame(frames, p, f)
    BY <1>4 DEF Push, Wired1
  <2> HIDE DEF r
  <2>5. IsAsk(f.record) => OnWay(f.record, p)
    BY <2>2 DEF IsAsk
  <2> HIDE DEF f
  <2>6. \A q \in Sides : \A g \in OnWire(q)' : g \in OnWire(q) \/ (q = p /\ g = f)
    BY <1>0, <2>3, <2>4, SendEffect
  <2>7. UNCHANGED <<queue, handlers>>
    BY <1>4 DEF Push
  <2> QED
    BY <2>5, <2>6, <2>7 DEF Held
<1>5. CASE AckTimeout(p)
  BY <1>5 DEF AckTimeout, Held, OnWire
<1>6. CASE Connect(p)
  <2>1. \A h \in handlers' : \E k \in handlers : SameWork(h, k)
    <3>1. handlers' = Unheard(p, Unheard(Back(p), handlers))
      BY <1>6 DEF Connect
    <3>2. \A k \in Unheard(Back(p), handlers) :
            \E e \in handlers : SameWork(k, e)
      BY <1>0, <1>1
    <3>3. \A h \in handlers' : \E k \in Unheard(Back(p), handlers) :
            SameWork(h, k)
      BY <1>0, <1>1, <3>1
    <3> QED
      BY <3>2, <3>3 DEF SameWork
  <2>2. \A q \in Sides : frames'[q] = frames[q] \/ frames'[q] = <<>>
    BY <1>0, <1>6 DEF Connect, LinksTyped
  <2>3. \A q \in Sides : OnWire(q)' \subseteq OnWire(q)
    BY <1>2, <2>2 DEF OnWire
  <2>4. UNCHANGED queue
    BY <1>6 DEF Connect
  <2> QED
    BY <2>1, <2>3, <2>4 DEF Held, SameWork
<1>7. CASE Close(p)
  <2>1. \A h \in handlers' : \E k \in handlers : SameWork(h, k)
    BY <1>0, <1>1, <1>7 DEF Close
  <2>2. \A q \in Sides : frames'[q] = frames[q] \/ frames'[q] = <<>>
    BY <1>0, <1>7 DEF Close, LinksTyped
  <2>3. \A q \in Sides : OnWire(q)' \subseteq OnWire(q)
    BY <1>2, <2>2 DEF OnWire
  <2>4. UNCHANGED queue
    BY <1>7 DEF Close
  <2> QED
    BY <2>1, <2>3, <2>4 DEF Held, SameWork
<1>8. CASE StaleClose(p)
  BY <1>8 DEF StaleClose, Held, OnWire
<1>9. CASE Acknowledged(p)
  <2>1. \A q \in Sides : Held(q)' \subseteq Held(q)
    BY <1>0, <1>9, AcknowledgedEffect
  <2>2. \A q \in Sides : OnWire(q)' \subseteq OnWire(q)
    BY <1>0, <1>9, ArriveEffect DEF Acknowledged
  <2>3. UNCHANGED handlers
    BY <1>9 DEF Acknowledged
  <2> QED
    BY <2>1, <2>2, <2>3
<1>10. CASE Received(p)
  <2> DEFINE f == Head(frames[Back(p)])
             new == [side |-> p, record |-> f.record, delivered |-> FALSE, heard |-> TRUE]
  <2>1. /\ f \in OnWire(Back(p)) /\ f.type = "record"
        /\ \A q \in Sides : OnWire(q)' \subseteq OnWire(q)
    BY <1>0, <1>10, ArriveEffect DEF Received
  <2>2. handlers' = handlers \union {new} /\ UNCHANGED queue
    BY <1>10 DEF Received
  <2>3. new.side = p /\ new.record = f.record /\ ~new.delivered
    OBVIOUS
  <2> HIDE DEF new, f
  <2>4. IsAsk(new.record) => OnWay(new.record, Back(new.side))
    BY <1>0, <2>1, <2>3
  <2> QED
    BY <2>1, <2>2, <2>3, <2>4 DEF Held
<1> QED
  BY <1>3, <1>4, <1>5, <1>6, <1>7, <1>8, <1>9, <1>10 DEF EgressNext, SocketNext

\* A handler sends on what it received on the way of the message, or a receipt of it
\* on the way back.
LEMMA HandlerOnWay ==
  ASSUME FedTyped, WayInv, NEW h \in handlers, HandlerNext(h) \/ IngressFails(h)
  PROVE  WayInv'
<1> USE DEF WayInv, QueuesOnWay, WireOnWay, HandlersOnWay
<1>0. /\ h \in Handler /\ h.side \in Sides /\ h.record \in Rec /\ LinksTyped
      /\ (IsAsk(h.record) => OnWay(h.record, Back(h.side)))
  BY DEF FedTyped, HandlersTyped, Handler
<1>1. ASSUME Acks(h)
      PROVE  WireOnWay' /\ HandlersOnWay'
  BY <1>1, AcksEffect
<1>2. ASSUME NEW code \in Codes \ {"none"}, ~IsReceipt(h.record),
             queue' = Enqueue(queue, h.side, ReceiptFor(h, code))
      PROVE  QueuesOnWay'
  <2> DEFINE r == ReceiptFor(h, code)
  <2>1. r \in Rec /\ r.id = h.record.id /\ (IsAsk(h.record) => Waiting(r, h.side))
    BY <1>0, <1>2, ReceiptKeepsWay
  <2>2. queue' = Enqueue(queue, h.side, r)
    BY <1>2
  <2> HIDE DEF r
  <2>3. \A q \in Sides : Held(q)' = IF q = h.side THEN Held(q) \union {r} ELSE Held(q)
    BY <1>0, <2>1, <2>2, EnqueueEffect
  <2> QED
    BY <2>1, <2>3 DEF IsAsk
<1>3. ASSUME IsFqn(h.record.to), NextSide(h) \in Sides,
             queue' = Enqueue(queue, NextSide(h), Forwarded(h))
      PROVE  QueuesOnWay'
  <2> DEFINE r == Forwarded(h)
             next == NextSide(h)
  <2>1. r \in Rec /\ r.id = h.record.id /\ (IsAsk(h.record) => Waiting(r, next))
    BY <1>0, <1>3, ForwardKeepsWay
  <2>2. queue' = Enqueue(queue, next, r) /\ next \in Sides
    BY <1>3
  <2> HIDE DEF r, next
  <2>3. \A q \in Sides : Held(q)' = IF q = next THEN Held(q) \union {r} ELSE Held(q)
    BY <1>0, <2>1, <2>2, EnqueueEffect
  <2> QED
    BY <2>1, <2>3 DEF IsAsk
<1>4. ASSUME UNCHANGED queue PROVE QueuesOnWay'
  BY <1>4 DEF Held
<1>5. CASE Refuse(h)
  <2>1. Verdict(h) \in Codes \ {"none"} /\ ~IsReceipt(h.record)
    BY <1>0, <1>5, GateTypes DEF Refuse, AtGate
  <2> QED
    BY <1>1, <1>2, <1>5, <2>1 DEF Refuse
<1>6. CASE Transit(h)
  <2>1. IsFqn(h.record.to) /\ NextSide(h) \in Sides
    BY <1>6 DEF Transit, Verdict, Onward
  <2> QED
    BY <1>1, <1>3, <1>6, <2>1 DEF Transit
<1>7. CASE Deliver(h)
  <2>1. /\ handlers' = (handlers \ {h}) \union {[h EXCEPT !.delivered = TRUE]}
        /\ UNCHANGED <<queue, frames>>
    BY <1>7 DEF Deliver, linkVars
  <2> DEFINE new == [h EXCEPT !.delivered = TRUE]
  <2>2. new.side = h.side /\ new.record = h.record /\ ~IsReceipt(new.record)
    BY <1>0, <1>7 DEF Handler, Deliver, AtGate
  <2> HIDE DEF new
  <2>3. handlers' = (handlers \ {h}) \union {new}
    BY <2>1 DEF new
  <2>4. HandlersOnWay'
    BY <1>0, <2>2, <2>3
  <2> QED
    BY <1>4, <2>1, <2>4 DEF OnWire
<1>8. CASE ReceiptQueued(h)
  <2>1. ~IsReceipt(h.record)
    BY <1>8 DEF ReceiptQueued
  <2> QED
    BY <1>1, <1>2, <1>8, <2>1 DEF ReceiptQueued, Codes
<1>9. CASE ReceiptTransit(h)
  BY <1>1, <1>3, <1>4, <1>9 DEF ReceiptTransit
<1>10. CASE ReceiptComesHome(h)
  BY <1>1, <1>4, <1>10 DEF ReceiptComesHome
<1>11. CASE IngressFails(h)
  <2>1. handlers' \subseteq handlers /\ UNCHANGED <<queue, frames>>
    BY <1>11 DEF IngressFails, linkVars
  <2> QED
    BY <1>4, <2>1 DEF OnWire
<1> QED
  BY <1>5, <1>6, <1>7, <1>8, <1>9, <1>10, <1>11 DEF HandlerNext

\* A crash loses handlers and frames, and no record is anywhere new.
LEMMA CrashOnWay ==
  ASSUME FedTyped, WayInv, NEW s \in Servers, Crash(s)
  PROVE  WayInv'
<1>1. handlers' \subseteq handlers /\ UNCHANGED queue
  BY DEF Crash
<1>2. Range(<<>>) = {}
  BY DEF Range
<1>3. \A q \in Sides : frames'[q] = frames[q] \/ frames'[q] = <<>>
  BY DEF Crash
<1>4. \A q \in Sides : OnWire(q)' \subseteq OnWire(q)
  BY <1>2, <1>3 DEF OnWire
<1> QED
  BY <1>1, <1>4 DEF WayInv, QueuesOnWay, WireOnWay, HandlersOnWay, Held

\* No step of a link, a handler, an actor or a fault puts a record where its
\* name does not lead.
LEMMA WayStep ==
  ASSUME FedTyped, WayInv, [Next]_vars
  PROVE  WayInv'
<1>1. CASE \E p \in Sides : EgressNext(p) \/ SocketNext(p)
  BY <1>1, LinkOnWay
<1>2. CASE \E h \in handlers : HandlerNext(h) \/ IngressFails(h)
  BY <1>2, HandlerOnWay
<1>3. CASE AgentNext
  <2>1. ASSUME \E r \in Pausable : GateTurns(r) PROVE WayInv'
    <3>1. UNCHANGED <<queue, frames, handlers>>
      BY <2>1 DEF GateTurns, linkVars
    <3> QED
      BY <3>1 DEF WayInv, QueuesOnWay, WireOnWay, HandlersOnWay, Held, OnWire
  <2> QED
    BY <1>3, <2>1, SendOnWay, AnswerOnWay DEF AgentNext
<1>4. CASE \E s \in Servers : Crash(s)
  BY <1>4, CrashOnWay
<1>5. CASE UNCHANGED vars
  BY <1>5 DEF vars, linkVars, WayInv, QueuesOnWay, WireOnWay, HandlersOnWay, Held, OnWire
<1> QED
  BY <1>1, <1>2, <1>3, <1>4, <1>5 DEF Next

\* At the start there is no record anywhere.
LEMMA WayInit ==
  ASSUME Init
  PROVE  WayInv
<1>1. Range(<<>>) = {}
  BY DEF Range
<1>2. \A p \in Sides : Held(p) = {} /\ OnWire(p) = {}
  BY <1>1 DEF Init, Held, OnWire
<1> QED
  BY <1>2 DEF Init, WayInv, QueuesOnWay, WireOnWay, HandlersOnWay

-----------------------------------------------------------------------------
(* Names lead back, and only answers come in. *)

\* Whose actor's name is at the same time the export name of another one there.
Aliased(a) == \E n \in DOMAIN ExportedAs : ExportedAs[n] = a /\ Home[n] = Home[a]

\* The transport log knows an ask only of the actor that wrote it, or of one that
\* may be written to anyway.
JournalAsks == \A e \in journal : e[3][2] = "ask" =>
  \/ Sender(e[3][1]) = e[1]
  \/ e[1] \in DOMAIN ExportedAs
  \/ Aliased(e[1])
NameInv ==
  /\ JournalAsks
  /\ NamesLeadBack

\* What a handler delivers is addressed to an exported actor, or answers what its
\* recipient wrote.
LEMMA DeliveryAllowed ==
  ASSUME FedTyped, WayInv, JournalAsks, NEW h \in handlers, Deliver(h), NEW r \in Recipients(h)
  PROVE  \/ r \in DOMAIN ExportedAs
         \/ h.record.id[2] = "answer" /\ Wrote(r, ReplyTo(h.record.id))
<1> DEFINE s == h.side[1]
           name == h.record.to[1]
           id == h.record.id
<1>1. h \in Handler
  BY DEF FedTyped, HandlersTyped
<1>2. CASE ExportedToLocal(s, name) # {}
  BY <1>2 DEF Recipients, ExportedToLocal
<1>3. CASE ExportedToLocal(s, name) = {}
  <2>1. /\ r = name /\ QueueKeyOf(s, name)
        /\ HasCorrelation(r, Stamped(h), ReplyTo(id))
    BY <1>3 DEF Recipients
  <2>2. id[2] = "answer" /\ ReplyTo(id) = <<id[1], "ask">>
        /\ <<r, Stamped(h), ReplyTo(id)>> \in journal
    BY <2>1 DEF HasCorrelation, ReplyTo
  <2>3. \/ Sender(id[1]) = r
        \/ r \in DOMAIN ExportedAs
        \/ Aliased(r)
    BY <2>2 DEF JournalAsks
  <2>4. ~Aliased(r)
    BY <1>3, <2>1 DEF Aliased, ExportedToLocal, QueueKeyOf
  <2>5. Sender(id[1]) = r => Wrote(r, ReplyTo(id))
    BY <2>2 DEF Wrote, Sender
  <2> QED
    BY <2>2, <2>3, <2>4, <2>5
<1> QED
  BY <1>2, <1>3

\* The delivery keeps both halves of NamesLeadBack, and what the log knows.
LEMMA DeliverNames ==
  ASSUME FedTyped, WayInv, NameInv, NEW h \in handlers, Deliver(h)
  PROVE  NameInv'
<1> DEFINE mail == [id |-> h.record.id, from |-> Stamped(h)]
<1>1. PICK r \in Recipients(h) :
        /\ inbox' = [inbox EXCEPT ![r] = @ \union {mail}]
        /\ journal' = journal \union {<<r, Stamped(h), h.record.id>>}
  BY DEF Deliver, Journaled
<1>2. h \in Handler /\ r \in Actors /\ h.record.id \in Ids
  BY GateTypes, HandlerFields, RecFields DEF FedTyped, HandlersTyped
<1>3. /\ \/ r \in DOMAIN ExportedAs
         \/ h.record.id[2] = "answer" /\ Wrote(r, ReplyTo(h.record.id))
      /\ ~IsReceipt(h.record) /\ ~IsFqn(h.record.to)
  BY DeliveryAllowed DEF NameInv, Deliver, AtGate
<1>4. inbox \in [Actors -> SUBSET Mail] /\ mail.id = h.record.id /\ mail.from = Stamped(h)
  BY DEF FedTyped, ActorsTyped
<1>5. ReturnPath'
  <2>1. ASSUME mail.id[2] = "ask"
        PROVE  mail.from = WireName(<<Plan[mail.id[1]].from>>) \o
                 Front(Visited(Home[Plan[mail.id[1]].from], Plan[mail.id[1]].to))
    <3>1. IsAsk(h.record) /\ OnWay(h.record, Back(h.side)) /\ mail.id[1] \in Messages
      BY <1>2, <1>4, <2>1 DEF IsAsk, WayInv, HandlersOnWay, Ids
    <3> QED
      BY <1>2, <1>3, <1>4, <3>1, DeliveredWay, TrailLeadsBack
  <2> HIDE DEF mail
  <2>2. \A a \in Actors : \A e \in inbox'[a] : e \in inbox[a] \/ e = mail
    BY <1>1, <1>4
  <2> QED
    BY <2>1, <2>2 DEF NameInv, NamesLeadBack, ReturnPath
<1> HIDE DEF mail
<1>6. \A a \in Actors : \A e \in inbox'[a] : e \in inbox[a] \/ (a = r /\ e = mail)
  BY <1>1, <1>4
<1>7. \A a \in Actors, m \in Messages : Wrote(a, <<m, "ask">>)' = Wrote(a, <<m, "ask">>)
  BY DEF Wrote
<1>8. \A id \in Ids : id[2] = "answer" => ReplyTo(id) = <<id[1], "ask">> /\ id[1] \in Messages
  BY DEF ReplyTo, Ids
<1>9. OnlyAnswers'
  <2> SUFFICES ASSUME NEW a \in Actors \ DOMAIN ExportedAs, NEW e \in inbox'[a]
               PROVE  e.id[2] = "answer" /\ Wrote(a, ReplyTo(e.id))'
    BY DEF OnlyAnswers
  <2>1. e.id \in Ids /\ e.id[2] = "answer" /\ Wrote(a, ReplyTo(e.id))
    <3>1. CASE e \in inbox[a]
      <4>1. e \in Mail
        BY <1>4, <3>1
      <4> QED
        BY <3>1, <4>1 DEF NameInv, NamesLeadBack, OnlyAnswers, Mail
    <3>2. CASE a = r /\ e = mail
      BY <1>2, <1>3, <1>4, <3>2
    <3> QED
      BY <1>6, <3>1, <3>2
  <2> QED
    BY <1>7, <1>8, <2>1
<1>10. JournalAsks'
  <2>1. \A e \in journal' : e \in journal \/ e = <<r, Stamped(h), h.record.id>>
    BY <1>1
  <2>2. h.record.id[2] = "ask" => r \in DOMAIN ExportedAs
    BY <1>3
  <2> QED
    BY <2>1, <2>2 DEF NameInv, JournalAsks
<1> QED
  BY <1>5, <1>9, <1>10 DEF NameInv, NamesLeadBack

\* Where nothing is delivered, names lead back as before.
LEMMA NamesKept ==
  ASSUME NamesLeadBack, UNCHANGED inbox
  PROVE  NamesLeadBack'
  BY DEF NamesLeadBack, ReturnPath, OnlyAnswers, Wrote, ReplyTo

\* A receipt comes home to the actor that wrote, or to the name it is exported as.
LEMMA ReceiptNames ==
  ASSUME FedTyped, WayInv, NameInv, NEW h \in handlers, ReceiptComesHome(h)
  PROVE  NameInv'
<1> DEFINE name == h.record.to[1]
           e == <<name, Stamped(h), h.record.id>>
<1>1. /\ h \in Handler /\ IsReceipt(h.record) /\ ~IsFqn(h.record.to) /\ UNCHANGED inbox
      /\ \/ QueueKeyOf(h.side[1], name) /\ journal' = journal \union {e}
         \/ UNCHANGED journal
  BY DEF ReceiptComesHome, Journaled, FedTyped, HandlersTyped
<1>2. NamesLeadBack'
  BY <1>1, NamesKept DEF NameInv
<1>3. ASSUME QueueKeyOf(h.side[1], name), IsAsk(h.record)
      PROVE  Sender(h.record.id[1]) = name \/ Aliased(name)
  <2> DEFINE m == h.record.id[1]
  <2>1. /\ <<name>> = WireName(<<Sender(m)>>) /\ h.side[1] = Home[Sender(m)]
    BY <1>1, <1>3, ReceiptHome DEF WayInv, HandlersOnWay
  <2>2. Home[name] = Home[Sender(m)]
    BY <1>3, <2>1 DEF QueueKeyOf
  <2>3. ~IsFqn(<<Sender(m)>>) /\ <<Sender(m)>>[1] = Sender(m)
    BY DEF IsFqn
  <2>4. CASE Sender(m) \in DOMAIN ExportedAs
    <3>1. <<name>> = <<ExportedAs[Sender(m)]>>
      BY <2>1, <2>3, <2>4 DEF WireName
    <3> QED
      BY <2>2, <2>4, <3>1 DEF Aliased
  <2>5. CASE Sender(m) \notin DOMAIN ExportedAs
    <3>1. <<name>> = <<Sender(m)>>
      BY <2>1, <2>3, <2>5 DEF WireName
    <3> QED
      BY <3>1
  <2> QED
    BY <2>4, <2>5
<1>4. JournalAsks'
  <2>1. CASE UNCHANGED journal
    BY <2>1 DEF NameInv, JournalAsks
  <2>2. CASE QueueKeyOf(h.side[1], name) /\ journal' = journal \union {e}
    <3>1. e[1] = name /\ e[3] = h.record.id
      OBVIOUS
    <3> HIDE DEF name, e
    <3>2. e[3][2] = "ask" => Sender(e[3][1]) = e[1] \/ Aliased(e[1])
      BY <1>3, <2>2, <3>1 DEF IsAsk
    <3> QED
      BY <2>2, <3>2 DEF NameInv, JournalAsks
  <2> QED
    BY <1>1, <2>1, <2>2
<1> QED
  BY <1>2, <1>4 DEF NameInv

\* The producers log an ask under the name of who wrote it.
LEMMA AgentNames ==
  ASSUME FedTyped, NameInv, AgentNext
  PROVE  NameInv'
<1>1. ASSUME NEW m \in Messages, Send(m) PROVE NameInv'
  <2>1. /\ journal' = journal \union {<<Plan[m].from, Plan[m].to, <<m, "ask">>>>}
        /\ UNCHANGED inbox
    BY <1>1 DEF Send, RouteEgress, Journaled, actorVars
  <2>2. JournalAsks'
    BY <2>1 DEF NameInv, JournalAsks, Sender
  <2> QED
    BY <2>1, <2>2, NamesKept DEF NameInv
<1>2. ASSUME NEW r \in Actors, NEW mail \in inbox[r], Answer(r, mail) PROVE NameInv'
  <2>1. /\ journal' = journal \union {<<r, mail.from, <<mail.id[1], "answer">>>>}
        /\ UNCHANGED inbox
    BY <1>2 DEF Answer, RouteEgress, Journaled, actorVars
  <2>2. JournalAsks'
    BY <2>1 DEF NameInv, JournalAsks
  <2> QED
    BY <2>1, <2>2, NamesKept DEF NameInv
<1>3. ASSUME NEW r \in Pausable, GateTurns(r) PROVE NameInv'
  <2>1. UNCHANGED <<inbox, journal>>
    BY <1>3 DEF GateTurns
  <2> QED
    BY <2>1, NamesKept DEF NameInv, JournalAsks
<1> QED
  BY <1>1, <1>2, <1>3 DEF AgentNext

\* Every step keeps the names.
LEMMA NameStep ==
  ASSUME FedTyped, WayInv, NameInv, [Next]_vars
  PROVE  NameInv'
<1>1. ASSUME UNCHANGED <<inbox, journal>> PROVE NameInv'
  BY <1>1, NamesKept DEF NameInv, JournalAsks
<1>2. CASE \E p \in Sides : EgressNext(p) \/ SocketNext(p)
  <2>1. UNCHANGED <<inbox, journal>>
    BY <1>2 DEF EgressNext, SocketNext, Dequeue, Push, AckTimeout, Connect, Close, StaleClose,
                Acknowledged, Received, actorVars
  <2> QED
    BY <1>1, <2>1
<1>3. ASSUME NEW h \in handlers, HandlerNext(h) \/ IngressFails(h) PROVE NameInv'
  <2>1. Deliver(h) \/ ReceiptComesHome(h) \/ UNCHANGED <<inbox, journal>>
    BY <1>3 DEF HandlerNext, Refuse, Transit, ReceiptQueued, ReceiptTransit, IngressFails, actorVars
  <2> QED
    BY <1>1, <2>1, DeliverNames, ReceiptNames
<1>4. CASE AgentNext
  BY <1>4, AgentNames
<1>5. CASE \E s \in Servers : Crash(s)
  BY <1>1, <1>5 DEF Crash, actorVars
<1>6. CASE UNCHANGED vars
  BY <1>1, <1>6 DEF vars, actorVars
<1> QED
  BY <1>2, <1>3, <1>4, <1>5, <1>6 DEF Next

\* Every reachable state of the federation is well typed (router/federation,
\* federation-manager), for any topology and any plan.
THEOREM FederationTyped == Spec => []FedTyped
<1>1. Init => FedTyped
  BY TypedInit
<1>2. FedTyped /\ [Next]_vars => FedTyped'
  BY TypedStep
<1> QED
  BY <1>1, <1>2, PTL DEF Spec

\* No hop, repetition, crash or receipt takes a record off the way that the name it
\* was sent to describes (router, federated egress and ingress; wireName, stamping).
THEOREM RecordsKeepTheirWay == Spec => []WayInv
<1>1. Init => WayInv
  BY WayInit
<1>2. FedTyped /\ WayInv /\ [Next]_vars => WayInv'
  BY WayStep
<1> QED
  BY <1>1, <1>2, FederationTyped, PTL DEF Spec

\* What is received can be answered, and an actor that is not exported receives only
\* answers to what it wrote (router: "reachable only through reply-correlation").
THEOREM NamesAreAddresses == Spec => []NamesLeadBack
<1>1. Init => NameInv
  BY DEF Init, NameInv, JournalAsks, NamesLeadBack, ReturnPath, OnlyAnswers
<1>2. FedTyped /\ WayInv /\ NameInv /\ [Next]_vars => NameInv'
  BY NameStep
<1>3. NameInv => NamesLeadBack
  BY DEF NameInv
<1> QED
  BY <1>1, <1>2, <1>3, FederationTyped, RecordsKeepTheirWay, PTL DEF Spec

-----------------------------------------------------------------------------
(* Nothing is lost silently: every envelope that was accepted is on a stage of its journey, *)
(* or its journey is over. *)

\* The servers on the way of an envelope, from its writer's on: an answer goes the way
\* of its message back.
Stops(id) == Hops(id[1])
Stop(id, k) == IF id[2] = "ask" THEN Way(id[1])[k] ELSE Way(id[1])[Stops(id) + 1 - k]
Hop(id, k) == <<Stop(id, k), Stop(id, k + 1)>>
Writes(w, id) == w \in Actors /\ Wrote(w, id) /\ Home[w] = Stop(id, 1)

\* A message in the queue or on the wire of p: the part of its name that is left leads on,
\* the part that it has gathered leads back, and it has counted its hops.
Outward(r, p) ==
  LET n == Stops(r.id)
      k == n - Len(r.to)
  IN  /\ k \in 1..n - 1 /\ p = Hop(r.id, k)
      /\ \A i \in 2..Len(r.to) : r.to[i] = Stop(r.id, n + 2 - i)
      /\ Len(r.from) = k /\ Writes(r.from[1], r.id)
      /\ \A i \in 2..k : r.from[i] = Stop(r.id, i - 1)
      /\ \A i \in 1..k : Hop(r.id, i) \in Sides
      /\ r.hops = k - 1 /\ r.hops <= HopCap

\* A receipt: it is on its way to who wrote, and will not meet the hop cap.
Homeward(r, p) ==
  LET j == Len(r.to)
  IN  /\ j \in 1..Stops(r.id) - 1 /\ p = Back(Hop(r.id, j))
      /\ Writes(r.to[1], r.id)
      /\ \A i \in 2..j : r.to[i] = Stop(r.id, i - 1)
      /\ \A i \in 1..j : Hop(r.id, i) \in Sides
      /\ r.hops + j <= HopCap + 1
      /\ r.code = "ok" => Delivered(r.id)

Placed(r, p) == IF IsReceipt(r) THEN Homeward(r, p) ELSE Outward(r, p)
MailPlaced(a, mail) ==
  LET n == Stops(mail.id)
  IN  /\ Len(mail.from) = n /\ Home[a] = Stop(mail.id, n)
      /\ \A i \in 2..n : mail.from[i] = Stop(mail.id, i - 1)

HandlerPlaced(h) ==
  /\ Placed(h.record, Back(h.side))
  /\ h.delivered => ~IsReceipt(h.record) /\ Delivered(h.record.id)

PlaceInv ==
  /\ \A p \in Sides : \A r \in Held(p) : Placed(r, p)
  /\ \A p \in Sides : \A f \in OnWire(p) : f.type = "record" => Placed(f.record, p)
  /\ \A h \in handlers : HandlerPlaced(h)
  /\ \A a \in Actors : \A mail \in inbox[a] : MailPlaced(a, mail)

\* An egress waits for one record.
SlotInv == \A p \in Sides :
  Len(queue[p].cur) <= 1 /\ (push[p].waits => queue[p].cur # <<>>)

\* The stage s of its journey that takes an envelope, or a receipt of it, through the
\* queue of p: out over each hop, then back over each.
At(p, ref, s) ==
  LET n == Stops(ref[1])
  IN  IF ref[2] THEN s \in n..2 * n - 2 /\ p = Back(Hop(ref[1], 2 * n - 1 - s))
      ELSE s \in 1..n - 1 /\ p = Hop(ref[1], s)

\* What some queue still has to send.
Fresh(p, ref) == ref \notin queue[p].done /\ \E r \in Held(p) : FileId(r) = ref
Over(id) == Delivered(id) \/ Told(id)
Past(id, s) == Over(id) \/ \E p \in Sides, back \in BOOLEAN : \E t \in Nat :
  t > s /\ At(p, <<id, back>>, t) /\ Fresh(p, <<id, back>>)

\* What a queue has sent off, or is being told to have: it is further on its way.
SentOff(p, ref) == ref \in queue[p].done \/ [type |-> "ack", ref |-> ref] \in OnWire(Back(p))
Further(p, ref) == \A s \in Nat : At(p, ref, s) => Past(ref[1], s)
SentInv == \A p \in Sides : \A ref \in Refs : SentOff(p, ref) => Further(p, ref)
UnderWay == \A id \in accepted : Past(id, 0)
LossInv == SlotInv /\ SentInv /\ UnderWay

\* With exports under their own names, a sender crosses under its own.
LEMMA OwnWireName ==
  ASSUME OwnNames, NEW name \in NameSeq
  PROVE  WireName(name) = name
<1>1. CASE ~IsFqn(name) /\ name[1] \in DOMAIN ExportedAs
  <2>1. name \in Seq(Names) /\ Len(name) = 1
    BY <1>1 DEF NameSeq, IsFqn
  <2>2. name = <<name[1]>>
    BY <2>1
  <2> QED
    BY <1>1, <2>2 DEF WireName, OwnNames
<1>2. CASE ~(~IsFqn(name) /\ name[1] \in DOMAIN ExportedAs)
  BY <1>2 DEF WireName
<1> QED
  BY <1>1, <1>2

\* The way of an answer is that of its message, from its end.
LEMMA StopFacts ==
  ASSUME NEW id \in Ids
  PROVE  /\ id[1] \in Messages /\ Stops(id) \in Nat /\ Stops(id) > 1
         /\ id[2] = "ask" \/ id[2] = "answer"
         /\ id = <<id[1], id[2]>>
         /\ \A b : Stops(<<id[1], b>>) = Stops(id)
         /\ \A k : Stop(<<id[1], "answer">>, k) = Stop(<<id[1], "ask">>, Stops(id) + 1 - k)
<1>1. id[1] \in Messages /\ id[2] \in {"ask", "answer"} /\ id = <<id[1], id[2]>>
  BY DEF Ids
<1>2. Hops(id[1]) \in Nat /\ Hops(id[1]) > 1
  BY <1>1, TrailTypes
<1> QED
  BY <1>1, <1>2 DEF Stops, Stop

\* A hop is taken once.
LEMMA HopOnce ==
  ASSUME NoLinkTwice, NEW id \in Ids, NEW j \in 1..Stops(id) - 1, NEW k \in 1..Stops(id) - 1,
         Hop(id, j) = Hop(id, k)
  PROVE  j = k
<1> DEFINE way == Way(id[1])
           n == Stops(id)
<1>1. n \in Nat /\ Len(way) = n
  BY StopFacts, WayIs DEF Stops
<1>2. Stop(id, j) = Stop(id, k) /\ Stop(id, j + 1) = Stop(id, k + 1)
  BY DEF Hop
<1>3. \A i, l \in 1..n - 1 : way[i] = way[l] /\ way[i + 1] = way[l + 1] => i = l
  BY <1>1, StopFacts DEF NoLinkTwice
<1>4. CASE id[2] = "ask"
  <2>1. way[j] = way[k] /\ way[j + 1] = way[k + 1]
    BY <1>2, <1>4 DEF Stop
  <2> QED
    BY <1>3, <2>1
<1>5. CASE id[2] # "ask"
  <2> DEFINE i == n - j
             l == n - k
  <2>1. i \in 1..n - 1 /\ l \in 1..n - 1
    BY <1>1
  <2>2. /\ n + 1 - j = i + 1 /\ n + 1 - k = l + 1
        /\ n + 1 - (j + 1) = i /\ n + 1 - (k + 1) = l
    BY <1>1
  <2>3. way[i] = way[l] /\ way[i + 1] = way[l + 1]
    BY <1>2, <1>5, <2>2 DEF Stop
  <2>4. i = l
    BY <1>3, <2>1, <2>3
  <2> QED
    BY <1>1, <2>4
<1> QED
  BY <1>4, <1>5

\* A queue has an envelope, or a receipt, at one stage.
LEMMA OneStage ==
  ASSUME NoLinkTwice, NEW p \in Sides, NEW ref \in Refs, NEW s \in Nat, NEW t \in Nat,
         At(p, ref, s), At(p, ref, t)
  PROVE  s = t
<1> DEFINE n == Stops(ref[1])
<1>1. ref[1] \in Ids /\ n \in Nat
  BY StopFacts DEF Refs
<1>2. CASE ref[2]
  <2> DEFINE i == 2 * n - 1 - s
             j == 2 * n - 1 - t
  <2>1. /\ s \in n..2 * n - 2 /\ t \in n..2 * n - 2
        /\ p = Back(Hop(ref[1], i)) /\ p = Back(Hop(ref[1], j))
    BY <1>2 DEF At
  <2>2. i \in 1..n - 1 /\ j \in 1..n - 1
    BY <1>1, <2>1
  <2>3. Hop(ref[1], i) = Hop(ref[1], j)
    BY <2>1 DEF Hop, Back
  <2>4. i = j
    BY <1>1, <2>2, <2>3, HopOnce
  <2> QED
    BY <1>1, <2>1, <2>4
<1>3. CASE ~ref[2]
  <2>1. s \in 1..n - 1 /\ t \in 1..n - 1 /\ Hop(ref[1], s) = Hop(ref[1], t)
    BY <1>3 DEF At
  <2> QED
    BY <1>1, <2>1, HopOnce
<1> QED
  BY <1>2, <1>3

\* Where a placed record is on its journey.
LEMMA StageOf ==
  ASSUME NEW r \in Rec, NEW p, Placed(r, p)
  PROVE  /\ ~IsReceipt(r) => At(p, <<r.id, FALSE>>, Stops(r.id) - Len(r.to))
         /\ IsReceipt(r) => At(p, <<r.id, TRUE>>, 2 * Stops(r.id) - 1 - Len(r.to))
         /\ FileId(r) = <<r.id, IsReceipt(r)>> /\ FileId(r) \in Refs
<1>1. r.id \in Ids /\ Len(r.to) \in Nat /\ Stops(r.id) \in Nat /\ Stops(r.id) > 1
  BY RecFields, StopFacts
<1>2. ASSUME ~IsReceipt(r) PROVE At(p, <<r.id, FALSE>>, Stops(r.id) - Len(r.to))
  BY <1>2 DEF Placed, Outward, At
<1>3. ASSUME IsReceipt(r) PROVE At(p, <<r.id, TRUE>>, 2 * Stops(r.id) - 1 - Len(r.to))
  <2> DEFINE n == Stops(r.id)
             j == Len(r.to)
             s == 2 * n - 1 - j
  <2>1. j \in 1..n - 1 /\ p = Back(Hop(r.id, j))
    BY <1>3 DEF Placed, Homeward
  <2>2. s \in n..2 * n - 2 /\ 2 * n - 1 - s = j
    BY <1>1, <2>1
  <2> QED
    BY <2>1, <2>2 DEF At
<1> QED
  BY <1>1, <1>2, <1>3 DEF FileId, IsReceipt, Refs

\* Nothing received is taken back, and no notice.
Grows == /\ \A a \in Actors : inbox[a] \subseteq inbox'[a]
         /\ notices \subseteq notices'

\* ... whichever step is taken.
LEMMA InboxGrows ==
  ASSUME FedTyped, [Next]_vars
  PROVE  Grows
<1>0. DOMAIN inbox = Actors
  BY DEF FedTyped, ActorsTyped
<1>1. ASSUME NEW p \in Sides, EgressNext(p) \/ SocketNext(p)
      PROVE  UNCHANGED <<inbox, notices>>
  BY <1>1 DEF EgressNext, SocketNext, Dequeue, Push, AckTimeout, Connect, Close, StaleClose, Acknowledged,
     Received, actorVars
<1>2. ASSUME NEW h \in handlers, HandlerNext(h) \/ IngressFails(h), ~Deliver(h)
      PROVE  UNCHANGED inbox /\ notices \subseteq notices'
  BY <1>2 DEF HandlerNext, IngressFails, Refuse, Transit, ReceiptQueued, ReceiptTransit, ReceiptComesHome, actorVars
<1>3. ASSUME NEW h \in handlers, Deliver(h)
      PROVE  Grows
  <2>1. UNCHANGED notices
    BY <1>3 DEF Deliver
  <2>2. PICK r \in Recipients(h) :
          inbox' = [inbox EXCEPT ![r] = @ \union {[id |-> h.record.id, from |-> Stamped(h)]}]
    BY <1>3 DEF Deliver
  <2>3. \A a \in Actors : inbox[a] \subseteq inbox'[a]
    BY <1>0, <2>2
  <2> QED
    BY <2>1, <2>3 DEF Grows
<1>4. ASSUME AgentNext PROVE UNCHANGED <<inbox, notices>>
  BY <1>4 DEF AgentNext, Send, Answer, RouteEgress, GateTurns, actorVars
<1>5. ASSUME NEW s \in Servers, Crash(s) PROVE UNCHANGED <<inbox, notices>>
  BY <1>5 DEF Crash, actorVars
<1>6. ASSUME UNCHANGED vars PROVE UNCHANGED <<inbox, notices>>
  BY <1>6 DEF vars, actorVars
<1> QED
  BY <1>1, <1>2, <1>3, <1>4, <1>5, <1>6 DEF Next, Grows

\* So who wrote an envelope wrote it, what was delivered was, and what is over is over.
LEMMA OverStays ==
  ASSUME Grows, NEW id
  PROVE  /\ \A w \in Actors : Wrote(w, id) => Wrote(w, id)'
         /\ \A w : Writes(w, id) => Writes(w, id)'
         /\ Delivered(id) => Delivered(id)'
         /\ Over(id) => Over(id)'
<1>1. \A w \in Actors : Wrote(w, id) => Wrote(w, id)'
  BY DEF Wrote, Grows
<1>2. \A w : Writes(w, id) => Writes(w, id)'
  BY <1>1 DEF Writes, Stop, Stops, Hops, Way, Visited
<1>3. Delivered(id) => Delivered(id)'
  BY DEF Delivered, Grows
<1>4. Told(id) => Told(id)'
  BY <1>1 DEF Told, Grows
<1> QED
  BY <1>1, <1>2, <1>3, <1>4 DEF Over

\* ... and a placed record stays placed.
LEMMA PlacedStays ==
  ASSUME Grows, NEW r, NEW p, Placed(r, p)
  PROVE  Placed(r, p)'
<1>1. /\ \A w : Writes(w, r.id) => Writes(w, r.id)'
      /\ Delivered(r.id) => Delivered(r.id)'
  BY OverStays
<1>2. IsReceipt(r) => Homeward(r, p)'
  BY <1>1 DEF Placed, Homeward, Stops, Hops, Hop, Stop, Way, Visited
<1>3. ~IsReceipt(r) => Outward(r, p)'
  BY <1>1 DEF Placed, Outward, Stops, Hops, Hop, Stop, Way, Visited
<1> QED
  BY <1>2, <1>3 DEF Placed

\* What a step leaves placed: whatever is new is.
LEMMA PlaceKept ==
  ASSUME Grows, PlaceInv,
         \A p \in Sides : \A r \in Held(p)' : r \in Held(p) \/ Placed(r, p),
         \A p \in Sides : \A f \in OnWire(p)' :
           f.type = "record" => f \in OnWire(p) \/ Placed(f.record, p),
         \A h \in handlers' :
           \/ \E k \in handlers : SameWork(h, k)
           \/ Placed(h.record, Back(h.side)) /\ ~h.delivered
           \/ Placed(h.record, Back(h.side)) /\ ~IsReceipt(h.record) /\ Delivered(h.record.id)',
         \A a \in Actors : \A mail \in inbox'[a] : mail \in inbox[a] \/ MailPlaced(a, mail)
  PROVE  PlaceInv'
<1>1. \A p \in Sides : \A r \in Held(p)' : Placed(r, p)'
  <2>1. \A p \in Sides : \A r \in Held(p)' : Placed(r, p)
    BY DEF PlaceInv
  <2> QED
    BY <2>1, PlacedStays
<1>2. \A p \in Sides : \A f \in OnWire(p)' : f.type = "record" => Placed(f.record, p)'
  <2>1. \A p \in Sides : \A f \in OnWire(p)' : f.type = "record" => Placed(f.record, p)
    BY DEF PlaceInv
  <2> QED
    BY <2>1, PlacedStays
<1>3. ASSUME NEW h \in handlers' PROVE HandlerPlaced(h)'
  <2>1. /\ Placed(h.record, Back(h.side))
        /\ h.delivered => ~IsReceipt(h.record) /\ Delivered(h.record.id)'
    BY OverStays DEF PlaceInv, HandlerPlaced, SameWork
  <2>2. Placed(h.record, Back(h.side))'
    BY <2>1, PlacedStays
  <2> QED
    BY <2>1, <2>2 DEF HandlerPlaced, IsReceipt
<1>4. \A a \in Actors : \A mail \in inbox'[a] : MailPlaced(a, mail)'
  <2>1. \A a, mail : MailPlaced(a, mail) => MailPlaced(a, mail)'
    BY DEF MailPlaced, Stops, Hops, Stop, Way, Visited
  <2>2. \A a \in Actors : \A mail \in inbox'[a] : MailPlaced(a, mail)
    BY DEF PlaceInv
  <2> QED
    BY <2>1, <2>2
<1> QED
  BY <1>1, <1>2, <1>3, <1>4 DEF PlaceInv

\* A message starts over its first hop.
LEMMA AskPlaced ==
  ASSUME FedTyped, NEW m \in Messages, Send(m)
  PROVE  LET side == <<Home[Plan[m].from], Last(Plan[m].to)>>
             r == Record(<<m, "ask">>, "none", <<Plan[m].from>>, Front(Plan[m].to), 0)
         IN  r \in Rec /\ Placed(r, side) /\ At(side, <<r.id, FALSE>>, 1)
<1> DEFINE a == Plan[m].from
           t == Plan[m].to
           n == Hops(m)
           id == <<m, "ask">>
           side == <<Home[a], Last(t)>>
           r == Record(id, "none", <<a>>, Front(t), 0)
<1>1. side \in Sides /\ r \in Rec /\ a \in Actors /\ id \in Ids
  BY SendArguments, RouteTypes DEF Send, RouteEgress
<1>2. /\ r.id = id /\ r.from = <<a>> /\ r.to = Front(t) /\ r.code = "none" /\ r.hops = 0
      /\ Len(r.from) = 1 /\ r.from[1] = a
  BY DEF Record
<1>3. /\ t \in Seq(Names) /\ Len(t) = n /\ n \in Nat /\ n > 1
      /\ Trail(m)[2] = Home[a] /\ \A i \in 3..n + 1 : Trail(m)[i] = t[n + 3 - i]
      /\ Stops(id) = n
  BY TrailTypes DEF Hops, Sender, Stops
<1>4. \A k \in 1..n : Stop(id, k) = Trail(m)[k + 1]
  BY WayIs DEF Stop
<1> HIDE DEF r, t, id
<1>5. Front(t) = SubSeq(t, 1, n - 1) /\ Len(Front(t)) = n - 1 /\ Last(t) = t[n]
  BY <1>3, FrontTypes DEF Front, Last
<1>6. side = Hop(id, 1)
  <2>1. Stop(id, 1) = Trail(m)[2] /\ Stop(id, 2) = Trail(m)[3]
    <3>1. 1 \in 1..n /\ 2 \in 1..n /\ 1 + 1 = 2 /\ 2 + 1 = 3
      BY <1>3
    <3> QED
      BY <1>4, <3>1
  <2>2. 3 \in 3..n + 1 /\ n + 3 - 3 = n
    BY <1>3
  <2>3. Trail(m)[3] = t[n]
    BY <1>3, <2>2
  <2> QED
    BY <1>3, <1>5, <2>1, <2>3 DEF Hop
<1>7. \A i \in 2..n - 1 : r.to[i] = Stop(id, n + 2 - i)
  <2> SUFFICES ASSUME NEW i \in 2..n - 1 PROVE r.to[i] = Stop(id, n + 2 - i)
    OBVIOUS
  <2>1. n + 2 - i \in 1..n /\ (n + 2 - i) + 1 = n + 3 - i /\ n + 3 - i \in 3..n + 1 /\ n + 3 - (n + 3 - i) = i
    BY <1>3
  <2>2. Stop(id, n + 2 - i) = t[i]
    BY <1>3, <1>4, <2>1
  <2>3. r.to[i] = t[i]
    BY <1>2, <1>3, <1>5
  <2> QED
    BY <2>2, <2>3
<1>8. Writes(a, id)
  <2>1. Stop(id, 1) = Home[a]
    <3>1. 1 \in 1..n /\ 1 + 1 = 2
      BY <1>3
    <3>2. Stop(id, 1) = Trail(m)[2]
      BY <1>4, <3>1
    <3> QED
      BY <1>3, <3>2
  <2>2. Wrote(a, id)
    BY DEF Wrote, id
  <2> QED
    BY <1>1, <2>1, <2>2 DEF Writes
<1>9. Outward(r, side)
  <2>1. Len(r.to) = n - 1 /\ n - (n - 1) = 1 /\ 1 \in 1..n - 1
    BY <1>2, <1>3, <1>5
  <2>2. \A i \in 1..1 : Hop(id, i) \in Sides
    BY <1>1, <1>6
  <2>3. 0 <= HopCap
    BY HopCapAssumption
  <2> HIDE DEF side, n
  <2> QED
    BY <1>2, <1>3, <1>6, <1>7, <1>8, <2>1, <2>2, <2>3 DEF Outward
<1>10. Placed(r, side)
  BY <1>2, <1>9 DEF Placed, IsReceipt
<1>11. At(side, <<id, FALSE>>, 1)
  BY <1>3, <1>6 DEF At
<1> QED
  BY <1>1, <1>2, <1>10, <1>11 DEF r, id, t

\* An answer takes the way back that the name of who is answered describes.
LEMMA AnswerPlaced ==
  ASSUME FedTyped, PlaceInv, NEW a \in Actors, NEW mail \in inbox[a], Answer(a, mail)
  PROVE  LET side == <<Home[a], Last(mail.from)>>
             r == Record(<<mail.id[1], "answer">>, "none", <<a>>, Front(mail.from), 0)
         IN  r \in Rec /\ Placed(r, side) /\ At(side, <<r.id, FALSE>>, 1)
<1> DEFINE t == mail.from
           id == <<mail.id[1], "answer">>
           n == Stops(id)
           side == <<Home[a], Last(t)>>
           r == Record(id, "none", <<a>>, Front(t), 0)
<1>1. side \in Sides /\ r \in Rec /\ id \in Ids /\ t \in Seq(Names) /\ mail.id \in Ids
  BY AnswerArguments, RouteTypes DEF Answer, RouteEgress
<1>2. /\ r.id = id /\ r.from = <<a>> /\ r.to = Front(t) /\ r.code = "none" /\ r.hops = 0
      /\ Len(r.from) = 1 /\ r.from[1] = a
  BY DEF Record
<1>3. /\ n \in Nat /\ n > 1 /\ n = Stops(mail.id) /\ mail.id = <<mail.id[1], "ask">>
      /\ \A k \in Nat : Stop(id, k) = Stop(mail.id, n + 1 - k)
  <2>1. mail.id[2] = "ask"
    BY DEF Answer
  <2>2. mail.id = <<mail.id[1], "ask">> /\ Stops(id) = Stops(mail.id)
    BY <1>1, <2>1, StopFacts
  <2>3. \A k \in Nat : Stop(<<mail.id[1], "answer">>, k) = Stop(<<mail.id[1], "ask">>, Stops(mail.id) + 1 - k)
    BY <1>1, StopFacts
  <2> QED
    BY <1>1, <2>2, <2>3, StopFacts
<1>4. /\ Len(t) = n /\ Home[a] = Stop(mail.id, n)
      /\ \A i \in 2..n : t[i] = Stop(mail.id, i - 1)
  BY <1>3 DEF PlaceInv, MailPlaced
<1>w. Wrote(a, id)
  BY <1>3 DEF Wrote
<1> HIDE DEF r, t, id, n
<1>t. t \in Seq(Names) /\ Len(t) = n /\ Len(t) >= 1
  BY <1>1, <1>3, <1>4
<1>5. Front(t) = SubSeq(t, 1, n - 1) /\ Len(Front(t)) = n - 1 /\ Last(t) = t[n]
  <2>1. Front(t) = SubSeq(t, 1, Len(t) - 1) /\ Last(t) = t[Len(t)]
    BY DEF Front, Last
  <2>2. Len(Front(t)) = Len(t) - 1
    BY <1>t, FrontTypes
  <2> QED
    BY <1>t, <2>1, <2>2
<1>s. Stop(id, 1) = Home[a]
  <2>1. n + 1 - 1 = n
    BY <1>3
  <2> QED
    BY <1>3, <1>4, <2>1
<1>6. side = Hop(id, 1)
  <2>1. n + 1 - 2 = n - 1 /\ n \in 2..n
    BY <1>3
  <2>2. Stop(id, 2) = Stop(mail.id, n - 1)
    BY <1>3, <2>1
  <2>3. t[n] = Stop(mail.id, n - 1)
    BY <1>4, <2>1
  <2> QED
    BY <1>5, <1>s, <2>2, <2>3 DEF Hop
<1>7. \A i \in 2..n - 1 : r.to[i] = Stop(id, n + 2 - i)
  <2> SUFFICES ASSUME NEW i \in 2..n - 1 PROVE r.to[i] = Stop(id, n + 2 - i)
    OBVIOUS
  <2>1. n + 2 - i \in Nat /\ n + 1 - (n + 2 - i) = i - 1 /\ i \in 2..n
    BY <1>3
  <2>2. Stop(id, n + 2 - i) = t[i]
    BY <1>3, <1>4, <2>1
  <2>3. r.to[i] = t[i]
    BY <1>1, <1>2, <1>4, <1>5
  <2> QED
    BY <2>2, <2>3
<1>8. Writes(a, id)
  BY <1>w, <1>s DEF Writes
<1>9. Outward(r, side)
  <2>0. n - (n - 1) = 1 /\ 1 \in 1..n - 1
    BY <1>3
  <2>1. Len(r.to) = n - 1
    BY <1>2, <1>5
  <2>2. \A i \in 1..1 : Hop(id, i) \in Sides
    BY <1>1, <1>6
  <2>3. 0 <= HopCap
    BY HopCapAssumption
  <2>4. n = Stops(r.id)
    BY <1>2 DEF n
  <2> HIDE DEF side
  <2>5. /\ side = Hop(r.id, 1) /\ Writes(r.from[1], r.id) /\ r.hops = 1 - 1 /\ r.hops <= HopCap
        /\ \A i \in 1..1 : Hop(r.id, i) \in Sides
        /\ \A i \in 2..Len(r.to) : r.to[i] = Stop(r.id, n + 2 - i)
    BY <1>2, <1>6, <1>7, <1>8, <2>1, <2>2, <2>3
  <2> QED
    BY <1>2, <2>0, <2>1, <2>4, <2>5 DEF Outward
<1>10. Placed(r, side)
  BY <1>2, <1>9 DEF Placed, IsReceipt
<1>11. At(side, <<id, FALSE>>, 1)
  BY <1>3, <1>6 DEF At, n
<1> QED
  BY <1>1, <1>2, <1>10, <1>11 DEF r, id, t

\* The receipt of a message goes back over the hop that the message came over.
LEMMA ReceiptPlaced ==
  ASSUME NEW h \in Handler, NEW code \in Codes \ {"none"},
         ~IsReceipt(h.record), Placed(h.record, Back(h.side)),
         code = "ok" => Delivered(h.record.id)
  PROVE  LET r == ReceiptFor(h, code)
             k == Len(h.record.from)
         IN  /\ r \in Rec /\ IsReceipt(r) /\ r.id = h.record.id /\ Placed(r, h.side)
             /\ k \in 1..Stops(r.id) - 1
             /\ At(Back(h.side), FileId(h.record), k)
             /\ At(h.side, FileId(r), 2 * Stops(r.id) - 1 - k)
<1> DEFINE r == ReceiptFor(h, code)
           m == h.record
           n == Stops(m.id)
           k == Len(m.from)
<1>1. /\ r \in Rec /\ IsReceipt(r) /\ r.id = m.id /\ r.to = m.from /\ r.hops = 0 /\ r.code = code
  BY ReceiptKeepsWay DEF ReceiptFor, Record
<1>2. /\ m \in Rec /\ Back(Back(h.side)) = h.side
  BY HandlerFields
<1>3. /\ m.id \in Ids /\ Len(m.to) \in Nat /\ n \in Nat /\ n > 1
  BY <1>2, RecFields, StopFacts
<1>4. Outward(m, Back(h.side))
  BY DEF Placed
<1> HIDE DEF r, m
<1>5. /\ n - Len(m.to) = k /\ k \in 1..n - 1 /\ Back(h.side) = Hop(m.id, k)
      /\ Writes(m.from[1], m.id) /\ \A i \in 2..k : m.from[i] = Stop(m.id, i - 1)
      /\ \A i \in 1..k : Hop(m.id, i) \in Sides
      /\ k - 1 <= HopCap
  BY <1>4 DEF Outward
<1> HIDE DEF n, k
<1>6. 0 + k <= HopCap + 1 /\ 2 * n - 1 - k = 2 * n - 1 - k
  BY <1>3, <1>5, HopCapAssumption
<1>7. Homeward(r, h.side)
  <2>1. Len(r.to) = k /\ Stops(r.id) = n
    BY <1>1 DEF k, n
  <2>2. h.side = Back(Hop(r.id, k))
    BY <1>1, <1>2, <1>5
  <2>3. Writes(r.to[1], r.id) /\ \A i \in 2..k : r.to[i] = Stop(r.id, i - 1)
    BY <1>1, <1>5
  <2>4. (\A i \in 1..k : Hop(r.id, i) \in Sides) /\ r.hops + k <= HopCap + 1
    BY <1>1, <1>5, <1>6
  <2>5. r.code = "ok" => Delivered(r.id)
    BY <1>1 DEF m
  <2> QED
    BY <1>5, <2>1, <2>2, <2>3, <2>4, <2>5 DEF Homeward
<1>8. Placed(r, h.side)
  BY <1>1, <1>7 DEF Placed
<1>9. At(Back(h.side), FileId(m), k)
  <2>1. FileId(m) = <<m.id, FALSE>>
    BY DEF FileId, m, IsReceipt
  <2> QED
    BY <1>5, <2>1 DEF At, n
<1>10. At(h.side, FileId(r), 2 * n - 1 - k)
  <2>1. FileId(r) = <<r.id, TRUE>> /\ Len(r.to) = k /\ Stops(r.id) = n
    BY <1>1 DEF FileId, IsReceipt, k, n
  <2> QED
    BY <1>1, <1>8, <2>1, StageOf
<1> QED
  BY <1>1, <1>5, <1>8, <1>9, <1>10 DEF r, m, n, k

\* What is forwarded is placed in the next queue, one stage on.
LEMMA OutwardForwarded ==
  ASSUME NEW h \in Handler, ~IsReceipt(h.record), Placed(h.record, Back(h.side)),
         IsFqn(h.record.to), Verdict(h) = "ok"
  PROVE  LET r == Forwarded(h)
             k == Len(h.record.from)
         IN  /\ NextSide(h) \in Sides
             /\ r \in Rec /\ ~IsReceipt(r) /\ r.id = h.record.id /\ Placed(r, NextSide(h))
             /\ k \in Nat
             /\ At(Back(h.side), FileId(h.record), k)
             /\ At(NextSide(h), FileId(r), k + 1)
<1> DEFINE r == Forwarded(h)
           m == h.record
           n == Stops(m.id)
           k == Len(m.from)
           next == NextSide(h)
<1>0. next \in Sides /\ m.hops + 1 <= HopCap
  <2>1. ~(m.hops + 1 > HopCap) /\ Onward(next)
    BY DEF Verdict
  <2>2. m.hops \in Nat
    BY HandlerFields, RecFields
  <2> QED
    BY <2>1, <2>2, HopCapAssumption DEF Onward
<1>1. /\ r \in Rec /\ ~IsReceipt(r) /\ r.id = m.id /\ r.to = Front(m.to)
  BY ForwardKeepsWay DEF IsReceipt
<1>f. /\ r.from = Append(m.from, h.side[2]) /\ r.hops = m.hops + 1
  BY HandlerFields DEF Forwarded, Stamped, Rec
<1>2. /\ m \in Rec /\ Back(h.side) = <<h.side[2], h.side[1]>> /\ h.side[2] \in Names
  BY HandlerFields
<1>3. /\ m.id \in Ids /\ m.to \in Seq(Names) /\ Len(m.to) \in Nat /\ m.from \in Seq(Names) /\ n \in Nat /\ n > 1
      /\ Len(m.to) > 1 /\ m.hops \in Nat
  BY <1>2, RecFields, StopFacts DEF IsFqn
<1>4. Outward(m, Back(h.side))
  BY DEF Placed
<1>n. next = <<h.side[1], Last(m.to)>>
  BY DEF NextSide
<1> HIDE DEF r, m, next
<1>5. /\ n - Len(m.to) = k /\ k \in 1..n - 1 /\ Back(h.side) = Hop(m.id, k)
      /\ Writes(m.from[1], m.id) /\ \A i \in 2..k : m.from[i] = Stop(m.id, i - 1)
      /\ \A i \in 1..k : Hop(m.id, i) \in Sides
      /\ \A i \in 2..Len(m.to) : m.to[i] = Stop(m.id, n + 2 - i)
      /\ m.hops = k - 1
  BY <1>4 DEF Outward
<1> HIDE DEF n, k
<1>l. Len(m.to) = n - k /\ n - k > 1
  BY <1>3, <1>5
<1>a. n \in Nat /\ k \in Nat /\ k >= 1 /\ n - k > 1
  BY <1>3, <1>5, <1>l
<1>6. /\ Front(m.to) = SubSeq(m.to, 1, n - k - 1) /\ Len(Front(m.to)) = n - k - 1 /\ Last(m.to) = m.to[n - k]
  BY <1>3, <1>5, <1>l, FrontTypes DEF Front, Last
<1>7. next = Hop(m.id, k + 1)
  <2>1. h.side[1] = Stop(m.id, k + 1)
    BY <1>2, <1>5 DEF Hop
  <2>2. n - k \in 2..Len(m.to) /\ n + 2 - (n - k) = k + 2 /\ (k + 1) + 1 = k + 2
    <3>1. n - k \in 2..n - k /\ n + 2 - (n - k) = k + 2 /\ (k + 1) + 1 = k + 2
      BY <1>a
    <3> QED
      BY <1>l, <3>1
  <2>3. Last(m.to) = Stop(m.id, k + 2)
    BY <1>5, <1>6, <2>2
  <2> QED
    BY <1>n, <2>1, <2>2, <2>3 DEF Hop
<1>8. \A i \in 2..n - (k + 1) : r.to[i] = Stop(m.id, n + 2 - i)
  <2> SUFFICES ASSUME NEW i \in 2..n - (k + 1) PROVE r.to[i] = Stop(m.id, n + 2 - i)
    OBVIOUS
  <2>1. i \in 2..Len(m.to) /\ i \in 1..n - k - 1
    <3>1. i \in 2..n - k /\ i \in 1..n - k - 1
      BY <1>a
    <3> QED
      BY <1>l, <3>1
  <2>2. r.to[i] = m.to[i]
    BY <1>1, <1>3, <1>6, <1>l, <2>1
  <2> QED
    BY <1>5, <2>1, <2>2
<1>9. \A i \in 2..k + 1 : r.from[i] = Stop(m.id, i - 1)
  <2> SUFFICES ASSUME NEW i \in 2..k + 1 PROVE r.from[i] = Stop(m.id, i - 1)
    OBVIOUS
  <2>1. CASE i = k + 1
    <3>1. r.from[k + 1] = h.side[2]
      BY <1>2, <1>3, <1>f DEF k
    <3>2. h.side[2] = Stop(m.id, k) /\ (k + 1) - 1 = k
      BY <1>2, <1>5 DEF Hop
    <3> QED
      BY <2>1, <3>1, <3>2
  <2>2. CASE i # k + 1
    <3>1. i \in 2..k /\ i \in 1..k
      BY <1>5, <2>2
    <3>2. r.from[i] = m.from[i]
      BY <1>2, <1>3, <1>f, <3>1 DEF k
    <3> QED
      BY <1>5, <3>1, <3>2
  <2> QED
    BY <2>1, <2>2
<1>10. Outward(r, next)
  <2>1. Stops(r.id) = n /\ Len(r.to) = n - (k + 1) /\ n - (n - (k + 1)) = k + 1 /\ k + 1 \in 1..n - 1
    <3>1. n - k - 1 = n - (k + 1) /\ n - (n - (k + 1)) = k + 1 /\ k + 1 \in 1..n - 1
      BY <1>3, <1>5, <1>l
    <3>2. Stops(r.id) = n /\ Len(r.to) = n - k - 1
      BY <1>1, <1>6 DEF n
    <3> QED
      BY <3>1, <3>2
  <2>2. Len(r.from) = k + 1
    BY <1>2, <1>3, <1>f DEF k
  <2>3. r.from[1] = m.from[1]
    <3>1. 1 \in 1..k
      BY <1>5
    <3> QED
      BY <1>2, <1>3, <1>f, <3>1 DEF k
  <2>4. \A i \in 1..k + 1 : Hop(m.id, i) \in Sides
    <3>1. \A i \in 1..k + 1 : i = k + 1 \/ i \in 1..k
      BY <1>5
    <3> QED
      BY <1>0, <1>5, <1>7, <3>1
  <2>5. r.hops = (k + 1) - 1 /\ r.hops <= HopCap
    BY <1>0, <1>3, <1>5, <1>f
  <2>6. /\ next = Hop(r.id, k + 1) /\ Writes(r.from[1], r.id)
        /\ \A i \in 1..k + 1 : Hop(r.id, i) \in Sides
        /\ \A i \in 2..k + 1 : r.from[i] = Stop(r.id, i - 1)
        /\ \A i \in 2..Len(r.to) : r.to[i] = Stop(r.id, n + 2 - i)
    BY <1>1, <1>5, <1>7, <1>8, <1>9, <2>1, <2>3, <2>4
  <2> HIDE DEF next, r
  <2> QED
    BY <2>1, <2>2, <2>5, <2>6 DEF Outward
<1>11. Placed(r, next)
  BY <1>1, <1>10 DEF Placed
<1>12. At(Back(h.side), FileId(m), k)
  <2>1. FileId(m) = <<m.id, FALSE>>
    BY DEF FileId, m, IsReceipt
  <2> QED
    BY <1>5, <2>1 DEF At, n
<1>13. At(next, FileId(r), k + 1)
  <2>1. FileId(r) = <<m.id, FALSE>>
    BY <1>1 DEF FileId, IsReceipt
  <2>2. k + 1 \in 1..n - 1
    BY <1>a
  <2> QED
    BY <1>7, <2>1, <2>2 DEF At, n
<1> QED
  BY <1>0, <1>1, <1>5, <1>11, <1>12, <1>13 DEF r, m, n, k, next

\* A receipt that has further to go is never dropped.
LEMMA HomewardForwarded ==
  ASSUME NEW h \in Handler, IsReceipt(h.record), Placed(h.record, Back(h.side)),
         IsFqn(h.record.to)
  PROVE  LET r == Forwarded(h)
             s == 2 * Stops(r.id) - 1 - Len(h.record.to)
         IN  /\ NextSide(h) \in Sides /\ ~(h.record.hops + 1 > HopCap)
             /\ r \in Rec /\ IsReceipt(r) /\ r.id = h.record.id /\ Placed(r, NextSide(h))
             /\ s \in Nat
             /\ At(Back(h.side), FileId(h.record), s)
             /\ At(NextSide(h), FileId(r), s + 1)
<1> DEFINE r == Forwarded(h)
           m == h.record
           n == Stops(m.id)
           j == Len(m.to)
           next == NextSide(h)
<1>1. /\ r \in Rec /\ IsReceipt(r) /\ r.id = m.id /\ r.to = Front(m.to) /\ r.code = m.code
  BY ForwardKeepsWay DEF IsReceipt
<1>f. r.hops = m.hops + 1
  BY HandlerFields DEF Forwarded, Rec
<1>2. /\ m \in Rec /\ Back(h.side) = <<h.side[2], h.side[1]>> /\ h.side = Back(Back(h.side))
  BY HandlerFields
<1>3. /\ m.id \in Ids /\ m.to \in Seq(Names) /\ n \in Nat /\ n > 1 /\ m.hops \in Nat
      /\ j \in Nat /\ j > 1
  BY <1>2, RecFields, StopFacts DEF IsFqn
<1>4. Homeward(m, Back(h.side))
  BY DEF Placed
<1>n. next = <<h.side[1], Last(m.to)>>
  BY DEF NextSide
<1> HIDE DEF r, m, next
<1>5. /\ j \in 1..n - 1 /\ Back(h.side) = Back(Hop(m.id, j))
      /\ Writes(m.to[1], m.id) /\ \A i \in 2..j : m.to[i] = Stop(m.id, i - 1)
      /\ \A i \in 1..j : Hop(m.id, i) \in Sides
      /\ m.hops + j <= HopCap + 1
      /\ m.code = "ok" => Delivered(m.id)
  BY <1>4 DEF Homeward
<1>6. /\ Front(m.to) = SubSeq(m.to, 1, j - 1) /\ Len(Front(m.to)) = j - 1 /\ Last(m.to) = m.to[j]
  BY <1>3, FrontTypes DEF Front, Last
<1>l. Len(m.to) = j
  OBVIOUS
<1> HIDE DEF n, j
<1>b. \A x, y, z \in Nat : y > 1 /\ y \in 1..x - 1 /\ z + y <= HopCap + 1 =>
        /\ y - 1 \in Nat /\ y - 1 >= 1 /\ (y - 1) + 1 = y /\ y \in 2..y
        /\ y - 1 \in 1..x - 1 /\ y - 1 \in 1..y
        /\ ~(z + 1 > HopCap) /\ (z + 1) + (y - 1) <= HopCap + 1
        /\ 2 * x - 1 - y \in x..2 * x - 2 /\ 2 * x - 1 - y + 1 \in x..2 * x - 2
        /\ 2 * x - 1 - (2 * x - 1 - y) = y /\ 2 * x - 1 - (2 * x - 1 - y + 1) = y - 1
        /\ 2 * x - 1 - y \in Nat /\ 2 * x - 1 - y + 1 \in Nat
  BY HopCapAssumption
<1>a. /\ j - 1 \in Nat /\ j - 1 >= 1 /\ (j - 1) + 1 = j /\ j \in 2..j
      /\ j - 1 \in 1..n - 1 /\ j - 1 \in 1..j
      /\ ~(m.hops + 1 > HopCap) /\ (m.hops + 1) + (j - 1) <= HopCap + 1
      /\ 2 * n - 1 - j \in n..2 * n - 2 /\ 2 * n - 1 - j + 1 \in n..2 * n - 2
      /\ 2 * n - 1 - (2 * n - 1 - j) = j /\ 2 * n - 1 - (2 * n - 1 - j + 1) = j - 1
      /\ 2 * n - 1 - j \in Nat /\ 2 * n - 1 - j + 1 \in Nat
  BY <1>3, <1>5, <1>b
<1>7. next = Back(Hop(m.id, j - 1))
  <2>1. h.side = Hop(m.id, j)
    BY <1>2, <1>5 DEF Back, Hop
  <2>2. h.side[1] = Stop(m.id, j) /\ Last(m.to) = Stop(m.id, j - 1)
    BY <1>5, <1>6, <1>a, <2>1 DEF Hop
  <2> QED
    BY <1>n, <1>a, <2>2 DEF Hop, Back
<1>0. next \in Sides
  <2>1. Hop(m.id, j - 1) \in Sides
    BY <1>5, <1>a
  <2> QED
    BY <1>7, <2>1, SidesPairs
<1>8. Homeward(r, next)
  <2>1. Stops(r.id) = n /\ Len(r.to) = j - 1
    BY <1>1, <1>6 DEF n
  <2>2. \A i \in 2..j - 1 : r.to[i] = Stop(r.id, i - 1)
    <3> SUFFICES ASSUME NEW i \in 2..j - 1 PROVE r.to[i] = Stop(r.id, i - 1)
      OBVIOUS
    <3>1. i \in 2..j /\ i \in 1..j - 1
      BY <1>3
    <3>2. r.to[i] = m.to[i]
      BY <1>1, <1>3, <1>6, <1>l, <3>1
    <3> QED
      BY <1>1, <1>5, <3>1, <3>2
  <2>3. Writes(r.to[1], r.id)
    <3>1. 1 \in 1..j - 1
      BY <1>a
    <3>2. r.to[1] = m.to[1]
      BY <1>1, <1>3, <1>6, <1>l, <3>1
    <3> QED
      BY <1>1, <1>5, <3>2
  <2>4. \A i \in 1..j - 1 : Hop(r.id, i) \in Sides
    <3>1. \A i \in 1..j - 1 : i \in 1..j
      BY <1>3
    <3> QED
      BY <1>1, <1>5, <3>1
  <2>5. r.hops + (j - 1) <= HopCap + 1
    BY <1>f, <1>a
  <2>6. r.code = "ok" => Delivered(r.id)
    BY <1>1, <1>5
  <2> HIDE DEF next, r
  <2>7. next = Back(Hop(r.id, j - 1))
    BY <1>1, <1>7
  <2> QED
    BY <1>a, <2>1, <2>2, <2>3, <2>4, <2>5, <2>6, <2>7 DEF Homeward
<1>9. Placed(r, next)
  BY <1>1, <1>8 DEF Placed
<1>10. At(Back(h.side), FileId(m), 2 * n - 1 - j)
  <2>1. FileId(m) = <<m.id, TRUE>>
    BY DEF FileId, m
  <2> QED
    BY <1>5, <1>a, <2>1 DEF At, n
<1>11. At(next, FileId(r), 2 * n - 1 - j + 1)
  <2>1. FileId(r) = <<m.id, TRUE>>
    BY <1>1 DEF FileId
  <2> QED
    BY <1>7, <1>a, <2>1 DEF At, n
<1> QED
  BY <1>0, <1>1, <1>a, <1>9, <1>10, <1>11 DEF r, m, n, j, next

\* What is received is stamped with the whole way.
LEMMA MailIsPlaced ==
  ASSUME NEW h \in Handler, ~IsReceipt(h.record), Placed(h.record, Back(h.side)),
         ~IsFqn(h.record.to), NEW a \in Recipients(h)
  PROVE  MailPlaced(a, [id |-> h.record.id, from |-> Stamped(h)])
<1> DEFINE m == h.record
           n == Stops(m.id)
           k == Len(m.from)
<1>1. /\ m \in Rec /\ Back(h.side) = <<h.side[2], h.side[1]>> /\ h.side[2] \in Names
  BY HandlerFields
<1>2. /\ m.id \in Ids /\ m.from \in Seq(Names) /\ n \in Nat /\ n > 1 /\ Len(m.to) = 1
  <2>1. /\ m.id \in Ids /\ m.from \in Seq(Names) /\ Len(m.to) \in Nat /\ Len(m.to) >= 1
    BY <1>1, RecFields
  <2>2. Len(m.to) = 1
    <3>1. \A x \in Nat : x >= 1 /\ ~(x > 1) => x = 1
      OBVIOUS
    <3>2. ~(Len(m.to) > 1)
      BY DEF IsFqn
    <3> QED
      BY <2>1, <3>1, <3>2
  <2> QED
    BY <2>1, <2>2, StopFacts
<1>3. Outward(m, Back(h.side))
  BY DEF Placed
<1>4. Stamped(h) = Append(m.from, h.side[2])
  BY DEF Stamped
<1>5. Home[a] = h.side[1]
  BY DEF Recipients, ExportedToLocal, QueueKeyOf
<1> HIDE DEF m
<1>6. /\ k = n - 1 /\ Back(h.side) = Hop(m.id, n - 1)
      /\ \A i \in 2..n - 1 : m.from[i] = Stop(m.id, i - 1)
  BY <1>2, <1>3 DEF Outward
<1>7. Len(Stamped(h)) = n
  BY <1>1, <1>2, <1>4, <1>6
<1>8. h.side[1] = Stop(m.id, n) /\ h.side[2] = Stop(m.id, n - 1)
  <2>1. (n - 1) + 1 = n
    BY <1>2
  <2> QED
    BY <1>1, <1>6, <2>1 DEF Hop
<1>9. \A i \in 2..n : Stamped(h)[i] = Stop(m.id, i - 1)
  <2> SUFFICES ASSUME NEW i \in 2..n PROVE Stamped(h)[i] = Stop(m.id, i - 1)
    OBVIOUS
  <2>1. CASE i = n
    <3>1. Stamped(h)[Len(m.from) + 1] = h.side[2]
      BY <1>1, <1>2, <1>4
    <3>2. Len(m.from) + 1 = n
      BY <1>2, <1>6
    <3> QED
      BY <1>8, <2>1, <3>1, <3>2
  <2>2. CASE i # n
    <3>1. i \in 2..n - 1 /\ i \in 1..n - 1
      BY <1>2, <2>2
    <3>2. Stamped(h)[i] = m.from[i]
      BY <1>1, <1>2, <1>4, <1>6, <3>1
    <3> QED
      BY <1>6, <3>1, <3>2
  <2> QED
    BY <2>1, <2>2
<1> HIDE DEF n
<1>10. Home[a] = Stop(m.id, n)
  BY <1>5, <1>8
<1> QED
  BY <1>7, <1>9, <1>10 DEF MailPlaced, m, n

\* The links keep what they carry in place, ...
LEMMA LinkPlaced ==
  ASSUME FedTyped, PlaceInv, Grows, OwnNames, NEW p \in Sides, EgressNext(p) \/ SocketNext(p)
  PROVE  PlaceInv'
<1>0. /\ LinksTyped /\ handlers \subseteq Handler
      /\ Back(p) \in Sides /\ Back(Back(p)) = p
  BY SidesPairs DEF FedTyped, HandlersTyped
<1>1. \A S, q : S \subseteq Handler =>
        /\ Unheard(q, S) \subseteq Handler
        /\ \A h \in Unheard(q, S) : \E k \in S : SameWork(h, k)
  <2> SUFFICES ASSUME NEW S, S \subseteq Handler, NEW q, NEW k \in S
               PROVE  LET h == IF k.side = q THEN [k EXCEPT !.heard = FALSE] ELSE k
                      IN  SameWork(h, k) /\ h \in Handler
    BY DEF Unheard
  <2> QED
    BY ZenonT(30) DEF Handler, SameWork
<1>2. Range(<<>>) = {}
  BY DEF Range
<1>3. \A h : SameWork(h, h)
  BY DEF SameWork
<1>4. UNCHANGED inbox
  BY DEF EgressNext, SocketNext, Dequeue, Push, AckTimeout, Connect, Close, StaleClose, Acknowledged,
     Received, actorVars
<1>5. \A q \in Sides : Held(q)' \subseteq Held(q)
  <2>1. CASE Dequeue(p)
    BY <1>0, <2>1, DequeueEffect
  <2>2. CASE Acknowledged(p)
    BY <1>0, <2>2, AcknowledgedEffect
  <2>3. CASE Push(p) \/ AckTimeout(p) \/ Connect(p) \/ Close(p) \/ StaleClose(p) \/ Received(p)
    <3>1. UNCHANGED queue
      BY <2>3 DEF Push, AckTimeout, Connect, Close, StaleClose, Received
    <3> QED
      BY <3>1 DEF Held
  <2> QED
    BY <2>1, <2>2, <2>3 DEF EgressNext, SocketNext
<1>6. \A q \in Sides : \A f \in OnWire(q)' : f.type = "record" => f \in OnWire(q) \/ Placed(f.record, q)
  <2>1. CASE Push(p)
    <3> DEFINE r == queue[p].cur[1]
               f == [type |-> "record", record |-> Wired1(r)]
    <3>1. r \in Held(p) /\ r \in Rec
      <4>1. queue[p].cur \in Seq(Rec) /\ queue[p].cur # <<>>
        BY <1>0, <2>1, ElementTypes DEF Push
      <4>2. 1 \in 1..Len(queue[p].cur)
        BY <4>1
      <4>3. 1 \in DOMAIN queue[p].cur
        BY <4>1, <4>2
      <4> QED
        BY <1>0, <4>3, ElementTypes DEF Held, Range
    <3>2. Wired1(r) = r
      <4>1. r.from \in NameSeq
        BY <3>1 DEF Rec
      <4>2. WireName(r.from) = r.from
        BY <4>1, OwnWireName
      <4>3. [r EXCEPT !.from = r.from] = r
        BY <3>1, Zenon DEF Rec
      <4> QED
        BY <4>2, <4>3 DEF Wired1
    <3>3. Placed(r, p)
      BY <3>1 DEF PlaceInv
    <3>4. frames' = SendFrame(frames, p, f)
      BY <2>1 DEF Push, Wired1
    <3> HIDE DEF r
    <3>5. f \in Frame /\ Placed(f.record, p)
      BY <3>1, <3>2, <3>3 DEF Frame, RecordFrame
    <3> HIDE DEF f
    <3>6. \A q \in Sides : \A g \in OnWire(q)' : g \in OnWire(q) \/ (q = p /\ g = f)
      BY <1>0, <3>4, <3>5, SendEffect
    <3> QED
      BY <3>5, <3>6
  <2>2. CASE Dequeue(p) \/ AckTimeout(p) \/ StaleClose(p)
    <3>1. UNCHANGED frames
      BY <2>2 DEF Dequeue, AckTimeout, StaleClose, linkVars
    <3> QED
      BY <3>1 DEF OnWire
  <2>3. CASE Connect(p) \/ Close(p)
    <3>1. \A q \in Sides : frames'[q] = frames[q] \/ frames'[q] = <<>>
      BY <1>0, <2>3 DEF Connect, Close, LinksTyped
    <3> QED
      BY <1>2, <3>1 DEF OnWire
  <2>4. CASE Acknowledged(p) \/ Received(p)
    <3>1. Arrives(p, "ack") \/ Arrives(p, "record")
      BY <2>4 DEF Acknowledged, Received
    <3>2. \A q \in Sides : OnWire(q)' \subseteq OnWire(q)
      BY <1>0, <3>1, ArriveEffect
    <3> QED
      BY <3>2
  <2> QED
    BY <2>1, <2>2, <2>3, <2>4 DEF EgressNext, SocketNext
<1>7. \A h \in handlers' : (\E k \in handlers : SameWork(h, k)) \/ (Placed(h.record, Back(h.side)) /\ ~h.delivered)
  <2>1. CASE Connect(p)
    <3>1. handlers' = Unheard(p, Unheard(Back(p), handlers))
      BY <2>1 DEF Connect
    <3>2. \A k \in Unheard(Back(p), handlers) : \E e \in handlers : SameWork(k, e)
      BY <1>0, <1>1
    <3>3. \A h \in handlers' : \E k \in Unheard(Back(p), handlers) : SameWork(h, k)
      BY <1>0, <1>1, <3>1
    <3> QED
      BY <3>2, <3>3 DEF SameWork
  <2>2. CASE Close(p)
    BY <1>0, <1>1, <2>2 DEF Close
  <2>3. CASE Received(p)
    <3> DEFINE f == Head(frames[Back(p)])
               new == [side |-> p, record |-> f.record, delivered |-> FALSE, heard |-> TRUE]
    <3>1. f \in OnWire(Back(p)) /\ f.type = "record"
      BY <1>0, <2>3, ArriveEffect DEF Received
    <3>2. handlers' = handlers \union {new}
      BY <2>3 DEF Received
    <3>3. new.side = p /\ new.record = f.record /\ ~new.delivered
      OBVIOUS
    <3> HIDE DEF new, f
    <3>4. Placed(new.record, Back(new.side))
      BY <1>0, <3>1, <3>3 DEF PlaceInv
    <3> QED
      BY <1>3, <3>2, <3>3, <3>4
  <2>4. CASE Dequeue(p) \/ Push(p) \/ AckTimeout(p) \/ StaleClose(p) \/ Acknowledged(p)
    <3>1. UNCHANGED handlers
      BY <2>4 DEF Dequeue, Push, AckTimeout, StaleClose, Acknowledged
    <3> QED
      BY <1>3, <3>1
  <2> QED
    BY <2>1, <2>2, <2>3, <2>4 DEF EgressNext, SocketNext
<1> QED
  BY <1>4, <1>5, <1>6, <1>7, PlaceKept

\* ... the agents start what they write on its way, ...
LEMMA AgentPlaced ==
  ASSUME FedTyped, PlaceInv, Grows, AgentNext
  PROVE  PlaceInv'
<1>0. LinksTyped
  BY DEF FedTyped
<1>3. \A h : SameWork(h, h)
  BY DEF SameWork
<1>4. UNCHANGED <<inbox, frames, handlers>>
  BY DEF AgentNext, Send, Answer, RouteEgress, GateTurns, actorVars, linkVars
<1>5. ASSUME NEW side \in Sides, NEW r \in Rec, Placed(r, side), queue' = Enqueue(queue, side, r)
      PROVE  \A q \in Sides : \A x \in Held(q)' : x \in Held(q) \/ Placed(x, q)
  <2>1. \A q \in Sides : Held(q)' = IF q = side THEN Held(q) \union {r} ELSE Held(q)
    BY <1>0, <1>5, EnqueueEffect
  <2> QED
    BY <1>5, <2>1
<1>6. \A q \in Sides : \A x \in Held(q)' : x \in Held(q) \/ Placed(x, q)
  <2>1. ASSUME NEW m \in Messages, Send(m)
        PROVE  \A q \in Sides : \A x \in Held(q)' : x \in Held(q) \/ Placed(x, q)
    <3> DEFINE side == <<Home[Plan[m].from], Last(Plan[m].to)>>
               r == Record(<<m, "ask">>, "none", <<Plan[m].from>>, Front(Plan[m].to), 0)
    <3>1. r \in Rec /\ Placed(r, side)
      BY <2>1, AskPlaced
    <3>2. side \in Sides /\ queue' = Enqueue(queue, side, r)
      BY <2>1 DEF Send, RouteEgress
    <3> HIDE DEF side, r
    <3> QED
      BY <1>5, <3>1, <3>2
  <2>2. ASSUME NEW a \in Actors, NEW mail \in inbox[a], Answer(a, mail)
        PROVE  \A q \in Sides : \A x \in Held(q)' : x \in Held(q) \/ Placed(x, q)
    <3> DEFINE side == <<Home[a], Last(mail.from)>>
               r == Record(<<mail.id[1], "answer">>, "none", <<a>>, Front(mail.from), 0)
    <3>1. r \in Rec /\ Placed(r, side)
      BY <2>2, AnswerPlaced
    <3>2. side \in Sides /\ queue' = Enqueue(queue, side, r)
      BY <2>2 DEF Answer, RouteEgress
    <3> HIDE DEF side, r
    <3> QED
      BY <1>5, <3>1, <3>2
  <2>3. ASSUME NEW r \in Pausable, GateTurns(r)
        PROVE  \A q \in Sides : \A x \in Held(q)' : x \in Held(q) \/ Placed(x, q)
    <3>1. UNCHANGED queue
      BY <2>3 DEF GateTurns
    <3> QED
      BY <3>1 DEF Held
  <2> QED
    BY <2>1, <2>2, <2>3 DEF AgentNext
<1>7. \A q \in Sides : OnWire(q)' = OnWire(q)
  BY <1>4 DEF OnWire
<1> QED
  BY <1>3, <1>4, <1>6, <1>7, PlaceKept

\* ... and the handlers send on, report and deliver it.
LEMMA HandlerPlacedStep ==
  ASSUME FedTyped, PlaceInv, Grows, NEW h \in handlers, HandlerNext(h) \/ IngressFails(h)
  PROVE  PlaceInv'
<1>0. /\ h \in Handler /\ h.side \in Sides /\ h.record \in Rec /\ LinksTyped
      /\ Placed(h.record, Back(h.side))
      /\ h.delivered => ~IsReceipt(h.record) /\ Delivered(h.record.id)
  BY DEF FedTyped, HandlersTyped, Handler, PlaceInv, HandlerPlaced
<1>1. \A k : SameWork(k, k)
  BY DEF SameWork
<1>2. ASSUME NEW side \in Sides, NEW r \in Rec, Placed(r, side), queue' = Enqueue(queue, side, r)
      PROVE  \A q \in Sides : \A x \in Held(q)' : x \in Held(q) \/ Placed(x, q)
  <2>1. \A q \in Sides : Held(q)' = IF q = side THEN Held(q) \union {r} ELSE Held(q)
    BY <1>0, <1>2, EnqueueEffect
  <2> QED
    BY <1>2, <2>1
<1>3. ASSUME UNCHANGED queue
      PROVE  \A q \in Sides : \A x \in Held(q)' : x \in Held(q) \/ Placed(x, q)
  BY <1>3 DEF Held
<1>4. ASSUME Acks(h), UNCHANGED inbox,
             \A q \in Sides : \A x \in Held(q)' : x \in Held(q) \/ Placed(x, q)
      PROVE  PlaceInv'
  <2>1. /\ handlers' \subseteq handlers
        /\ \A q \in Sides : \A f \in OnWire(q)' : f \in OnWire(q) \/ f.type = "ack"
    BY <1>4, AcksEffect
  <2>2. \A q \in Sides : \A f \in OnWire(q)' : f.type = "record" => f \in OnWire(q) \/ Placed(f.record, q)
    BY <2>1
  <2>3. \A k \in handlers' : \E e \in handlers : SameWork(k, e)
    BY <1>1, <2>1
  <2> QED
    BY <1>4, <2>2, <2>3, PlaceKept
<1>5. CASE Refuse(h)
  <2>1. Verdict(h) \in Codes \ {"none"} /\ Verdict(h) # "ok" /\ ~IsReceipt(h.record)
    BY <1>0, <1>5, GateTypes DEF Refuse, AtGate
  <2> DEFINE r == ReceiptFor(h, Verdict(h))
  <2>2. r \in Rec /\ Placed(r, h.side)
    BY <1>0, <2>1, ReceiptPlaced
  <2>3. queue' = Enqueue(queue, h.side, r) /\ Acks(h) /\ UNCHANGED inbox
    BY <1>5 DEF Refuse, actorVars
  <2> HIDE DEF r
  <2> QED
    BY <1>0, <1>2, <1>4, <2>2, <2>3
<1>6. CASE Transit(h)
  <2>1. Verdict(h) = "ok" /\ ~IsReceipt(h.record) /\ IsFqn(h.record.to)
    BY <1>6 DEF Transit, AtGate
  <2> DEFINE r == Forwarded(h)
             next == NextSide(h)
  <2>2. r \in Rec /\ next \in Sides /\ Placed(r, next)
    BY <1>0, <2>1, OutwardForwarded
  <2>3. queue' = Enqueue(queue, next, r) /\ Acks(h) /\ UNCHANGED inbox
    BY <1>6 DEF Transit, actorVars
  <2> HIDE DEF r, next
  <2> QED
    BY <1>2, <1>4, <2>2, <2>3
<1>7. CASE Deliver(h)
  <2> DEFINE mail == [id |-> h.record.id, from |-> Stamped(h)]
             new == [h EXCEPT !.delivered = TRUE]
  <2>1. /\ ~IsReceipt(h.record) /\ ~IsFqn(h.record.to)
        /\ handlers' = (handlers \ {h}) \union {new}
        /\ UNCHANGED <<queue, frames>>
    BY <1>7 DEF Deliver, AtGate, linkVars
  <2>2. PICK r \in Recipients(h) : inbox' = [inbox EXCEPT ![r] = @ \union {mail}]
    BY <1>7 DEF Deliver
  <2>3. r \in Actors /\ MailPlaced(r, mail)
    BY <1>0, <2>1, <2>2, GateTypes, MailIsPlaced
  <2>4. new.side = h.side /\ new.record = h.record
    BY <1>0 DEF Handler
  <2>m. mail.id = h.record.id
    OBVIOUS
  <2> HIDE DEF new, mail
  <2>5. DOMAIN inbox = Actors
    BY DEF FedTyped, ActorsTyped
  <2>6. \A a \in Actors : \A x \in inbox'[a] : x \in inbox[a] \/ MailPlaced(a, x)
    BY <2>2, <2>3, <2>5
  <2>7. Delivered(h.record.id)'
    <3>1. mail \in inbox'[r]
      BY <2>2, <2>3, <2>5
    <3> QED
      BY <2>3, <2>m, <3>1 DEF Delivered
  <2>8. \A k \in handlers' :
           \/ \E e \in handlers : SameWork(k, e)
           \/ Placed(k.record, Back(k.side)) /\ ~IsReceipt(k.record) /\ Delivered(k.record.id)'
    BY <1>0, <1>1, <2>1, <2>4, <2>7
  <2>9. \A q \in Sides : OnWire(q)' = OnWire(q)
    BY <2>1 DEF OnWire
  <2> QED
    BY <1>3, <2>1, <2>6, <2>8, <2>9, PlaceKept
<1>8. CASE ReceiptQueued(h)
  <2> DEFINE r == ReceiptFor(h, "ok")
  <2>1. "ok" \in Codes \ {"none"} /\ h.delivered
    BY <1>8 DEF Codes, ReceiptQueued
  <2>2. r \in Rec /\ Placed(r, h.side)
    BY <1>0, <2>1, ReceiptPlaced
  <2>3. queue' = Enqueue(queue, h.side, r) /\ Acks(h) /\ UNCHANGED inbox
    BY <1>8 DEF ReceiptQueued, actorVars
  <2> HIDE DEF r
  <2> QED
    BY <1>0, <1>2, <1>4, <2>2, <2>3
<1>9. CASE ReceiptTransit(h)
  <2> DEFINE r == Forwarded(h)
             next == NextSide(h)
  <2>1. IsReceipt(h.record) /\ IsFqn(h.record.to) /\ Acks(h) /\ UNCHANGED inbox
    BY <1>9 DEF ReceiptTransit, actorVars
  <2>2. r \in Rec /\ next \in Sides /\ Placed(r, next)
    BY <1>0, <2>1, HomewardForwarded
  <2>3. queue' = Enqueue(queue, next, r) \/ UNCHANGED queue
    BY <1>9 DEF ReceiptTransit
  <2> HIDE DEF r, next
  <2> QED
    BY <1>2, <1>3, <1>4, <2>1, <2>2, <2>3
<1>10. CASE ReceiptComesHome(h)
  BY <1>3, <1>4, <1>10 DEF ReceiptComesHome
<1>11. CASE IngressFails(h)
  <2>1. handlers' \subseteq handlers /\ UNCHANGED <<queue, frames, inbox>>
    BY <1>11 DEF IngressFails, linkVars, actorVars
  <2>2. \A q \in Sides : OnWire(q)' = OnWire(q)
    BY <2>1 DEF OnWire
  <2>3. \A k \in handlers' : \E e \in handlers : SameWork(k, e)
    BY <1>1, <2>1
  <2> QED
    BY <1>3, <2>1, <2>2, <2>3, PlaceKept
<1> QED
  BY <1>5, <1>6, <1>7, <1>8, <1>9, <1>10, <1>11 DEF HandlerNext

\* Everything is where its name leads.
LEMMA PlaceStep ==
  ASSUME FedTyped, PlaceInv, OwnNames, [Next]_vars
  PROVE  PlaceInv'
<1>0. Grows
  BY InboxGrows
<1>s. \A h : SameWork(h, h)
  BY DEF SameWork
<1>1. CASE \E p \in Sides : EgressNext(p) \/ SocketNext(p)
  BY <1>0, <1>1, LinkPlaced
<1>2. CASE \E h \in handlers : HandlerNext(h) \/ IngressFails(h)
  BY <1>0, <1>2, HandlerPlacedStep
<1>3. CASE AgentNext
  BY <1>0, <1>3, AgentPlaced
<1>4. CASE \E s \in Servers : Crash(s)
  <2>1. handlers' \subseteq handlers /\ UNCHANGED <<queue, inbox>>
    BY <1>4 DEF Crash, actorVars
  <2>2. Range(<<>>) = {}
    BY DEF Range
  <2>3. \A q \in Sides : frames'[q] = frames[q] \/ frames'[q] = <<>>
    BY <1>4 DEF Crash
  <2>4. \A q \in Sides : OnWire(q)' \subseteq OnWire(q)
    BY <2>2, <2>3 DEF OnWire
  <2>5. \A k \in handlers' : \E e \in handlers : SameWork(k, e)
    BY <1>s, <2>1
  <2>6. \A q \in Sides : Held(q)' = Held(q)
    BY <2>1 DEF Held
  <2> QED
    BY <1>0, <2>1, <2>4, <2>5, <2>6, PlaceKept
<1>5. CASE UNCHANGED vars
  <2>1. UNCHANGED <<queue, frames, handlers, inbox>>
    BY <1>5 DEF vars, linkVars, actorVars
  <2>2. \A q \in Sides : Held(q)' = Held(q) /\ OnWire(q)' = OnWire(q)
    BY <2>1 DEF Held, OnWire
  <2> QED
    BY <1>0, <1>s, <2>1, <2>2, PlaceKept
<1> QED
  BY <1>1, <1>2, <1>3, <1>4, <1>5 DEF Next

\* An egress has one record in hand, and waits only while it has.
LEMMA SlotStep ==
  ASSUME FedTyped, SlotInv, [Next]_vars
  PROVE  SlotInv'
<1>0. /\ LinksTyped
      /\ DOMAIN queue = Sides /\ DOMAIN push = Sides
      /\ \A q \in Sides : push[q] \in [waits : BOOLEAN, sent : Ids \union {NoReply}]
  BY DEF FedTyped, LinksTyped
<1>1. ASSUME \A q \in Sides : queue'[q].cur = queue[q].cur,
             \A q \in Sides : push'[q].waits => push[q].waits
      PROVE  SlotInv'
  BY <1>1 DEF SlotInv
<1>2. ASSUME NEW p \in Sides, push' = Rejected(p)
      PROVE  \A q \in Sides : push'[q].waits => push[q].waits
  <2>1. \A q \in Sides : q # p => push'[q] = push[q]
    BY <1>0, <1>2 DEF Rejected
  <2>2. push'[p].waits = FALSE
    BY <1>0, <1>2 DEF Rejected
  <2> QED
    BY <2>1, <2>2
<1>3. ASSUME NEW p \in Sides, EgressNext(p) \/ SocketNext(p)
      PROVE  SlotInv'
  <2>1. CASE Dequeue(p)
    <3>1. queue[p].cur = <<>> /\ UNCHANGED push
      BY <2>1 DEF Dequeue, linkVars
    <3>2. \A q \in Sides : q # p => queue'[q] = queue[q]
      BY <1>0, <2>1 DEF Dequeue
    <3>3. queue[p] \in LinkQueue
      BY <1>0, ElementTypes
    <3>4. queue'[p].cur = <<>> \/ \E r : queue'[p].cur = <<r>>
      <4>1. queue' = [queue EXCEPT ![p].pending = Tail(@),
                       ![p].cur = IF FileId(Head(queue[p].pending)) \in queue[p].done
                                    THEN <<>> ELSE <<Head(queue[p].pending)>>]
        BY <2>1 DEF Dequeue
      <4>2. queue'[p].cur = IF FileId(Head(queue[p].pending)) \in queue[p].done
                              THEN <<>> ELSE <<Head(queue[p].pending)>>
        BY <1>0, <3>3, <4>1 DEF LinkQueue
      <4> QED
        BY <4>2
    <3>5. Len(queue'[p].cur) <= 1
      <4>1. CASE queue'[p].cur = <<>>
        BY <4>1
      <4>2. CASE \E r : queue'[p].cur = <<r>>
        <5>1. PICK r : queue'[p].cur = <<r>>
          BY <4>2
        <5>2. Len(<<r>>) = 1
          OBVIOUS
        <5> QED
          BY <5>1, <5>2
      <4> QED
        BY <3>4, <4>1, <4>2
    <3> QED
      BY <3>1, <3>2, <3>5 DEF SlotInv
  <2>2. CASE Push(p)
    <3>1. /\ UNCHANGED queue /\ queue[p].cur # <<>>
          /\ \A q \in Sides : q # p => push'[q] = push[q]
      BY <1>0, <2>2 DEF Push
    <3> QED
      BY <3>1 DEF SlotInv
  <2>3. CASE Connect(p)
    BY <1>1, <2>3 DEF Connect
  <2>4. CASE Received(p)
    BY <1>1, <2>4 DEF Received
  <2>5. CASE AckTimeout(p) \/ Close(p) \/ StaleClose(p)
    <3>1. UNCHANGED queue /\ push' = Rejected(p)
      BY <2>5 DEF AckTimeout, Close, StaleClose
    <3> QED
      BY <1>1, <1>2, <3>1
  <2>6. CASE Acknowledged(p)
    <3> DEFINE ref == Head(frames[Back(p)]).ref
               taken == push[p].waits /\ FileId(queue[p].cur[1]) = ref
    <3>1. /\ ~taken => queue' = queue /\ push' = push
          /\ taken => /\ \A q \in Sides : q # p => queue'[q] = queue[q]
                      /\ queue'[p].cur = <<>>
                      /\ push' = [push EXCEPT ![p] = [waits |-> FALSE, sent |-> NoReply]]
      BY <1>0, <2>6, AcknowledgedEffect
    <3> HIDE DEF taken
    <3>2. CASE taken
      <4>1. push'[p].waits = FALSE /\ \A q \in Sides : q # p => push'[q] = push[q]
        BY <1>0, <3>1, <3>2
      <4>2. Len(queue'[p].cur) <= 1
        BY <3>1, <3>2
      <4> QED
        BY <3>1, <3>2, <4>1, <4>2 DEF SlotInv
    <3>3. CASE ~taken
      BY <1>1, <3>1, <3>3
    <3> QED
      BY <3>2, <3>3
  <2> QED
    BY <1>3, <2>1, <2>2, <2>3, <2>4, <2>5, <2>6 DEF EgressNext, SocketNext
<1>4. ASSUME NEW p \in Sides, NEW r, queue' = Enqueue(queue, p, r), UNCHANGED push
      PROVE  SlotInv'
  <2>1. \A q \in Sides : queue'[q].cur = queue[q].cur
    <3>1. \A q \in Sides : q # p => queue'[q] = queue[q]
      BY <1>0, <1>4 DEF Enqueue
    <3>2. queue[p] \in LinkQueue
      BY <1>0, ElementTypes
    <3>3. queue'[p] = [queue[p] EXCEPT !.pending = Append(@, r)]
      BY <1>0, <1>4 DEF Enqueue
    <3>4. queue'[p].cur = queue[p].cur
      BY <3>2, <3>3 DEF LinkQueue
    <3> QED
      BY <3>1, <3>4
  <2> QED
    BY <1>1, <1>4, <2>1
<1>5. ASSUME NEW h \in handlers, HandlerNext(h) \/ IngressFails(h)
      PROVE  SlotInv'
  <2>0. h.side \in Sides
    BY DEF FedTyped, HandlersTyped, Handler
  <2>1. UNCHANGED push
    BY <1>5 DEF HandlerNext, IngressFails, Refuse, Transit, Deliver, ReceiptQueued, ReceiptTransit,
       ReceiptComesHome, Acks, linkVars
  <2>2. CASE Refuse(h)
    BY <1>4, <2>0, <2>1, <2>2 DEF Refuse
  <2>3. CASE Transit(h)
    <3>1. NextSide(h) \in Sides
      BY <2>3 DEF Transit, Verdict, Onward
    <3> QED
      BY <1>4, <2>1, <2>3, <3>1 DEF Transit
  <2>4. CASE ReceiptQueued(h)
    BY <1>4, <2>0, <2>1, <2>4 DEF ReceiptQueued
  <2>5. CASE ReceiptTransit(h)
    BY <1>1, <1>4, <2>1, <2>5 DEF ReceiptTransit
  <2>6. CASE Deliver(h) \/ ReceiptComesHome(h) \/ IngressFails(h)
    BY <1>1, <2>1, <2>6 DEF Deliver, ReceiptComesHome, IngressFails
  <2> QED
    BY <1>5, <2>2, <2>3, <2>4, <2>5, <2>6 DEF HandlerNext
<1>6. CASE AgentNext
  <2>1. UNCHANGED push
    BY <1>6 DEF AgentNext, Send, Answer, RouteEgress, GateTurns, linkVars
  <2>2. UNCHANGED queue \/ \E p \in Sides : \E r : queue' = Enqueue(queue, p, r)
    BY <1>6 DEF AgentNext, Send, Answer, RouteEgress, GateTurns
  <2> QED
    BY <1>1, <1>4, <2>1, <2>2
<1>7. CASE \E s \in Servers : Crash(s)
  <2>1. UNCHANGED queue
    BY <1>7 DEF Crash
  <2>2. \A q \in Sides : push'[q].waits => push[q].waits
    BY <1>0, <1>7 DEF Crash
  <2> QED
    BY <1>1, <2>1, <2>2
<1>8. CASE UNCHANGED vars
  BY <1>1, <1>8 DEF vars, linkVars
<1> QED
  BY <1>3, <1>5, <1>6, <1>7, <1>8 DEF Next

\* The stages of a way do not change.
LEMMA StagesStay ==
  ASSUME NEW p, NEW ref, NEW s
  PROVE  At(p, ref, s)' <=> At(p, ref, s)
BY DEF At, Back, Hop, Stop, Stops, Hops, Way, Visited

\* What had got past a stage is past it after a step that takes only what is further
\* on already.
LEMMA PastStays ==
  ASSUME NoLinkTwice, SentInv, Grows, NEW p0, NEW ref0,
         \A p \in Sides, ref \in Refs : Fresh(p, ref) =>
           Fresh(p, ref)' \/ (p = p0 /\ ref = ref0 /\ SentOff(p, ref)),
         NEW id \in Ids, NEW s \in Nat, Past(id, s)
  PROVE  Past(id, s)'
<1>1. CASE Over(id)
  BY <1>1, OverStays DEF Past
<1>2. CASE ~Over(id)
  <2>1. PICK p \in Sides, back \in BOOLEAN, t \in Nat :
          t > s /\ At(p, <<id, back>>, t) /\ Fresh(p, <<id, back>>)
    BY <1>2 DEF Past
  <2>r. \A b \in BOOLEAN : <<id, b>> \in Refs /\ <<id, b>>[1] = id
    BY DEF Refs
  <2>2. CASE Fresh(p, <<id, back>>)'
    BY <2>1, <2>2, StagesStay DEF Past
  <2>3. CASE ~Fresh(p, <<id, back>>)'
    <3>1. p = p0 /\ <<id, back>> = ref0 /\ SentOff(p, <<id, back>>)
      BY <2>1, <2>3, <2>r
    <3>2. Past(id, t)
      BY <2>1, <2>r, <3>1 DEF SentInv, Further
    <3>3. PICK q \in Sides, b \in BOOLEAN, u \in Nat :
            u > t /\ At(q, <<id, b>>, u) /\ Fresh(q, <<id, b>>)
      BY <1>2, <3>2 DEF Past
    <3>4. Fresh(q, <<id, b>>)'
      <4>1. SUFFICES ASSUME q = p, <<id, b>> = <<id, back>> PROVE FALSE
        BY <2>r, <3>1, <3>3
      <4>2. u = t
        BY <2>1, <2>r, <3>3, <4>1, OneStage
      <4> QED
        BY <3>3, <4>2
    <3>5. u > s
      BY <2>1, <3>3
    <3> QED
      BY <3>3, <3>4, <3>5, StagesStay DEF Past
  <2> QED
    BY <2>2, <2>3
<1> QED
  BY <1>1, <1>2

\* So a step keeps the promise of the acknowledgements if every new one is justified.
LEMMA LossKept ==
  ASSUME FedTyped, NoLinkTwice, SentInv, UnderWay, Grows, NEW p0, NEW ref0,
         \A p \in Sides, ref \in Refs : Fresh(p, ref) =>
           Fresh(p, ref)' \/ (p = p0 /\ ref = ref0 /\ SentOff(p, ref)),
         \A p \in Sides, ref \in Refs : SentOff(p, ref)' =>
           SentOff(p, ref) \/ \A s \in Nat : At(p, ref, s) => Past(ref[1], s)',
         \A id \in accepted' : id \in accepted \/ Past(id, 0)'
  PROVE  SentInv' /\ UnderWay'
<1>1. \A id \in Ids : \A s \in Nat : Past(id, s) => Past(id, s)'
  BY PastStays
<1>2. ASSUME NEW p \in Sides, NEW ref \in Refs, SentOff(p, ref)'
      PROVE  Further(p, ref)'
  <2>1. ref[1] \in Ids
    BY DEF Refs
  <2>2. SentOff(p, ref) => \A s \in Nat : At(p, ref, s) => Past(ref[1], s)
    BY DEF SentInv, Further
  <2>3. \A s \in Nat : At(p, ref, s) => Past(ref[1], s)'
    BY <1>1, <1>2, <2>1, <2>2
  <2> QED
    BY <2>3, StagesStay DEF Further
<1>3. UnderWay'
  <2>1. accepted \subseteq Ids /\ 0 \in Nat
    BY DEF FedTyped, ActorsTyped
  <2> QED
    BY <1>1, <2>1 DEF UnderWay
<1> QED
  BY <1>2, <1>3 DEF SentInv

\* What is put into a queue for a later stage is past the earlier ones: it waits there, or
\* a copy of it was sent on from there already.
LEMMA EnqueuePast ==
  ASSUME FedTyped, NoLinkTwice, SentInv, Grows, NEW q \in Sides, NEW r \in Rec,
         queue' = Enqueue(queue, q, r), NEW t \in Nat, At(q, FileId(r), t)
  PROVE  /\ \A p \in Sides, ref \in Refs : Fresh(p, ref) => Fresh(p, ref)'
         /\ \A p \in Sides : queue'[p].done = queue[p].done
         /\ \A s \in Nat : s < t => Past(r.id, s)'
<1>1. /\ \A p \in Sides : queue'[p].done = queue[p].done
      /\ \A p \in Sides : Held(p)' = IF p = q THEN Held(p) \union {r} ELSE Held(p)
  BY EnqueueEffect DEF FedTyped
<1>2. \A p \in Sides, ref \in Refs : Fresh(p, ref) => Fresh(p, ref)'
  BY <1>1 DEF Fresh
<1>3. /\ FileId(r) = <<r.id, IsReceipt(r)>> /\ IsReceipt(r) \in BOOLEAN /\ FileId(r) \in Refs
      /\ r.id \in Ids
  BY RecFields DEF FileId, IsReceipt, Refs
<1>4. ASSUME NEW s \in Nat, s < t PROVE Past(r.id, s)'
  <2>1. CASE FileId(r) \in queue[q].done
    <3>0. FileId(r)[1] = r.id
      BY <1>3
    <3>1. Past(r.id, t)
      BY <1>3, <2>1, <3>0 DEF SentInv, SentOff, Further
    <3>2. Past(r.id, t)'
      BY <1>2, <1>3, <3>1, PastStays
    <3> QED
      BY <1>4, <3>2 DEF Past
  <2>2. CASE FileId(r) \notin queue[q].done
    <3>1. Fresh(q, FileId(r))'
      BY <1>1, <2>2 DEF Fresh, FileId, IsReceipt
    <3>2. t > s /\ At(q, FileId(r), t)'
      BY <1>4, StagesStay
    <3> QED
      BY <1>3, <3>1, <3>2 DEF Past
  <2> QED
    BY <2>1, <2>2
<1> QED
  BY <1>1, <1>2, <1>4

\* A handler may acknowledge what is past the stage that it was received from.
LEMMA AcksSent ==
  ASSUME FedTyped, NoLinkTwice, NEW h \in handlers, Acks(h),
         \A p \in Sides : queue'[p].done = queue[p].done,
         NEW k \in Nat, At(Back(h.side), FileId(h.record), k), Past(h.record.id, k)'
  PROVE  \A p \in Sides, ref \in Refs : SentOff(p, ref)' =>
           SentOff(p, ref) \/ \A s \in Nat : At(p, ref, s) => Past(ref[1], s)'
<1> SUFFICES ASSUME NEW p \in Sides, NEW ref \in Refs, SentOff(p, ref)', ~SentOff(p, ref),
                    NEW s \in Nat, At(p, ref, s)
             PROVE  Past(ref[1], s)'
  OBVIOUS
<1>1. /\ h \in Handler
      /\ \A q \in Sides : \A f \in OnWire(q)' :
           f \in OnWire(q) \/ (q = h.side /\ f = [type |-> "ack", ref |-> FileId(h.record)])
  BY AcksEffect
<1>2. Back(p) \in Sides /\ Back(Back(p)) = p
  BY SidesPairs
<1>3. [type |-> "ack", ref |-> ref] \in OnWire(Back(p))' \ OnWire(Back(p))
  BY DEF SentOff
<1>4. Back(p) = h.side /\ ref = FileId(h.record)
  BY <1>1, <1>2, <1>3
<1>5. s = k
  BY <1>2, <1>4, OneStage
<1>6. ref[1] = h.record.id
  BY <1>4 DEF FileId
<1> QED
  BY <1>5, <1>6

\* A link takes from its queue what is further on: a repetition, or what was acknowledged.
LEMMA LinkLoss ==
  ASSUME FedTyped, NoLinkTwice, SlotInv, SentInv, UnderWay, Grows,
         NEW p \in Sides, EgressNext(p) \/ SocketNext(p)
  PROVE  SentInv' /\ UnderWay'
<1>0. LinksTyped /\ Back(p) \in Sides
  BY SidesPairs DEF FedTyped
<1>1. UNCHANGED accepted
  BY DEF EgressNext, SocketNext, Dequeue, Push, AckTimeout, Connect, Close, StaleClose, Acknowledged,
     Received, histVars
<1>2. Range(<<>>) = {}
  BY DEF Range
<1>3. CASE Dequeue(p)
  <2>1. /\ \A q \in Sides : queue'[q].done = queue[q].done
        /\ \A q \in Sides : \A e \in Held(q) : e \in Held(q)' \/ FileId(e) \in queue[q].done
        /\ UNCHANGED frames
    BY <1>0, <1>3, DequeueEffect DEF Dequeue, linkVars
  <2>2. \A q \in Sides, ref \in Refs : Fresh(q, ref) => Fresh(q, ref)'
    BY <2>1 DEF Fresh, FileId, IsReceipt
  <2>3. \A q \in Sides, ref \in Refs : SentOff(q, ref)' => SentOff(q, ref)
    BY <2>1 DEF SentOff, OnWire, Back
  <2> QED
    BY <1>1, <2>2, <2>3, LossKept
<1>4. CASE Push(p)
  <2>1. UNCHANGED queue
    BY <1>4 DEF Push
  <2>2. \A q \in Sides, ref \in Refs : Fresh(q, ref) => Fresh(q, ref)'
    BY <2>1 DEF Fresh, Held, FileId, IsReceipt
  <2> DEFINE f == [type |-> "record", record |-> Wired1(queue[p].cur[1])]
  <2>3. frames' = SendFrame(frames, p, f) /\ f.type = "record"
    BY <1>4 DEF Push, Wired1
  <2>4. f \in Frame
    <3>1. queue[p].cur \in Seq(Rec) /\ queue[p].cur # <<>>
      BY <1>0, <1>4, ElementTypes DEF Push
    <3>2. queue[p].cur[1] \in Rec
      BY <3>1
    <3>3. Wired1(queue[p].cur[1]) \in Rec
      BY <3>2, PushKeepsWay
    <3> QED
      BY <3>3 DEF Frame, RecordFrame
  <2> HIDE DEF f
  <2>5. \A q \in Sides : \A g \in OnWire(q)' : g \in OnWire(q) \/ g = f
    BY <1>0, <2>3, <2>4, SendEffect
  <2>6. \A q \in Sides, ref \in Refs : SentOff(q, ref)' => SentOff(q, ref)
    <3> SUFFICES ASSUME NEW q \in Sides, NEW ref \in Refs, SentOff(q, ref)' PROVE SentOff(q, ref)
      OBVIOUS
    <3>1. [type |-> "ack", ref |-> ref] # f
      BY <2>3
    <3>2. Back(q) \in Sides
      BY SidesPairs
    <3> QED
      BY <2>1, <2>5, <3>1, <3>2 DEF SentOff
  <2> QED
    BY <1>1, <2>2, <2>6, LossKept
<1>5. CASE AckTimeout(p) \/ StaleClose(p) \/ Connect(p) \/ Close(p) \/ Received(p)
  <2>1. UNCHANGED queue
    BY <1>5 DEF AckTimeout, StaleClose, Connect, Close, Received
  <2>2. \A q \in Sides, ref \in Refs : Fresh(q, ref) => Fresh(q, ref)'
    BY <2>1 DEF Fresh, Held, FileId, IsReceipt
  <2>3. \A q \in Sides : OnWire(q)' \subseteq OnWire(q)
    <3>1. CASE AckTimeout(p) \/ StaleClose(p)
      BY <3>1 DEF AckTimeout, StaleClose, OnWire
    <3>2. CASE Connect(p) \/ Close(p)
      <4>1. \A q \in Sides : frames'[q] = frames[q] \/ frames'[q] = <<>>
        BY <1>0, <3>2 DEF Connect, Close, LinksTyped
      <4> QED
        BY <1>2, <4>1 DEF OnWire
    <3>3. CASE Received(p)
      BY <1>0, <3>3, ArriveEffect DEF Received
    <3> QED
      BY <1>5, <3>1, <3>2, <3>3
  <2>4. \A q \in Sides, ref \in Refs : SentOff(q, ref)' => SentOff(q, ref)
    BY <2>1, <2>3, SidesPairs DEF SentOff
  <2> QED
    BY <1>1, <2>2, <2>4, LossKept
<1>6. CASE Acknowledged(p)
  <2> DEFINE ref0 == Head(frames[Back(p)]).ref
             taken == push[p].waits /\ FileId(queue[p].cur[1]) = ref0
  <2>1. /\ ref0 \in Refs /\ [type |-> "ack", ref |-> ref0] \in OnWire(Back(p))
        /\ ~taken => queue' = queue
        /\ taken => /\ \A q \in Sides : q # p => queue'[q] = queue[q]
                    /\ queue'[p].pending = queue[p].pending
                    /\ queue'[p].cur = <<>>
                    /\ queue'[p].done = queue[p].done \union {ref0}
    BY <1>0, <1>6, AcknowledgedEffect
  <2>2. \A q \in Sides : OnWire(q)' \subseteq OnWire(q)
    BY <1>0, <1>6, ArriveEffect DEF Acknowledged
  <2>t. taken => FileId(queue[p].cur[1]) = ref0 /\ queue[p].cur # <<>>
    BY DEF SlotInv
  <2>s. SentOff(p, ref0)
    BY <2>1 DEF SentOff
  <2> HIDE DEF ref0, taken
  <2>3. ASSUME NEW q \in Sides, NEW ref \in Refs, Fresh(q, ref)
        PROVE  Fresh(q, ref)' \/ (q = p /\ ref = ref0 /\ SentOff(q, ref))
    <3>1. CASE ~taken \/ q # p
      <4>1. queue'[q] = queue[q]
        BY <2>1, <3>1
      <4> QED
        BY <2>3, <4>1 DEF Fresh, Held, FileId, IsReceipt
    <3>2. CASE taken /\ q = p /\ ref = ref0
      BY <2>s, <3>2
    <3>3. CASE taken /\ q = p /\ ref # ref0
      <4>1. PICK r \in Held(p) : FileId(r) = ref
        BY <2>3, <3>3 DEF Fresh
      <4>2. Range(queue[p].cur) = {queue[p].cur[1]}
        <5>1. queue[p].cur \in Seq(Rec) /\ Len(queue[p].cur) <= 1 /\ queue[p].cur # <<>>
          BY <1>0, <2>t, <3>3, ElementTypes DEF SlotInv
        <5>2. DOMAIN queue[p].cur = {1}
          BY <5>1
        <5> QED
          BY <5>2 DEF Range
      <4>3. r \in Range(queue[p].pending)
        BY <2>t, <3>3, <4>1, <4>2 DEF Held
      <4>4. r \in Held(p)'
        BY <2>1, <3>3, <4>3 DEF Held
      <4>5. ref \notin queue'[p].done
        BY <2>1, <2>3, <3>3 DEF Fresh
      <4> QED
        BY <3>3, <4>1, <4>4, <4>5 DEF Fresh, FileId, IsReceipt
    <3> QED
      BY <3>1, <3>2, <3>3
  <2>4. \A q \in Sides, ref \in Refs : SentOff(q, ref)' => SentOff(q, ref)
    <3> SUFFICES ASSUME NEW q \in Sides, NEW ref \in Refs, SentOff(q, ref)' PROVE SentOff(q, ref)
      OBVIOUS
    <3>1. queue'[q].done \subseteq queue[q].done \union (IF q = p THEN {ref0} ELSE {})
      BY <2>1
    <3>2. Back(q) \in Sides
      BY SidesPairs
    <3> QED
      BY <2>2, <2>s, <3>1, <3>2 DEF SentOff
  <2> QED
    BY <1>1, <2>3, <2>4, LossKept
<1> QED
  BY <1>3, <1>4, <1>5, <1>6 DEF EgressNext, SocketNext

\* An agent's message is under way once it was accepted.
LEMMA AgentLoss ==
  ASSUME FedTyped, NoLinkTwice, PlaceInv, SentInv, UnderWay, Grows, AgentNext
  PROVE  SentInv' /\ UnderWay'
<1>1. UNCHANGED frames
  BY DEF AgentNext, Send, Answer, RouteEgress, GateTurns, linkVars
<1>2. ASSUME NEW side \in Sides, NEW r \in Rec, ~IsReceipt(r), At(side, <<r.id, FALSE>>, 1),
             queue' = Enqueue(queue, side, r), accepted' = accepted \union {r.id}
      PROVE  SentInv' /\ UnderWay'
  <2>0. FileId(r) = <<r.id, FALSE>>
    BY <1>2 DEF FileId, IsReceipt
  <2>1. /\ \A p \in Sides, ref \in Refs : Fresh(p, ref) => Fresh(p, ref)'
        /\ \A p \in Sides : queue'[p].done = queue[p].done
        /\ Past(r.id, 0)'
    <3>1. 1 \in Nat /\ 0 \in Nat /\ 0 < 1 /\ At(side, FileId(r), 1)
      BY <1>2, <2>0
    <3>2. \A s \in Nat : s < 1 => Past(r.id, s)'
      BY <1>2, <3>1, EnqueuePast
    <3>3. Past(r.id, 0)'
      BY <3>1, <3>2
    <3> QED
      BY <1>2, <3>1, <3>3, EnqueuePast
  <2>2. \A q \in Sides, ref \in Refs : SentOff(q, ref)' => SentOff(q, ref)
    BY <1>1, <2>1 DEF SentOff, OnWire, Back
  <2> QED
    BY <1>2, <2>1, <2>2, LossKept
<1>3. ASSUME NEW m \in Messages, Send(m) PROVE SentInv' /\ UnderWay'
  <2> DEFINE side == <<Home[Plan[m].from], Last(Plan[m].to)>>
             r == Record(<<m, "ask">>, "none", <<Plan[m].from>>, Front(Plan[m].to), 0)
  <2>1. r \in Rec /\ At(side, <<r.id, FALSE>>, 1)
    BY <1>3, AskPlaced
  <2>2. r.id = <<m, "ask">> /\ ~IsReceipt(r)
    BY DEF Record, IsReceipt
  <2>3. side \in Sides /\ queue' = Enqueue(queue, side, r) /\ accepted' = accepted \union {r.id}
    BY <1>3, <2>2 DEF Send, RouteEgress
  <2> HIDE DEF side, r
  <2> QED
    BY <1>2, <2>1, <2>2, <2>3
<1>4. ASSUME NEW a \in Actors, NEW mail \in inbox[a], Answer(a, mail) PROVE SentInv' /\ UnderWay'
  <2> DEFINE side == <<Home[a], Last(mail.from)>>
             r == Record(<<mail.id[1], "answer">>, "none", <<a>>, Front(mail.from), 0)
  <2>1. r \in Rec /\ At(side, <<r.id, FALSE>>, 1)
    BY <1>4, AnswerPlaced
  <2>2. r.id = <<mail.id[1], "answer">> /\ ~IsReceipt(r)
    BY DEF Record, IsReceipt
  <2>3. side \in Sides /\ queue' = Enqueue(queue, side, r) /\ accepted' = accepted \union {r.id}
    BY <1>4, <2>2 DEF Answer, RouteEgress
  <2> HIDE DEF side, r
  <2> QED
    BY <1>2, <2>1, <2>2, <2>3
<1>5. ASSUME NEW r \in Pausable, GateTurns(r) PROVE SentInv' /\ UnderWay'
  <2>1. UNCHANGED <<queue, accepted>>
    BY <1>5 DEF GateTurns, histVars
  <2>2. \A q \in Sides, ref \in Refs : Fresh(q, ref) => Fresh(q, ref)'
    BY <2>1 DEF Fresh, Held, FileId, IsReceipt
  <2>3. \A q \in Sides, ref \in Refs : SentOff(q, ref)' => SentOff(q, ref)
    BY <1>1, <2>1 DEF SentOff, OnWire, Back
  <2> QED
    BY <2>1, <2>2, <2>3, LossKept
<1> QED
  BY <1>3, <1>4, <1>5 DEF AgentNext

\* A handler acknowledges a record when it is further on: queued for the next stage, reported,
\* delivered and reported, or at its end.
LEMMA HandlerLoss ==
  ASSUME FedTyped, NoLinkTwice, PlaceInv, SentInv, UnderWay, Grows,
         NEW h \in handlers, HandlerNext(h) \/ IngressFails(h)
  PROVE  SentInv' /\ UnderWay'
<1>0. /\ h \in Handler /\ h.side \in Sides /\ h.record \in Rec
      /\ Placed(h.record, Back(h.side))
      /\ h.delivered => ~IsReceipt(h.record) /\ Delivered(h.record.id)
  BY DEF FedTyped, HandlersTyped, Handler, PlaceInv, HandlerPlaced
<1>1. UNCHANGED accepted
  BY DEF HandlerNext, IngressFails, Refuse, Transit, Deliver, ReceiptQueued, ReceiptTransit,
     ReceiptComesHome, histVars
<1>2. ASSUME Acks(h), NEW k \in Nat, At(Back(h.side), FileId(h.record), k),
             NEW q \in Sides, NEW r \in Rec, r.id = h.record.id, queue' = Enqueue(queue, q, r),
             NEW t \in Nat, At(q, FileId(r), t), k < t
      PROVE  SentInv' /\ UnderWay'
  <2>1. /\ \A p \in Sides, ref \in Refs : Fresh(p, ref) => Fresh(p, ref)'
        /\ \A p \in Sides : queue'[p].done = queue[p].done
        /\ \A s \in Nat : s < t => Past(r.id, s)'
    BY <1>2, EnqueuePast
  <2>2. Past(h.record.id, k)'
    BY <1>2, <2>1
  <2>3. \A p \in Sides, ref \in Refs : SentOff(p, ref)' =>
          SentOff(p, ref) \/ \A s \in Nat : At(p, ref, s) => Past(ref[1], s)'
    BY <1>2, <2>1, <2>2, AcksSent
  <2> QED
    BY <1>1, <2>1, <2>3, LossKept
<1>3. ASSUME UNCHANGED <<queue, frames>>
      PROVE  SentInv' /\ UnderWay'
  <2>1. \A q \in Sides, ref \in Refs : Fresh(q, ref) => Fresh(q, ref)'
    BY <1>3 DEF Fresh, Held, FileId, IsReceipt
  <2>2. \A q \in Sides, ref \in Refs : SentOff(q, ref)' => SentOff(q, ref)
    BY <1>3 DEF SentOff, OnWire, Back
  <2> QED
    BY <1>1, <2>1, <2>2, LossKept
<1>4. ASSUME NEW code \in Codes \ {"none"}, ~IsReceipt(h.record), code = "ok" => Delivered(h.record.id),
             Acks(h), queue' = Enqueue(queue, h.side, ReceiptFor(h, code))
      PROVE  SentInv' /\ UnderWay'
  <2> DEFINE r == ReceiptFor(h, code)
             k == Len(h.record.from)
             n == Stops(r.id)
  <2>1. /\ r \in Rec /\ r.id = h.record.id
        /\ k \in 1..n - 1
        /\ At(Back(h.side), FileId(h.record), k)
        /\ At(h.side, FileId(r), 2 * n - 1 - k)
    BY <1>0, <1>4, ReceiptPlaced
  <2>2. n \in Nat
    BY <2>1, RecFields, StopFacts
  <2>3. queue' = Enqueue(queue, h.side, r)
    BY <1>4
  <2> HIDE DEF r, k, n
  <2>4. k \in Nat /\ 2 * n - 1 - k \in Nat /\ k < 2 * n - 1 - k
    BY <2>1, <2>2
  <2> QED
    BY <1>0, <1>2, <1>4, <2>1, <2>3, <2>4
<1>5. CASE Refuse(h)
  <2>1. Verdict(h) \in Codes \ {"none"} /\ Verdict(h) # "ok" /\ ~IsReceipt(h.record)
    BY <1>0, <1>5, GateTypes DEF Refuse, AtGate
  <2> QED
    BY <1>4, <1>5, <2>1 DEF Refuse
<1>6. CASE ReceiptQueued(h)
  <2>1. "ok" \in Codes \ {"none"} /\ h.delivered
    BY <1>6 DEF Codes, ReceiptQueued
  <2> QED
    BY <1>0, <1>4, <1>6, <2>1 DEF ReceiptQueued
<1>7. CASE Transit(h)
  <2>1. Verdict(h) = "ok" /\ ~IsReceipt(h.record) /\ IsFqn(h.record.to)
    BY <1>7 DEF Transit, AtGate
  <2> DEFINE r == Forwarded(h)
             next == NextSide(h)
             k == Len(h.record.from)
  <2>2. /\ r \in Rec /\ r.id = h.record.id /\ next \in Sides /\ k \in Nat
        /\ At(Back(h.side), FileId(h.record), k) /\ At(next, FileId(r), k + 1)
    BY <1>0, <2>1, OutwardForwarded
  <2>3. queue' = Enqueue(queue, next, r) /\ Acks(h)
    BY <1>7 DEF Transit
  <2> HIDE DEF r, next, k
  <2>4. k + 1 \in Nat /\ k < k + 1
    BY <2>2
  <2> QED
    BY <1>2, <2>2, <2>3, <2>4
<1>8. CASE ReceiptTransit(h)
  <2> DEFINE r == Forwarded(h)
             next == NextSide(h)
             s == 2 * Stops(r.id) - 1 - Len(h.record.to)
  <2>1. IsReceipt(h.record) /\ IsFqn(h.record.to) /\ Acks(h)
    BY <1>8 DEF ReceiptTransit
  <2>2. /\ r \in Rec /\ r.id = h.record.id /\ next \in Sides /\ s \in Nat
        /\ ~(h.record.hops + 1 > HopCap)
        /\ At(Back(h.side), FileId(h.record), s) /\ At(next, FileId(r), s + 1)
    BY <1>0, <2>1, HomewardForwarded
  <2>3. queue' = Enqueue(queue, next, r)
    BY <1>8, <2>2 DEF ReceiptTransit
  <2> HIDE DEF r, next, s
  <2>4. s + 1 \in Nat /\ s < s + 1
    BY <2>2
  <2> QED
    BY <1>2, <2>1, <2>2, <2>3, <2>4
<1>9. CASE ReceiptComesHome(h)
  <2> DEFINE m == h.record
             n == Stops(m.id)
  <2>1. IsReceipt(m) /\ ~IsFqn(m.to) /\ Acks(h) /\ UNCHANGED queue
    BY <1>9 DEF ReceiptComesHome
  <2>2. /\ FileId(m) = <<m.id, TRUE>>
        /\ At(Back(h.side), <<m.id, TRUE>>, 2 * n - 1 - Len(m.to))
        /\ m.id \in Ids /\ n \in Nat /\ n > 1
    BY <1>0, <2>1, StageOf, StopFacts, RecFields
  <2>3. Len(m.to) = 1
    <3>1. Len(m.to) \in Nat /\ Len(m.to) >= 1
      BY <1>0, RecFields
    <3>2. ~(Len(m.to) > 1)
      BY <2>1 DEF IsFqn
    <3>3. \A x \in Nat : x >= 1 /\ ~(x > 1) => x = 1
      OBVIOUS
    <3> QED
      BY <3>1, <3>2, <3>3
  <2>4. /\ Back(h.side) = Back(Hop(m.id, 1)) /\ Writes(m.to[1], m.id)
        /\ m.code = "ok" => Delivered(m.id)
    BY <1>0, <2>1, <2>3 DEF Placed, Homeward
  <2>5. h.side[1] = Stop(m.id, 1)
    <3>1. h.side = Back(Back(h.side))
      BY <1>0, HandlerFields
    <3>2. h.side = Hop(m.id, 1)
      BY <2>4, <3>1 DEF Back, Hop
    <3> QED
      BY <3>2 DEF Hop
  <2>6. Over(m.id)'
    <3>1. CASE m.code = "ok"
      BY <2>4, <3>1, OverStays DEF Over
    <3>2. CASE m.code # "ok"
      <4>1. m.to[1] \in Actors /\ Wrote(m.to[1], m.id) /\ QueueKeyOf(h.side[1], m.to[1])
        BY <2>4, <2>5 DEF Writes, QueueKeyOf
      <4>2. <<m.to[1], m.id>> \in notices'
        BY <1>9, <3>2, <4>1 DEF ReceiptComesHome
      <4>3. Wrote(m.to[1], m.id)'
        BY <4>1, OverStays
      <4> QED
        BY <4>1, <4>2, <4>3 DEF Over, Told
    <3> QED
      BY <3>1, <3>2
  <2> DEFINE k == 2 * n - 1 - Len(m.to)
  <2>7. k \in Nat /\ At(Back(h.side), FileId(m), k)
    BY <2>2, <2>3
  <2>8. Past(m.id, k)'
    BY <2>6 DEF Past
  <2> HIDE DEF k
  <2>9. \A p \in Sides, ref \in Refs : SentOff(p, ref)' =>
          SentOff(p, ref) \/ \A s \in Nat : At(p, ref, s) => Past(ref[1], s)'
    BY <2>1, <2>7, <2>8, AcksSent
  <2>10. \A q \in Sides, ref \in Refs : Fresh(q, ref) => Fresh(q, ref)'
    BY <2>1 DEF Fresh, Held, FileId, IsReceipt
  <2> QED
    BY <1>1, <2>9, <2>10, LossKept
<1>10. CASE Deliver(h) \/ IngressFails(h)
  BY <1>3, <1>10 DEF Deliver, IngressFails, linkVars
<1> QED
  BY <1>5, <1>6, <1>7, <1>8, <1>9, <1>10 DEF HandlerNext

\* No step loses sight of an envelope.
LEMMA LossStep ==
  ASSUME FedTyped, OwnNames, NoLinkTwice, PlaceInv, LossInv, [Next]_vars
  PROVE  LossInv'
<1>0. Grows /\ SlotInv' /\ SlotInv /\ SentInv /\ UnderWay
  BY InboxGrows, SlotStep DEF LossInv
<1>1. CASE \E p \in Sides : EgressNext(p) \/ SocketNext(p)
  BY <1>0, <1>1, LinkLoss DEF LossInv
<1>2. CASE \E h \in handlers : HandlerNext(h) \/ IngressFails(h)
  BY <1>0, <1>2, HandlerLoss DEF LossInv
<1>3. CASE AgentNext
  BY <1>0, <1>3, AgentLoss DEF LossInv
<1>4. CASE (\E s \in Servers : Crash(s)) \/ UNCHANGED vars
  <2>1. UNCHANGED <<queue, accepted>>
    BY <1>4 DEF Crash, vars, histVars
  <2>2. Range(<<>>) = {}
    BY DEF Range
  <2>3. \A q \in Sides : frames'[q] = frames[q] \/ frames'[q] = <<>>
    BY <1>4 DEF Crash, vars, linkVars
  <2>4. \A q \in Sides : OnWire(q)' \subseteq OnWire(q)
    BY <2>2, <2>3 DEF OnWire
  <2>5. \A q \in Sides, ref \in Refs : SentOff(q, ref)' => SentOff(q, ref)
    BY <2>1, <2>4, SidesPairs DEF SentOff
  <2>6. \A q \in Sides, ref \in Refs : Fresh(q, ref) => Fresh(q, ref)'
    BY <2>1 DEF Fresh, Held, FileId, IsReceipt
  <2>7. SentInv' /\ UnderWay'
    BY <1>0, <2>1, <2>5, <2>6, LossKept
  <2> QED
    BY <1>0, <2>7 DEF LossInv
<1> QED
  BY <1>1, <1>2, <1>3, <1>4 DEF Next

\* At the start nothing was accepted.
LEMMA LossInit ==
  ASSUME Init
  PROVE  PlaceInv /\ LossInv
<1>1. Range(<<>>) = {}
  BY DEF Range
<1>2. \A p \in Sides : /\ Held(p) = {} /\ OnWire(p) = {}
                       /\ queue[p].done = {} /\ queue[p].cur = <<>> /\ push[p].waits = FALSE
  BY <1>1 DEF Init, Held, OnWire
<1>3. PlaceInv
  BY <1>2 DEF Init, PlaceInv
<1>4. SlotInv
  <2>1. Len(<<>>) <= 1
    OBVIOUS
  <2> QED
    BY <1>2, <2>1 DEF SlotInv
<1>5. SentInv
  BY <1>2, SidesPairs DEF SentInv, SentOff
<1>6. UnderWay
  BY DEF Init, UnderWay
<1> QED
  BY <1>3, <1>4, <1>5, <1>6 DEF LossInv

\* "asynchronously, never lost silently" (router, federated ingress), over any topology
\* whose exports keep their names and any plan that takes no link twice in one direction:
\* whatever crashes, closes, times out or is refused, an accepted message was delivered,
\* its sender was told that it was not, or some server's queue still has to send it or its
\* receipt on (#routeFederatedEgress, the egress dispatchers, the handlers of received records).
THEOREM NothingIsLostSilently ==
  ASSUME OwnNames, NoLinkTwice
  PROVE  Spec => []NeverLostSilently
<1> DEFINE Whole == PlaceInv /\ LossInv
<1>1. Init => Whole
  BY LossInit
<1>2. FedTyped /\ Whole /\ [Next]_vars => Whole'
  BY PlaceStep, LossStep
<1>3. Whole => NeverLostSilently
  <2> SUFFICES ASSUME LossInv, NEW id \in accepted
               PROVE  Delivered(id) \/ Told(id) \/ OnItsWay(id)
    BY DEF NeverLostSilently
  <2>1. Past(id, 0)
    BY DEF LossInv, UnderWay
  <2>2. CASE Over(id)
    BY <2>2 DEF Over
  <2>3. CASE ~Over(id)
    <3>1. PICK p \in Sides, back \in BOOLEAN : Fresh(p, <<id, back>>)
      BY <2>1, <2>3 DEF Past
    <3>2. PICK r \in Held(p) : FileId(r) = <<id, back>> /\ FileId(r) \notin queue[p].done
      BY <3>1 DEF Fresh
    <3>3. r.id = id
      BY <3>2 DEF FileId
    <3> QED
      BY <3>2, <3>3 DEF OnItsWay
  <2> QED
    BY <2>2, <2>3
<1> HIDE DEF Whole
<1> QED
  BY <1>1, <1>2, <1>3, FederationTyped, PTL DEF Spec

-----------------------------------------------------------------------------
(* Reports are true. *)

\* Where an envelope or its receipt can be: in a queue, in the hand of its egress that
\* has not sent it yet, on a wire, or with a handler; and what each place says of it.
\* (A record stays in cur/ until it is acknowledged: only before its first push is that
\* a copy of its own.)
RecordsOf(id) == {r \in Rec : r.id = id}
FramesOf(id) == {f \in RecordFrame : f.record.id = id}
HandlersOf(p, id) == {h \in handlers : h.side = p /\ h.record.id = id}
Says(h) == IF h.delivered THEN "ok" ELSE h.record.code

Queued(p, id) == {r.code : r \in Range(queue[p].pending) \intersect RecordsOf(id)}
Ready(p, id) ==
  IF push[p].sent = NoReply THEN {r.code : r \in Range(queue[p].cur) \intersect RecordsOf(id)}
  ELSE {}
Travelling(p, id) == {f.record.code : f \in OnWire(p) \intersect FramesOf(id)}
Working(p, id) == {Says(h) : h \in HandlersOf(p, id)}

Stays == {"queue", "hand", "wire", "handler"}
Copies(k, p, id) ==
  IF k = "queue" THEN Queued(p, id) ELSE IF k = "hand" THEN Ready(p, id)
  ELSE IF k = "wire" THEN Travelling(p, id) ELSE Working(p, id)

\* There is one copy at a time, of an envelope or of its receipt; once the envelope is
\* delivered it speaks of success; who is told of a failure hears it last.
Once(s, E) == \A i, j \in DOMAIN s : s[i] \in E /\ s[j] \in E => i = j
Alone(hs, id) == \A h, g \in hs : h.record.id = id /\ g.record.id = id => h = g
Single(id) ==
  /\ \A p \in Sides : Once(queue[p].pending, RecordsOf(id)) /\ Once(frames[p], FramesOf(id))
  /\ Alone(handlers, id)
OnePlace(id) == \A k, l \in Stays, p, q \in Sides :
  Copies(k, p, id) # {} /\ Copies(l, q, id) # {} => k = l /\ p = q
Nowhere(id) == \A k \in Stays, p \in Sides : Copies(k, p, id) = {}
Noticed(id) == \E a \in Actors : <<a, id>> \in notices
SpeaksTrue(id) == Delivered(id) => \A k \in Stays, p \in Sides : Copies(k, p, id) \subseteq {"ok"}
HeardLast(id) == Noticed(id) => Nowhere(id) /\ ~Delivered(id)
OneCopy(id) == Single(id) /\ OnePlace(id) /\ SpeaksTrue(id) /\ HeardLast(id)

\* What goes with it: an egress knows what it sent, and ids are known everywhere only
\* from those who were told that they are accepted.
SendsOne == \A p \in Sides :
  /\ Len(queue[p].cur) <= 1
  /\ push[p].sent # NoReply => queue[p].cur # <<>> /\ push[p].sent = queue[p].cur[1].id
  /\ push[p].waits => push[p].sent # NoReply
Known ==
  /\ \A p \in Sides : \A r \in Held(p) : r.id \in accepted
  /\ \A p \in Sides : \A f \in OnWire(p) : f.type = "record" => f.record.id \in accepted
  /\ \A h \in handlers : h.record.id \in accepted /\ (h.delivered => ~IsReceipt(h.record))
  /\ \A a \in Actors : \A mail \in inbox[a] : mail.id \in accepted
  /\ \A n \in notices : n[2] \in accepted
ReportInv == SendsOne /\ Known /\ \A id \in Ids \ repeated : OneCopy(id)

\* An arrival in a queue that holds none of its kind is the only one of it.
LEMMA OnceAppend ==
  ASSUME NEW S, NEW s \in Seq(S), NEW e \in S, NEW E, Once(s, E),
         e \in E => Range(s) \intersect E = {}
  PROVE  Once(Append(s, e), E)
<1> DEFINE q == Append(s, e)
           n == Len(s)
<1>1. /\ n \in Nat /\ DOMAIN s = 1..n /\ DOMAIN q = 1..(n + 1)
      /\ \A i \in 1..n : q[i] = s[i]
      /\ q[n + 1] = e
  OBVIOUS
<1> HIDE DEF q, n
<1>2. \A i \in 1..(n + 1) : i \in 1..n \/ i = n + 1
  BY <1>1
<1>3. \A i \in 1..n : s[i] \in Range(s)
  BY <1>1 DEF Range
<1>4. ASSUME NEW i \in 1..(n + 1), NEW j \in 1..(n + 1), q[i] \in E, q[j] \in E
      PROVE  i = j
  <2>1. CASE i \in 1..n /\ j \in 1..n
    BY <1>1, <1>4, <2>1 DEF Once
  <2>2. CASE i = n + 1 /\ j \in 1..n
    BY <1>1, <1>3, <1>4, <2>2
  <2>3. CASE i \in 1..n /\ j = n + 1
    BY <1>1, <1>3, <1>4, <2>3
  <2> QED
    BY <1>2, <1>4, <2>1, <2>2, <2>3
<1>5. Once(q, E)
  BY <1>1, <1>4 DEF Once
<1> QED
  BY <1>5 DEF q

\* When the only one of its kind is taken, none is left.
LEMMA OnceTail ==
  ASSUME NEW S, NEW s \in Seq(S), s # <<>>, NEW E, Once(s, E)
  PROVE  /\ Once(Tail(s), E)
         /\ Head(s) \in E => Range(Tail(s)) \intersect E = {}
<1> DEFINE q == Tail(s)
           n == Len(s)
<1>1. /\ n \in Nat /\ n >= 1 /\ DOMAIN s = 1..n /\ DOMAIN q = 1..(n - 1)
      /\ \A i \in 1..(n - 1) : q[i] = s[i + 1]
      /\ Head(s) = s[1]
  OBVIOUS
<1> HIDE DEF q, n
<1>2. \A i \in 1..(n - 1) : i + 1 \in 1..n /\ i + 1 # 1
  BY <1>1
<1>3. 1 \in 1..n
  BY <1>1
<1>4. \A i, j \in 1..(n - 1) : i + 1 = j + 1 => i = j
  BY <1>1
<1>5. Once(q, E)
  BY <1>1, <1>2, <1>4 DEF Once
<1>6. ASSUME s[1] \in E, NEW i \in 1..(n - 1) PROVE q[i] \notin E
  BY <1>1, <1>2, <1>3, <1>6 DEF Once
<1>7. s[1] \in E => Range(q) \intersect E = {}
  BY <1>1, <1>6 DEF Range
<1> QED
  BY <1>1, <1>5, <1>7 DEF q

\* A step that adds no copy keeps the one there is.
LEMMA CopiesFade ==
  ASSUME NEW id \in Ids, OneCopy(id), Single(id)',
         \A k \in Stays, p \in Sides : Copies(k, p, id)' \subseteq Copies(k, p, id),
         Delivered(id)' => Delivered(id), Noticed(id)' => Noticed(id)
  PROVE  OneCopy(id)'
<1>1. OnePlace(id)'
  BY DEF OneCopy, OnePlace
<1>2. SpeaksTrue(id)'
  BY DEF OneCopy, SpeaksTrue
<1>3. HeardLast(id)'
  BY DEF OneCopy, HeardLast, Nowhere
<1> QED
  BY <1>1, <1>2, <1>3 DEF OneCopy

\* A step that moves the copy from one place to another, or changes it in its place.
LEMMA CopyMoves ==
  ASSUME NEW id \in Ids, OneCopy(id), Single(id)',
         NEW k \in Stays, NEW p \in Sides, NEW l \in Stays, NEW q \in Sides,
         Copies(k, p, id) # {},
         (k = l /\ p = q) \/ Copies(k, p, id)' = {},
         \A j \in Stays, o \in Sides :
           ~(j = l /\ o = q) => Copies(j, o, id)' \subseteq Copies(j, o, id),
         Delivered(id)' => Copies(l, q, id)' \subseteq {"ok"},
         Noticed(id)' => Noticed(id)
  PROVE  OneCopy(id)'
<1>1. \A j \in Stays, o \in Sides : ~(j = k /\ o = p) => Copies(j, o, id) = {}
  BY DEF OneCopy, OnePlace
<1>2. \A j \in Stays, o \in Sides : ~(j = l /\ o = q) => Copies(j, o, id)' = {}
  BY <1>1
<1>3. ~Noticed(id)
  BY DEF OneCopy, HeardLast, Nowhere
<1>4. OnePlace(id)'
  BY <1>2 DEF OnePlace
<1>5. SpeaksTrue(id)'
  BY <1>2 DEF SpeaksTrue
<1>6. HeardLast(id)'
  BY <1>3 DEF HeardLast
<1> QED
  BY <1>4, <1>5, <1>6 DEF OneCopy

\* The places of a copy, one by one.
LEMMA FourStays ==
  ASSUME NEW k \in Stays, NEW p, NEW id
  PROVE  /\ k = "queue" => Copies(k, p, id) = Queued(p, id)
         /\ k = "hand" => Copies(k, p, id) = Ready(p, id)
         /\ k = "wire" => Copies(k, p, id) = Travelling(p, id)
         /\ k = "handler" => Copies(k, p, id) = Working(p, id)
         /\ k \in {"queue", "hand", "wire", "handler"}
  BY DEF Stays, Copies

\* An id is never the mark of an egress that has sent nothing.
LEMMA IdIsNoMark ==
  ASSUME NEW id \in Ids
  PROVE  id # NoReply
<1>1. PICK m \in Messages, k \in {"ask", "answer"} : id = <<m, k>>
  BY DEF Ids
<1>2. Len(<<m, k>>) = 2 /\ Len(<<>>) = 0
  OBVIOUS
<1> QED
  BY <1>1, <1>2 DEF NoReply

\* What an enqueue adds, and that it is the only one where there was none.
LEMMA EnqueueCopies ==
  ASSUME LinksTyped, NEW q \in Sides, NEW r \in Rec, queue' = Enqueue(queue, q, r), UNCHANGED push,
         NEW id \in Ids, \A p \in Sides : Once(queue[p].pending, RecordsOf(id)),
         r.id = id => Queued(q, id) = {}
  PROVE  /\ \A p \in Sides : Once(queue[p].pending, RecordsOf(id))'
         /\ \A p \in Sides : Ready(p, id)' = Ready(p, id)
         /\ \A p \in Sides : p # q \/ r.id # id => Queued(p, id)' = Queued(p, id)
         /\ r.id = id => Queued(q, id)' = {r.code}
<1> DEFINE s == queue[q].pending
<1>1. s \in Seq(Rec) /\ queue \in [Sides -> LinkQueue] /\ queue[q] \in LinkQueue
  BY ElementTypes DEF LinksTyped
<1>2. /\ \A p \in Sides : p # q => queue'[p] = queue[p]
      /\ queue'[q] = [queue[q] EXCEPT !.pending = Append(s, r)]
  BY <1>1 DEF Enqueue
<1>3. queue'[q].pending = Append(s, r) /\ queue'[q].cur = queue[q].cur
  BY <1>1, <1>2 DEF LinkQueue
<1>4. Range(Append(s, r)) = Range(s) \union {r}
  BY <1>1, RangeAppend
<1>5. r \in RecordsOf(id) <=> r.id = id
  BY DEF RecordsOf
<1>6. r.id = id => Range(s) \intersect RecordsOf(id) = {}
  BY DEF Queued
<1>7. Once(Append(s, r), RecordsOf(id))
  BY <1>1, <1>5, <1>6, OnceAppend
<1> HIDE DEF s
<1>8. \A p \in Sides : Ready(p, id)' = Ready(p, id)
  BY <1>2, <1>3 DEF Ready
<1>9. r.id = id => Queued(q, id)' = {r.code}
  <2> SUFFICES ASSUME r.id = id PROVE Queued(q, id)' = {r.code}
    OBVIOUS
  <2>1. (Range(s) \union {r}) \intersect RecordsOf(id) = {r}
    BY <1>5, <1>6
  <2> QED
    BY <1>3, <1>4, <2>1 DEF Queued
<1>10. r.id # id => Queued(q, id)' = Queued(q, id)
  <2> SUFFICES ASSUME r.id # id PROVE Queued(q, id)' = Queued(q, id)
    OBVIOUS
  <2>1. (Range(s) \union {r}) \intersect RecordsOf(id) = Range(s) \intersect RecordsOf(id)
    BY <1>5
  <2> QED
    BY <1>3, <1>4, <2>1 DEF Queued, s
<1>11. \A p \in Sides : p # q => Queued(p, id)' = Queued(p, id)
  BY <1>2 DEF Queued
<1>12. \A p \in Sides : Once(queue[p].pending, RecordsOf(id))'
  BY <1>2, <1>3, <1>7
<1> QED
  BY <1>8, <1>9, <1>10, <1>11, <1>12

\* What a frame adds to the wires.
LEMMA SendCopies ==
  ASSUME LinksTyped, NEW q \in Sides, NEW f \in Frame, frames' = SendFrame(frames, q, f),
         NEW id \in Ids, \A p \in Sides : Once(frames[p], FramesOf(id)),
         f \in FramesOf(id) => Travelling(q, id) = {}
  PROVE  /\ \A p \in Sides : Once(frames[p], FramesOf(id))'
         /\ \A p \in Sides : p # q \/ f \notin FramesOf(id) => Travelling(p, id)' = Travelling(p, id)
         /\ f \in FramesOf(id) => Travelling(q, id)' \subseteq {f.record.code}
<1>1. frames \in [Sides -> Seq(Frame)] /\ frames[q] \in Seq(Frame)
  BY ElementTypes DEF LinksTyped
<1>2. CASE ~Wired(q)
  BY <1>2 DEF SendFrame, Travelling, OnWire
<1>3. CASE Wired(q)
  <2> DEFINE s == frames[q]
  <2>1. frames' = [frames EXCEPT ![q] = Append(s, f)]
    BY <1>3 DEF SendFrame
  <2>2. frames'[q] = Append(s, f) /\ \A p \in Sides : p # q => frames'[p] = frames[p]
    BY <1>1, <2>1
  <2>3. Range(Append(s, f)) = Range(s) \union {f}
    BY <1>1, RangeAppend
  <2>4. f \in FramesOf(id) => Range(s) \intersect FramesOf(id) = {}
    BY DEF Travelling, OnWire
  <2>5. Once(Append(s, f), FramesOf(id))
    BY <1>1, <2>4, OnceAppend
  <2> HIDE DEF s
  <2>6. \A p \in Sides : Once(frames[p], FramesOf(id))'
    BY <2>2, <2>5
  <2>7. \A p \in Sides : p # q => Travelling(p, id)' = Travelling(p, id)
    BY <2>2 DEF Travelling, OnWire
  <2>8. ASSUME f \notin FramesOf(id) PROVE Travelling(q, id)' = Travelling(q, id)
    <3>1. (Range(s) \union {f}) \intersect FramesOf(id) = Range(s) \intersect FramesOf(id)
      BY <2>8
    <3> QED
      BY <2>2, <2>3, <3>1 DEF Travelling, OnWire, s
  <2>9. ASSUME f \in FramesOf(id) PROVE Travelling(q, id)' \subseteq {f.record.code}
    <3>1. (Range(s) \union {f}) \intersect FramesOf(id) = {f}
      BY <2>4, <2>9
    <3> QED
      BY <2>2, <2>3, <3>1 DEF Travelling, OnWire
  <2> QED
    BY <2>6, <2>7, <2>8, <2>9
<1> QED
  BY <1>2, <1>3

\* A handler that acknowledges takes its copy with it.
LEMMA AcksCopies ==
  ASSUME FedTyped, NEW h \in handlers, Acks(h), NEW id \in Ids, Single(id)
  PROVE  /\ \A p \in Sides : Once(frames[p], FramesOf(id))' /\ Travelling(p, id)' = Travelling(p, id)
         /\ Alone(handlers, id)'
         /\ \A p \in Sides : Working(p, id)' \subseteq Working(p, id)
         /\ h.record.id = id => \A p \in Sides : Working(p, id)' = {}
         /\ h.record.id = id => h.side \in Sides /\ Says(h) \in Working(h.side, id)
         /\ UNCHANGED push
<1> DEFINE a == [type |-> "ack", ref |-> FileId(h.record)]
<1>1. h \in Handler /\ h.side \in Sides /\ h.record \in Rec /\ LinksTyped
  BY DEF FedTyped, HandlersTyped, Handler
<1>2. a \in Frame /\ a \notin FramesOf(id)
  <2>1. h.record.id \in Ids
    BY <1>1 DEF Rec
  <2>2. FileId(h.record) \in Refs
    BY <2>1 DEF FileId, IsReceipt, Refs
  <2>3. a \in AckFrame
    BY <2>2 DEF AckFrame
  <2>4. a.type = "ack"
    OBVIOUS
  <2>5. \A f \in FramesOf(id) : f.type = "record"
    BY DEF FramesOf, RecordFrame
  <2>6. "ack" # "record"
    OBVIOUS
  <2> HIDE DEF a
  <2> QED
    BY <2>3, <2>4, <2>5, <2>6 DEF Frame
<1>3. frames' = (IF h.heard THEN SendFrame(frames, h.side, a) ELSE frames)
      /\ handlers' = handlers \ {h} /\ UNCHANGED push
  BY DEF Acks
<1>4. \A p \in Sides : Once(frames[p], FramesOf(id))
  BY DEF Single
<1> HIDE DEF a
<1>5. \A p \in Sides : Once(frames[p], FramesOf(id))' /\ Travelling(p, id)' = Travelling(p, id)
  <2>1. CASE h.heard
    <3>1. frames' = SendFrame(frames, h.side, a)
      BY <1>3, <2>1
    <3> QED
      BY <1>1, <1>2, <1>4, <3>1, SendCopies
  <2>2. CASE ~h.heard
    <3>1. frames' = frames
      BY <1>3, <2>2
    <3> QED
      BY <1>4, <3>1 DEF Travelling, OnWire
  <2> QED
    BY <2>1, <2>2
<1>6. Alone(handlers, id)'
  BY <1>3 DEF Single, Alone
<1>7. \A p \in Sides : Working(p, id)' \subseteq Working(p, id)
  BY <1>3 DEF Working, HandlersOf, Says
<1>8. h.record.id = id => \A p \in Sides : Working(p, id)' = {}
  BY <1>3 DEF Working, HandlersOf, Single, Alone
<1>9. h.record.id = id => Says(h) \in Working(h.side, id)
  BY DEF Working, HandlersOf
<1> QED
  BY <1>1, <1>3, <1>5, <1>6, <1>7, <1>8, <1>9

\* Taking the first frame off a wire.
LEMMA ArriveCopies ==
  ASSUME LinksTyped, NEW p \in Sides, NEW type \in {"record", "ack"}, Arrives(p, type),
         NEW id \in Ids, \A q \in Sides : Once(frames[q], FramesOf(id))
  PROVE  /\ \A q \in Sides : Once(frames[q], FramesOf(id))'
         /\ \A q \in Sides : Travelling(q, id)' \subseteq Travelling(q, id)
         /\ Head(frames[Back(p)]) \in FramesOf(id) =>
              /\ Travelling(Back(p), id)' = {}
              /\ Head(frames[Back(p)]).record.code \in Travelling(Back(p), id)
<1> DEFINE b == Back(p)
           s == frames[b]
<1>1. b \in Sides /\ frames \in [Sides -> Seq(Frame)] /\ s \in Seq(Frame) /\ s # <<>>
  BY SidesPairs DEF LinksTyped, Arrives
<1>2. frames' = [frames EXCEPT ![b] = Tail(s)]
  BY DEF Arrives
<1>3. frames'[b] = Tail(s) /\ \A q \in Sides : q # b => frames'[q] = frames[q]
  BY <1>1, <1>2
<1>4. /\ Range(Tail(s)) \subseteq Range(s) /\ Head(s) \in Range(s)
  BY <1>1, RangeTail
<1>5. /\ Once(Tail(s), FramesOf(id))
      /\ Head(s) \in FramesOf(id) => Range(Tail(s)) \intersect FramesOf(id) = {}
  BY <1>1, OnceTail
<1>6. s = frames[b] /\ b = Back(p)
  OBVIOUS
<1> HIDE DEF s, b
<1>7. \A q \in Sides : Once(frames[q], FramesOf(id))'
  BY <1>3, <1>5
<1>8. \A q \in Sides : Travelling(q, id)' \subseteq Travelling(q, id)
  <2> SUFFICES ASSUME NEW q \in Sides PROVE Travelling(q, id)' \subseteq Travelling(q, id)
    OBVIOUS
  <2>1. OnWire(q)' \subseteq OnWire(q)
    BY <1>3, <1>4, <1>6 DEF OnWire
  <2> QED
    BY <2>1 DEF Travelling
<1>9. ASSUME Head(s) \in FramesOf(id)
      PROVE  Travelling(b, id)' = {} /\ Head(s).record.code \in Travelling(b, id)
  BY <1>3, <1>4, <1>5, <1>6, <1>9 DEF Travelling, OnWire
<1> QED
  BY <1>6, <1>7, <1>8, <1>9

\* A wire that is cut carries nothing.
LEMMA CutCopies ==
  ASSUME NEW id \in Ids, \A q \in Sides : Once(frames[q], FramesOf(id)),
         \A q \in Sides : frames'[q] = frames[q] \/ frames'[q] = <<>>
  PROVE  /\ \A q \in Sides : Once(frames[q], FramesOf(id))'
         /\ \A q \in Sides : Travelling(q, id)' \subseteq Travelling(q, id)
<1>1. Range(<<>>) = {} /\ Once(<<>>, FramesOf(id))
  BY DEF Range, Once
<1> QED
  BY <1>1 DEF Travelling, OnWire

\* A handler whose connection went away works on: it is only not heard any more.
LEMMA UnheardCopies ==
  ASSUME NEW p \in Sides, NEW hs, NEW id \in Ids, Alone(hs, id), hs \subseteq Handler
  PROVE  /\ Alone(Unheard(p, hs), id)
         /\ Unheard(p, hs) \subseteq Handler
         /\ \A h \in Unheard(p, hs) : \E g \in hs : SameWork(h, g)
<1> DEFINE deaf(h) == IF h.side = p THEN [h EXCEPT !.heard = FALSE] ELSE h
<1>1. \A h \in Handler : deaf(h) \in Handler /\ SameWork(deaf(h), h)
  BY DEF Handler, SameWork
<1>2. Unheard(p, hs) = {deaf(h) : h \in hs}
  BY DEF Unheard
<1> HIDE DEF deaf
<1>3. \A h \in hs : deaf(h).record = h.record
  BY <1>1 DEF SameWork
<1> QED
  BY <1>1, <1>2, <1>3 DEF Alone

\* Disturbances only lose copies.
LEMMA FewerCopies ==
  ASSUME NEW id \in Ids, OneCopy(id), UNCHANGED <<queue, inbox, notices>>,
         \A p \in Sides : push'[p].sent = push[p].sent,
         \A q \in Sides : frames'[q] = frames[q] \/ frames'[q] = <<>>,
         Alone(handlers', id), \A h \in handlers' : \E g \in handlers : SameWork(h, g)
  PROVE  OneCopy(id)'
<1>1. /\ \A q \in Sides : Once(frames[q], FramesOf(id))'
      /\ \A q \in Sides : Travelling(q, id)' \subseteq Travelling(q, id)
  BY CutCopies DEF OneCopy, Single
<1>2. Single(id)'
  BY <1>1 DEF OneCopy, Single, Alone
<1>3. \A p \in Sides : Queued(p, id)' = Queued(p, id) /\ Ready(p, id)' = Ready(p, id)
  BY DEF Queued, Ready
<1>4. \A p \in Sides : Working(p, id)' \subseteq Working(p, id)
  BY DEF Working, HandlersOf, Says, SameWork
<1>5. \A k \in Stays, p \in Sides : Copies(k, p, id)' \subseteq Copies(k, p, id)
  BY <1>1, <1>3, <1>4 DEF Copies
<1>6. (Delivered(id)' => Delivered(id)) /\ (Noticed(id)' => Noticed(id))
  BY DEF Delivered, Noticed
<1> QED
  BY <1>2, <1>5, <1>6, CopiesFade

\* Sockets that break and are replaced, servers that crash, acknowledgements that do not come.
LEMMA DisturbedCopies ==
  ASSUME FedTyped, NEW id \in Ids, OneCopy(id),
         \/ \E p \in Sides : AckTimeout(p) \/ Connect(p) \/ Close(p) \/ StaleClose(p)
         \/ \E s \in Servers : Crash(s)
  PROVE  OneCopy(id)'
<1>0. /\ push \in [Sides -> [waits : BOOLEAN, sent : Ids \union {NoReply}]]
      /\ frames \in [Sides -> Seq(Frame)] /\ handlers \subseteq Handler
      /\ Alone(handlers, id)
  BY DEF FedTyped, LinksTyped, HandlersTyped, OneCopy, Single
<1>1. \A p \in Sides : \A q \in Sides : Rejected(p)[q].sent = push[q].sent
  BY <1>0 DEF Rejected
<1>2. ASSUME NEW p \in Sides, AckTimeout(p) PROVE OneCopy(id)'
  <2>1. \A q \in Sides : push'[q].sent = push[q].sent
    BY <1>1, <1>2 DEF AckTimeout
  <2>2. UNCHANGED <<queue, inbox, notices, frames, handlers>>
    BY <1>2 DEF AckTimeout, actorVars
  <2>3. \A h \in handlers' : \E g \in handlers : SameWork(h, g)
    BY <2>2 DEF SameWork
  <2> QED
    BY <1>0, <2>1, <2>2, <2>3, FewerCopies
<1>3. ASSUME NEW p \in Sides, StaleClose(p) PROVE OneCopy(id)'
  <2>1. \A q \in Sides : push'[q].sent = push[q].sent
    BY <1>1, <1>3 DEF StaleClose
  <2>2. UNCHANGED <<queue, inbox, notices, frames, handlers>>
    BY <1>3 DEF StaleClose, actorVars
  <2>3. \A h \in handlers' : \E g \in handlers : SameWork(h, g)
    BY <2>2 DEF SameWork
  <2> QED
    BY <1>0, <2>1, <2>2, <2>3, FewerCopies
<1>4. ASSUME NEW p \in Sides, Close(p) PROVE OneCopy(id)'
  <2>1. \A q \in Sides : push'[q].sent = push[q].sent
    BY <1>1, <1>4 DEF Close
  <2>2. UNCHANGED <<queue, inbox, notices>>
    BY <1>4 DEF Close, actorVars
  <2>3. frames' = [frames EXCEPT ![Back(p)] = <<>>] /\ handlers' = Unheard(p, handlers)
    BY <1>4 DEF Close
  <2>4. \A q \in Sides : frames'[q] = frames[q] \/ frames'[q] = <<>>
    BY <1>0, <2>3
  <2>5. Alone(handlers', id) /\ \A h \in handlers' : \E g \in handlers : SameWork(h, g)
    BY <1>0, <2>3, UnheardCopies
  <2> QED
    BY <2>1, <2>2, <2>4, <2>5, FewerCopies
<1>5. ASSUME NEW p \in Sides, Connect(p) PROVE OneCopy(id)'
  <2>1. UNCHANGED <<queue, inbox, notices, push>>
    BY <1>5 DEF Connect, actorVars
  <2>2. /\ frames' = [frames EXCEPT ![p] = <<>>, ![Back(p)] = <<>>]
        /\ handlers' = Unheard(p, Unheard(Back(p), handlers))
    BY <1>5 DEF Connect
  <2>3. \A q \in Sides : frames'[q] = frames[q] \/ frames'[q] = <<>>
    BY <1>0, <2>2, SidesPairs
  <2> DEFINE hs == Unheard(Back(p), handlers)
  <2>4. Back(p) \in Sides
    BY SidesPairs
  <2>5. Alone(hs, id) /\ hs \subseteq Handler /\ \A h \in hs : \E g \in handlers : SameWork(h, g)
    BY <1>0, <2>4, UnheardCopies
  <2>6. handlers' = Unheard(p, hs)
    BY <2>2
  <2> HIDE DEF hs
  <2>7. Alone(handlers', id) /\ \A h \in handlers' : \E g \in hs : SameWork(h, g)
    BY <2>5, <2>6, UnheardCopies
  <2>8. \A h \in handlers' : \E g \in handlers : SameWork(h, g)
    BY <2>5, <2>7 DEF SameWork
  <2> QED
    BY <2>1, <2>3, <2>7, <2>8, FewerCopies
<1>6. ASSUME NEW s \in Servers, Crash(s) PROVE OneCopy(id)'
  <2>1. UNCHANGED <<queue, inbox, notices>>
    BY <1>6 DEF Crash, actorVars
  <2>2. \A q \in Sides : push'[q].sent = push[q].sent
    BY <1>0, <1>6 DEF Crash
  <2>3. \A q \in Sides : frames'[q] = frames[q] \/ frames'[q] = <<>>
    BY <1>6 DEF Crash
  <2>4. handlers' \subseteq handlers
    BY <1>6 DEF Crash
  <2>5. Alone(handlers', id) /\ \A h \in handlers' : \E g \in handlers : SameWork(h, g)
    BY <1>0, <2>4 DEF Alone, SameWork
  <2> QED
    BY <2>1, <2>2, <2>3, <2>5, FewerCopies
<1> QED
  BY <1>2, <1>3, <1>4, <1>5, <1>6

\* dequeue moves the copy from the queue into the hand of its egress.
LEMMA DequeueCopies ==
  ASSUME FedTyped, SendsOne, NEW id \in Ids, OneCopy(id), NEW p \in Sides, Dequeue(p)
  PROVE  OneCopy(id)'
<1> DEFINE s == queue[p].pending
           r == Head(s)
           c == IF FileId(r) \in queue[p].done THEN <<>> ELSE <<r>>
<1>1. /\ queue \in [Sides -> LinkQueue] /\ queue[p] \in LinkQueue /\ s \in Seq(Rec) /\ s # <<>>
      /\ queue[p].cur = <<>> /\ queue' = [queue EXCEPT ![p].pending = Tail(s), ![p].cur = c]
      /\ UNCHANGED <<push, frames, handlers, inbox, notices>>
  BY ElementTypes DEF FedTyped, LinksTyped, Dequeue, linkVars, actorVars
<1>2. /\ queue'[p].pending = Tail(s) /\ queue'[p].cur = c
      /\ \A q \in Sides : q # p => queue'[q] = queue[q]
  BY <1>1 DEF LinkQueue
<1>3. push[p].sent = NoReply
  BY <1>1 DEF SendsOne
<1>4. /\ Range(Tail(s)) \subseteq Range(s) /\ r \in Range(s) /\ r \in Rec
  BY <1>1, RangeTail, ElementTypes DEF FedTyped, Held
<1>5. /\ Once(Tail(s), RecordsOf(id))
      /\ r \in RecordsOf(id) => Range(Tail(s)) \intersect RecordsOf(id) = {}
  BY <1>1, OnceTail DEF OneCopy, Single
<1>6. Range(c) \subseteq {r}
  BY DEF Range
<1>7. s = queue[p].pending
  OBVIOUS
<1> HIDE DEF s, r, c
<1>8. Single(id)'
  BY <1>1, <1>2, <1>5 DEF OneCopy, Single, Alone
<1>9. \A q \in Sides : Queued(q, id)' \subseteq Queued(q, id)
  <2> SUFFICES ASSUME NEW q \in Sides PROVE Queued(q, id)' \subseteq Queued(q, id)
    OBVIOUS
  <2>1. Range(queue'[q].pending) \subseteq Range(queue[q].pending)
    BY <1>2, <1>4, <1>7
  <2> QED
    BY <2>1 DEF Queued
<1>10. \A q \in Sides : /\ Travelling(q, id)' = Travelling(q, id)
                        /\ Working(q, id)' = Working(q, id)
                        /\ q # p => Ready(q, id)' = Ready(q, id)
  BY <1>1, <1>2 DEF Travelling, OnWire, Working, HandlersOf, Ready
<1>11. Ready(p, id)' \subseteq {e.code : e \in {r} \intersect RecordsOf(id)}
  BY <1>2, <1>6 DEF Ready
<1>12. (Delivered(id)' => Delivered(id)) /\ (Noticed(id)' => Noticed(id))
  BY <1>1 DEF Delivered, Noticed
<1>13. CASE r \notin RecordsOf(id)
  <2>1. Ready(p, id)' = {}
    BY <1>11, <1>13
  <2>2. \A k \in Stays, q \in Sides : Copies(k, q, id)' \subseteq Copies(k, q, id)
    BY <1>9, <1>10, <2>1 DEF Copies
  <2> QED
    BY <1>8, <1>12, <2>2, CopiesFade
<1>14. CASE r \in RecordsOf(id)
  <2>1. /\ Queued(p, id)' = {} /\ r.code \in Queued(p, id) /\ Ready(p, id)' \subseteq {r.code}
    BY <1>2, <1>4, <1>5, <1>7, <1>11, <1>14 DEF Queued
  <2>2. "queue" \in Stays /\ "hand" \in Stays
    BY DEF Stays
  <2>3. Delivered(id)' => Copies("hand", p, id)' \subseteq {"ok"}
    BY <1>12, <2>1, <2>2 DEF OneCopy, SpeaksTrue, Copies
  <2>4. Copies("queue", p, id) # {} /\ Copies("queue", p, id)' = {}
    BY <2>1 DEF Copies
  <2>5. \A j \in Stays, o \in Sides :
          ~(j = "hand" /\ o = p) => Copies(j, o, id)' \subseteq Copies(j, o, id)
    BY <1>9, <1>10 DEF Copies
  <2> QED
    BY <1>8, <1>12, <2>2, <2>3, <2>4, <2>5, CopyMoves
<1> QED
  BY <1>13, <1>14

\* #push moves it from the hand to the wire; a second push of it is a repetition.
LEMMA PushCopies ==
  ASSUME FedTyped, SendsOne, NEW id \in Ids \ repeated', OneCopy(id), NEW p \in Sides, Push(p)
  PROVE  OneCopy(id)'
<1> DEFINE r == queue[p].cur[1]
           f == [type |-> "record", record |-> Wired1(r)]
<1>1. /\ queue[p].cur \in Seq(Rec) /\ Len(queue[p].cur) <= 1 /\ queue[p].cur # <<>> /\ LinksTyped
      /\ push \in [Sides -> [waits : BOOLEAN, sent : Ids \union {NoReply}]]
  BY ElementTypes DEF FedTyped, LinksTyped, SendsOne, Push
<1>2. r \in Rec /\ Range(queue[p].cur) = {r}
  <2>1. ASSUME NEW s \in Seq(Rec), Len(s) <= 1, s # <<>>
        PROVE  s[1] \in Rec /\ DOMAIN s = {1}
    <3>1. Len(s) = 1 /\ DOMAIN s = 1..Len(s)
      <4>1. Len(s) \in Nat /\ DOMAIN s = 1..Len(s)
        OBVIOUS
      <4>2. Len(s) # 0
        BY <2>1, EmptySeq
      <4>3. \A n \in Nat : n <= 1 /\ n # 0 => n = 1
        OBVIOUS
      <4> QED
        BY <2>1, <4>1, <4>2, <4>3
    <3>2. 1..1 = {1}
      OBVIOUS
    <3>3. s[1] \in Rec
      BY <3>1
    <3> QED
      BY <3>1, <3>2, <3>3
  <2>2. r \in Rec /\ DOMAIN queue[p].cur = {1}
    BY <1>1, <2>1
  <2> QED
    BY <2>2 DEF Range
<1>3. /\ frames' = SendFrame(frames, p, f)
      /\ push' = [push EXCEPT ![p] = [waits |-> TRUE, sent |-> r.id]]
      /\ repeated' = IF push[p].sent = r.id THEN repeated \union {r.id} ELSE repeated
      /\ UNCHANGED <<queue, handlers, inbox, notices>>
  BY DEF Push, Wired1, actorVars
<1>4. push[p].sent # NoReply => push[p].sent = r.id
  BY DEF SendsOne
<1>5. Wired1(r) \in Rec /\ Wired1(r).id = r.id /\ Wired1(r).code = r.code
  <2>1. Wired1(r) \in Rec /\ Wired1(r).id = r.id
    BY <1>2, PushKeepsWay
  <2>2. Wired1(r).code = r.code
    BY <1>2 DEF Wired1, Rec
  <2> QED
    BY <2>1, <2>2
<1>6. r.id \in Ids /\ r.id # NoReply
  BY <1>2, RecFields, IdIsNoMark
<1> HIDE DEF r
<1>7. f \in RecordFrame /\ f.record.id = r.id /\ f.record.code = r.code
  BY <1>5 DEF RecordFrame
<1>8. f \in Frame /\ (f \in FramesOf(id) <=> r.id = id)
  BY <1>7 DEF Frame, FramesOf
<1> HIDE DEF f
<1>9. /\ push'[p].sent = r.id /\ \A q \in Sides : q # p => push'[q] = push[q]
  BY <1>1, <1>3
<1>10. /\ Ready(p, id)' = {}
       /\ \A q \in Sides : q # p => Ready(q, id)' = Ready(q, id)
  BY <1>3, <1>6, <1>9 DEF Ready
<1>11. \A q \in Sides : Queued(q, id)' = Queued(q, id) /\ Working(q, id)' = Working(q, id)
  BY <1>3 DEF Queued, Working, HandlersOf
<1>12. (Delivered(id)' => Delivered(id)) /\ (Noticed(id)' => Noticed(id))
  BY <1>3 DEF Delivered, Noticed
<1>13. \A q \in Sides : Once(frames[q], FramesOf(id))
  BY DEF OneCopy, Single
<1>14. Travelling(p, id) = {} \/ r.id # id => Single(id)'
  <2> SUFFICES ASSUME Travelling(p, id) = {} \/ r.id # id PROVE Single(id)'
    OBVIOUS
  <2>1. \A q \in Sides : Once(frames[q], FramesOf(id))'
    BY <1>1, <1>3, <1>8, <1>13, SendCopies
  <2> QED
    BY <1>3, <2>1 DEF OneCopy, Single, Alone
<1>15. CASE r.id # id
  <2>1. \A q \in Sides : Travelling(q, id)' = Travelling(q, id)
    BY <1>1, <1>3, <1>8, <1>13, <1>15, SendCopies
  <2>2. \A k \in Stays, q \in Sides : Copies(k, q, id)' \subseteq Copies(k, q, id)
    BY <1>10, <1>11, <2>1 DEF Copies
  <2> QED
    BY <1>12, <1>14, <1>15, <2>2, CopiesFade
<1>16. CASE r.id = id
  <2>1. push[p].sent = NoReply
    BY <1>3, <1>4, <1>16
  <2>2. Ready(p, id) = {r.code}
    <3>1. {r} \intersect RecordsOf(id) = {r}
      BY <1>2, <1>16 DEF RecordsOf
    <3> QED
      BY <1>2, <2>1, <3>1 DEF Ready
  <2>3. "hand" \in Stays /\ "wire" \in Stays /\ "hand" # "wire"
    BY DEF Stays
  <2>4. Copies("hand", p, id) = {r.code} /\ Copies("hand", p, id)' = {}
    BY <1>10, <2>2 DEF Copies
  <2>5. Travelling(p, id) = {}
    BY <2>3, <2>4 DEF OneCopy, OnePlace, Copies
  <2>6. /\ \A q \in Sides : q # p => Travelling(q, id)' = Travelling(q, id)
        /\ Travelling(p, id)' \subseteq {r.code}
    BY <1>1, <1>3, <1>7, <1>8, <1>13, <1>16, <2>5, SendCopies
  <2>7. Delivered(id)' => Copies("wire", p, id)' \subseteq {"ok"}
    BY <1>12, <2>3, <2>4, <2>6 DEF OneCopy, SpeaksTrue, Copies
  <2>8. \A j \in Stays, o \in Sides :
          ~(j = "wire" /\ o = p) => Copies(j, o, id)' \subseteq Copies(j, o, id)
    BY <1>10, <1>11, <2>6 DEF Copies
  <2> QED
    BY <1>12, <1>14, <2>3, <2>4, <2>5, <2>7, <2>8, CopyMoves
<1> QED
  BY <1>15, <1>16

\* An acknowledgement completes a record that was sent: the copy is elsewhere.
LEMMA AcknowledgedCopies ==
  ASSUME FedTyped, NEW id \in Ids, OneCopy(id), NEW p \in Sides, Acknowledged(p)
  PROVE  OneCopy(id)'
<1> DEFINE ref == Head(frames[Back(p)]).ref
           taken == push[p].waits /\ FileId(queue[p].cur[1]) = ref
<1>1. LinksTyped /\ \A q \in Sides : Once(frames[q], FramesOf(id))
  BY DEF FedTyped, OneCopy, Single
<1>2. /\ ~taken => queue' = queue /\ push' = push
      /\ taken => /\ \A q \in Sides : q # p => queue'[q] = queue[q]
                  /\ queue'[p].pending = queue[p].pending
                  /\ queue'[p].cur = <<>>
                  /\ push' = [push EXCEPT ![p] = [waits |-> FALSE, sent |-> NoReply]]
  BY <1>1, AcknowledgedEffect
<1>3. /\ UNCHANGED <<handlers, inbox, notices>> /\ Arrives(p, "ack")
  BY DEF Acknowledged, actorVars
<1> HIDE DEF ref, taken
<1>4. /\ \A q \in Sides : Once(frames[q], FramesOf(id))'
      /\ \A q \in Sides : Travelling(q, id)' \subseteq Travelling(q, id)
  BY <1>1, <1>3, ArriveCopies
<1>5. \A q \in Sides : queue'[q].pending = queue[q].pending
  BY <1>2
<1>6. Single(id)'
  BY <1>3, <1>4, <1>5 DEF OneCopy, Single, Alone
<1>7. \A q \in Sides : Ready(q, id)' \subseteq Ready(q, id)
  <2>1. CASE ~taken
    BY <1>2, <2>1 DEF Ready
  <2>2. CASE taken
    <3>1. Range(<<>>) = {}
      BY DEF Range
    <3>2. Ready(p, id)' = {}
      BY <1>2, <2>2, <3>1 DEF Ready
    <3>3. \A q \in Sides : q # p => queue'[q].cur = queue[q].cur /\ push'[q] = push[q]
      BY <1>1, <1>2, <2>2 DEF LinksTyped
    <3>4. \A q \in Sides : q # p => Ready(q, id)' = Ready(q, id)
      BY <3>3 DEF Ready
    <3> QED
      BY <3>2, <3>4
  <2> QED
    BY <2>1, <2>2
<1>8. \A q \in Sides : Queued(q, id)' = Queued(q, id) /\ Working(q, id)' = Working(q, id)
  BY <1>3, <1>5 DEF Queued, Working, HandlersOf
<1>9. \A k \in Stays, q \in Sides : Copies(k, q, id)' \subseteq Copies(k, q, id)
  BY <1>4, <1>7, <1>8 DEF Copies
<1>10. (Delivered(id)' => Delivered(id)) /\ (Noticed(id)' => Noticed(id))
  BY <1>3 DEF Delivered, Noticed
<1> QED
  BY <1>6, <1>9, <1>10, CopiesFade

\* A record that arrives is the handler's.
LEMMA ReceivedCopies ==
  ASSUME FedTyped, NEW id \in Ids, OneCopy(id), NEW p \in Sides, Received(p)
  PROVE  OneCopy(id)'
<1> DEFINE f == Head(frames[Back(p)])
           new == [side |-> p, record |-> f.record, delivered |-> FALSE, heard |-> TRUE]
<1>1. LinksTyped /\ Back(p) \in Sides /\ \A q \in Sides : Once(frames[q], FramesOf(id))
  BY SidesPairs DEF FedTyped, OneCopy, Single
<1>2. /\ UNCHANGED <<queue, push, inbox, notices>> /\ Arrives(p, "record")
      /\ handlers' = handlers \union {new}
  BY DEF Received, actorVars
<1>3. /\ \A q \in Sides : Once(frames[q], FramesOf(id))'
      /\ \A q \in Sides : Travelling(q, id)' \subseteq Travelling(q, id)
      /\ f \in FramesOf(id) => Travelling(Back(p), id)' = {}
                               /\ f.record.code \in Travelling(Back(p), id)
  BY <1>1, <1>2, ArriveCopies
<1>4. f \in RecordFrame
  <2>1. f \in Frame /\ f.type = "record"
    BY <1>1, <1>2, ArriveEffect, ElementTypes
  <2>2. f \notin AckFrame
    BY <2>1 DEF AckFrame
  <2> QED
    BY <2>1, <2>2 DEF Frame
<1> HIDE DEF f
<1>5. f \in FramesOf(id) <=> f.record.id = id
  BY <1>4 DEF FramesOf
<1>6. \A q \in Sides : Queued(q, id)' = Queued(q, id) /\ Ready(q, id)' = Ready(q, id)
  BY <1>2 DEF Queued, Ready
<1>7. new.side = p /\ new.record = f.record /\ Says(new) = f.record.code
  BY DEF Says
<1> HIDE DEF new
<1>8. (Delivered(id)' => Delivered(id)) /\ (Noticed(id)' => Noticed(id))
  BY <1>2 DEF Delivered, Noticed
<1>9. \A q \in Sides : q # p \/ f.record.id # id => Working(q, id)' = Working(q, id)
  <2> SUFFICES ASSUME NEW q \in Sides, q # p \/ f.record.id # id
               PROVE  Working(q, id)' = Working(q, id)
    OBVIOUS
  <2>1. HandlersOf(q, id)' = HandlersOf(q, id)
    BY <1>2, <1>7 DEF HandlersOf
  <2> QED
    BY <2>1 DEF Working
<1>10. CASE f.record.id # id
  <2>1. Single(id)'
    BY <1>2, <1>3, <1>7, <1>10 DEF OneCopy, Single, Alone
  <2>2. \A k \in Stays, q \in Sides : Copies(k, q, id)' \subseteq Copies(k, q, id)
    BY <1>3, <1>6, <1>9, <1>10 DEF Copies
  <2> QED
    BY <1>8, <2>1, <2>2, CopiesFade
<1>11. CASE f.record.id = id
  <2>1. "wire" \in Stays /\ "handler" \in Stays /\ "wire" # "handler"
    BY DEF Stays
  <2>2. /\ Copies("wire", Back(p), id)' = {}
        /\ f.record.code \in Copies("wire", Back(p), id)
    BY <1>3, <1>5, <1>11 DEF Copies
  <2>3. \A q \in Sides : Working(q, id) = {}
    BY <1>1, <2>1, <2>2 DEF OneCopy, OnePlace, Copies
  <2>4. \A h \in handlers : h.record.id # id
    <3>1. \A h \in handlers : h.side \in Sides
      BY DEF FedTyped, HandlersTyped, Handler
    <3> QED
      BY <2>3, <3>1 DEF Working, HandlersOf
  <2>5. Single(id)'
    BY <1>2, <1>3, <2>4 DEF OneCopy, Single, Alone
  <2>6. Working(p, id)' \subseteq {f.record.code}
    <3>1. HandlersOf(p, id)' \subseteq {new}
      BY <1>2, <2>4 DEF HandlersOf
    <3> QED
      BY <1>7, <3>1 DEF Working
  <2>7. Delivered(id)' => Copies("handler", p, id)' \subseteq {"ok"}
    BY <1>1, <1>8, <2>1, <2>2, <2>6 DEF OneCopy, SpeaksTrue, Copies
  <2>8. ASSUME NEW j \in Stays, NEW o \in Sides, ~(j = "handler" /\ o = p)
        PROVE  Copies(j, o, id)' \subseteq Copies(j, o, id)
    <3>1. CASE j = "handler"
      <4>1. Working(o, id)' = Working(o, id)
        BY <1>9, <2>8, <3>1
      <4> QED
        BY <3>1, <4>1 DEF Copies
    <3>2. CASE j # "handler"
      BY <1>3, <1>6, <3>2 DEF Copies, Stays
    <3> QED
      BY <3>1, <3>2
  <2>9. Copies("wire", Back(p), id) # {}
    BY <2>2
  <2> QED
    BY <1>1, <1>8, <2>1, <2>2, <2>5, <2>7, <2>8, <2>9, CopyMoves
<1> QED
  BY <1>10, <1>11

\* A handler that queues the record again, or a receipt of it, passes its copy on.
LEMMA HandlerPasses ==
  ASSUME FedTyped, NEW id \in Ids, OneCopy(id), NEW h \in handlers, Acks(h),
         NEW q \in Sides, NEW r \in Rec, queue' = Enqueue(queue, q, r),
         r.id = h.record.id, Says(h) = "ok" => r.code = "ok", UNCHANGED <<inbox, notices>>
  PROVE  OneCopy(id)'
<1>1. Single(id) /\ LinksTyped
  BY DEF OneCopy, FedTyped
<1>2. /\ \A p \in Sides : Once(frames[p], FramesOf(id))' /\ Travelling(p, id)' = Travelling(p, id)
      /\ Alone(handlers, id)'
      /\ \A p \in Sides : Working(p, id)' \subseteq Working(p, id)
      /\ r.id = id => \A p \in Sides : Working(p, id)' = {}
      /\ r.id = id => h.side \in Sides /\ Says(h) \in Working(h.side, id)
      /\ UNCHANGED push
  BY <1>1, AcksCopies
<1>3. "handler" \in Stays /\ "queue" \in Stays /\ "handler" # "queue"
  BY DEF Stays
<1>4. r.id = id => Copies("handler", h.side, id) # {} /\ Copies("handler", h.side, id)' = {}
  BY <1>2 DEF Copies
<1>5. r.id = id => Queued(q, id) = {}
  BY <1>2, <1>3, <1>4 DEF OneCopy, OnePlace, Copies
<1>6. /\ \A p \in Sides : Once(queue[p].pending, RecordsOf(id))'
      /\ \A p \in Sides : Ready(p, id)' = Ready(p, id)
      /\ \A p \in Sides : p # q \/ r.id # id => Queued(p, id)' = Queued(p, id)
      /\ r.id = id => Queued(q, id)' = {r.code}
  <2>1. \A p \in Sides : Once(queue[p].pending, RecordsOf(id))
    BY <1>1 DEF Single
  <2> QED
    BY <1>1, <1>2, <1>5, <2>1, EnqueueCopies
<1>7. Single(id)'
  BY <1>2, <1>6 DEF Single
<1>8. (Delivered(id)' => Delivered(id)) /\ (Noticed(id)' => Noticed(id))
  BY DEF Delivered, Noticed
<1>9. ASSUME NEW k \in Stays, NEW p \in Sides, ~(k = "queue" /\ p = q) \/ r.id # id
      PROVE  Copies(k, p, id)' \subseteq Copies(k, p, id)
  <2>1. CASE k = "queue"
    <3>1. Queued(p, id)' = Queued(p, id)
      BY <1>6, <1>9, <2>1
    <3> QED
      BY <2>1, <3>1 DEF Copies
  <2>2. CASE k # "queue"
    BY <1>2, <1>6, <2>2 DEF Copies, Stays
  <2> QED
    BY <2>1, <2>2
<1>10. CASE r.id # id
  BY <1>7, <1>8, <1>9, <1>10, CopiesFade
<1>11. CASE r.id = id
  <2>1. Delivered(id)' => Copies("queue", q, id)' \subseteq {"ok"}
    <3> SUFFICES ASSUME Delivered(id) PROVE Copies("queue", q, id)' \subseteq {"ok"}
      BY <1>8
    <3>1. Copies("handler", h.side, id) \subseteq {"ok"}
      BY <1>2, <1>3, <1>11 DEF OneCopy, SpeaksTrue
    <3>2. Says(h) = "ok"
      BY <1>2, <1>11, <3>1 DEF Copies
    <3> QED
      BY <1>6, <1>11, <3>2 DEF Copies
  <2>2. \A j \in Stays, o \in Sides :
          ~(j = "queue" /\ o = q) => Copies(j, o, id)' \subseteq Copies(j, o, id)
    BY <1>9
  <2>3. h.side \in Sides
    BY <1>2, <1>11
  <2>4. Copies("handler", h.side, id) # {} /\ Copies("handler", h.side, id)' = {}
    BY <1>4, <1>11
  <2> QED
    BY <1>3, <1>7, <1>8, <2>1, <2>2, <2>3, <2>4, CopyMoves
<1> QED
  BY <1>10, <1>11

\* A handler that ends and queues nothing: the copy is gone.
LEMMA HandlerEnds ==
  ASSUME FedTyped, NEW id \in Ids, OneCopy(id), NEW h \in handlers,
         Acks(h), UNCHANGED queue
  PROVE  /\ Single(id)'
         /\ \A k \in Stays, p \in Sides : Copies(k, p, id)' \subseteq Copies(k, p, id)
         /\ h.record.id = id => Nowhere(id)'
<1>1. Single(id)
  BY DEF OneCopy
<1>2. /\ \A p \in Sides : Once(frames[p], FramesOf(id))' /\ Travelling(p, id)' = Travelling(p, id)
      /\ Alone(handlers, id)'
      /\ \A p \in Sides : Working(p, id)' \subseteq Working(p, id)
      /\ h.record.id = id => \A p \in Sides : Working(p, id)' = {}
      /\ h.record.id = id => h.side \in Sides /\ Says(h) \in Working(h.side, id)
      /\ UNCHANGED push
  BY <1>1, AcksCopies
<1>3. \A p \in Sides : Queued(p, id)' = Queued(p, id) /\ Ready(p, id)' = Ready(p, id)
  BY <1>2 DEF Queued, Ready
<1>4. Single(id)'
  BY <1>1, <1>2 DEF Single
<1>5. \A k \in Stays, p \in Sides : Copies(k, p, id)' \subseteq Copies(k, p, id)
  BY <1>2, <1>3 DEF Copies
<1>6. ASSUME h.record.id = id PROVE Nowhere(id)'
  <2>1. "handler" \in Stays /\ Copies("handler", h.side, id) # {} /\ h.side \in Sides
    BY <1>2, <1>6 DEF Copies, Stays
  <2>2. \A k \in Stays, p \in Sides : k # "handler" => Copies(k, p, id) = {}
    BY <2>1 DEF OneCopy, OnePlace
  <2>3. \A p \in Sides : Copies("handler", p, id)' = {}
    BY <1>2, <1>6 DEF Copies
  <2> QED
    BY <1>5, <2>2, <2>3 DEF Nowhere
<1> QED
  BY <1>4, <1>5, <1>6

\* Delivery changes what the handler will say, in its place.
LEMMA DeliverCopies ==
  ASSUME FedTyped, NEW id \in Ids, OneCopy(id), NEW h \in handlers, Deliver(h)
  PROVE  OneCopy(id)'
<1> DEFINE g == [h EXCEPT !.delivered = TRUE]
<1>1. h \in Handler /\ h.side \in Sides /\ g.side = h.side /\ g.record = h.record /\ g.delivered = TRUE
  BY DEF FedTyped, HandlersTyped, Handler
<1>2. PICK r \in Recipients(h) :
        inbox' = [inbox EXCEPT ![r] = @ \union {[id |-> h.record.id, from |-> Stamped(h)]}]
  BY DEF Deliver
<1>3. handlers' = (handlers \ {h}) \union {g} /\ UNCHANGED <<queue, push, frames, notices>>
  BY DEF Deliver, linkVars
<1> HIDE DEF g
<1>4. Single(id)'
  <2>1. Alone(handlers', id)
    BY <1>1, <1>3 DEF OneCopy, Single, Alone
  <2> QED
    BY <1>3, <2>1 DEF OneCopy, Single
<1>5. \A p \in Sides : /\ Queued(p, id)' = Queued(p, id) /\ Ready(p, id)' = Ready(p, id)
                       /\ Travelling(p, id)' = Travelling(p, id)
  BY <1>3 DEF Queued, Ready, Travelling, OnWire
<1>6. Noticed(id)' => Noticed(id)
  BY <1>3 DEF Noticed
<1>7. CASE h.record.id # id
  <2>1. \A p \in Sides : HandlersOf(p, id)' = HandlersOf(p, id)
    BY <1>1, <1>3, <1>7 DEF HandlersOf
  <2>2. \A p \in Sides : Working(p, id)' = Working(p, id)
    BY <2>1 DEF Working
  <2>3. \A k \in Stays, p \in Sides : Copies(k, p, id)' \subseteq Copies(k, p, id)
    BY <1>5, <2>2 DEF Copies
  <2>4. Delivered(id)' => Delivered(id)
    <3>1. inbox \in [Actors -> SUBSET Mail]
      BY DEF FedTyped, ActorsTyped
    <3>2. \A a \in Actors : \A mail \in inbox'[a] : mail \in inbox[a] \/ mail.id = h.record.id
      BY <1>2, <3>1
    <3> QED
      BY <1>7, <3>2 DEF Delivered
  <2> QED
    BY <1>4, <1>6, <2>3, <2>4, CopiesFade
<1>8. CASE h.record.id = id
  <2>1. \A p \in Sides : HandlersOf(p, id)' \subseteq (IF p = h.side THEN {g} ELSE {})
    <3>1. \A x \in handlers : x.record.id = id => x = h
      BY <1>8 DEF OneCopy, Single, Alone
    <3> QED
      BY <1>1, <1>3, <3>1 DEF HandlersOf
  <2>2. /\ \A p \in Sides : p # h.side => Working(p, id)' = {}
        /\ Working(h.side, id)' \subseteq {"ok"}
    BY <1>1, <2>1 DEF Working, Says
  <2>3. "handler" \in Stays /\ Says(h) \in Copies("handler", h.side, id)
    BY <1>1, <1>8 DEF Stays, Copies, Working, HandlersOf
  <2>4. ASSUME NEW k \in Stays, NEW p \in Sides, ~(k = "handler" /\ p = h.side)
        PROVE  Copies(k, p, id)' \subseteq Copies(k, p, id)
    <3>1. CASE k = "handler"
      <4>1. Working(p, id)' = {}
        BY <2>2, <2>4, <3>1
      <4> QED
        BY <3>1, <4>1 DEF Copies
    <3>2. CASE k # "handler"
      BY <1>5, <3>2 DEF Copies, Stays
    <3> QED
      BY <3>1, <3>2
  <2>5. Copies("handler", h.side, id)' \subseteq {"ok"}
    BY <2>2 DEF Copies
  <2>6. \A k \in Stays, p \in Sides :
          ~(k = "handler" /\ p = h.side) => Copies(k, p, id)' \subseteq Copies(k, p, id)
    BY <2>4
  <2>7. Copies("handler", h.side, id) # {}
    BY <2>3
  <2> QED
    BY <1>1, <1>4, <1>6, <2>3, <2>5, <2>6, <2>7, CopyMoves
<1> QED
  BY <1>7, <1>8

\* What a handler does, and the disk that refuses.
LEMMA HandlerCopies ==
  ASSUME FedTyped, Known, NEW id \in Ids, OneCopy(id), NEW h \in handlers,
         HandlerNext(h) \/ IngressFails(h)
  PROVE  OneCopy(id)'
<1>1. /\ h \in Handler /\ h.side \in Sides /\ h.record \in Rec
      /\ h.delivered => ~IsReceipt(h.record)
  BY DEF FedTyped, HandlersTyped, Handler, Known
<1>2. ASSUME NEW code \in Codes \ {"none"}, Says(h) = "ok" => code = "ok", Acks(h),
             queue' = Enqueue(queue, h.side, ReceiptFor(h, code)), UNCHANGED actorVars
      PROVE  OneCopy(id)'
  <2>1. /\ ReceiptFor(h, code) \in Rec
        /\ ReceiptFor(h, code).id = h.record.id /\ ReceiptFor(h, code).code = code
    <3>1. 0 \in Nat
      OBVIOUS
    <3>2. ReceiptFor(h, code) \in Rec
      BY <1>1, <1>2, <3>1 DEF ReceiptFor, Record, Rec
    <3> QED
      BY <3>2 DEF ReceiptFor, Record
  <2> QED
    BY <1>1, <1>2, <2>1, HandlerPasses DEF actorVars
<1>3. CASE Refuse(h)
  <2>1. /\ Verdict(h) \in Codes \ {"none"} /\ ~IsReceipt(h.record) /\ ~h.delivered
        /\ Acks(h) /\ UNCHANGED actorVars
        /\ queue' = Enqueue(queue, h.side, ReceiptFor(h, Verdict(h)))
    BY <1>1, <1>3, GateTypes DEF Refuse, AtGate
  <2>2. Says(h) # "ok"
    BY <2>1 DEF Says, IsReceipt
  <2> QED
    BY <1>2, <2>1, <2>2
<1>4. CASE ReceiptQueued(h)
  <2>1. "ok" \in Codes \ {"none"}
    BY DEF Codes
  <2> QED
    BY <1>2, <1>4, <2>1 DEF ReceiptQueued
<1>5. ASSUME IsFqn(h.record.to), ~h.delivered, Acks(h), NextSide(h) \in Sides,
             queue' = Enqueue(queue, NextSide(h), Forwarded(h)), UNCHANGED actorVars
      PROVE  OneCopy(id)'
  <2>1. /\ Forwarded(h) \in Rec /\ Forwarded(h).id = h.record.id
        /\ Forwarded(h).code = h.record.code
    BY <1>1, <1>5, ForwardKeepsWay
  <2>2. Says(h) = "ok" => Forwarded(h).code = "ok"
    BY <1>5, <2>1 DEF Says
  <2> QED
    BY <1>5, <2>1, <2>2, HandlerPasses DEF actorVars
<1>6. CASE Transit(h)
  <2>1. NextSide(h) \in Sides
    BY <1>6 DEF Transit, Verdict, Onward
  <2> QED
    BY <1>5, <1>6, <2>1 DEF Transit, AtGate
<1>7. CASE Deliver(h)
  BY <1>7, DeliverCopies
<1>8. CASE ReceiptTransit(h) /\ queue' # queue
  <2>1. NextSide(h) \in Sides /\ queue' = Enqueue(queue, NextSide(h), Forwarded(h))
    BY <1>8 DEF ReceiptTransit
  <2> QED
    BY <1>1, <1>5, <1>8, <2>1 DEF ReceiptTransit
<1>9. CASE ReceiptTransit(h) /\ queue' = queue
  <2>1. Acks(h) /\ UNCHANGED <<queue, inbox, notices>>
    BY <1>9 DEF ReceiptTransit, actorVars
  <2>2. (Delivered(id)' => Delivered(id)) /\ (Noticed(id)' => Noticed(id))
    BY <2>1 DEF Delivered, Noticed
  <2> QED
    BY <2>1, <2>2, HandlerEnds, CopiesFade
<1>10. CASE ReceiptComesHome(h)
  <2>1. Acks(h) /\ UNCHANGED <<queue, inbox>> /\ IsReceipt(h.record)
    BY <1>10 DEF ReceiptComesHome
  <2>2. /\ Single(id)'
        /\ \A k \in Stays, p \in Sides : Copies(k, p, id)' \subseteq Copies(k, p, id)
        /\ h.record.id = id => Nowhere(id)'
    BY <2>1, HandlerEnds
  <2>3. Delivered(id)' <=> Delivered(id)
    BY <2>1 DEF Delivered
  <2>4. CASE Noticed(id)' => Noticed(id)
    BY <2>2, <2>3, <2>4, CopiesFade
  <2>5. CASE Noticed(id)' /\ ~Noticed(id)
    <3>1. h.record.id = id /\ h.record.code # "ok"
      BY <1>10, <2>5 DEF ReceiptComesHome, Noticed
    <3>2. Says(h) # "ok"
      BY <1>1, <2>1, <3>1 DEF Says
    <3>3. ~Delivered(id)
      <4>1. "handler" \in Stays /\ Says(h) \in Copies("handler", h.side, id)
        BY <1>1, <3>1 DEF Stays, Copies, Working, HandlersOf
      <4> QED
        BY <1>1, <3>2, <4>1 DEF OneCopy, SpeaksTrue
    <3> QED
      BY <2>2, <2>3, <3>1, <3>3 DEF OneCopy, OnePlace, SpeaksTrue, HeardLast, Nowhere
  <2> QED
    BY <2>4, <2>5
<1>11. CASE IngressFails(h)
  <2>1. UNCHANGED <<queue, push, frames, inbox, notices>> /\ handlers' = handlers \ {h}
    BY <1>11 DEF IngressFails, linkVars, actorVars
  <2>2. Alone(handlers', id) /\ \A x \in handlers' : \E g \in handlers : SameWork(x, g)
    BY <2>1 DEF OneCopy, Single, Alone, SameWork
  <2> QED
    BY <2>1, <2>2, FewerCopies
<1> QED
  BY <1>3, <1>4, <1>6, <1>7, <1>8, <1>9, <1>10, <1>11 DEF HandlerNext

\* An id that nobody was told of is nowhere.
LEMMA UnknownIsNowhere ==
  ASSUME FedTyped, Known, NEW id \in Ids \ accepted
  PROVE  Nowhere(id) /\ ~Delivered(id) /\ ~Noticed(id)
<1>1. \A p \in Sides : Queued(p, id) = {} /\ Ready(p, id) = {}
  BY DEF Queued, Ready, Known, Held, RecordsOf
<1>2. \A p \in Sides : Travelling(p, id) = {}
  BY DEF Travelling, Known, FramesOf, RecordFrame
<1>3. \A p \in Sides : Working(p, id) = {}
  BY DEF Working, HandlersOf, Known
<1>4. Nowhere(id)
  BY <1>1, <1>2, <1>3 DEF Nowhere, Copies
<1> QED
  BY <1>4 DEF Known, Delivered, Noticed

\* An agent's message is the first copy there ever was.
LEMMA RouteCopies ==
  ASSUME FedTyped, Known, NEW id \in Ids, OneCopy(id), NEW a, NEW fqn, NEW i \in Ids \ accepted,
         Record(i, "none", <<a>>, Front(fqn), 0) \in Rec, RouteEgress(a, fqn, i)
  PROVE  OneCopy(id)'
<1> DEFINE r == Record(i, "none", <<a>>, Front(fqn), 0)
           q == <<Home[a], Last(fqn)>>
<1>1. /\ q \in Sides /\ r \in Rec /\ queue' = Enqueue(queue, q, r)
      /\ UNCHANGED <<push, frames, handlers, inbox, notices>>
  BY DEF RouteEgress, linkVars, actorVars
<1>2. r.id = i
  BY DEF Record
<1> HIDE DEF r, q
<1>3. r.id = id => Nowhere(id) /\ ~Delivered(id) /\ ~Noticed(id)
  BY <1>2, UnknownIsNowhere
<1>4. r.id = id => Queued(q, id) = {}
  BY <1>1, <1>3 DEF Nowhere, Copies, Stays
<1>5. /\ \A p \in Sides : Once(queue[p].pending, RecordsOf(id))'
      /\ \A p \in Sides : Ready(p, id)' = Ready(p, id)
      /\ \A p \in Sides : p # q \/ r.id # id => Queued(p, id)' = Queued(p, id)
  <2>1. LinksTyped /\ \A p \in Sides : Once(queue[p].pending, RecordsOf(id))
    BY DEF FedTyped, OneCopy, Single
  <2> QED
    BY <1>1, <1>4, <2>1, EnqueueCopies
<1>6. Single(id)'
  BY <1>1, <1>5 DEF OneCopy, Single, Alone
<1>7. \A p \in Sides : Travelling(p, id)' = Travelling(p, id) /\ Working(p, id)' = Working(p, id)
  BY <1>1 DEF Travelling, OnWire, Working, HandlersOf
<1>8. (Delivered(id)' <=> Delivered(id)) /\ (Noticed(id)' <=> Noticed(id))
  BY <1>1 DEF Delivered, Noticed
<1>9. ASSUME NEW k \in Stays, NEW p \in Sides, ~(k = "queue" /\ p = q) \/ r.id # id
      PROVE  Copies(k, p, id)' \subseteq Copies(k, p, id)
  <2>1. CASE k = "queue"
    <3>1. Queued(p, id)' = Queued(p, id)
      BY <1>5, <1>9, <2>1
    <3> QED
      BY <2>1, <3>1 DEF Copies
  <2>2. CASE k # "queue"
    BY <1>5, <1>7, <2>2 DEF Copies, Stays
  <2> QED
    BY <2>1, <2>2
<1>10. CASE r.id # id
  BY <1>6, <1>8, <1>9, <1>10, CopiesFade
<1>11. CASE r.id = id
  <2>1. ASSUME NEW k \in Stays, NEW p \in Sides, ~(k = "queue" /\ p = q)
        PROVE  Copies(k, p, id)' = {}
    BY <1>3, <1>9, <1>11, <2>1 DEF Nowhere
  <2>2. OnePlace(id)'
    BY <2>1 DEF OnePlace
  <2>3. SpeaksTrue(id)' /\ HeardLast(id)'
    BY <1>3, <1>8, <1>11 DEF SpeaksTrue, HeardLast
  <2> QED
    BY <1>6, <2>2, <2>3 DEF OneCopy
<1> QED
  BY <1>10, <1>11

\* Agents write, and their gates turn.
LEMMA AgentCopies ==
  ASSUME FedTyped, Known, NEW id \in Ids, OneCopy(id), AgentNext
  PROVE  OneCopy(id)'
<1>1. ASSUME NEW m \in Messages, Send(m) PROVE OneCopy(id)'
  <2>1. <<m, "ask">> \in Ids \ accepted /\ RouteEgress(Plan[m].from, Plan[m].to, <<m, "ask">>)
    BY <1>1, SendArguments DEF Send, Asked
  <2>2. Record(<<m, "ask">>, "none", <<Plan[m].from>>, Front(Plan[m].to), 0) \in Rec
    BY <2>1, SendArguments, RouteTypes
  <2> QED
    BY <2>1, <2>2, RouteCopies
<1>2. ASSUME NEW a \in Actors, NEW mail \in inbox[a], Answer(a, mail) PROVE OneCopy(id)'
  <2>1. /\ <<mail.id[1], "answer">> \in Ids \ accepted
        /\ RouteEgress(a, mail.from, <<mail.id[1], "answer">>)
    BY <1>2, AnswerArguments DEF Answer
  <2>2. Record(<<mail.id[1], "answer">>, "none", <<a>>, Front(mail.from), 0) \in Rec
    BY <2>1, AnswerArguments, RouteTypes
  <2> QED
    BY <2>1, <2>2, RouteCopies
<1>3. ASSUME NEW r \in Pausable, GateTurns(r) PROVE OneCopy(id)'
  <2>1. UNCHANGED <<queue, push, frames, handlers, inbox, notices>>
    BY <1>3 DEF GateTurns, linkVars
  <2>2. Alone(handlers', id) /\ \A x \in handlers' : \E g \in handlers : SameWork(x, g)
    BY <2>1 DEF OneCopy, Single, SameWork
  <2> QED
    BY <2>1, <2>2, FewerCopies
<1> QED
  BY <1>1, <1>2, <1>3 DEF AgentNext

\* An egress remembers what it sent until it is acknowledged.
LEMMA SendsOneStep ==
  ASSUME FedTyped, SendsOne, [Next]_vars
  PROVE  SendsOne'
<1>0. /\ LinksTyped
      /\ queue \in [Sides -> LinkQueue]
      /\ push \in [Sides -> [waits : BOOLEAN, sent : Ids \union {NoReply}]]
  BY DEF FedTyped, LinksTyped
<1>1. ASSUME \A p \in Sides : queue'[p].cur = queue[p].cur,
             \A p \in Sides : push'[p].sent = push[p].sent /\ (push'[p].waits => push[p].waits)
      PROVE  SendsOne'
  BY <1>1 DEF SendsOne
<1>2. \A p, q \in Sides : /\ Rejected(p)[q].sent = push[q].sent
                          /\ Rejected(p)[q].waits => push[q].waits
  BY <1>0 DEF Rejected
<1>3. ASSUME NEW p \in Sides, AckTimeout(p) \/ Connect(p) \/ Close(p) \/ StaleClose(p) \/ Received(p)
      PROVE  SendsOne'
  <2>1. UNCHANGED queue /\ push' \in {push, Rejected(p)}
    BY <1>3 DEF AckTimeout, Connect, Close, StaleClose, Received
  <2> QED
    BY <1>1, <1>2, <2>1
<1>4. ASSUME NEW p \in Sides, Dequeue(p) PROVE SendsOne'
  <2> DEFINE r == Head(queue[p].pending)
             c == IF FileId(r) \in queue[p].done THEN <<>> ELSE <<r>>
  <2>1. /\ queue' = [queue EXCEPT ![p].pending = Tail(@), ![p].cur = c]
        /\ queue[p].cur = <<>> /\ UNCHANGED push
    BY <1>4 DEF Dequeue, linkVars
  <2>2. Len(c) <= 1
    OBVIOUS
  <2> HIDE DEF c
  <2>3. queue'[p].cur = c /\ \A q \in Sides : q # p => queue'[q] = queue[q]
    BY <1>0, <2>1 DEF LinkQueue
  <2>4. push[p].sent = NoReply /\ ~push[p].waits
    BY <2>1 DEF SendsOne
  <2> QED
    BY <2>1, <2>2, <2>3, <2>4 DEF SendsOne
<1>5. ASSUME NEW p \in Sides, Push(p) PROVE SendsOne'
  <2> DEFINE r == queue[p].cur[1]
  <2>1. /\ push' = [push EXCEPT ![p] = [waits |-> TRUE, sent |-> r.id]]
        /\ UNCHANGED queue /\ queue[p].cur # <<>> /\ r \in Range(queue[p].cur)
    <3>1. queue[p].cur \in Seq(Rec) /\ queue[p].cur # <<>>
      BY <1>0, <1>5, ElementTypes DEF Push
    <3>2. Head(queue[p].cur) \in Range(queue[p].cur) /\ Head(queue[p].cur) = queue[p].cur[1]
      BY <3>1, RangeTail
    <3> QED
      BY <1>5, <3>1, <3>2 DEF Push
  <2>2. r.id # NoReply
    <3>1. r \in Rec
      BY <1>0, <2>1, ElementTypes DEF Held
    <3> QED
      BY <3>1, RecFields, IdIsNoMark
  <2> HIDE DEF r
  <2>3. push'[p] = [waits |-> TRUE, sent |-> r.id] /\ \A q \in Sides : q # p => push'[q] = push[q]
    BY <1>0, <2>1
  <2> QED
    BY <2>1, <2>2, <2>3 DEF SendsOne, r
<1>6. ASSUME NEW p \in Sides, Acknowledged(p) PROVE SendsOne'
  <2> DEFINE taken == push[p].waits /\ FileId(queue[p].cur[1]) = Head(frames[Back(p)]).ref
  <2>1. /\ ~taken => queue' = queue /\ push' = push
        /\ taken => /\ \A q \in Sides : q # p => queue'[q] = queue[q]
                    /\ queue'[p].cur = <<>>
                    /\ push' = [push EXCEPT ![p] = [waits |-> FALSE, sent |-> NoReply]]
    BY <1>0, <1>6, AcknowledgedEffect
  <2> HIDE DEF taken
  <2>2. CASE taken
    <3>1. /\ push'[p].sent = NoReply /\ push'[p].waits = FALSE
          /\ \A q \in Sides : q # p => push'[q] = push[q]
      BY <1>0, <2>1, <2>2
    <3>2. Len(<<>>) <= 1
      OBVIOUS
    <3> QED
      BY <2>1, <2>2, <3>1, <3>2 DEF SendsOne
  <2>3. CASE ~taken
    BY <1>1, <2>1, <2>3
  <2> QED
    BY <2>2, <2>3
<1>7. ASSUME NEW p \in Sides, NEW r, queue' = Enqueue(queue, p, r), UNCHANGED push
      PROVE  SendsOne'
  <2>1. \A q \in Sides : queue'[q].cur = queue[q].cur
    BY <1>0, <1>7 DEF Enqueue, LinkQueue
  <2> QED
    BY <1>1, <1>7, <2>1
<1>8. ASSUME UNCHANGED <<queue, push>> PROVE SendsOne'
  BY <1>1, <1>8
<1>9. ASSUME NEW h \in handlers, HandlerNext(h) \/ IngressFails(h) PROVE SendsOne'
  <2>1. h.side \in Sides
    BY DEF FedTyped, HandlersTyped, Handler
  <2>2. UNCHANGED push
    BY <1>9 DEF HandlerNext, Refuse, Transit, Deliver, ReceiptQueued, ReceiptTransit,
       ReceiptComesHome, IngressFails, Acks, linkVars
  <2>3. queue' = queue \/ \E p \in Sides : \E r \in {Forwarded(h)} \union
          {ReceiptFor(h, code) : code \in Codes} : queue' = Enqueue(queue, p, r)
    <3>1. h \in Handler
      BY DEF FedTyped, HandlersTyped
    <3>2. Verdict(h) \in Codes /\ "ok" \in Codes
      BY <3>1, GateTypes DEF Codes
    <3>3. Transit(h) => NextSide(h) \in Sides
      BY DEF Transit, Verdict, Onward
    <3> QED
      BY <1>9, <2>1, <3>2, <3>3 DEF HandlerNext, Refuse, Transit, Deliver, ReceiptQueued,
         ReceiptTransit, ReceiptComesHome, IngressFails
  <2> QED
    BY <1>7, <1>8, <2>2, <2>3
<1>10. CASE AgentNext
  <2>1. ASSUME NEW a, NEW fqn, NEW i, RouteEgress(a, fqn, i) PROVE SendsOne'
    BY <1>7, <2>1 DEF RouteEgress, linkVars
  <2>2. ASSUME NEW r \in Pausable, GateTurns(r) PROVE SendsOne'
    BY <1>8, <2>2 DEF GateTurns, linkVars
  <2> QED
    BY <1>10, <2>1, <2>2 DEF AgentNext, Send, Answer
<1>11. ASSUME NEW s \in Servers, Crash(s) PROVE SendsOne'
  <2>1. UNCHANGED queue
    BY <1>11 DEF Crash
  <2>2. \A p \in Sides : push'[p].sent = push[p].sent /\ (push'[p].waits => push[p].waits)
    BY <1>0, <1>11 DEF Crash
  <2> QED
    BY <1>1, <2>1, <2>2
<1>12. CASE UNCHANGED vars
  BY <1>8, <1>12 DEF vars, linkVars
<1> QED
  BY <1>3, <1>4, <1>5, <1>6, <1>9, <1>10, <1>11, <1>12 DEF Next, EgressNext, SocketNext

\* Known ids stay known; what is new has to be.
LEMMA KnownKept ==
  ASSUME Known, accepted \subseteq accepted',
         \A p \in Sides : \A r \in Held(p)' : r \in Held(p) \/ r.id \in accepted',
         \A p \in Sides : \A f \in OnWire(p)' :
           f \in OnWire(p) \/ (f.type = "record" => f.record.id \in accepted'),
         \A h \in handlers' : (\E g \in handlers : SameWork(h, g))
           \/ (h.record.id \in accepted' /\ (h.delivered => ~IsReceipt(h.record))),
         \A a \in Actors : \A mail \in inbox'[a] : mail \in inbox[a] \/ mail.id \in accepted',
         \A n \in notices' : n \in notices \/ n[2] \in accepted'
  PROVE  Known'
<1>1. \A h \in handlers' : h.record.id \in accepted' /\ (h.delivered => ~IsReceipt(h.record))
  BY DEF Known, SameWork
<1>2. \A p \in Sides : \A r \in Held(p)' : r.id \in accepted'
  BY DEF Known
<1>3. \A p \in Sides : \A f \in OnWire(p)' : f.type = "record" => f.record.id \in accepted'
  BY DEF Known
<1>4. \A a \in Actors : \A mail \in inbox'[a] : mail.id \in accepted'
  BY DEF Known
<1>5. \A n \in notices' : n[2] \in accepted'
  BY DEF Known
<1> QED
  BY <1>1, <1>2, <1>3, <1>4, <1>5 DEF Known

\* The links carry on what they hold.
LEMMA LinkKnown ==
  ASSUME FedTyped, SendsOne, Known, NEW p \in Sides, EgressNext(p) \/ SocketNext(p)
  PROVE  Known'
<1>0. LinksTyped /\ handlers \subseteq Handler
  BY DEF FedTyped, HandlersTyped
<1>1. UNCHANGED <<inbox, notices, accepted>>
  BY DEF EgressNext, SocketNext, Dequeue, Push, AckTimeout, Connect, Close, StaleClose,
     Acknowledged, Received, actorVars, histVars
<1>2. \A h \in handlers : SameWork(h, h)
  BY DEF SameWork
<1>3. Range(<<>>) = {}
  BY DEF Range
<1>4. ASSUME Dequeue(p) PROVE Known'
  <2>1. \A q \in Sides : Held(q)' \subseteq Held(q)
    BY <1>0, <1>4, DequeueEffect
  <2>2. UNCHANGED <<frames, handlers>>
    BY <1>4 DEF Dequeue, linkVars
  <2>3. \A q \in Sides : OnWire(q)' = OnWire(q)
    BY <2>2 DEF OnWire
  <2> QED
    BY <1>1, <1>2, <2>1, <2>2, <2>3, KnownKept
<1>5. ASSUME Push(p) PROVE Known'
  <2> DEFINE r == queue[p].cur[1]
             f == [type |-> "record", record |-> Wired1(r)]
  <2>1. frames' = SendFrame(frames, p, f) /\ UNCHANGED <<queue, handlers>> /\ queue[p].cur # <<>>
    BY <1>5 DEF Push, Wired1
  <2>2. r \in Held(p) /\ r \in Rec
    <3>1. queue[p].cur \in Seq(Rec) /\ Held(p) \subseteq Rec
      BY <1>0, ElementTypes
    <3>2. Head(queue[p].cur) \in Range(queue[p].cur) /\ Head(queue[p].cur) = r
      BY <2>1, <3>1, RangeTail
    <3> QED
      BY <3>1, <3>2 DEF Held
  <2>3. Wired1(r) \in Rec /\ Wired1(r).id = r.id
    BY <2>2, PushKeepsWay
  <2>4. f \in Frame /\ f.record.id = r.id
    BY <2>3 DEF Frame, RecordFrame
  <2>5. r.id \in accepted
    BY <2>2 DEF Known
  <2> HIDE DEF r, f
  <2>6. \A q \in Sides : \A g \in OnWire(q)' : g \in OnWire(q) \/ g = f
    BY <1>0, <2>1, <2>4, SendEffect
  <2>7. \A q \in Sides : Held(q)' = Held(q)
    BY <2>1 DEF Held
  <2> QED
    BY <1>1, <1>2, <2>1, <2>4, <2>5, <2>6, <2>7, KnownKept
<1>6. ASSUME AckTimeout(p) \/ StaleClose(p) PROVE Known'
  <2>1. UNCHANGED <<queue, frames, handlers>>
    BY <1>6 DEF AckTimeout, StaleClose
  <2>2. \A q \in Sides : Held(q)' = Held(q) /\ OnWire(q)' = OnWire(q)
    BY <2>1 DEF Held, OnWire
  <2> QED
    BY <1>1, <1>2, <2>1, <2>2, KnownKept
<1>7. ASSUME UNCHANGED queue, \A q \in Sides : frames'[q] = frames[q] \/ frames'[q] = <<>>,
             \A h \in handlers' : \E g \in handlers : SameWork(h, g)
      PROVE  Known'
  <2>1. \A q \in Sides : Held(q)' = Held(q) /\ OnWire(q)' \subseteq OnWire(q)
    BY <1>3, <1>7 DEF Held, OnWire
  <2> QED
    BY <1>1, <1>7, <2>1, KnownKept
<1>8. \A q \in Sides : \A hs \in SUBSET Handler :
        Unheard(q, hs) \subseteq Handler /\ \A h \in Unheard(q, hs) : \E g \in hs : SameWork(h, g)
  BY DEF Unheard, SameWork, Handler
<1>9. frames \in [Sides -> Seq(Frame)] /\ Back(p) \in Sides
  BY <1>0, SidesPairs DEF LinksTyped
<1>10. ASSUME Close(p) PROVE Known'
  <2>1. /\ UNCHANGED queue /\ frames' = [frames EXCEPT ![Back(p)] = <<>>]
        /\ handlers' = Unheard(p, handlers)
    BY <1>10 DEF Close
  <2>2. \A q \in Sides : frames'[q] = frames[q] \/ frames'[q] = <<>>
    BY <1>9, <2>1
  <2> QED
    BY <1>0, <1>7, <1>8, <2>1, <2>2
<1>11. ASSUME Connect(p) PROVE Known'
  <2> DEFINE hs == Unheard(Back(p), handlers)
  <2>1. /\ UNCHANGED queue /\ frames' = [frames EXCEPT ![p] = <<>>, ![Back(p)] = <<>>]
        /\ handlers' = Unheard(p, hs)
    BY <1>11 DEF Connect
  <2>2. \A q \in Sides : frames'[q] = frames[q] \/ frames'[q] = <<>>
    BY <1>9, <2>1
  <2>3. hs \subseteq Handler /\ \A h \in hs : \E g \in handlers : SameWork(h, g)
    BY <1>0, <1>8, <1>9
  <2> HIDE DEF hs
  <2>4. \A h \in handlers' : \E g \in hs : SameWork(h, g)
    BY <1>8, <2>1, <2>3
  <2>5. \A h \in handlers' : \E g \in handlers : SameWork(h, g)
    BY <2>3, <2>4 DEF SameWork
  <2> QED
    BY <1>7, <2>1, <2>2, <2>5
<1>12. ASSUME Acknowledged(p) PROVE Known'
  <2>1. \A q \in Sides : Held(q)' \subseteq Held(q)
    BY <1>0, <1>12, AcknowledgedEffect
  <2>2. Arrives(p, "ack") /\ UNCHANGED handlers
    BY <1>12 DEF Acknowledged
  <2>3. \A q \in Sides : OnWire(q)' \subseteq OnWire(q)
    BY <1>0, <2>2, ArriveEffect
  <2> QED
    BY <1>1, <1>2, <2>1, <2>2, <2>3, KnownKept
<1>13. ASSUME Received(p) PROVE Known'
  <2> DEFINE f == Head(frames[Back(p)])
             new == [side |-> p, record |-> f.record, delivered |-> FALSE, heard |-> TRUE]
  <2>1. Arrives(p, "record") /\ UNCHANGED queue /\ handlers' = handlers \union {new}
    BY <1>13 DEF Received
  <2>2. /\ \A q \in Sides : OnWire(q)' \subseteq OnWire(q)
        /\ f \in OnWire(Back(p)) /\ f.type = "record"
    BY <1>0, <2>1, ArriveEffect
  <2>3. f.record.id \in accepted
    BY <1>9, <2>2 DEF Known
  <2>4. new.record.id \in accepted /\ new.delivered = FALSE
    BY <2>3
  <2>5. \A q \in Sides : Held(q)' = Held(q)
    BY <2>1 DEF Held
  <2> HIDE DEF f, new
  <2> QED
    BY <1>1, <1>2, <2>1, <2>2, <2>4, <2>5, KnownKept
<1> QED
  BY <1>4, <1>5, <1>6, <1>10, <1>11, <1>12, <1>13 DEF EgressNext, SocketNext

\* Handlers pass ids on.
LEMMA HandlerKnown ==
  ASSUME FedTyped, Known, NEW h \in handlers, HandlerNext(h) \/ IngressFails(h)
  PROVE  Known'
<1>0. /\ h \in Handler /\ h.side \in Sides /\ h.record \in Rec /\ h.record.id \in accepted
      /\ LinksTyped /\ UNCHANGED accepted
  BY DEF FedTyped, HandlersTyped, Handler, Known, HandlerNext, IngressFails, Refuse, Transit,
     Deliver, ReceiptQueued, ReceiptTransit, ReceiptComesHome, histVars
<1>1. \A g \in handlers : SameWork(g, g)
  BY DEF SameWork
<1>2. Acks(h) => /\ handlers' \subseteq handlers
                 /\ \A q \in Sides : \A f \in OnWire(q)' : f \in OnWire(q) \/ f.type = "ack"
  <2> SUFFICES ASSUME Acks(h)
               PROVE  /\ handlers' \subseteq handlers
                      /\ \A q \in Sides : \A f \in OnWire(q)' : f \in OnWire(q) \/ f.type = "ack"
    OBVIOUS
  <2>1. /\ handlers' = handlers \ {h}
        /\ \A q \in Sides : \A f \in OnWire(q)' :
             f \in OnWire(q) \/ (q = h.side /\ f = [type |-> "ack", ref |-> FileId(h.record)])
    BY AcksEffect
  <2> QED
    BY <2>1
<1>3. ASSUME Acks(h), NEW q \in Sides, NEW r \in Rec, r.id = h.record.id,
             queue' = Enqueue(queue, q, r), UNCHANGED <<inbox, notices>>
      PROVE  Known'
  <2>1. \A p \in Sides : \A e \in Held(p)' : e \in Held(p) \/ e = r
    BY <1>0, <1>3, EnqueueEffect
  <2>2. "ack" # "record"
    OBVIOUS
  <2> QED
    BY <1>0, <1>1, <1>2, <1>3, <2>1, <2>2, KnownKept
<1>4. ASSUME Acks(h), UNCHANGED <<queue, inbox>>,
             \A n \in notices' : n \in notices \/ n[2] = h.record.id
      PROVE  Known'
  <2>1. \A p \in Sides : Held(p)' = Held(p)
    BY <1>4 DEF Held
  <2>2. "ack" # "record"
    OBVIOUS
  <2> QED
    BY <1>0, <1>1, <1>2, <1>4, <2>1, <2>2, KnownKept
<1>5. ASSUME NEW code \in Codes, Acks(h), queue' = Enqueue(queue, h.side, ReceiptFor(h, code)),
             UNCHANGED actorVars
      PROVE  Known'
  <2>1. 0 \in Nat
    OBVIOUS
  <2>2. ReceiptFor(h, code) \in Rec
    BY <1>0, <2>1 DEF ReceiptFor, Record, Rec
  <2>3. ReceiptFor(h, code).id = h.record.id
    BY DEF ReceiptFor, Record
  <2> QED
    BY <1>0, <1>3, <1>5, <2>2, <2>3 DEF actorVars
<1>6. CASE Refuse(h) \/ ReceiptQueued(h)
  <2>1. Verdict(h) \in Codes /\ "ok" \in Codes
    BY <1>0, GateTypes DEF Codes
  <2> QED
    BY <1>5, <1>6, <2>1 DEF Refuse, ReceiptQueued
<1>7. CASE Transit(h) \/ ReceiptTransit(h)
  <2>1. Acks(h) /\ IsFqn(h.record.to) /\ UNCHANGED <<inbox, notices>>
    BY <1>7 DEF Transit, ReceiptTransit, actorVars
  <2>2. Forwarded(h) \in Rec /\ Forwarded(h).id = h.record.id
    BY <1>0, <2>1, ForwardKeepsWay
  <2>3. queue' = queue \/ (NextSide(h) \in Sides /\ queue' = Enqueue(queue, NextSide(h), Forwarded(h)))
    BY <1>7 DEF Transit, ReceiptTransit, Verdict, Onward
  <2> QED
    BY <1>3, <1>4, <2>1, <2>2, <2>3
<1>8. CASE ReceiptComesHome(h)
  <2>1. Acks(h) /\ UNCHANGED <<queue, inbox>>
    BY <1>8 DEF ReceiptComesHome
  <2>2. \A n \in notices' : n \in notices \/ n[2] = h.record.id
    BY <1>8 DEF ReceiptComesHome
  <2> QED
    BY <1>4, <2>1, <2>2
<1>9. CASE Deliver(h)
  <2> DEFINE g == [h EXCEPT !.delivered = TRUE]
  <2>1. PICK r \in Recipients(h) :
          inbox' = [inbox EXCEPT ![r] = @ \union {[id |-> h.record.id, from |-> Stamped(h)]}]
    BY <1>9 DEF Deliver
  <2>2. handlers' = (handlers \ {h}) \union {g} /\ UNCHANGED <<queue, frames, notices>>
    BY <1>9 DEF Deliver, linkVars
  <2>3. g.record = h.record /\ ~IsReceipt(h.record)
    BY <1>0, <1>9 DEF Handler, Deliver, AtGate
  <2> HIDE DEF g
  <2>4. \A a \in Actors : \A mail \in inbox'[a] : mail \in inbox[a] \/ mail.id = h.record.id
    <3>1. inbox \in [Actors -> SUBSET Mail]
      BY DEF FedTyped, ActorsTyped
    <3> QED
      BY <2>1, <3>1
  <2>5. \A p \in Sides : Held(p)' = Held(p) /\ OnWire(p)' = OnWire(p)
    BY <2>2 DEF Held, OnWire
  <2> QED
    BY <1>0, <1>1, <2>2, <2>3, <2>4, <2>5, KnownKept
<1>10. CASE IngressFails(h)
  <2>1. UNCHANGED <<queue, frames, inbox, notices>> /\ handlers' \subseteq handlers
    BY <1>10 DEF IngressFails, linkVars, actorVars
  <2>2. \A p \in Sides : Held(p)' = Held(p) /\ OnWire(p)' = OnWire(p)
    BY <2>1 DEF Held, OnWire
  <2> QED
    BY <1>0, <1>1, <2>1, <2>2, KnownKept
<1> QED
  BY <1>6, <1>7, <1>8, <1>9, <1>10 DEF HandlerNext

\* Whatever happens, an id is known from its sender's being told.
LEMMA KnownStep ==
  ASSUME FedTyped, SendsOne, Known, [Next]_vars
  PROVE  Known'
<1>0. LinksTyped
  BY DEF FedTyped
<1>1. \A h \in handlers : SameWork(h, h)
  BY DEF SameWork
<1>2. CASE \E p \in Sides : EgressNext(p) \/ SocketNext(p)
  BY <1>2, LinkKnown
<1>3. CASE \E h \in handlers : HandlerNext(h) \/ IngressFails(h)
  BY <1>3, HandlerKnown
<1>4. ASSUME NEW a, NEW fqn, NEW i, RouteEgress(a, fqn, i),
             Record(i, "none", <<a>>, Front(fqn), 0) \in Rec
      PROVE  Known'
  <2> DEFINE r == Record(i, "none", <<a>>, Front(fqn), 0)
             q == <<Home[a], Last(fqn)>>
  <2>1. /\ q \in Sides /\ queue' = Enqueue(queue, q, r) /\ accepted' = accepted \union {i}
        /\ UNCHANGED <<frames, handlers, inbox, notices>>
    BY <1>4 DEF RouteEgress, linkVars, actorVars
  <2>2. r.id = i /\ r \in Rec
    BY <1>4 DEF Record
  <2> HIDE DEF r, q
  <2>3. \A p \in Sides : \A e \in Held(p)' : e \in Held(p) \/ e = r
    BY <1>0, <2>1, <2>2, EnqueueEffect
  <2>4. \A p \in Sides : OnWire(p)' = OnWire(p)
    BY <2>1 DEF OnWire
  <2> QED
    BY <1>1, <2>1, <2>2, <2>3, <2>4, KnownKept
<1>5. ASSUME UNCHANGED <<queue, inbox, notices, accepted>>, handlers' \subseteq handlers,
             \A p \in Sides : frames'[p] = frames[p] \/ frames'[p] = <<>>
      PROVE  Known'
  <2>1. Range(<<>>) = {}
    BY DEF Range
  <2>2. \A p \in Sides : Held(p)' = Held(p) /\ OnWire(p)' \subseteq OnWire(p)
    BY <1>5, <2>1 DEF Held, OnWire
  <2> QED
    BY <1>1, <1>5, <2>2, KnownKept
<1>6. CASE AgentNext
  <2>1. ASSUME NEW m \in Messages, Send(m) PROVE Known'
    <3>1. Record(<<m, "ask">>, "none", <<Plan[m].from>>, Front(Plan[m].to), 0) \in Rec
      BY SendArguments, RouteTypes
    <3> QED
      BY <1>4, <2>1, <3>1 DEF Send
  <2>2. ASSUME NEW a \in Actors, NEW mail \in inbox[a], Answer(a, mail) PROVE Known'
    <3>1. Record(<<mail.id[1], "answer">>, "none", <<a>>, Front(mail.from), 0) \in Rec
      BY AnswerArguments, RouteTypes
    <3> QED
      BY <1>4, <2>2, <3>1 DEF Answer
  <2>3. ASSUME NEW r \in Pausable, GateTurns(r) PROVE Known'
    <3>1. UNCHANGED <<queue, inbox, notices, accepted, handlers, frames>>
      BY <2>3 DEF GateTurns, linkVars, histVars
    <3> QED
      BY <1>5, <3>1
  <2> QED
    BY <1>6, <2>1, <2>2, <2>3 DEF AgentNext
<1>7. ASSUME NEW s \in Servers, Crash(s) PROVE Known'
  <2>1. UNCHANGED <<queue, inbox, notices, accepted>> /\ handlers' \subseteq handlers
    BY <1>7 DEF Crash, actorVars, histVars
  <2>2. \A p \in Sides : frames'[p] = frames[p] \/ frames'[p] = <<>>
    BY <1>7 DEF Crash
  <2> QED
    BY <1>5, <2>1, <2>2
<1>8. CASE UNCHANGED vars
  <2>1. UNCHANGED <<queue, inbox, notices, accepted, handlers, frames>>
    BY <1>8 DEF vars, linkVars, actorVars, histVars
  <2> QED
    BY <1>5, <2>1
<1> QED
  BY <1>2, <1>3, <1>6, <1>7, <1>8 DEF Next

\* No step adds a copy to one that is there.
LEMMA ReportStep ==
  ASSUME FedTyped, ReportInv, [Next]_vars
  PROVE  ReportInv'
<1>1. SendsOne' /\ Known'
  BY SendsOneStep, KnownStep DEF ReportInv
<1>2. repeated \subseteq repeated'
  BY DEF Next, vars, histVars, EgressNext, SocketNext, HandlerNext, AgentNext, Dequeue, Push,
     AckTimeout, Connect, Close, StaleClose, Acknowledged, Received, Refuse, Transit, Deliver,
     ReceiptQueued, ReceiptTransit, ReceiptComesHome, IngressFails, Send, Answer, RouteEgress,
     GateTurns, Crash
<1>3. ASSUME NEW id \in Ids \ repeated' PROVE OneCopy(id)'
  <2>1. id \in Ids /\ OneCopy(id) /\ SendsOne /\ Known
    BY <1>2 DEF ReportInv
  <2>2. ASSUME NEW p \in Sides, EgressNext(p) \/ SocketNext(p) PROVE OneCopy(id)'
    BY <2>1, <2>2, DequeueCopies, PushCopies, DisturbedCopies, AcknowledgedCopies,
       ReceivedCopies DEF EgressNext, SocketNext
  <2>3. ASSUME NEW h \in handlers, HandlerNext(h) \/ IngressFails(h) PROVE OneCopy(id)'
    BY <2>1, <2>3, HandlerCopies
  <2>4. CASE AgentNext
    BY <2>1, <2>4, AgentCopies
  <2>5. CASE \E s \in Servers : Crash(s)
    BY <2>1, <2>5, DisturbedCopies
  <2>6. CASE UNCHANGED vars
    <3>1. UNCHANGED <<queue, push, frames, handlers, inbox, notices>>
      BY <2>6 DEF vars, linkVars, actorVars
    <3>2. Alone(handlers', id) /\ \A x \in handlers' : \E g \in handlers : SameWork(x, g)
      BY <2>1, <3>1 DEF OneCopy, Single, SameWork
    <3> QED
      BY <2>1, <3>1, <3>2, FewerCopies
  <2> QED
    BY <2>2, <2>3, <2>4, <2>5, <2>6 DEF Next
<1> QED
  BY <1>1, <1>3 DEF ReportInv

\* At the start there is nothing to report of.
LEMMA ReportInit ==
  ASSUME Init
  PROVE  ReportInv
<1>1. Range(<<>>) = {} /\ Len(<<>>) <= 1 /\ DOMAIN <<>> = {}
  BY DEF Range
<1>2. /\ \A p \in Sides : /\ queue[p].pending = <<>> /\ queue[p].cur = <<>> /\ frames[p] = <<>>
                          /\ push[p].sent = NoReply /\ push[p].waits = FALSE
      /\ handlers = {} /\ notices = {} /\ \A a \in Actors : inbox[a] = {}
  BY DEF Init
<1>3. SendsOne
  BY <1>1, <1>2 DEF SendsOne
<1>4. Known
  BY <1>1, <1>2 DEF Known, Held, OnWire
<1>5. ASSUME NEW id \in Ids PROVE OneCopy(id)
  <2>1. Nowhere(id)
    BY <1>1, <1>2 DEF Nowhere, Copies, Queued, Ready, Travelling, OnWire, Working, HandlersOf
  <2>2. Single(id)
    BY <1>1, <1>2 DEF Single, Once, Alone
  <2> QED
    BY <1>2, <2>1, <2>2 DEF OneCopy, OnePlace, SpeaksTrue, HeardLast, Nowhere, Noticed
<1> QED
  BY <1>3, <1>4, <1>5 DEF ReportInv

\* A sender that was told of a failure can rely on it, over any topology and plan and under
\* every disturbance (ingress receipts, #ingressReceipt): unless some server had to send the
\* envelope or its receipt twice, it was not delivered and never will be.
THEOREM ReportsAreTrue == Spec => []TrueReport
<1>1. Init => ReportInv
  BY ReportInit
<1>2. FedTyped /\ ReportInv /\ [Next]_vars => ReportInv'
  BY ReportStep
<1>3. FedTyped /\ ReportInv => TrueReport
  BY DEF FedTyped, ActorsTyped, ReportInv, TrueReport, OneCopy, HeardLast, Told, Noticed
<1> QED
  BY <1>1, <1>2, <1>3, FederationTyped, PTL DEF Spec

\* The types of the federation, as its run checks them.
THEOREM FederationTypeCorrect == Spec => []FedTypeOK
<1>1. Init => ReportInv
  BY ReportInit
<1>2. FedTyped /\ ReportInv /\ [Next]_vars => ReportInv'
  BY ReportStep
<1>3. FedTyped /\ ReportInv => FedTypeOK
  <2> SUFFICES ASSUME FedTyped, SendsOne PROVE FedTypeOK
    BY DEF ReportInv
  <2>1. \A p \in Sides : Len(queue[p].cur) <= 1 /\ (push[p].waits => queue[p].cur # <<>>)
    BY DEF SendsOne
  <2>2. \A p \in Sides : push[p].waits => push[p].sent = queue[p].cur[1].id
    BY DEF SendsOne
  <2>3. \A h \in handlers : h.side \in Sides /\ h.record.id \in Ids /\ h.record.code \in Codes
    BY DEF FedTyped, HandlersTyped, Handler, Rec
  <2> QED
    BY <2>1, <2>2, <2>3 DEF FedTyped, LinksTyped, ActorsTyped, FedTypeOK
<1> QED
  BY <1>1, <1>2, <1>3, FederationTyped, PTL DEF Spec
=============================================================================
