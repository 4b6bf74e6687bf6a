----------------------------- MODULE ClientsProofs -----------------------------
(***************************************************************************)
(* What the run of the clients checks, for every value of their constants: *)
(* the marks of a chat (Reactions), the lines recorded of a console        *)
(* (ConsoleLine); and the composition of these with the panel's thread,    *)
(* badges and shelves (PanelProofs).                                       *)
(***************************************************************************)
EXTENDS MCClients, PanelProofs

(***************************************************************************)
(* The marks.                                                              *)
(***************************************************************************)

RealMarks == {t \in Triples : t[2] \in Parties(t[1])}
RxRequest == [at : RequestAt, op : Ops, mark : RealMarks, changed : BOOLEAN,
              found : SUBSET RealMarks, live : SUBSET Marked]

RxTyped ==
  /\ marks \in [MarkStores -> SUBSET RealMarks] /\ markFile \in [MarkStores -> SUBSET RealMarks]
  /\ markTail \subseteq MarkStores \X {Parties(m) : m \in Marked}
  /\ keeps \in [Humans -> SUBSET Marked]
  /\ req \in [RxSlots -> RxRequest \union {NoRequest}]
  /\ line \in [MarkStores -> Seq(RxSlots)]
  /\ shown \in [Audiences -> [marks : SUBSET RealMarks, viewer : Audiences]]
  /\ notices \subseteq Triples \X BOOLEAN
  /\ uses \in [Emoji -> {"none", "ahead", "saved"}] /\ usesStuck \in BOOLEAN
  /\ untold \subseteq RealMarks /\ cut \subseteq untold
  /\ asked \in 0..MaxRequests /\ rxUpsets \in 0..MaxUpsets

\* The store that a mark is placed in, and the one that it is mirrored into, if any.
HomeOf(t) == StoreOf(t[1], t[2])
CopyOf(t) == CHOOSE c \in Copies(t[1], t[2]) : TRUE
HasCopy(t) == Copies(t[1], t[2]) # {}

\* A request waits on the chain of a store.
WaitsAt(r, o) ==
  \/ r.at \in {"own", "read"} /\ o = HomeOf(r.mark)
  \/ r.at = "mirror" /\ o = CopyOf(r.mark)
  \/ (r.at = "compact" \/ (r.at = "clear" /\ r.found # {})) /\ o = r.mark[2]

InLine(L, s) == \E i \in DOMAIN L : L[i] = s
AheadIn(L, p, q) == \E i, j \in DOMAIN L : i < j /\ L[i] = p /\ L[j] = q

\* A chain has the slots whose request waits on it, each once.
ChainsFit ==
  \A o \in MarkStores :
    /\ Distinct(line[o])
    /\ \A s \in RxSlots : InLine(line[o], s) <=> WaitsAt(req[s], o)

\* What a request may be at, and what is left of a chat that it clears.
RequestFits(r, has) ==
  /\ r.at \in {"find", "own", "mirror", "read", "notify"} => r.op \in {"add", "remove"}
  /\ r.at = "mirror" => HasCopy(r.mark)
  /\ r.at \in {"clear", "live", "compact"} => r.mark[2] \in Humans
  /\ r.at = "clear" /\ r.found # {} =>
       \A m \in has[r.mark[2]] : Parties(m) # Parties(r.mark[1])
  /\ r.at = "compact" => has[r.mark[2]] \subseteq r.live /\ r.mark[1] \notin has[r.mark[2]]
RequestsFit == \A s \in RxSlots : req[s] # NoRequest => RequestFits(req[s], keeps)

\* The requests that still have to mirror a mark, in the order of the copy's chain.
Pend(t) == {s \in RxSlots : req[s].at = "mirror" /\ req[s].mark = t}
Ahead(p, q, t) == AheadIn(line[CopyOf(t)], p, q)
Adds(s) == req[s].op = "add"

\* The mark is at home what the last of them will make of the copy, or what the copy has.
LastRight(t) ==
  /\ Pend(t) = {} => (t \in marks[CopyOf(t)] <=> t \in marks[HomeOf(t)])
  /\ \A p \in Pend(t) :
       (\A q \in Pend(t) : Ahead(p, q, t) => (Adds(q) <=> Adds(p))) => (Adds(p) <=> t \in marks[HomeOf(t)])

\* One that makes another thing of the copy than it has, or than those before it make of it,
\* was a change at home.
FlipsTold(t) ==
  \A p \in Pend(t) :
    /\ ~(Adds(p) <=> t \in marks[CopyOf(t)])
       /\ (\A q \in Pend(t) : Ahead(q, p, t) => (Adds(q) <=> t \in marks[CopyOf(t)]))
       => req[p].changed
    /\ \A q \in Pend(t) :
         /\ Ahead(q, p, t) /\ ~(Adds(q) <=> Adds(p))
         /\ \A r \in Pend(t) : Ahead(q, r, t) /\ Ahead(r, p, t) => (Adds(r) <=> Adds(q))
         => req[p].changed

\* Every audience knows the mark, or a request will tell them.
StoresOf(m) == {StoreOf(m, x) : x \in Parties(m)}
Teller(r, t) == r.at \in {"mirror", "read"} /\ r.changed /\ r.mark = t
Known(t) == \A o \in StoresOf(t[1]) : t \in shown[o].marks <=> t \in marks[o]
Apprised(t) == (\E s \in RxSlots : Teller(req[s], t)) \/ Known(t)

CopyFits(t) ==
  KeptByAll(t[1]) =>
    /\ t \notin cut /\ HasCopy(t) => LastRight(t)
    /\ t \notin untold /\ HasCopy(t) => FlipsTold(t)
    /\ t \notin untold => Apprised(t)
CopiesFit == \A t \in RealMarks : CopyFits(t)

RxInv == RxTyped /\ ChainsFit /\ RequestsFit /\ CopiesFit

(* Chains. *)

\* What is left of a chain that its head leaves.
LEMMA LineTail ==
  ASSUME NEW S, NEW L \in Seq(S), L # <<>>, Distinct(L), NEW s, s = Head(L)
  PROVE  /\ Tail(L) \in Seq(S) /\ Distinct(Tail(L))
         /\ \A q : InLine(Tail(L), q) <=> InLine(L, q) /\ q # s
         /\ \A p, q : p # s /\ q # s => (AheadIn(Tail(L), p, q) <=> AheadIn(L, p, q))
<1> DEFINE T == Tail(L)
<1>1. T \in Seq(S) /\ Len(T) = Len(L) - 1 /\ Len(L) \in Nat \ {0} /\ \A i \in 1..Len(T) : T[i] = L[i + 1]
  OBVIOUS
<1>2. DOMAIN L = 1..Len(L) /\ DOMAIN T = 1..Len(T) /\ L[1] = s
  BY <1>1
<1> HIDE DEF T
<1>3. Distinct(T)
  <2> SUFFICES ASSUME NEW i \in 1..Len(T), NEW j \in 1..Len(T), T[i] = T[j] PROVE i = j
    BY <1>2 DEF Distinct
  <2>1. i + 1 \in DOMAIN L /\ j + 1 \in DOMAIN L /\ L[i + 1] = L[j + 1]
    BY <1>1, <1>2
  <2>2. i + 1 = j + 1
    BY <2>1 DEF Distinct
  <2> QED BY <1>1, <2>2
<1>4. ASSUME NEW q, InLine(T, q) PROVE InLine(L, q) /\ q # s
  <2>1. PICK i \in 1..Len(T) : T[i] = q
    BY <1>4, <1>2 DEF InLine
  <2>2. i + 1 \in DOMAIN L /\ 1 \in DOMAIN L /\ i + 1 # 1 /\ L[i + 1] = q
    BY <1>1, <1>2, <2>1
  <2> QED BY <2>2, <1>2 DEF InLine, Distinct
<1>5. ASSUME NEW i \in DOMAIN L, L[i] # s PROVE i - 1 \in DOMAIN T /\ T[i - 1] = L[i]
  <2>1. i # 1 /\ i \in 1..Len(L)
    BY <1>2, <1>5
  <2>2. i - 1 \in 1..Len(T) /\ (i - 1) + 1 = i
    BY <1>1, <2>1
  <2> QED BY <1>1, <1>2, <2>2
<1>6. ASSUME NEW q, InLine(L, q), q # s PROVE InLine(T, q)
  <2>1. PICK i \in DOMAIN L : L[i] = q
    BY <1>6 DEF InLine
  <2> QED BY <1>5, <1>6, <2>1 DEF InLine
<1>7. ASSUME NEW p, NEW q, AheadIn(T, p, q) PROVE AheadIn(L, p, q)
  <2>1. PICK i \in 1..Len(T), j \in 1..Len(T) : i < j /\ T[i] = p /\ T[j] = q
    BY <1>7, <1>2 DEF AheadIn
  <2>2. i + 1 \in DOMAIN L /\ j + 1 \in DOMAIN L /\ i + 1 < j + 1 /\ L[i + 1] = p /\ L[j + 1] = q
    BY <1>1, <1>2, <2>1
  <2> QED BY <2>2 DEF AheadIn
<1>8. ASSUME NEW p, NEW q, p # s, q # s, AheadIn(L, p, q) PROVE AheadIn(T, p, q)
  <2>1. PICK i \in DOMAIN L, j \in DOMAIN L : i < j /\ L[i] = p /\ L[j] = q
    BY <1>8 DEF AheadIn
  <2>2. i - 1 \in DOMAIN T /\ j - 1 \in DOMAIN T /\ i - 1 < j - 1 /\ T[i - 1] = p /\ T[j - 1] = q
    BY <1>2, <1>5, <1>8, <2>1
  <2> QED BY <2>2 DEF AheadIn
<1> QED BY <1>1, <1>3, <1>4, <1>6, <1>7, <1>8 DEF T

\* A chain that another joins.
LEMMA LineAppend ==
  ASSUME NEW S, NEW L \in Seq(S), Distinct(L), NEW s \in S, ~InLine(L, s)
  PROVE  /\ Append(L, s) \in Seq(S) /\ Distinct(Append(L, s))
         /\ \A q : InLine(Append(L, s), q) <=> InLine(L, q) \/ q = s
         /\ \A p, q : p # s /\ q # s => (AheadIn(Append(L, s), p, q) <=> AheadIn(L, p, q))
         /\ \A p : InLine(L, p) => AheadIn(Append(L, s), p, s)
         /\ \A p : ~AheadIn(Append(L, s), s, p)
<1> DEFINE A == Append(L, s)
<1>1. A \in Seq(S) /\ Len(A) = Len(L) + 1 /\ Len(L) \in Nat /\ A[Len(L) + 1] = s /\ \A i \in 1..Len(L) : A[i] = L[i]
  OBVIOUS
<1>2. DOMAIN L = 1..Len(L) /\ DOMAIN A = 1..Len(A)
  BY <1>1
<1> HIDE DEF A
<1>3. \A i \in DOMAIN A : i \in DOMAIN L \/ i = Len(L) + 1
  BY <1>1, <1>2
<1>4. \A i \in DOMAIN L : i \in DOMAIN A /\ A[i] = L[i] /\ A[i] # s /\ i < Len(L) + 1
  BY <1>1, <1>2 DEF InLine
<1>5. Len(L) + 1 \in DOMAIN A
  BY <1>1, <1>2
<1>6. Distinct(A)
  BY <1>1, <1>3, <1>4 DEF Distinct
<1>7. \A q : InLine(A, q) <=> InLine(L, q) \/ q = s
  BY <1>1, <1>3, <1>4, <1>5 DEF InLine
<1>8. ASSUME NEW p, NEW q, p # s, q # s PROVE AheadIn(A, p, q) <=> AheadIn(L, p, q)
  BY <1>1, <1>3, <1>4, <1>8 DEF AheadIn
<1>9. \A p : InLine(L, p) => AheadIn(A, p, s)
  BY <1>1, <1>4, <1>5 DEF InLine, AheadIn
<1>10. ASSUME NEW p, AheadIn(A, s, p) PROVE FALSE
  <2>1. PICK i \in DOMAIN A, j \in DOMAIN A : i < j /\ A[i] = s
    BY <1>10 DEF AheadIn
  <2>2. i = Len(L) + 1
    BY <1>3, <1>4, <2>1
  <2> QED BY <1>1, <1>2, <2>1, <2>2
<1> QED BY <1>1, <1>6, <1>7, <1>8, <1>9, <1>10 DEF A

\* Two that wait on one chain are one behind the other, and not both ways.
LEMMA LineOrder ==
  ASSUME NEW S, NEW L \in Seq(S), Distinct(L)
  PROVE  /\ \A p, q : InLine(L, p) /\ InLine(L, q) => p = q \/ AheadIn(L, p, q) \/ AheadIn(L, q, p)
         /\ \A p, q : AheadIn(L, p, q) => ~AheadIn(L, q, p) /\ p # q
         /\ L # <<>> => \A p : ~AheadIn(L, p, Head(L))
<1>1. DOMAIN L = 1..Len(L) /\ Len(L) \in Nat
  OBVIOUS
<1>2. ASSUME NEW p, NEW q, InLine(L, p), InLine(L, q), p # q PROVE AheadIn(L, p, q) \/ AheadIn(L, q, p)
  <2>1. PICK i \in DOMAIN L : L[i] = p
    BY <1>2 DEF InLine
  <2>2. PICK j \in DOMAIN L : L[j] = q
    BY <1>2 DEF InLine
  <2>3. i < j \/ j < i
    BY <1>1, <1>2, <2>1, <2>2
  <2> QED BY <2>1, <2>2, <2>3 DEF AheadIn
<1>3. ASSUME NEW p, NEW q, AheadIn(L, p, q) PROVE ~AheadIn(L, q, p) /\ p # q
  <2>1. PICK i \in DOMAIN L, j \in DOMAIN L : i < j /\ L[i] = p /\ L[j] = q
    BY <1>3 DEF AheadIn
  <2>2. \A k \in DOMAIN L : (L[k] = p => k = i) /\ (L[k] = q => k = j)
    BY <2>1 DEF Distinct
  <2>3. i \in Nat /\ j \in Nat
    BY <1>1
  <2>4. p # q
    BY <2>1, <2>2, <2>3
  <2>5. ASSUME NEW a \in DOMAIN L, NEW b \in DOMAIN L, a < b, L[a] = q, L[b] = p PROVE FALSE
    BY <2>1, <2>2, <2>3, <2>5
  <2> QED BY <2>4, <2>5 DEF AheadIn
<1>4. ASSUME L # <<>>, NEW p, AheadIn(L, p, Head(L)) PROVE FALSE
  <2>1. PICK i \in DOMAIN L, j \in DOMAIN L : i < j /\ L[i] = p /\ L[j] = L[1]
    BY <1>4 DEF AheadIn
  <2>2. 1 \in DOMAIN L
    BY <1>1, <1>4
  <2>3. j = 1
    BY <2>1, <2>2 DEF Distinct
  <2> QED BY <1>1, <2>1, <2>3
<1> QED BY <1>2, <1>3, <1>4

-----------------------------------------------------------------------------
(* Where a mark is. *)

\* A mark has one store, or two of two people: its home and its copy.
LEMMA Stores ==
  ASSUME NEW t \in RealMarks
  PROVE  /\ t[1] \in Marked /\ t[2] \in Parties(t[1])
         /\ HomeOf(t) \in MarkStores
         /\ StoresOf(t[1]) = {HomeOf(t)} \union Copies(t[1], t[2])
         /\ StoresOf(t[1]) \subseteq MarkStores
         /\ HasCopy(t) => /\ CopyOf(t) \in Humans /\ CopyOf(t) # HomeOf(t)
                          /\ Copies(t[1], t[2]) = {CopyOf(t)}
         /\ t[2] \in Humans => HomeOf(t) = t[2]
<1> DEFINE m == t[1] x == t[2]
<1>1. m \in Marked /\ x \in Parties(m)
  BY DEF RealMarks, Triples
<1>2. PICK y : Parties(m) = {x, y} /\ x # y
  <2>1. Ends[m][1] # Ends[m][2]
    BY <1>1, ReactionsAssumption
  <2> QED BY <1>1, <2>1 DEF Parties
<1> HIDE DEF m, x
<1>3. StoresOf(m) = {StoreOf(m, x), StoreOf(m, y)}
  BY <1>2 DEF StoresOf
<1>4. HomeOf(t) = StoreOf(m, x) /\ CopyOf(t) = (CHOOSE c \in Copies(m, x) : TRUE) /\ (HasCopy(t) <=> Copies(m, x) # {})
  BY DEF HomeOf, CopyOf, HasCopy, m, x
<1>5. CASE x \in Humans /\ y \in Humans
  <2>1. StoreOf(m, x) = x /\ StoreOf(m, y) = y
    BY <1>5 DEF StoreOf, IsHuman
  <2>2. Copies(m, x) = {y}
    BY <1>2, <1>5, <2>1 DEF Copies
  <2>3. CopyOf(t) = y
    BY <1>4, <2>2
  <2> QED BY <1>1, <1>2, <1>3, <1>4, <1>5, <2>1, <2>2, <2>3 DEF MarkStores, Audiences, m, x
<1>6. CASE x \in Humans /\ y \notin Humans
  <2>1. Parties(m) \cap Humans = {x}
    BY <1>2, <1>6
  <2>2. StoreOf(m, x) = x
    BY <1>6 DEF StoreOf, IsHuman
  <2>3. StoreOf(m, y) \in {h \in Parties(m) : h \in Humans}
    BY <1>6, <2>1 DEF StoreOf, IsHuman
  <2>4. StoreOf(m, y) = x
    BY <2>1, <2>3
  <2>5. Copies(m, x) = {}
    BY <2>1, <2>2 DEF Copies
  <2> QED BY <1>1, <1>3, <1>4, <1>6, <2>2, <2>4, <2>5 DEF MarkStores, Audiences, m, x
<1>7. CASE x \notin Humans /\ y \in Humans
  <2>1. Parties(m) \cap Humans = {y}
    BY <1>2, <1>7
  <2>2. StoreOf(m, y) = y
    BY <1>7 DEF StoreOf, IsHuman
  <2>3. StoreOf(m, x) \in {h \in Parties(m) : h \in Humans}
    BY <1>7, <2>1 DEF StoreOf, IsHuman
  <2>4. StoreOf(m, x) = y
    BY <2>1, <2>3
  <2>5. Copies(m, x) = {}
    BY <2>1, <2>4 DEF Copies
  <2> QED BY <1>1, <1>3, <1>4, <1>7, <2>2, <2>4, <2>5 DEF MarkStores, Audiences, m, x
<1>8. CASE x \notin Humans /\ y \notin Humans
  <2>1. Parties(m) \cap Humans = {}
    BY <1>2, <1>8
  <2>2. StoreOf(m, x) = "journal" /\ StoreOf(m, y) = "journal"
    BY <1>8, <2>1 DEF StoreOf, IsHuman
  <2>3. Copies(m, x) = {}
    BY <2>1 DEF Copies
  <2> QED BY <1>1, <1>3, <1>4, <1>8, <2>2, <2>3 DEF MarkStores, Audiences, m, x
<1> QED BY <1>5, <1>6, <1>7, <1>8

\* The marks of one message have the same stores.
LEMMA SameStores ==
  ASSUME NEW t \in RealMarks, NEW u \in RealMarks, t[1] = u[1]
  PROVE  /\ StoresOf(t[1]) = {HomeOf(u)} \union Copies(u[1], u[2])
         /\ HasCopy(t) => HomeOf(u) \in {HomeOf(t), CopyOf(t)}
         /\ ~HasCopy(t) => HomeOf(u) = HomeOf(t)
<1>1. StoresOf(t[1]) = {HomeOf(u)} \union Copies(u[1], u[2])
  BY Stores
<1>2. StoresOf(t[1]) = {HomeOf(t)} \union Copies(t[1], t[2]) /\ (HasCopy(t) => Copies(t[1], t[2]) = {CopyOf(t)})
  BY Stores
<1> QED BY <1>1, <1>2 DEF HasCopy

-----------------------------------------------------------------------------
(* A step of one request. *)

\* What s leaves and joins: the chain it waited on, as its head, and the one it waits on.
Moves(s, r, L, L2) ==
  \A o \in MarkStores :
    LET rest == IF WaitsAt(req[s], o) THEN Tail(L[o]) ELSE L[o]
    IN /\ WaitsAt(req[s], o) => AtHead(s, o)
       /\ L2[o] = IF WaitsAt(r, o) THEN Append(rest, s) ELSE rest

\* The order of the others stays, and s comes last where it waits.
OthersStay(s) ==
  \A o \in MarkStores :
    /\ \A p, q : p # s /\ q # s => (AheadIn(line'[o], p, q) <=> AheadIn(line[o], p, q))
    /\ WaitsAt(req[s], o) => (\A p : ~AheadIn(line[o], p, s)) /\ (\A p \in RxSlots \ {s} : InLine(line[o], p) => AheadIn(line[o], s, p))
    /\ WaitsAt(req'[s], o) => (\A p : ~AheadIn(line'[o], s, p)) /\ (\A p \in RxSlots \ {s} : InLine(line[o], p) => AheadIn(line'[o], p, s))

\* Chains fit again after a step of s.
LEMMA ChainMoves ==
  ASSUME ChainsFit, line \in [MarkStores -> Seq(RxSlots)], line' \in [MarkStores -> Seq(RxSlots)],
         NEW s \in RxSlots, Moves(s, req'[s], line, line'), \A q \in RxSlots \ {s} : req'[q] = req[q]
  PROVE  ChainsFit' /\ OthersStay(s)
<1> SUFFICES ASSUME NEW o \in MarkStores
             PROVE  /\ Distinct(line'[o])
                    /\ \A q \in RxSlots : InLine(line'[o], q) <=> WaitsAt(req'[q], o)
                    /\ \A p, q : p # s /\ q # s => (AheadIn(line'[o], p, q) <=> AheadIn(line[o], p, q))
                    /\ WaitsAt(req[s], o) => (\A p : ~AheadIn(line[o], p, s)) /\ (\A p \in RxSlots \ {s} : InLine(line[o], p) => AheadIn(line[o], s, p))
                    /\ WaitsAt(req'[s], o) => (\A p : ~AheadIn(line'[o], s, p)) /\ (\A p \in RxSlots \ {s} : InLine(line[o], p) => AheadIn(line'[o], p, s))
  BY DEF ChainsFit, OthersStay, WaitsAt
<1> DEFINE L == line[o] rest == IF WaitsAt(req[s], o) THEN Tail(L) ELSE L
<1>1. L \in Seq(RxSlots) /\ Distinct(L) /\ \A q \in RxSlots : InLine(L, q) <=> WaitsAt(req[q], o)
  BY DEF ChainsFit
<1>2. (WaitsAt(req[s], o) => AtHead(s, o)) /\ line'[o] = IF WaitsAt(req'[s], o) THEN Append(rest, s) ELSE rest
  BY DEF Moves
<1>3. /\ rest \in Seq(RxSlots) /\ Distinct(rest)
      /\ \A q : InLine(rest, q) <=> InLine(L, q) /\ q # s
      /\ \A p, q : p # s /\ q # s => (AheadIn(rest, p, q) <=> AheadIn(L, p, q))
  <2>1. CASE WaitsAt(req[s], o)
    <3>1. L # <<>> /\ s = Head(L)
      BY <1>2, <2>1 DEF AtHead
    <3>2. rest = Tail(L)
      BY <2>1
    <3> HIDE DEF L, rest
    <3> QED BY <1>1, <3>1, <3>2, LineTail
  <2>2. CASE ~WaitsAt(req[s], o)
    BY <1>1, <2>2
  <2> QED BY <2>1, <2>2
<1>4. WaitsAt(req[s], o) => (\A p : ~AheadIn(L, p, s)) /\ (\A p \in RxSlots \ {s} : InLine(L, p) => AheadIn(L, s, p))
  <2> SUFFICES ASSUME WaitsAt(req[s], o) PROVE (\A p : ~AheadIn(L, p, s)) /\ (\A p \in RxSlots \ {s} : InLine(L, p) => AheadIn(L, s, p))
    OBVIOUS
  <2>1. L # <<>> /\ s = Head(L) /\ InLine(L, s)
    BY <1>1, <1>2 DEF AtHead
  <2> HIDE DEF L
  <2> QED BY <1>1, <2>1, LineOrder
<1> HIDE DEF L, rest
<1>5. CASE WaitsAt(req'[s], o)
  <2>1. line'[o] = Append(rest, s) /\ ~InLine(rest, s)
    BY <1>2, <1>3, <1>5
  <2>2. /\ Distinct(line'[o])
        /\ \A q : InLine(line'[o], q) <=> InLine(rest, q) \/ q = s
        /\ \A p, q : p # s /\ q # s => (AheadIn(line'[o], p, q) <=> AheadIn(rest, p, q))
        /\ \A p : InLine(rest, p) => AheadIn(line'[o], p, s)
        /\ \A p : ~AheadIn(line'[o], s, p)
    BY <1>3, <2>1, LineAppend
  <2> QED BY <1>1, <1>3, <1>4, <1>5, <2>2 DEF L
<1>6. CASE ~WaitsAt(req'[s], o)
  <2>1. line'[o] = rest
    BY <1>2, <1>6
  <2> QED BY <1>1, <1>3, <1>4, <1>6, <2>1 DEF L
<1> QED BY <1>5, <1>6

-----------------------------------------------------------------------------
(* The mirrors of one mark. *)

OthersWait(s) == \A q \in RxSlots \ {s} : req'[q] = req[q]
HomeKeeps(t) == t \in marks'[HomeOf(t)] <=> t \in marks[HomeOf(t)]
CopyKeeps(t) == t \in marks'[CopyOf(t)] <=> t \in marks[CopyOf(t)]

\* A step that is not about a mark changes nothing of its mirrors.
LEMMA MirrorsStay ==
  ASSUME NEW t \in RealMarks, HasCopy(t), NEW s \in RxSlots, OthersStay(s), OthersWait(s),
         ~(req[s].at = "mirror" /\ req[s].mark = t), ~(req'[s].at = "mirror" /\ req'[s].mark = t),
         HomeKeeps(t), CopyKeeps(t)
  PROVE  (LastRight(t) => LastRight(t)') /\ (FlipsTold(t) => FlipsTold(t)')
<1>1. CopyOf(t) \in MarkStores
  BY Stores DEF MarkStores, Audiences
<1>2. Pend(t)' = Pend(t) /\ s \notin Pend(t)
  BY DEF Pend, OthersWait
<1>3. \A p \in Pend(t) : req'[p] = req[p] /\ p # s
  BY <1>2 DEF Pend, OthersWait
<1>4. \A p, q \in Pend(t) : Ahead(p, q, t)' <=> Ahead(p, q, t)
  BY <1>1, <1>3 DEF Ahead, OthersStay
<1>5. \A p \in Pend(t) : (Adds(p)' <=> Adds(p)) /\ (req'[p].changed <=> req[p].changed)
  BY <1>3 DEF Adds
<1>6. LastRight(t) => LastRight(t)'
  BY <1>2, <1>4, <1>5 DEF LastRight, HomeKeeps, CopyKeeps
<1>7. FlipsTold(t) => FlipsTold(t)'
  BY <1>2, <1>4, <1>5 DEF FlipsTold, HomeKeeps, CopyKeeps
<1> QED BY <1>6, <1>7

\* A request that has placed or removed the mark at home has to mirror it, behind the others.
LEMMA MirrorJoins ==
  ASSUME NEW t \in RealMarks, HasCopy(t), NEW s \in RxSlots, OthersStay(s), OthersWait(s), ChainsFit,
         ~(req[s].at = "mirror" /\ req[s].mark = t), req'[s].at = "mirror" /\ req'[s].mark = t,
         t \in marks'[HomeOf(t)] <=> req'[s].op = "add",
         ~HomeKeeps(t) => req'[s].changed, CopyKeeps(t)
  PROVE  (LastRight(t) => LastRight(t)') /\ (LastRight(t) /\ FlipsTold(t) => FlipsTold(t)')
<1>1. CopyOf(t) \in MarkStores /\ WaitsAt(req'[s], CopyOf(t))
  BY Stores DEF MarkStores, Audiences, WaitsAt
<1>2. Pend(t)' = Pend(t) \union {s} /\ s \notin Pend(t)
  BY DEF Pend, OthersWait
<1>3. \A p \in Pend(t) : req'[p] = req[p] /\ p # s /\ p \in RxSlots
  BY <1>2 DEF Pend, OthersWait
<1>4. \A p, q \in Pend(t) : Ahead(p, q, t)' <=> Ahead(p, q, t)
  BY <1>1, <1>3 DEF Ahead, OthersStay
<1>5. \A p \in Pend(t) : InLine(line[CopyOf(t)], p)
  <2> SUFFICES ASSUME NEW p \in Pend(t) PROVE InLine(line[CopyOf(t)], p)
    OBVIOUS
  <2>1. p \in RxSlots /\ WaitsAt(req[p], CopyOf(t))
    BY DEF Pend, WaitsAt
  <2> QED BY <1>1, <2>1 DEF ChainsFit
<1>6. \A p \in Pend(t) : Ahead(p, s, t)'
  BY <1>1, <1>3, <1>5 DEF Ahead, OthersStay
<1>7. \A p : ~Ahead(s, p, t)'
  BY <1>1 DEF Ahead, OthersStay
<1>8. \A p \in Pend(t) : (Adds(p)' <=> Adds(p)) /\ (req'[p].changed <=> req[p].changed)
  BY <1>3 DEF Adds
<1>9. Adds(s)' <=> t \in marks'[HomeOf(t)]
  BY DEF Adds
<1>10. ASSUME LastRight(t) PROVE LastRight(t)'
  <2>1. Pend(t)' # {}
    BY <1>2
  <2>2. ASSUME NEW p \in Pend(t)', \A q \in Pend(t)' : Ahead(p, q, t)' => (Adds(q)' <=> Adds(p)')
        PROVE  Adds(p)' <=> t \in marks'[HomeOf(t)]
    BY <1>2, <1>6, <1>9, <2>2
  <2> QED BY <2>1, <2>2 DEF LastRight
<1>11. ASSUME LastRight(t), FlipsTold(t) PROVE FlipsTold(t)'
  <2> SUFFICES ASSUME NEW p \in Pend(t)'
               PROVE  /\ ~(Adds(p)' <=> t \in marks'[CopyOf(t)])
                         /\ (\A q \in Pend(t)' : Ahead(q, p, t)' => (Adds(q)' <=> t \in marks'[CopyOf(t)]))
                         => req'[p].changed
                      /\ \A q \in Pend(t)' :
                           /\ Ahead(q, p, t)' /\ ~(Adds(q)' <=> Adds(p)')
                           /\ \A r \in Pend(t)' : Ahead(q, r, t)' /\ Ahead(r, p, t)' => (Adds(r)' <=> Adds(q)')
                           => req'[p].changed
    BY DEF FlipsTold
  <2>1. CASE p = s
    <3>1. ASSUME ~(Adds(s)' <=> t \in marks'[CopyOf(t)]),
                 \A q \in Pend(t)' : Ahead(q, s, t)' => (Adds(q)' <=> t \in marks'[CopyOf(t)])
          PROVE  req'[s].changed
      <4>1. \A q \in Pend(t) : Adds(q) <=> t \in marks[CopyOf(t)]
        BY <1>2, <1>6, <1>8, <3>1 DEF CopyKeeps
      <4>2. t \in marks[HomeOf(t)] <=> t \in marks[CopyOf(t)]
        BY <1>11, <4>1 DEF LastRight
      <4> QED BY <1>9, <3>1, <4>2 DEF HomeKeeps, CopyKeeps
    <3>2. ASSUME NEW q \in Pend(t)', Ahead(q, s, t)', ~(Adds(q)' <=> Adds(s)'),
                 \A r \in Pend(t)' : Ahead(q, r, t)' /\ Ahead(r, s, t)' => (Adds(r)' <=> Adds(q)')
          PROVE  req'[s].changed
      <4>1. q \in Pend(t)
        BY <1>2, <3>2
      <4>2. \A r \in Pend(t) : Ahead(q, r, t) => (Adds(r) <=> Adds(q))
        BY <1>2, <1>4, <1>6, <1>8, <3>2, <4>1
      <4>3. Adds(q) <=> t \in marks[HomeOf(t)]
        BY <1>11, <4>1, <4>2 DEF LastRight
      <4> QED BY <1>8, <1>9, <3>2, <4>1, <4>3 DEF HomeKeeps
    <3> QED BY <2>1, <3>1, <3>2
  <2>2. CASE p # s
    <3>1. p \in Pend(t)
      BY <1>2, <2>2
    <3>2. ASSUME ~(Adds(p)' <=> t \in marks'[CopyOf(t)]),
                 \A q \in Pend(t)' : Ahead(q, p, t)' => (Adds(q)' <=> t \in marks'[CopyOf(t)])
          PROVE  req'[p].changed
      <4>1. \A q \in Pend(t) : Ahead(q, p, t) => (Adds(q) <=> t \in marks[CopyOf(t)])
        BY <1>2, <1>4, <1>8, <3>1, <3>2 DEF CopyKeeps
      <4> QED BY <1>8, <1>11, <3>1, <3>2, <4>1 DEF FlipsTold, CopyKeeps
    <3>3. ASSUME NEW q \in Pend(t)', Ahead(q, p, t)', ~(Adds(q)' <=> Adds(p)'),
                 \A r \in Pend(t)' : Ahead(q, r, t)' /\ Ahead(r, p, t)' => (Adds(r)' <=> Adds(q)')
          PROVE  req'[p].changed
      <4>1. q \in Pend(t)
        BY <1>2, <1>7, <3>3
      <4>2. Ahead(q, p, t) /\ ~(Adds(q) <=> Adds(p))
        BY <1>4, <1>8, <3>1, <3>3, <4>1
      <4>3. \A r \in Pend(t) : Ahead(q, r, t) /\ Ahead(r, p, t) => (Adds(r) <=> Adds(q))
        BY <1>2, <1>4, <1>8, <3>1, <3>3, <4>1
      <4> QED BY <1>8, <1>11, <3>1, <4>1, <4>2, <4>3 DEF FlipsTold
    <3> QED BY <3>2, <3>3
  <2> QED BY <2>1, <2>2
<1> QED BY <1>10, <1>11

\* The first of them is mirrored.
LEMMA MirrorLeaves ==
  ASSUME NEW t \in RealMarks, HasCopy(t), NEW s \in RxSlots, OthersStay(s), OthersWait(s), ChainsFit,
         req[s].at = "mirror" /\ req[s].mark = t, ~(req'[s].at = "mirror" /\ req'[s].mark = t),
         t \in marks'[CopyOf(t)] <=> req[s].op = "add", HomeKeeps(t)
  PROVE  /\ LastRight(t) => LastRight(t)'
         /\ FlipsTold(t) => FlipsTold(t)'
         /\ LastMirror(s) /\ (t \in marks'[CopyOf(t)] <=> t \in marks[HomeOf(t)]) => LastRight(t)'
<1>1. CopyOf(t) \in MarkStores /\ WaitsAt(req[s], CopyOf(t))
  BY Stores DEF MarkStores, Audiences, WaitsAt
<1>2. Pend(t)' = Pend(t) \ {s} /\ s \in Pend(t)
  BY DEF Pend, OthersWait
<1>3. \A p \in Pend(t)' : req'[p] = req[p] /\ p # s /\ p \in RxSlots /\ p \in Pend(t)
  BY <1>2 DEF Pend, OthersWait
<1>4. \A p, q \in Pend(t)' : Ahead(p, q, t)' <=> Ahead(p, q, t)
  BY <1>1, <1>3 DEF Ahead, OthersStay
<1>5. \A p \in Pend(t)' : Ahead(s, p, t)
  <2> SUFFICES ASSUME NEW p \in Pend(t)' PROVE Ahead(s, p, t)
    OBVIOUS
  <2>1. p \in RxSlots \ {s} /\ WaitsAt(req[p], CopyOf(t))
    BY <1>3 DEF Pend, WaitsAt
  <2>2. InLine(line[CopyOf(t)], p)
    BY <1>1, <2>1 DEF ChainsFit
  <2> QED BY <1>1, <2>1, <2>2 DEF Ahead, OthersStay
<1>6. \A p : ~Ahead(p, s, t)
  BY <1>1 DEF Ahead, OthersStay
<1>7. \A p \in Pend(t)' : (Adds(p)' <=> Adds(p)) /\ (req'[p].changed <=> req[p].changed)
  BY <1>3 DEF Adds
<1>8. Adds(s) <=> t \in marks'[CopyOf(t)]
  BY DEF Adds
<1>9. ASSUME LastRight(t) PROVE LastRight(t)'
  <2>1. ASSUME Pend(t)' = {} PROVE t \in marks'[CopyOf(t)] <=> t \in marks'[HomeOf(t)]
    <3>1. \A q \in Pend(t) : Ahead(s, q, t) => (Adds(q) <=> Adds(s))
      BY <1>2, <2>1
    <3>2. Adds(s) <=> t \in marks[HomeOf(t)]
      BY <1>2, <1>9, <3>1 DEF LastRight
    <3> QED BY <1>8, <3>2 DEF HomeKeeps
  <2>2. ASSUME NEW p \in Pend(t)', \A q \in Pend(t)' : Ahead(p, q, t)' => (Adds(q)' <=> Adds(p)')
        PROVE  Adds(p)' <=> t \in marks'[HomeOf(t)]
    <3>1. \A q \in Pend(t) : Ahead(p, q, t) => (Adds(q) <=> Adds(p))
      BY <1>2, <1>4, <1>6, <1>7, <2>2
    <3>2. Adds(p) <=> t \in marks[HomeOf(t)]
      BY <1>3, <1>9, <3>1 DEF LastRight
    <3> QED BY <1>7, <3>2 DEF HomeKeeps
  <2> QED BY <2>1, <2>2 DEF LastRight
<1>10. ASSUME FlipsTold(t) PROVE FlipsTold(t)'
  <2> SUFFICES ASSUME NEW p \in Pend(t)'
               PROVE  /\ ~(Adds(p)' <=> t \in marks'[CopyOf(t)])
                         /\ (\A q \in Pend(t)' : Ahead(q, p, t)' => (Adds(q)' <=> t \in marks'[CopyOf(t)]))
                         => req'[p].changed
                      /\ \A q \in Pend(t)' :
                           /\ Ahead(q, p, t)' /\ ~(Adds(q)' <=> Adds(p)')
                           /\ \A r \in Pend(t)' : Ahead(q, r, t)' /\ Ahead(r, p, t)' => (Adds(r)' <=> Adds(q)')
                           => req'[p].changed
    BY DEF FlipsTold
  <2>1. ASSUME ~(Adds(p)' <=> t \in marks'[CopyOf(t)]),
               \A q \in Pend(t)' : Ahead(q, p, t)' => (Adds(q)' <=> t \in marks'[CopyOf(t)])
        PROVE  req'[p].changed
    <3>1. \A r \in Pend(t) : Ahead(s, r, t) /\ Ahead(r, p, t) => (Adds(r) <=> Adds(s))
      BY <1>2, <1>4, <1>6, <1>7, <1>8, <2>1
    <3>2. Ahead(s, p, t) /\ ~(Adds(s) <=> Adds(p))
      BY <1>5, <1>7, <1>8, <2>1
    <3> QED BY <1>2, <1>3, <1>7, <1>10, <3>1, <3>2 DEF FlipsTold
  <2>2. ASSUME NEW q \in Pend(t)', Ahead(q, p, t)', ~(Adds(q)' <=> Adds(p)'),
               \A r \in Pend(t)' : Ahead(q, r, t)' /\ Ahead(r, p, t)' => (Adds(r)' <=> Adds(q)')
        PROVE  req'[p].changed
    <3>1. Ahead(q, p, t) /\ ~(Adds(q) <=> Adds(p))
      BY <1>4, <1>7, <2>2
    <3>2. \A r \in Pend(t) : Ahead(q, r, t) /\ Ahead(r, p, t) => (Adds(r) <=> Adds(q))
      BY <1>2, <1>4, <1>6, <1>7, <2>2
    <3> QED BY <1>3, <1>7, <1>10, <3>1, <3>2 DEF FlipsTold
  <2> QED BY <2>1, <2>2
<1>11. ASSUME LastMirror(s), t \in marks'[CopyOf(t)] <=> t \in marks[HomeOf(t)] PROVE LastRight(t)'
  <2>1. Pend(t)' = {}
    BY <1>2, <1>11 DEF LastMirror, Pend
  <2> QED BY <1>11, <2>1 DEF LastRight, HomeKeeps
<1> QED BY <1>9, <1>10, <1>11

\* Two copies that differ are going to be told of: the first that makes another thing of the
\* copy was a change.
LEMMA DifferenceIsTold ==
  ASSUME NEW t \in RealMarks, HasCopy(t), ChainsFit, line \in [MarkStores -> Seq(RxSlots)],
         LastRight(t), FlipsTold(t), ~(t \in marks[HomeOf(t)] <=> t \in marks[CopyOf(t)])
  PROVE  \E p \in RxSlots : req[p].at = "mirror" /\ req[p].mark = t /\ req[p].changed
<1> DEFINE L == line[CopyOf(t)]
           Flips == {i \in DOMAIN L : L[i] \in Pend(t) /\ ~(Adds(L[i]) <=> t \in marks[CopyOf(t)])}
<1>1. CopyOf(t) \in MarkStores
  BY Stores DEF MarkStores, Audiences
<1>2. L \in Seq(RxSlots) /\ Distinct(L) /\ DOMAIN L \subseteq Nat
  BY <1>1 DEF ChainsFit
<1>3. \A p \in Pend(t) : \E i \in DOMAIN L : L[i] = p
  <2> SUFFICES ASSUME NEW p \in Pend(t) PROVE InLine(L, p)
    BY DEF InLine
  <2>1. p \in RxSlots /\ WaitsAt(req[p], CopyOf(t))
    BY DEF Pend, WaitsAt
  <2> QED BY <1>1, <2>1 DEF ChainsFit
<1> HIDE DEF L
<1>4. Flips # {}
  <2>1. Pend(t) # {}
    BY DEF LastRight
  <2>2. PICK p \in Pend(t) : ~(Adds(p) <=> t \in marks[CopyOf(t)])
    <3> SUFFICES ASSUME \A p \in Pend(t) : Adds(p) <=> t \in marks[CopyOf(t)] PROVE FALSE
      OBVIOUS
    <3>1. PICK p \in Pend(t) : TRUE
      BY <2>1
    <3>2. Adds(p) <=> t \in marks[HomeOf(t)]
      BY DEF LastRight
    <3> QED BY <3>2
  <2> QED BY <1>3, <2>2
<1>5. PICK i \in Flips : \A j \in Flips : i <= j
  BY <1>2, <1>4, LeastOf
<1>6. ASSUME NEW q \in Pend(t), Ahead(q, L[i], t) PROVE Adds(q) <=> t \in marks[CopyOf(t)]
  <2>1. PICK a \in DOMAIN L, b \in DOMAIN L : a < b /\ L[a] = q /\ L[b] = L[i]
    BY <1>6 DEF Ahead, AheadIn, L
  <2>2. b = i /\ a < i
    BY <1>2, <1>5, <2>1 DEF Distinct
  <2>3. a \notin Flips
    BY <1>2, <1>5, <2>2
  <2> QED BY <1>6, <2>1, <2>3
<1>7. req[L[i]].changed
  BY <1>5, <1>6 DEF FlipsTold
<1> QED BY <1>5, <1>7 DEF Pend

-----------------------------------------------------------------------------
(* What the steps of one request have in common. *)

KeepsShrink == \A h \in Humans : keeps'[h] \subseteq keeps[h]

\* Messages that both sides still have, they had before.
LEMMA KeptBefore ==
  ASSUME KeepsShrink, NEW m, KeptByAll(m)'
  PROVE  KeptByAll(m)
BY DEF KeepsShrink, KeptByAll

\* The requests of the others stay fit.
LEMMA RequestsStayFit ==
  ASSUME RequestsFit, KeepsShrink, NEW s \in RxSlots, OthersWait(s),
         req'[s] # NoRequest => RequestFits(req'[s], keeps')
  PROVE  RequestsFit'
<1> SUFFICES ASSUME NEW q \in RxSlots, req'[q] # NoRequest PROVE RequestFits(req'[q], keeps')
  BY DEF RequestsFit
<1>1. CASE q = s
  BY <1>1
<1>2. CASE q # s
  <2>1. req'[q] = req[q] /\ RequestFits(req[q], keeps)
    BY <1>2 DEF OthersWait, RequestsFit
  <2>2. req[q].at \in {"clear", "live", "compact"} => keeps'[req[q].mark[2]] \subseteq keeps[req[q].mark[2]]
    BY <2>1 DEF RequestFits, KeepsShrink
  <2> QED BY <2>1, <2>2 DEF RequestFits
<1> QED BY <1>1, <1>2

\* A mark that a step is not about.
LEMMA MarkStays ==
  ASSUME NEW t \in RealMarks, CopyFits(t), KeepsShrink, NEW s \in RxSlots, OthersStay(s), OthersWait(s),
         ~(req[s].at = "mirror" /\ req[s].mark = t), ~(req'[s].at = "mirror" /\ req'[s].mark = t),
         ~Teller(req[s], t),
         t \in cut => t \in cut', t \in untold => t \in untold',
         KeptByAll(t[1])' => HomeKeeps(t) /\ (HasCopy(t) => CopyKeeps(t)) /\ (Known(t) => Known(t)')
  PROVE  CopyFits(t)'
<1> SUFFICES ASSUME KeptByAll(t[1])'
             PROVE  /\ t \notin cut' /\ HasCopy(t) => LastRight(t)'
                    /\ t \notin untold' /\ HasCopy(t) => FlipsTold(t)'
                    /\ t \notin untold' => Apprised(t)'
  BY DEF CopyFits
<1>1. KeptByAll(t[1])
  BY KeptBefore
<1>2. HasCopy(t) => (LastRight(t) => LastRight(t)') /\ (FlipsTold(t) => FlipsTold(t)')
  BY MirrorsStay
<1>3. Apprised(t) => Apprised(t)'
  <2>1. ASSUME NEW q \in RxSlots, Teller(req[q], t) PROVE Apprised(t)'
    <3>1. req'[q] = req[q]
      BY <2>1 DEF OthersWait
    <3>2. Teller(req'[q], t)
      BY <2>1, <3>1
    <3> QED BY <3>2 DEF Apprised
  <2>2. ASSUME Known(t) PROVE Apprised(t)'
    BY <2>2 DEF Apprised
  <2> QED BY <2>1, <2>2 DEF Apprised
<1> QED BY <1>1, <1>2, <1>3 DEF CopyFits

\* A request that leaves a chain for another.
LEMMA QueuesNext ==
  ASSUME RxTyped, NEW s \in RxSlots, NEW from \in MarkStores, NEW to \in MarkStores, NEW r \in RxRequest,
         QueueNext(s, from, to, r), AtHead(s, from),
         \A o : WaitsAt(req[s], o) <=> o = from, \A o : WaitsAt(r, o) <=> o = to
  PROVE  /\ req'[s] = r /\ OthersWait(s) /\ Moves(s, req'[s], line, line')
         /\ line' \in [MarkStores -> Seq(RxSlots)] /\ req' \in [RxSlots -> RxRequest \union {NoRequest}]
<1>1. req' = [req EXCEPT ![s] = r]
  BY DEF QueueNext
<1>2. req'[s] = r /\ OthersWait(s) /\ req' \in [RxSlots -> RxRequest \union {NoRequest}]
  BY <1>1 DEF RxTyped, OthersWait
<1>3. \A o \in MarkStores :
        LET rest == IF o = from THEN Tail(line[o]) ELSE line[o]
        IN line'[o] = IF o = to THEN Append(rest, s) ELSE rest
  BY DEF QueueNext
<1>4. \A o \in MarkStores : line[o] \in Seq(RxSlots)
  BY DEF RxTyped
<1>5. line[from] # <<>>
  BY DEF AtHead
<1>6. Tail(line[from]) \in Seq(RxSlots)
  BY <1>4, <1>5
<1>7. ASSUME NEW o \in MarkStores PROVE line'[o] \in Seq(RxSlots)
  <2> DEFINE rest == IF o = from THEN Tail(line[o]) ELSE line[o]
  <2>1. rest \in Seq(RxSlots)
    BY <1>4, <1>6
  <2>2. line'[o] = IF o = to THEN Append(rest, s) ELSE rest
    BY <1>3
  <2> HIDE DEF rest
  <2> QED BY <2>1, <2>2
<1>8. line' \in [MarkStores -> Seq(RxSlots)]
  <2>1. line' = [o \in MarkStores |-> line'[o]]
    BY DEF QueueNext
  <2> QED BY <1>7, <2>1
<1>9. Moves(s, req'[s], line, line')
  BY <1>2, <1>3 DEF Moves
<1> QED BY <1>2, <1>8, <1>9

\* A request that joins a chain.
LEMMA QueuesUp ==
  ASSUME RxTyped, NEW s \in RxSlots, NEW to \in MarkStores, NEW r \in RxRequest, QueueUp(s, to, r),
         \A o : ~WaitsAt(req[s], o), \A o : WaitsAt(r, o) <=> o = to
  PROVE  /\ req'[s] = r /\ OthersWait(s) /\ Moves(s, req'[s], line, line')
         /\ line' \in [MarkStores -> Seq(RxSlots)] /\ req' \in [RxSlots -> RxRequest \union {NoRequest}]
<1>1. req' = [req EXCEPT ![s] = r] /\ line' = [line EXCEPT ![to] = Append(@, s)]
  BY DEF QueueUp
<1>2. req'[s] = r /\ OthersWait(s) /\ req' \in [RxSlots -> RxRequest \union {NoRequest}]
  BY <1>1 DEF RxTyped, OthersWait
<1>3. \A o \in MarkStores : line'[o] = IF o = to THEN Append(line[o], s) ELSE line[o]
  BY <1>1 DEF RxTyped
<1>4. line' \in [MarkStores -> Seq(RxSlots)]
  BY <1>1 DEF RxTyped
<1> QED BY <1>2, <1>3, <1>4 DEF Moves

\* A request that leaves a chain: it is done, or goes on without one.
LEMMA LeavesLine ==
  ASSUME RxTyped, NEW s \in RxSlots, NEW from \in MarkStores, NEW r \in RxRequest \union {NoRequest},
         line' = [line EXCEPT ![from] = Tail(@)], req' = [req EXCEPT ![s] = r], AtHead(s, from),
         \A o : WaitsAt(req[s], o) <=> o = from, \A o : ~WaitsAt(r, o)
  PROVE  /\ req'[s] = r /\ OthersWait(s) /\ Moves(s, req'[s], line, line')
         /\ line' \in [MarkStores -> Seq(RxSlots)] /\ req' \in [RxSlots -> RxRequest \union {NoRequest}]
<1>1. req'[s] = r /\ OthersWait(s) /\ req' \in [RxSlots -> RxRequest \union {NoRequest}]
  BY DEF RxTyped, OthersWait
<1>2. \A o \in MarkStores : line'[o] = IF o = from THEN Tail(line[o]) ELSE line[o]
  BY DEF RxTyped
<1>3. line[from] # <<>> /\ line[from] \in Seq(RxSlots)
  BY DEF AtHead, RxTyped
<1>4. line' \in [MarkStores -> Seq(RxSlots)]
  BY <1>3 DEF RxTyped
<1> QED BY <1>1, <1>2, <1>4 DEF Moves

\* A request that no chain knows of, before and after.
LEMMA OffLine ==
  ASSUME RxTyped, NEW s \in RxSlots, NEW r \in RxRequest \union {NoRequest}, line' = line,
         req' = [req EXCEPT ![s] = r], \A o : ~WaitsAt(req[s], o), \A o : ~WaitsAt(r, o)
  PROVE  /\ req'[s] = r /\ OthersWait(s) /\ Moves(s, req'[s], line, line')
         /\ line' \in [MarkStores -> Seq(RxSlots)] /\ req' \in [RxSlots -> RxRequest \union {NoRequest}]
BY DEF RxTyped, OthersWait, Moves

\* What an operation of a store makes of the marks.
LEMMA Applies ==
  ASSUME RxTyped, NEW o \in MarkStores, NEW r \in RxRequest, r.op \in {"add", "remove"}, Apply(o, r)
  PROVE  /\ \A u, a : a \in MarkStores => (u \in marks'[a] <=> IF a = o /\ u = r.mark THEN r.op = "add" ELSE u \in marks[a])
         /\ marks' \in [MarkStores -> SUBSET RealMarks] /\ markFile' \in [MarkStores -> SUBSET RealMarks]
         /\ markTail' \subseteq MarkStores \X {Parties(m) : m \in Marked}
<1>1. r.mark \in RealMarks
  BY DEF RxRequest
<1>2. CASE Marking(r, marks[o]) = marks[o]
  <2>1. marks' = marks /\ markFile' = markFile /\ markTail' = markTail
    BY <1>2 DEF Apply
  <2>2. \A u : u \in marks[o] <=> IF u = r.mark THEN r.op = "add" ELSE u \in marks[o]
    BY <1>2 DEF Marking
  <2> QED BY <2>1, <2>2 DEF RxTyped
<1>3. CASE Marking(r, marks[o]) # marks[o]
  <2>1. marks' = [marks EXCEPT ![o] = Marking(r, @)] /\ Filed(o, r)
    BY <1>3 DEF Apply
  <2>2. \A S \in SUBSET RealMarks : Marking(r, S) \in SUBSET RealMarks
    BY <1>1 DEF Marking
  <2>3. marks' \in [MarkStores -> SUBSET RealMarks] /\ markFile' \in [MarkStores -> SUBSET RealMarks]
    BY <2>1, <2>2 DEF RxTyped, Filed
  <2>4. \A u : u \in Marking(r, marks[o]) <=> IF u = r.mark THEN r.op = "add" ELSE u \in marks[o]
    BY DEF Marking
  <2>5. \A a \in MarkStores : marks'[a] = IF a = o THEN Marking(r, marks[o]) ELSE marks[a]
    BY <2>1 DEF RxTyped
  <2>6. markTail' \subseteq MarkStores \X {Parties(m) : m \in Marked}
    BY <2>1 DEF RxTyped, Filed
  <2> QED BY <2>3, <2>4, <2>5, <2>6
<1> QED BY <1>2, <1>3

\* The same of a write that fails.
LEMMA AppliesUnfiled ==
  ASSUME RxTyped, NEW o \in MarkStores, NEW r \in RxRequest, r.op \in {"add", "remove"},
         marks' = [marks EXCEPT ![o] = Marking(r, @)], NotFiled(o, r)
  PROVE  /\ \A u, a : a \in MarkStores => (u \in marks'[a] <=> IF a = o /\ u = r.mark THEN r.op = "add" ELSE u \in marks[a])
         /\ marks' \in [MarkStores -> SUBSET RealMarks] /\ markFile' \in [MarkStores -> SUBSET RealMarks]
         /\ markTail' \subseteq MarkStores \X {Parties(m) : m \in Marked}
<1>1. r.mark \in RealMarks /\ r.mark[1] \in Marked
  BY DEF RxRequest, RealMarks, Triples
<1>2. Marking(r, marks[o]) \in SUBSET RealMarks
  BY <1>1 DEF Marking, RxTyped
<1>3. \A u : u \in Marking(r, marks[o]) <=> IF u = r.mark THEN r.op = "add" ELSE u \in marks[o]
  BY DEF Marking
<1>4. \A a \in MarkStores : marks'[a] = IF a = o THEN Marking(r, marks[o]) ELSE marks[a]
  BY DEF RxTyped
<1>5. marks' \in [MarkStores -> SUBSET RealMarks]
  BY <1>2 DEF RxTyped
<1>6. markTail' \subseteq MarkStores \X {Parties(m) : m \in Marked}
  BY <1>1 DEF RxTyped, NotFiled, FileOf
<1>7. markFile' = markFile
  BY DEF NotFiled
<1> QED BY <1>3, <1>4, <1>5, <1>6, <1>7 DEF RxTyped

\* A step of one request keeps the invariant when it does so for every mark.
LEMMA SlotStep ==
  ASSUME RxInv, RxTyped', NEW s \in RxSlots, OthersWait(s), Moves(s, req'[s], line, line'), KeepsShrink,
         req'[s] # NoRequest => RequestFits(req'[s], keeps'),
         \A t \in RealMarks : OthersStay(s) /\ CopyFits(t) => CopyFits(t)'
  PROVE  RxInv'
<1>1. ChainsFit' /\ OthersStay(s)
  BY ChainMoves DEF RxInv, RxTyped, OthersWait
<1>2. RequestsFit'
  BY RequestsStayFit DEF RxInv
<1>3. CopiesFit'
  BY <1>1 DEF RxInv, CopiesFit
<1> QED BY <1>1, <1>2, <1>3 DEF RxInv

\* A request under way is one.
LEMMA UnderWay ==
  ASSUME RxInv, NEW s \in RxSlots, req[s].at # "idle"
  PROVE  /\ req[s] \in RxRequest /\ RequestFits(req[s], keeps)
         /\ req[s].mark \in RealMarks /\ HomeOf(req[s].mark) \in MarkStores
<1>1. req[s] # NoRequest
  BY DEF NoRequest
<1>2. req[s] \in RxRequest /\ RequestFits(req[s], keeps)
  BY <1>1 DEF RxInv, RxTyped, RequestsFit
<1>3. req[s].mark \in RealMarks
  BY <1>2 DEF RxRequest
<1> QED BY <1>2, <1>3, Stores

-----------------------------------------------------------------------------
(* The steps. *)

\* A new request waits for nothing yet.
LEMMA AskStep ==
  ASSUME RxInv, NEW s \in RxSlots, Ask(s)
  PROVE  RxInv'
<1>1. PICK m \in Marked : \E x \in Parties(m) : \E k \in Emoji : \E o \in Ops :
        /\ o \in {"clear", "drop"} => IsHuman(x)
        /\ req' = [req EXCEPT ![s] =
             [at |-> CASE o = "clear" -> "clear" [] o = "drop" -> "live" [] OTHER -> "find",
              op |-> o, mark |-> <<m, x, k>>, changed |-> FALSE, found |-> {}, live |-> {}]]
  BY DEF Ask
<1>2. PICK x \in Parties(m), k \in Emoji, o \in Ops :
        /\ o \in {"clear", "drop"} => IsHuman(x)
        /\ req' = [req EXCEPT ![s] =
             [at |-> CASE o = "clear" -> "clear" [] o = "drop" -> "live" [] OTHER -> "find",
              op |-> o, mark |-> <<m, x, k>>, changed |-> FALSE, found |-> {}, live |-> {}]]
  BY <1>1
<1> DEFINE a == CASE o = "clear" -> "clear" [] o = "drop" -> "live" [] OTHER -> "find"
           r == [at |-> a, op |-> o, mark |-> <<m, x, k>>, changed |-> FALSE, found |-> {}, live |-> {}]
<1>3. <<m, x, k>> \in RealMarks
  BY DEF RealMarks, Triples
<1>4. a \in {"clear", "live", "find"} /\ (a = "find" => o \in {"add", "remove"}) /\ (a \in {"clear", "live"} => x \in Humans)
  BY <1>2 DEF Ops, IsHuman
<1> HIDE DEF a
<1>5. r \in RxRequest
  BY <1>3, <1>4 DEF RxRequest, RequestAt
<1>6. \A o2 : ~WaitsAt(r, o2)
  BY <1>4 DEF WaitsAt
<1>7. RequestFits(r, keeps)
  BY <1>4 DEF RequestFits
<1>8. r.at \notin {"mirror", "read"} /\ req' = [req EXCEPT ![s] = r]
  BY <1>2, <1>4 DEF a
<1> HIDE DEF r
<1>9. req[s] = NoRequest /\ line' = line /\ \A o2 : ~WaitsAt(req[s], o2)
  BY DEF Ask, NoRequest, WaitsAt
<1>10. /\ req'[s] = r /\ OthersWait(s) /\ Moves(s, req'[s], line, line')
       /\ line' \in [MarkStores -> Seq(RxSlots)] /\ req' \in [RxSlots -> RxRequest \union {NoRequest}]
  BY <1>5, <1>6, <1>8, <1>9, OffLine DEF RxInv
<1>11. asked' \in 0..MaxRequests
  BY ReactionsAssumption DEF Ask, RxInv, RxTyped
<1>12. RxTyped'
  BY <1>10, <1>11 DEF Ask, RxInv, RxTyped
<1>13. KeepsShrink /\ RequestFits(req'[s], keeps')
  BY <1>7, <1>10 DEF Ask, KeepsShrink
<1>14. ASSUME NEW t \in RealMarks, OthersStay(s), CopyFits(t) PROVE CopyFits(t)'
  <2>1. ~(req[s].at = "mirror" /\ req[s].mark = t) /\ ~(req'[s].at = "mirror" /\ req'[s].mark = t) /\ ~Teller(req[s], t)
    BY <1>8, <1>9, <1>10 DEF NoRequest, Teller
  <2>2. HomeKeeps(t) /\ CopyKeeps(t) /\ (Known(t) => Known(t)') /\ (t \in cut => t \in cut') /\ (t \in untold => t \in untold')
    BY DEF Ask, HomeKeeps, CopyKeeps, Known
  <2> QED BY <1>10, <1>13, <1>14, <2>1, <2>2, MarkStays
<1> QED BY <1>10, <1>12, <1>13, <1>14, SlotStep

\* A request whose record is found queues at home; else it is done.
LEMMA FindStep ==
  ASSUME RxInv, NEW s \in RxSlots, FindRecord(s)
  PROVE  RxInv'
<1> DEFINE r == req[s]
<1>1. r.at = "find"
  BY DEF FindRecord
<1>2. r \in RxRequest /\ RequestFits(r, keeps) /\ r.mark \in RealMarks /\ HomeOf(r.mark) \in MarkStores
  BY <1>1, UnderWay
<1>3. (\A o : ~WaitsAt(req[s], o)) /\ (\A o : ~WaitsAt(NoRequest, o))
  BY <1>1 DEF WaitsAt, NoRequest
<1> DEFINE q == [r EXCEPT !.at = "own"]
<1>4. q \in RxRequest /\ q.mark = r.mark /\ q.at = "own" /\ q.op = r.op
  BY <1>2 DEF RxRequest, RequestAt
<1>5. \A o : WaitsAt(q, o) <=> o = HomeOf(r.mark)
  BY <1>4 DEF WaitsAt
<1>6. \/ req' = [req EXCEPT ![s] = NoRequest] /\ line' = line
      \/ QueueUp(s, HomeOf(r.mark), q)
  BY DEF FindRecord, HomeOf
<1> HIDE DEF q
<1>7. /\ req'[s] \in {NoRequest, q} /\ OthersWait(s) /\ Moves(s, req'[s], line, line')
      /\ line' \in [MarkStores -> Seq(RxSlots)] /\ req' \in [RxSlots -> RxRequest \union {NoRequest}]
  <2>1. CASE req' = [req EXCEPT ![s] = NoRequest] /\ line' = line
    BY <2>1, <1>3, OffLine DEF RxInv
  <2>2. CASE QueueUp(s, HomeOf(r.mark), q)
    BY <2>2, <1>2, <1>3, <1>4, <1>5, QueuesUp DEF RxInv
  <2> QED BY <1>6, <2>1, <2>2
<1>8. UNCHANGED <<marks, markFile, markTail, keeps, shown, notices, uses, usesStuck, cut, untold, asked, rxUpsets>>
  BY DEF FindRecord
<1>9. RxTyped'
  BY <1>7, <1>8 DEF RxInv, RxTyped
<1>10. KeepsShrink /\ (req'[s] # NoRequest => RequestFits(req'[s], keeps'))
  BY <1>1, <1>2, <1>4, <1>7, <1>8 DEF KeepsShrink, RequestFits
<1>11. ASSUME NEW t \in RealMarks, OthersStay(s), CopyFits(t) PROVE CopyFits(t)'
  <2>1. ~(req[s].at = "mirror" /\ req[s].mark = t) /\ ~(req'[s].at = "mirror" /\ req'[s].mark = t) /\ ~Teller(req[s], t)
    BY <1>1, <1>4, <1>7 DEF NoRequest, Teller
  <2>2. HomeKeeps(t) /\ CopyKeeps(t) /\ (Known(t) => Known(t)') /\ (t \in cut => t \in cut') /\ (t \in untold => t \in untold')
    BY <1>8 DEF HomeKeeps, CopyKeeps, Known
  <2> QED BY <1>7, <1>10, <1>11, <2>1, <2>2, MarkStays
<1> QED BY <1>7, <1>9, <1>10, <1>11, SlotStep

\* The author's notice changes no mark.
LEMMA NotifyStep ==
  ASSUME RxInv, NEW s \in RxSlots, NotifyAuthor(s)
  PROVE  RxInv'
<1>1. req[s].at = "notify" /\ req' = [req EXCEPT ![s] = NoRequest] /\ line' = line
  BY DEF NotifyAuthor
<1>2. req[s] \in RxRequest /\ req[s].mark \in Triples
  BY <1>1, UnderWay DEF RealMarks
<1>3. (\A o : ~WaitsAt(req[s], o)) /\ (\A o : ~WaitsAt(NoRequest, o))
  BY <1>1 DEF WaitsAt, NoRequest
<1>4. /\ req'[s] = NoRequest /\ OthersWait(s) /\ Moves(s, req'[s], line, line')
      /\ line' \in [MarkStores -> Seq(RxSlots)] /\ req' \in [RxSlots -> RxRequest \union {NoRequest}]
  BY <1>1, <1>3, OffLine DEF RxInv
<1>5. UNCHANGED <<marks, markFile, markTail, keeps, shown, uses, usesStuck, cut, untold, asked, rxUpsets>>
  BY DEF NotifyAuthor
<1>6. notices' \subseteq Triples \X BOOLEAN
  <2> DEFINE turn == req[s].mark[3] \in Earnest /\ IsHuman(req[s].mark[2])
  <2>1. turn \in BOOLEAN
    OBVIOUS
  <2>2. notices' = notices \/ notices' = notices \union {<<req[s].mark, turn>>}
    BY DEF NotifyAuthor
  <2> HIDE DEF turn
  <2> QED BY <1>2, <2>1, <2>2 DEF RxInv, RxTyped
<1>7. RxTyped'
  BY <1>4, <1>5, <1>6 DEF RxInv, RxTyped
<1>8. KeepsShrink
  BY <1>5 DEF KeepsShrink
<1>9. ASSUME NEW t \in RealMarks, OthersStay(s), CopyFits(t) PROVE CopyFits(t)'
  <2>1. ~(req[s].at = "mirror" /\ req[s].mark = t) /\ ~(req'[s].at = "mirror" /\ req'[s].mark = t) /\ ~Teller(req[s], t)
    BY <1>1, <1>4 DEF NoRequest, Teller
  <2>2. HomeKeeps(t) /\ CopyKeeps(t) /\ (Known(t) => Known(t)') /\ (t \in cut => t \in cut') /\ (t \in untold => t \in untold')
    BY <1>5 DEF HomeKeeps, CopyKeeps, Known
  <2> QED BY <1>4, <1>8, <1>9, <2>1, <2>2, MarkStays
<1> QED BY <1>4, <1>7, <1>8, <1>9, SlotStep

\* Who knows of a mark or will be told of it.
LEMMA ToldStays ==
  ASSUME NEW t, NEW s \in RxSlots, OthersWait(s), Apprised(t), Known(t) => Known(t)',
         ~Teller(req[s], t) \/ Teller(req'[s], t)
  PROVE  Apprised(t)'
<1>1. ASSUME NEW q \in RxSlots, Teller(req[q], t) PROVE Apprised(t)'
  <2>1. Teller(req'[q], t)
    BY <1>1 DEF OthersWait
  <2> QED BY <2>1 DEF Apprised
<1> QED BY <1>1 DEF Apprised

\* A mark that is placed or removed at home: it will be mirrored, or read, and told if that
\* was a change.
LEMMA OwnStep ==
  ASSUME RxInv, NEW s \in RxSlots, OwnMark(s)
  PROVE  RxInv'
<1> DEFINE r == req[s] u == req[s].mark h == HomeOf(req[s].mark)
           moved == Marking(r, marks[h]) # marks[h]
           q == [r EXCEPT !.changed = moved]
           next == IF HasCopy(u) THEN [q EXCEPT !.at = "mirror"] ELSE [q EXCEPT !.at = "read"]
           to == IF HasCopy(u) THEN CopyOf(u) ELSE h
<1>1. r.at = "own" /\ AtHead(s, h) /\ Apply(h, r) /\ QueueNext(s, h, to, next)
  BY DEF OwnMark, HomeOf, HasCopy, CopyOf
<1>2. r \in RxRequest /\ RequestFits(r, keeps) /\ u \in RealMarks /\ h \in MarkStores
  BY <1>1, UnderWay
<1>3. r.op \in {"add", "remove"}
  BY <1>1, <1>2 DEF RequestFits
<1>4. to \in MarkStores
  BY <1>2, Stores DEF MarkStores, Audiences
<1>5. /\ next \in RxRequest /\ next.mark = u /\ next.op = r.op /\ (next.changed <=> moved)
      /\ next.at = IF HasCopy(u) THEN "mirror" ELSE "read"
  BY <1>2 DEF RxRequest, RequestAt
<1> HIDE DEF next, q
<1>6. (\A o : WaitsAt(r, o) <=> o = h) /\ (\A o : WaitsAt(next, o) <=> o = to)
  BY <1>1, <1>5 DEF WaitsAt
<1>7. /\ req'[s] = next /\ OthersWait(s) /\ Moves(s, req'[s], line, line')
      /\ line' \in [MarkStores -> Seq(RxSlots)] /\ req' \in [RxSlots -> RxRequest \union {NoRequest}]
  BY <1>1, <1>2, <1>4, <1>5, <1>6, QueuesNext DEF RxInv
<1>8. /\ \A v, a : a \in MarkStores => (v \in marks'[a] <=> IF a = h /\ v = u THEN r.op = "add" ELSE v \in marks[a])
      /\ marks' \in [MarkStores -> SUBSET RealMarks] /\ markFile' \in [MarkStores -> SUBSET RealMarks]
      /\ markTail' \subseteq MarkStores \X {Parties(m) : m \in Marked}
  BY <1>1, <1>2, <1>3, Applies DEF RxInv
<1>9. ~moved => marks' = marks
  BY <1>1 DEF Apply
<1> HIDE DEF moved, to
<1>10. UNCHANGED <<keeps, shown, notices, uses, usesStuck, cut, untold, asked, rxUpsets>>
  BY DEF OwnMark
<1>11. RxTyped'
  BY <1>7, <1>8, <1>10 DEF RxInv, RxTyped
<1>12. KeepsShrink /\ RequestFits(req'[s], keeps')
  BY <1>3, <1>5, <1>7, <1>10 DEF KeepsShrink, RequestFits
<1>13. ASSUME NEW t \in RealMarks, OthersStay(s), CopyFits(t) PROVE CopyFits(t)'
  <2>1. /\ HomeOf(t) \in MarkStores /\ StoresOf(t[1]) \subseteq MarkStores
        /\ HasCopy(t) => CopyOf(t) \in MarkStores /\ CopyOf(t) # HomeOf(t)
    BY Stores DEF MarkStores, Audiences
  <2>2. CASE t # u
    <3>1. ~(req[s].at = "mirror" /\ req[s].mark = t) /\ ~(req'[s].at = "mirror" /\ req'[s].mark = t) /\ ~Teller(req[s], t)
      BY <1>5, <1>7, <2>2 DEF Teller
    <3>2. HomeKeeps(t) /\ (HasCopy(t) => CopyKeeps(t)) /\ (Known(t) => Known(t)')
      BY <1>8, <1>10, <2>1, <2>2 DEF HomeKeeps, CopyKeeps, Known
    <3>3. (t \in cut => t \in cut') /\ (t \in untold => t \in untold')
      BY <1>10
    <3> QED BY <1>7, <1>12, <1>13, <3>1, <3>2, <3>3, MarkStays
  <2>3. CASE t = u
    <3> SUFFICES ASSUME KeptByAll(t[1])'
                 PROVE  /\ t \notin cut /\ HasCopy(t) => LastRight(t)'
                        /\ t \notin untold /\ HasCopy(t) => FlipsTold(t)'
                        /\ t \notin untold => Apprised(t)'
      BY <1>10 DEF CopyFits
    <3>1. KeptByAll(t[1]) /\ (t \notin untold => t \notin cut)
      BY <1>12, KeptBefore DEF RxInv, RxTyped
    <3>2. ASSUME HasCopy(t) PROVE (LastRight(t) => LastRight(t)') /\ (LastRight(t) /\ FlipsTold(t) => FlipsTold(t)')
      <4>1. ~(req[s].at = "mirror" /\ req[s].mark = t) /\ req'[s].at = "mirror" /\ req'[s].mark = t
        BY <1>1, <1>5, <1>7, <2>3, <3>2
      <4>2. t \in marks'[HomeOf(t)] <=> req'[s].op = "add"
        BY <1>5, <1>7, <1>8, <2>1, <2>3
      <4>3. CopyKeeps(t)
        BY <1>8, <2>1, <2>3, <3>2 DEF CopyKeeps
      <4>4. ~HomeKeeps(t) => req'[s].changed
        BY <1>5, <1>7, <1>9 DEF HomeKeeps
      <4> QED BY <1>7, <1>13, <3>2, <4>1, <4>2, <4>3, <4>4, MirrorJoins DEF RxInv
    <3>3. ASSUME Apprised(t) PROVE Apprised(t)'
      <4>1. CASE moved
        <5>1. Teller(req'[s], t)
          BY <1>5, <1>7, <2>3, <4>1 DEF Teller
        <5> QED BY <5>1 DEF Apprised
      <4>2. CASE ~moved
        <5>1. Known(t) => Known(t)'
          BY <1>9, <1>10, <4>2 DEF Known
        <5>2. ~Teller(req[s], t)
          BY <1>1 DEF Teller
        <5> QED BY <1>7, <3>3, <5>1, <5>2, ToldStays
      <4> QED BY <4>1, <4>2
    <3> QED BY <1>13, <3>1, <3>2, <3>3 DEF CopyFits
  <2> QED BY <2>2, <2>3
<1> QED BY <1>7, <1>11, <1>12, <1>13, SlotStep

\* A write that fails at home: the history says that the mark was cut short.
LEMMA OwnFailsStep ==
  ASSUME RxInv, NEW s \in RxSlots, OwnMarkFails(s)
  PROVE  RxInv'
<1> DEFINE r == req[s] u == req[s].mark h == HomeOf(req[s].mark)
<1>1. /\ r.at = "own" /\ AtHead(s, h) /\ RxUpset /\ marks' = [marks EXCEPT ![h] = Marking(r, @)] /\ NotFiled(h, r)
      /\ line' = [line EXCEPT ![h] = Tail(@)] /\ req' = [req EXCEPT ![s] = NoRequest]
      /\ cut' = cut \union {u} /\ untold' = untold \union {u}
      /\ UNCHANGED <<keeps, shown, notices, uses, usesStuck, asked>>
  BY DEF OwnMarkFails, HomeOf
<1>2. r \in RxRequest /\ RequestFits(r, keeps) /\ u \in RealMarks /\ h \in MarkStores
  BY <1>1, UnderWay
<1>3. r.op \in {"add", "remove"}
  BY <1>1, <1>2 DEF RequestFits
<1>4. (\A o : WaitsAt(r, o) <=> o = h) /\ (\A o : ~WaitsAt(NoRequest, o))
  BY <1>1 DEF WaitsAt, NoRequest
<1>5. /\ req'[s] = NoRequest /\ OthersWait(s) /\ Moves(s, req'[s], line, line')
      /\ line' \in [MarkStores -> Seq(RxSlots)] /\ req' \in [RxSlots -> RxRequest \union {NoRequest}]
  BY <1>1, <1>2, <1>4, LeavesLine DEF RxInv
<1>6. /\ \A v, a : a \in MarkStores => (v \in marks'[a] <=> IF a = h /\ v = u THEN r.op = "add" ELSE v \in marks[a])
      /\ marks' \in [MarkStores -> SUBSET RealMarks] /\ markFile' \in [MarkStores -> SUBSET RealMarks]
      /\ markTail' \subseteq MarkStores \X {Parties(m) : m \in Marked}
  BY <1>1, <1>2, <1>3, AppliesUnfiled DEF RxInv
<1>7. rxUpsets' \in 0..MaxUpsets
  BY <1>1, ReactionsAssumption DEF RxInv, RxTyped, RxUpset
<1>8. RxTyped'
  BY <1>1, <1>2, <1>5, <1>6, <1>7 DEF RxInv, RxTyped
<1>9. KeepsShrink
  BY <1>1 DEF KeepsShrink
<1>10. ASSUME NEW t \in RealMarks, OthersStay(s), CopyFits(t) PROVE CopyFits(t)'
  <2>1. HomeOf(t) \in MarkStores /\ StoresOf(t[1]) \subseteq MarkStores /\ (HasCopy(t) => CopyOf(t) \in MarkStores)
    BY Stores DEF MarkStores, Audiences
  <2>2. CASE t # u
    <3>1. ~(req[s].at = "mirror" /\ req[s].mark = t) /\ ~(req'[s].at = "mirror" /\ req'[s].mark = t) /\ ~Teller(req[s], t)
      BY <1>1, <1>5 DEF NoRequest, Teller
    <3>2. HomeKeeps(t) /\ (HasCopy(t) => CopyKeeps(t)) /\ (Known(t) => Known(t)')
      BY <1>1, <1>6, <2>1, <2>2 DEF HomeKeeps, CopyKeeps, Known
    <3>3. (t \in cut => t \in cut') /\ (t \in untold => t \in untold')
      BY <1>1
    <3> QED BY <1>5, <1>9, <1>10, <3>1, <3>2, <3>3, MarkStays
  <2>3. CASE t = u
    BY <1>1, <2>3 DEF CopyFits
  <2> QED BY <2>2, <2>3
<1> QED BY <1>5, <1>8, <1>9, <1>10, SlotStep

\* A mirror: the copy has what the request makes of it, and if that was a change, at home or
\* as a removal here, it will be told.
LEMMA MirrorStep ==
  ASSUME RxInv, NEW s \in RxSlots, MirrorMark(s)
  PROVE  RxInv'
<1> DEFINE r == req[s] u == req[s].mark h == HomeOf(req[s].mark) c == CopyOf(req[s].mark)
           differs == Marking(r, marks[c]) # marks[c]
           told == r.changed \/ (differs /\ r.op = "remove")
           done == [r EXCEPT !.at = "read", !.changed = told]
           failed == [r EXCEPT !.at = "read"]
<1>1. r.at = "mirror" /\ AtHead(s, c)
  BY DEF MirrorMark, CopyOf
<1>2. \/ /\ Apply(c, r) /\ QueueNext(s, c, h, done)
         /\ cut' = IF (u \in marks'[c]) = (u \in marks[h]) /\ LastMirror(s) THEN cut \ {u} ELSE cut
         /\ untold' = IF differs /\ ~told THEN untold \union {u} ELSE untold
         /\ UNCHANGED rxUpsets
      \/ /\ differs /\ RxUpset
         /\ marks' = [marks EXCEPT ![c] = Marking(r, @)] /\ NotFiled(c, r)
         /\ QueueNext(s, c, h, failed)
         /\ untold' = untold \union {u} /\ UNCHANGED cut
  BY DEF MirrorMark, CopyOf, HomeOf
<1>3. UNCHANGED <<keeps, shown, notices, uses, usesStuck, asked>>
  BY DEF MirrorMark
<1>4. r \in RxRequest /\ RequestFits(r, keeps) /\ u \in RealMarks /\ h \in MarkStores
  BY <1>1, UnderWay
<1>5. r.op \in {"add", "remove"} /\ HasCopy(u)
  BY <1>1, <1>4 DEF RequestFits
<1>6. c \in MarkStores /\ c # h
  BY <1>4, <1>5, Stores DEF MarkStores, Audiences
<1>7. /\ done \in RxRequest /\ done.mark = u /\ done.op = r.op /\ done.at = "read" /\ (done.changed <=> told)
      /\ failed \in RxRequest /\ failed.mark = u /\ failed.op = r.op /\ failed.at = "read" /\ (failed.changed <=> r.changed)
  BY <1>4 DEF RxRequest, RequestAt
<1>8. ~differs /\ Apply(c, r) => marks' = marks
  BY DEF Apply
<1> HIDE DEF done, failed, differs, told
<1>9. (\A o : WaitsAt(r, o) <=> o = c) /\ (\A o : WaitsAt(done, o) <=> o = h) /\ (\A o : WaitsAt(failed, o) <=> o = h)
  BY <1>1, <1>7 DEF WaitsAt
<1>10. /\ req'[s] \in {done, failed} /\ OthersWait(s) /\ Moves(s, req'[s], line, line')
       /\ line' \in [MarkStores -> Seq(RxSlots)] /\ req' \in [RxSlots -> RxRequest \union {NoRequest}]
  <2>1. CASE QueueNext(s, c, h, done)
    BY <2>1, <1>1, <1>4, <1>6, <1>7, <1>9, QueuesNext DEF RxInv
  <2>2. CASE QueueNext(s, c, h, failed)
    BY <2>2, <1>1, <1>4, <1>6, <1>7, <1>9, QueuesNext DEF RxInv
  <2> QED BY <1>2, <2>1, <2>2
<1>11. QueueNext(s, c, h, done) => req'[s] = done
  BY <1>1, <1>4, <1>6, <1>7, <1>9, QueuesNext DEF RxInv
<1>12. /\ \A v, a : a \in MarkStores => (v \in marks'[a] <=> IF a = c /\ v = u THEN r.op = "add" ELSE v \in marks[a])
       /\ marks' \in [MarkStores -> SUBSET RealMarks] /\ markFile' \in [MarkStores -> SUBSET RealMarks]
       /\ markTail' \subseteq MarkStores \X {Parties(m) : m \in Marked}
  <2>1. CASE Apply(c, r)
    BY <2>1, <1>4, <1>5, <1>6, Applies DEF RxInv
  <2>2. CASE marks' = [marks EXCEPT ![c] = Marking(r, @)] /\ NotFiled(c, r)
    BY <2>2, <1>4, <1>5, <1>6, AppliesUnfiled DEF RxInv
  <2> QED BY <1>2, <2>1, <2>2
<1>13. /\ untold' \subseteq RealMarks /\ cut' \subseteq untold' /\ rxUpsets' \in 0..MaxUpsets
       /\ untold' = untold \/ untold' = untold \union {u}
       /\ cut' = cut \/ cut' = cut \ {u}
  <2>1. rxUpsets' \in 0..MaxUpsets
    BY <1>2, ReactionsAssumption DEF RxInv, RxTyped, RxUpset
  <2>2. untold' = untold \/ untold' = untold \union {u}
    BY <1>2
  <2>3. cut' = cut \/ cut' = cut \ {u}
    BY <1>2
  <2> QED BY <1>4, <2>1, <2>2, <2>3 DEF RxInv, RxTyped
<1>14. RxTyped'
  BY <1>3, <1>10, <1>12, <1>13 DEF RxInv, RxTyped
<1>15. KeepsShrink /\ RequestFits(req'[s], keeps')
  BY <1>3, <1>5, <1>7, <1>10 DEF KeepsShrink, RequestFits
<1>16. ASSUME NEW t \in RealMarks, OthersStay(s), CopyFits(t) PROVE CopyFits(t)'
  <2>1. HomeOf(t) \in MarkStores /\ StoresOf(t[1]) \subseteq MarkStores /\ (HasCopy(t) => CopyOf(t) \in MarkStores)
    BY Stores DEF MarkStores, Audiences
  <2>2. CASE t # u
    <3>1. ~(req[s].at = "mirror" /\ req[s].mark = t) /\ ~(req'[s].at = "mirror" /\ req'[s].mark = t) /\ ~Teller(req[s], t)
      BY <1>7, <1>10, <2>2 DEF Teller
    <3>2. HomeKeeps(t) /\ (HasCopy(t) => CopyKeeps(t)) /\ (Known(t) => Known(t)')
      BY <1>3, <1>12, <2>1, <2>2 DEF HomeKeeps, CopyKeeps, Known
    <3>3. (t \in cut => t \in cut') /\ (t \in untold => t \in untold')
      BY <1>13, <2>2
    <3> QED BY <1>10, <1>15, <1>16, <3>1, <3>2, <3>3, MarkStays
  <2>3. CASE t = u
    <3> SUFFICES ASSUME KeptByAll(t[1])'
                 PROVE  /\ t \notin cut' => LastRight(t)'
                        /\ t \notin untold' => FlipsTold(t)'
                        /\ t \notin untold' => Apprised(t)'
      BY DEF CopyFits
    <3>1. KeptByAll(t[1]) /\ (t \notin untold' => t \notin untold)
      BY <1>13, <1>15, KeptBefore
    <3>2. /\ LastRight(t) => LastRight(t)'
          /\ FlipsTold(t) => FlipsTold(t)'
          /\ LastMirror(s) /\ (t \in marks'[c] <=> t \in marks[h]) => LastRight(t)'
      <4>1. req[s].at = "mirror" /\ req[s].mark = t /\ ~(req'[s].at = "mirror" /\ req'[s].mark = t)
        BY <1>1, <1>7, <1>10, <2>3
      <4>2. HomeKeeps(t) /\ (t \in marks'[CopyOf(t)] <=> req[s].op = "add")
        BY <1>6, <1>12, <2>1, <2>3, <1>5 DEF HomeKeeps
      <4> QED BY <1>5, <1>10, <1>16, <2>3, <4>1, <4>2, MirrorLeaves DEF RxInv
    <3>3. ASSUME t \notin cut' PROVE LastRight(t)'
      <4>1. t \notin cut \/ (LastMirror(s) /\ (t \in marks'[c] <=> t \in marks[h]))
        BY <1>2, <2>3, <3>3
      <4> QED BY <1>5, <1>16, <2>3, <3>1, <3>2, <4>1 DEF CopyFits
    <3>4. ASSUME t \notin untold' PROVE Apprised(t)'
      <4>1. Apply(c, r) /\ QueueNext(s, c, h, done) /\ ~(differs /\ ~told)
        BY <1>2, <2>3, <3>4
      <4>2. CASE told
        <5>1. Teller(req'[s], t)
          BY <1>7, <1>11, <2>3, <4>1, <4>2 DEF Teller
        <5> QED BY <5>1 DEF Apprised
      <4>3. CASE ~told
        <5>1. Known(t) => Known(t)'
          BY <1>3, <1>8, <4>1, <4>3 DEF Known
        <5>2. ~Teller(req[s], t)
          BY <4>3 DEF Teller, told
        <5>3. Apprised(t)
          BY <1>16, <3>1, <3>4 DEF CopyFits
        <5> QED BY <1>10, <5>1, <5>2, <5>3, ToldStays
      <4> QED BY <4>2, <4>3
    <3> QED BY <1>5, <1>16, <2>3, <3>1, <3>2, <3>3, <3>4 DEF CopyFits
  <2> QED BY <2>2, <2>3
<1> QED BY <1>10, <1>14, <1>15, <1>16, SlotStep

\* A read that is told: all stores of the message's marks have what the home has, or a
\* change of the other side is still to be told.
LEMMA ReadStep ==
  ASSUME RxInv, NEW s \in RxSlots, ReadAndTell(s)
  PROVE  RxInv'
<1> DEFINE u == req[s].mark h == HomeOf(req[s].mark) m == req[s].mark[1]
           looked == {t \in marks[h] : t[1] = m}
           r == [req[s] EXCEPT !.found = looked]
           placed == r.changed /\ r.op = "add"
           next == IF placed THEN [r EXCEPT !.at = "notify"] ELSE NoRequest
<1>1. /\ req[s].at = "read" /\ AtHead(s, h) /\ line' = [line EXCEPT ![h] = Tail(@)]
      /\ IF r.changed THEN Broadcast(r) ELSE UNCHANGED shown
      /\ uses' = IF placed THEN [uses EXCEPT ![r.mark[3]] = "ahead"] ELSE uses
      /\ req' = [req EXCEPT ![s] = next]
      /\ UNCHANGED <<marks, markFile, markTail, keeps, notices, usesStuck, cut, untold, asked, rxUpsets>>
  BY DEF ReadAndTell, HomeOf
<1>2. req[s] \in RxRequest /\ RequestFits(req[s], keeps) /\ u \in RealMarks /\ h \in MarkStores
  BY <1>1, UnderWay
<1>3. looked \subseteq RealMarks
  BY <1>2 DEF RxInv, RxTyped
<1>4. /\ r \in RxRequest /\ r.mark = u /\ r.op = req[s].op /\ r.at = "read" /\ r.found = looked
      /\ (r.changed <=> req[s].changed)
  BY <1>1, <1>2, <1>3 DEF RxRequest
<1> HIDE DEF r
<1>5. next \in RxRequest \union {NoRequest} /\ next.at \in {"notify", "idle"} /\ (next # NoRequest => next.op = "add" /\ next.at = "notify")
  BY <1>4 DEF RxRequest, RequestAt, NoRequest
<1> HIDE DEF next
<1>6. (\A o : WaitsAt(req[s], o) <=> o = h) /\ (\A o : ~WaitsAt(next, o))
  BY <1>1, <1>5 DEF WaitsAt
<1>7. /\ req'[s] = next /\ OthersWait(s) /\ Moves(s, req'[s], line, line')
      /\ line' \in [MarkStores -> Seq(RxSlots)] /\ req' \in [RxSlots -> RxRequest \union {NoRequest}]
  BY <1>1, <1>2, <1>5, <1>6, LeavesLine DEF RxInv
<1>8. StoresOf(m) = {h} \union Copies(m, u[2]) /\ StoresOf(m) \subseteq MarkStores
  BY <1>2, Stores
<1>9. CASE ~req[s].changed
  <2>1. shown' = shown
    BY <1>1, <1>4, <1>9
  <2>2. RxTyped'
    BY <1>1, <1>4, <1>7, <1>9, <2>1 DEF RxInv, RxTyped
  <2>3. KeepsShrink /\ (req'[s] # NoRequest => RequestFits(req'[s], keeps'))
    BY <1>1, <1>5, <1>7 DEF KeepsShrink, RequestFits
  <2>4. ASSUME NEW t \in RealMarks, OthersStay(s), CopyFits(t) PROVE CopyFits(t)'
    <3>1. ~(req[s].at = "mirror" /\ req[s].mark = t) /\ ~(req'[s].at = "mirror" /\ req'[s].mark = t) /\ ~Teller(req[s], t)
      BY <1>1, <1>5, <1>7, <1>9 DEF Teller
    <3>2. HomeKeeps(t) /\ CopyKeeps(t) /\ (Known(t) => Known(t)') /\ (t \in cut => t \in cut') /\ (t \in untold => t \in untold')
      BY <1>1, <2>1 DEF HomeKeeps, CopyKeeps, Known
    <3> QED BY <1>7, <2>3, <2>4, <3>1, <3>2, MarkStays
  <2> QED BY <1>7, <2>2, <2>3, <2>4, SlotStep
<1>10. CASE req[s].changed
  <2>1. shown' = [a \in Audiences |->
                    IF a \in StoresOf(m) THEN [marks |-> {t \in shown[a].marks : t[1] # m} \union looked, viewer |-> h] ELSE shown[a]]
    BY <1>1, <1>4, <1>8, <1>10 DEF Broadcast, HomeOf
  <2>2. shown' \in [Audiences -> [marks : SUBSET RealMarks, viewer : Audiences]]
    BY <1>2, <1>3, <2>1 DEF RxInv, RxTyped, MarkStores
  <2>3. \A t, a : a \in MarkStores =>
          (t \in shown'[a].marks <=> IF a \in StoresOf(m) /\ t[1] = m THEN t \in marks[h] ELSE t \in shown[a].marks)
    BY <2>1 DEF MarkStores
  <2>4. uses' \in [Emoji -> {"none", "ahead", "saved"}]
    BY <1>1 DEF RxInv, RxTyped
  <2>5. RxTyped'
    BY <1>1, <1>7, <2>2, <2>4 DEF RxInv, RxTyped
  <2>6. KeepsShrink /\ (req'[s] # NoRequest => RequestFits(req'[s], keeps'))
    BY <1>1, <1>5, <1>7 DEF KeepsShrink, RequestFits
  <2>7. ASSUME NEW t \in RealMarks, OthersStay(s), CopyFits(t) PROVE CopyFits(t)'
    <3>1. ~(req[s].at = "mirror" /\ req[s].mark = t) /\ ~(req'[s].at = "mirror" /\ req'[s].mark = t)
      BY <1>1, <1>5, <1>7
    <3>2. HomeKeeps(t) /\ CopyKeeps(t) /\ (t \in cut => t \in cut') /\ (t \in untold => t \in untold')
      BY <1>1 DEF HomeKeeps, CopyKeeps
    <3>3. StoresOf(t[1]) \subseteq MarkStores
      BY Stores
    <3>4. CASE t[1] # m
      <4>1. Known(t) => Known(t)'
        BY <1>1, <2>3, <3>3, <3>4 DEF Known
      <4>2. ~Teller(req[s], t)
        BY <3>4 DEF Teller
      <4> QED BY <1>7, <2>6, <2>7, <3>1, <3>2, <4>1, <4>2, MarkStays
    <3>5. CASE t[1] = m
      <4> SUFFICES ASSUME KeptByAll(t[1])'
                   PROVE  /\ t \notin cut /\ HasCopy(t) => LastRight(t)'
                          /\ t \notin untold /\ HasCopy(t) => FlipsTold(t)'
                          /\ t \notin untold => Apprised(t)'
        BY <1>1 DEF CopyFits
      <4>1. KeptByAll(t[1]) /\ (t \notin untold => t \notin cut)
        BY <2>6, KeptBefore DEF RxInv, RxTyped
      <4>2. HasCopy(t) => (LastRight(t) => LastRight(t)') /\ (FlipsTold(t) => FlipsTold(t)')
        BY <1>7, <2>7, <3>1, <3>2, MirrorsStay
      <4>3. \A o \in StoresOf(t[1]) : t \in shown'[o].marks <=> t \in marks[h]
        BY <2>3, <3>3, <3>5
      <4>4. ASSUME t \notin untold PROVE Apprised(t)'
        <5>1. CASE \A o \in StoresOf(t[1]) : t \in marks[o] <=> t \in marks[h]
          <6>1. Known(t)'
            BY <1>1, <4>3, <5>1 DEF Known
          <6> QED BY <6>1 DEF Apprised
        <5>2. CASE ~\A o \in StoresOf(t[1]) : t \in marks[o] <=> t \in marks[h]
          <6>1. StoresOf(t[1]) = {HomeOf(t)} \union Copies(t[1], t[2]) /\ (HasCopy(t) => Copies(t[1], t[2]) = {CopyOf(t)})
            BY Stores
          <6>2. (HasCopy(t) => h \in {HomeOf(t), CopyOf(t)}) /\ (~HasCopy(t) => h = HomeOf(t))
            BY <1>2, <3>5, SameStores
          <6>3. HasCopy(t) /\ ~(t \in marks[HomeOf(t)] <=> t \in marks[CopyOf(t)])
            BY <5>2, <6>1, <6>2 DEF HasCopy
          <6>4. LastRight(t) /\ FlipsTold(t)
            BY <2>7, <4>1, <4>4, <6>3 DEF CopyFits
          <6>5. PICK p \in RxSlots : req[p].at = "mirror" /\ req[p].mark = t /\ req[p].changed
            BY <6>3, <6>4, DifferenceIsTold DEF RxInv, RxTyped
          <6>6. p # s /\ req'[p] = req[p]
            BY <1>1, <1>7, <6>5 DEF OthersWait
          <6>7. Teller(req'[p], t)
            BY <6>5, <6>6 DEF Teller
          <6> QED BY <6>7 DEF Apprised
        <5> QED BY <5>1, <5>2
      <4> QED BY <2>7, <4>1, <4>2, <4>4 DEF CopyFits
    <3> QED BY <3>4, <3>5
  <2> QED BY <1>7, <2>5, <2>6, <2>7, SlotStep
<1> QED BY <1>9, <1>10

\* The chat that a request empties is one of its person's.
LEMMA HasIt ==
  ASSUME NEW u \in RealMarks, u[2] \in Humans, NEW m, Parties(m) = Parties(u[1]), KeptByAll(m)
  PROVE  m \in keeps[u[2]]
<1>1. u[2] \in Parties(m) \cap Humans
  BY DEF RealMarks
<1> QED BY <1>1 DEF KeptByAll

\* A step after which a mark is where it was, and shown where it was, if both sides have its
\* message.
LEMMA MarkRests ==
  ASSUME NEW t \in RealMarks, CopyFits(t), KeepsShrink, NEW s \in RxSlots, OthersStay(s), OthersWait(s),
         req[s].at \notin {"mirror", "read"}, req'[s].at \notin {"mirror", "read"}, UNCHANGED <<cut, untold>>,
         KeptByAll(t[1])' => \A a \in MarkStores : /\ t \in marks'[a] <=> t \in marks[a]
                                                   /\ t \in shown'[a].marks <=> t \in shown[a].marks
  PROVE  CopyFits(t)'
<1>1. HomeOf(t) \in MarkStores /\ StoresOf(t[1]) \subseteq MarkStores /\ (HasCopy(t) => CopyOf(t) \in MarkStores)
  BY Stores DEF MarkStores, Audiences
<1>2. KeptByAll(t[1])' => HomeKeeps(t) /\ (HasCopy(t) => CopyKeeps(t)) /\ (Known(t) => Known(t)')
  BY <1>1 DEF HomeKeeps, CopyKeeps, Known
<1>3. ~(req[s].at = "mirror" /\ req[s].mark = t) /\ ~(req'[s].at = "mirror" /\ req'[s].mark = t) /\ ~Teller(req[s], t)
  BY DEF Teller
<1> QED BY <1>2, <1>3, MarkStays

\* A chat that is cleared: its messages leave the history, then its marks go.
LEMMA ClearStep ==
  ASSUME RxInv, NEW s \in RxSlots, ClearHistory(s)
  PROVE  RxInv'
<1> DEFINE r == req[s] u == req[s].mark h == req[s].mark[2]
           pair == {m \in Marked : Parties(m) = Parties(req[s].mark[1])}
<1>1. /\ r.at = "clear"
      /\ UNCHANGED <<notices, uses, usesStuck, cut, untold, asked, rxUpsets>>
  BY DEF ClearHistory
<1>2. r \in RxRequest /\ RequestFits(r, keeps) /\ u \in RealMarks
  BY <1>1, UnderWay
<1>3. h \in Humans /\ h \in MarkStores
  BY <1>1, <1>2 DEF RequestFits, MarkStores, Audiences
<1>4. CASE r.found = {}
  <2> DEFINE q == [r EXCEPT !.found = {u}]
  <2>1. keeps' = [keeps EXCEPT ![h] = @ \ pair] /\ QueueUp(s, h, q) /\ UNCHANGED <<marks, markFile, markTail, shown>>
    BY <1>4 DEF ClearHistory
  <2>2. q \in RxRequest /\ q.mark = u /\ q.at = "clear" /\ q.found # {}
    BY <1>1, <1>2 DEF RxRequest
  <2> HIDE DEF q
  <2>3. (\A o : ~WaitsAt(req[s], o)) /\ (\A o : WaitsAt(q, o) <=> o = h)
    BY <1>1, <1>4, <2>2 DEF WaitsAt
  <2>4. /\ req'[s] = q /\ OthersWait(s) /\ Moves(s, req'[s], line, line')
        /\ line' \in [MarkStores -> Seq(RxSlots)] /\ req' \in [RxSlots -> RxRequest \union {NoRequest}]
    BY <1>3, <2>1, <2>2, <2>3, QueuesUp DEF RxInv
  <2>5. keeps' \in [Humans -> SUBSET Marked] /\ KeepsShrink /\ keeps'[h] = keeps[h] \ pair /\ keeps[h] \subseteq Marked
    BY <1>3, <2>1 DEF RxInv, RxTyped, KeepsShrink
  <2>6. RxTyped'
    BY <1>1, <2>1, <2>4, <2>5 DEF RxInv, RxTyped
  <2>7. RequestFits(req'[s], keeps')
    BY <1>3, <2>2, <2>4, <2>5 DEF RequestFits
  <2>8. ASSUME NEW t \in RealMarks, OthersStay(s), CopyFits(t) PROVE CopyFits(t)'
    BY <1>1, <2>1, <2>2, <2>4, <2>5, <2>8, MarkRests
  <2> QED BY <2>4, <2>5, <2>6, <2>7, <2>8, SlotStep
<1>5. CASE r.found # {}
  <2>1. /\ AtHead(s, h)
        /\ marks' = [marks EXCEPT ![h] = {t \in @ : t[1] \notin pair}]
        /\ markFile' = [markFile EXCEPT ![h] = {t \in @ : t[1] \notin pair}]
        /\ markTail' = markTail \ {FileOf(h, r)}
        /\ line' = [line EXCEPT ![h] = Tail(@)] /\ req' = [req EXCEPT ![s] = NoRequest]
        /\ shown' = [shown EXCEPT ![h].marks = {t \in @ : t[1] \notin pair}]
        /\ UNCHANGED keeps
    BY <1>5 DEF ClearHistory
  <2>2. (\A o : WaitsAt(req[s], o) <=> o = h) /\ (\A o : ~WaitsAt(NoRequest, o))
    BY <1>1, <1>5 DEF WaitsAt, NoRequest
  <2>3. /\ req'[s] = NoRequest /\ OthersWait(s) /\ Moves(s, req'[s], line, line')
        /\ line' \in [MarkStores -> Seq(RxSlots)] /\ req' \in [RxSlots -> RxRequest \union {NoRequest}]
    BY <1>3, <2>1, <2>2, LeavesLine DEF RxInv
  <2>4. marks' \in [MarkStores -> SUBSET RealMarks] /\ markFile' \in [MarkStores -> SUBSET RealMarks]
    BY <2>1 DEF RxInv, RxTyped
  <2>5. shown' \in [Audiences -> [marks : SUBSET RealMarks, viewer : Audiences]]
    <3> DEFINE stays == {t \in shown[h].marks : t[1] \notin pair}
    <3>1. shown \in [Audiences -> [marks : SUBSET RealMarks, viewer : Audiences]] /\ h \in Audiences
      BY <1>3 DEF RxInv, RxTyped, MarkStores
    <3>2. stays \in SUBSET RealMarks
      BY <3>1
    <3>3. shown' = [shown EXCEPT ![h].marks = stays]
      BY <2>1, <3>1
    <3> HIDE DEF stays
    <3>4. [shown[h] EXCEPT !.marks = stays] \in [marks : SUBSET RealMarks, viewer : Audiences]
      BY <3>1, <3>2
    <3>5. shown' = [shown EXCEPT ![h] = [shown[h] EXCEPT !.marks = stays]]
      BY <3>3
    <3> QED BY <3>1, <3>4, <3>5
  <2>6. RxTyped'
    BY <1>1, <2>1, <2>3, <2>4, <2>5 DEF RxInv, RxTyped
  <2>7. KeepsShrink
    BY <2>1 DEF KeepsShrink
  <2>8. ASSUME NEW t \in RealMarks, OthersStay(s), CopyFits(t) PROVE CopyFits(t)'
    <3>1. KeptByAll(t[1])' => t[1] \notin pair
      <4> SUFFICES ASSUME KeptByAll(t[1])', t[1] \in pair PROVE FALSE
        OBVIOUS
      <4>1. KeptByAll(t[1])
        BY <2>7, KeptBefore
      <4>2. t[1] \in keeps[h]
        BY <1>2, <1>3, <4>1, HasIt
      <4> QED BY <1>1, <1>2, <1>5, <4>2 DEF RequestFits
    <3>2. t[1] \notin pair => \A a \in MarkStores : /\ t \in marks'[a] <=> t \in marks[a]
                                                    /\ t \in shown'[a].marks <=> t \in shown[a].marks
      BY <2>1 DEF RxInv, RxTyped, MarkStores
    <3>3. req'[s].at = "idle"
      BY <2>3 DEF NoRequest
    <3> QED BY <1>1, <2>3, <2>7, <2>8, <3>1, <3>2, <3>3, MarkRests
  <2> QED BY <2>3, <2>6, <2>7, <2>8, SlotStep
<1> QED BY <1>4, <1>5

\* A topic's messages leave the history.
LEMMA RemoveStep ==
  ASSUME RxInv, NEW s \in RxSlots, RemoveMessages(s)
  PROVE  RxInv'
<1> DEFINE r == req[s] u == req[s].mark h == req[s].mark[2]
           q == [r EXCEPT !.at = "compact", !.live = keeps'[h]]
<1>1. /\ r.at = "live" /\ keeps' = [keeps EXCEPT ![h] = @ \ {u[1]}] /\ QueueUp(s, h, q)
      /\ UNCHANGED <<marks, markFile, markTail, shown, notices, uses, usesStuck, cut, untold, asked, rxUpsets>>
  BY DEF RemoveMessages
<1>2. r \in RxRequest /\ RequestFits(r, keeps) /\ u \in RealMarks
  BY <1>1, UnderWay
<1>3. h \in Humans /\ h \in MarkStores
  BY <1>1, <1>2 DEF RequestFits, MarkStores, Audiences
<1>4. keeps' \in [Humans -> SUBSET Marked] /\ KeepsShrink /\ keeps'[h] = keeps[h] \ {u[1]}
  BY <1>1, <1>3 DEF RxInv, RxTyped, KeepsShrink
<1>5. keeps'[h] \in SUBSET Marked
  BY <1>3, <1>4
<1>6. q \in RxRequest /\ q.mark = u /\ q.at = "compact" /\ q.live = keeps'[h]
  BY <1>2, <1>5 DEF RxRequest, RequestAt
<1> HIDE DEF q
<1>7. (\A o : ~WaitsAt(req[s], o)) /\ (\A o : WaitsAt(q, o) <=> o = h)
  BY <1>1, <1>6 DEF WaitsAt
<1>8. /\ req'[s] = q /\ OthersWait(s) /\ Moves(s, req'[s], line, line')
      /\ line' \in [MarkStores -> Seq(RxSlots)] /\ req' \in [RxSlots -> RxRequest \union {NoRequest}]
  BY <1>1, <1>3, <1>6, <1>7, QueuesUp DEF RxInv
<1>9. RxTyped'
  BY <1>1, <1>4, <1>8 DEF RxInv, RxTyped
<1>10. RequestFits(req'[s], keeps')
  BY <1>3, <1>4, <1>6, <1>8 DEF RequestFits
<1>11. ASSUME NEW t \in RealMarks, OthersStay(s), CopyFits(t) PROVE CopyFits(t)'
  BY <1>1, <1>4, <1>6, <1>8, <1>11, MarkRests
<1> QED BY <1>4, <1>8, <1>9, <1>10, <1>11, SlotStep

\* The marks of messages that are gone are compacted away.
LEMMA CompactStep ==
  ASSUME RxInv, NEW s \in RxSlots, Compact(s)
  PROVE  RxInv'
<1> DEFINE r == req[s] u == req[s].mark h == req[s].mark[2]
           left == {t \in marks[h] : t[1] \in r.live \/ Parties(t[1]) # Parties(u[1])}
<1>1. /\ r.at = "compact" /\ AtHead(s, h) /\ marks' = [marks EXCEPT ![h] = left]
      /\ \/ left = marks[h] /\ UNCHANGED <<markFile, markTail>>
         \/ /\ markFile' = [markFile EXCEPT ![h] =
                 {t \in @ : Parties(t[1]) # Parties(u[1])} \union {t \in left : Parties(t[1]) = Parties(u[1])}]
            /\ markTail' = markTail \ {FileOf(h, r)}
      /\ line' = [line EXCEPT ![h] = Tail(@)] /\ req' = [req EXCEPT ![s] = NoRequest]
      /\ shown' = [shown EXCEPT ![h].marks = {t \in @ : t[1] # u[1]}]
      /\ UNCHANGED <<keeps, notices, uses, usesStuck, cut, untold, asked, rxUpsets>>
  BY DEF Compact
<1>2. r \in RxRequest /\ RequestFits(r, keeps) /\ u \in RealMarks
  BY <1>1, UnderWay
<1>3. h \in Humans /\ h \in MarkStores
  BY <1>1, <1>2 DEF RequestFits, MarkStores, Audiences
<1>4. (\A o : WaitsAt(req[s], o) <=> o = h) /\ (\A o : ~WaitsAt(NoRequest, o))
  BY <1>1 DEF WaitsAt, NoRequest
<1>5. /\ req'[s] = NoRequest /\ OthersWait(s) /\ Moves(s, req'[s], line, line')
      /\ line' \in [MarkStores -> Seq(RxSlots)] /\ req' \in [RxSlots -> RxRequest \union {NoRequest}]
  BY <1>1, <1>3, <1>4, LeavesLine DEF RxInv
<1>6. left \subseteq RealMarks
  BY <1>3 DEF RxInv, RxTyped
<1>7. marks' \in [MarkStores -> SUBSET RealMarks] /\ markTail' \subseteq markTail
  BY <1>1, <1>6 DEF RxInv, RxTyped
<1>8. markFile' \in [MarkStores -> SUBSET RealMarks]
  <2> DEFINE stays == {t \in markFile[h] : Parties(t[1]) # Parties(u[1])} \union {t \in left : Parties(t[1]) = Parties(u[1])}
  <2>1. markFile \in [MarkStores -> SUBSET RealMarks]
    BY DEF RxInv, RxTyped
  <2>2. stays \in SUBSET RealMarks
    BY <1>3, <1>6, <2>1
  <2>3. markFile' = markFile \/ markFile' = [markFile EXCEPT ![h] = stays]
    BY <1>1
  <2> HIDE DEF stays
  <2> QED BY <2>1, <2>2, <2>3
<1>9. shown' \in [Audiences -> [marks : SUBSET RealMarks, viewer : Audiences]]
  <2> DEFINE stays == {t \in shown[h].marks : t[1] # u[1]}
  <2>1. shown \in [Audiences -> [marks : SUBSET RealMarks, viewer : Audiences]] /\ h \in Audiences
    BY <1>3 DEF RxInv, RxTyped, MarkStores
  <2>2. stays \in SUBSET RealMarks
    BY <2>1
  <2>3. shown' = [shown EXCEPT ![h].marks = stays]
    BY <1>1, <2>1
  <2> HIDE DEF stays
  <2>4. [shown[h] EXCEPT !.marks = stays] \in [marks : SUBSET RealMarks, viewer : Audiences]
    BY <2>1, <2>2
  <2>5. shown' = [shown EXCEPT ![h] = [shown[h] EXCEPT !.marks = stays]]
    BY <2>3
  <2> QED BY <2>1, <2>4, <2>5
<1>10. RxTyped'
  BY <1>1, <1>5, <1>7, <1>8, <1>9 DEF RxInv, RxTyped
<1>11. KeepsShrink
  BY <1>1 DEF KeepsShrink
<1>12. ASSUME NEW t \in RealMarks, OthersStay(s), CopyFits(t) PROVE CopyFits(t)'
  <2>1. KeptByAll(t[1])' => t[1] # u[1] /\ (Parties(t[1]) = Parties(u[1]) => t[1] \in r.live)
    <3> SUFFICES ASSUME KeptByAll(t[1])', Parties(t[1]) = Parties(u[1]) PROVE t[1] # u[1] /\ t[1] \in r.live
      OBVIOUS
    <3>1. KeptByAll(t[1])
      BY <1>11, KeptBefore
    <3>2. t[1] \in keeps[h]
      BY <1>2, <1>3, <3>1, HasIt
    <3> QED BY <1>1, <1>2, <3>2 DEF RequestFits
  <2>2. t[1] # u[1] /\ (Parties(t[1]) = Parties(u[1]) => t[1] \in r.live) =>
          \A a \in MarkStores : /\ t \in marks'[a] <=> t \in marks[a]
                                /\ t \in shown'[a].marks <=> t \in shown[a].marks
    BY <1>1 DEF RxInv, RxTyped, MarkStores
  <2>3. req'[s].at = "idle"
    BY <1>5 DEF NoRequest
  <2> QED BY <1>1, <1>5, <1>11, <1>12, <2>1, <2>2, <2>3, MarkRests
<1> QED BY <1>5, <1>10, <1>11, <1>12, SlotStep

\* What only touches counters changes no mark.
LEMMA RestStep ==
  ASSUME RxInv, FlushUses \/ UNCHANGED rxVars
  PROVE  RxInv'
<1>1. UNCHANGED <<marks, markFile, markTail, keeps, req, line, shown, notices, cut, untold, asked>>
  BY DEF FlushUses, rxVars
<1>2. rxUpsets' \in 0..MaxUpsets /\ usesStuck' \in BOOLEAN /\ uses' \in [Emoji -> {"none", "ahead", "saved"}]
  <2>1. CASE FlushUses
    <3>1. \/ uses' = [k \in Emoji |-> IF uses[k] = "ahead" THEN "saved" ELSE uses[k]] /\ UNCHANGED <<usesStuck, rxUpsets>>
          \/ RxUpset /\ usesStuck' = TRUE /\ UNCHANGED uses
      BY <2>1 DEF FlushUses
    <3>2. RxUpset => rxUpsets' \in 0..MaxUpsets
      BY ReactionsAssumption DEF RxUpset, RxInv, RxTyped
    <3>3. [k \in Emoji |-> IF uses[k] = "ahead" THEN "saved" ELSE uses[k]] \in [Emoji -> {"none", "ahead", "saved"}]
      BY DEF RxInv, RxTyped
    <3> QED BY <3>1, <3>2, <3>3 DEF RxInv, RxTyped
  <2>2. CASE UNCHANGED rxVars
    BY <2>2 DEF rxVars, RxInv, RxTyped
  <2> QED BY <2>1, <2>2
<1>3. RxTyped'
  BY <1>1, <1>2 DEF RxInv, RxTyped
<1>4. ChainsFit' /\ RequestsFit'
  BY <1>1 DEF RxInv, ChainsFit, RequestsFit
<1>5. ASSUME NEW t \in RealMarks, CopyFits(t) PROVE CopyFits(t)'
  <2>1. Pend(t)' = Pend(t) /\ (\A p, q : Ahead(p, q, t)' <=> Ahead(p, q, t)) /\ (\A p : Adds(p)' <=> Adds(p))
    BY <1>1 DEF Pend, Ahead, Adds
  <2>2. (LastRight(t) => LastRight(t)') /\ (FlipsTold(t) => FlipsTold(t)')
    BY <1>1, <2>1 DEF LastRight, FlipsTold
  <2>3. (Apprised(t) => Apprised(t)') /\ (KeptByAll(t[1])' => KeptByAll(t[1]))
    BY <1>1 DEF Apprised, Known, KeptByAll
  <2> QED BY <1>1, <1>5, <2>2, <2>3 DEF CopyFits
<1> QED BY <1>3, <1>4, <1>5 DEF RxInv, CopiesFit

\* A restart: the history says which marks were under way, or not in their file.
LEMMA CrashStep ==
  ASSUME RxInv, RxCrash
  PROVE  RxInv'
<1> DEFINE begun == {req[s].mark : s \in {u \in RxSlots : req[u] # NoRequest}}
           dropped == {t \in Triples : \E o \in MarkStores : (t \in marks[o]) # (t \in markFile[o])}
<1>1. /\ RxUpset /\ cut' = cut \union begun \union dropped /\ untold' = untold \union begun \union dropped
      /\ marks' = markFile /\ req' = [s \in RxSlots |-> NoRequest] /\ line' = [o \in MarkStores |-> <<>>]
      /\ uses' = [k \in Emoji |-> IF uses[k] = "ahead" THEN "none" ELSE uses[k]]
      /\ usesStuck' = FALSE
      /\ UNCHANGED <<markFile, markTail, keeps, shown, notices, asked>>
  BY DEF RxCrash
<1>2. begun \subseteq RealMarks
  BY DEF RxInv, RxTyped, RxRequest
<1>3. dropped \subseteq RealMarks
  BY DEF RxInv, RxTyped
<1>4. RxTyped'
  <2>1. rxUpsets' \in 0..MaxUpsets
    BY <1>1, ReactionsAssumption DEF RxUpset, RxInv, RxTyped
  <2>2. untold' \subseteq RealMarks /\ cut' \subseteq untold'
    BY <1>1, <1>2, <1>3 DEF RxInv, RxTyped
  <2>3. req' \in [RxSlots -> RxRequest \union {NoRequest}] /\ line' \in [MarkStores -> Seq(RxSlots)]
    BY <1>1
  <2>4. uses' \in [Emoji -> {"none", "ahead", "saved"}] /\ usesStuck' \in BOOLEAN
    BY <1>1 DEF RxInv, RxTyped
  <2> QED BY <1>1, <2>1, <2>2, <2>3, <2>4 DEF RxInv, RxTyped
<1>5. ChainsFit'
  <2>1. \A s, o : ~WaitsAt(NoRequest, o) /\ ~InLine(<<>>, s) /\ Distinct(<<>>)
    BY DEF WaitsAt, NoRequest, InLine, Distinct
  <2> QED BY <1>1, <2>1 DEF ChainsFit
<1>6. RequestsFit'
  BY <1>1 DEF RequestsFit
<1>7. ASSUME NEW t \in RealMarks PROVE CopyFits(t)'
  <2> SUFFICES ASSUME KeptByAll(t[1])'
               PROVE  /\ t \notin cut' /\ HasCopy(t) => LastRight(t)'
                      /\ t \notin untold' /\ HasCopy(t) => FlipsTold(t)'
                      /\ t \notin untold' => Apprised(t)'
    BY DEF CopyFits
  <2>1. CopyFits(t) /\ KeptByAll(t[1])
    BY <1>1 DEF RxInv, CopiesFit, KeptByAll
  <2>2. Pend(t)' = {}
    BY <1>1 DEF Pend, NoRequest
  <2>3. HomeOf(t) \in MarkStores /\ StoresOf(t[1]) \subseteq MarkStores /\ (HasCopy(t) => CopyOf(t) \in MarkStores)
    BY Stores DEF MarkStores, Audiences
  <2>4. t \notin dropped => \A o \in MarkStores : t \in marks'[o] <=> t \in marks[o]
    BY <1>1 DEF RealMarks
  <2>5. t \notin begun => Pend(t) = {} /\ \A s \in RxSlots : ~Teller(req[s], t)
    BY DEF Pend, NoRequest, Teller
  <2> HIDE DEF begun, dropped
  <2>6. ASSUME t \notin cut', HasCopy(t) PROVE LastRight(t)'
    <3>1. t \notin cut /\ t \notin begun /\ t \notin dropped
      BY <1>1, <2>6
    <3>2. t \in marks[CopyOf(t)] <=> t \in marks[HomeOf(t)]
      BY <2>1, <2>5, <2>6, <3>1 DEF CopyFits, LastRight
    <3> QED BY <2>2, <2>3, <2>4, <2>6, <3>1, <3>2 DEF LastRight
  <2>7. FlipsTold(t)'
    BY <2>2 DEF FlipsTold
  <2>8. ASSUME t \notin untold' PROVE Apprised(t)'
    <3>1. t \notin untold /\ t \notin begun /\ t \notin dropped
      BY <1>1, <2>8
    <3>2. Known(t)
      BY <2>1, <2>5, <3>1 DEF CopyFits, Apprised
    <3>3. Known(t)'
      BY <1>1, <2>3, <2>4, <3>1, <3>2 DEF Known
    <3> QED BY <3>3 DEF Apprised
  <2> QED BY <2>6, <2>7, <2>8
<1> QED BY <1>4, <1>5, <1>6, <1>7 DEF RxInv, CopiesFit

\* At the start nothing is marked.
LEMMA ReactionsStart == RxStart => RxInv
<1> SUFFICES ASSUME RxStart PROVE RxInv
  OBVIOUS
<1>1. RxTyped
  <2>1. marks \in [MarkStores -> SUBSET RealMarks] /\ markFile \in [MarkStores -> SUBSET RealMarks] /\ markTail = {}
    BY DEF RxStart
  <2>2. keeps \in [Humans -> SUBSET Marked]
    BY DEF RxStart
  <2>3. req \in [RxSlots -> RxRequest \union {NoRequest}] /\ line \in [MarkStores -> Seq(RxSlots)]
    BY DEF RxStart
  <2>4. shown \in [Audiences -> [marks : SUBSET RealMarks, viewer : Audiences]]
    BY DEF RxStart
  <2>5. notices = {} /\ uses \in [Emoji -> {"none", "ahead", "saved"}] /\ usesStuck = FALSE /\ untold = {} /\ cut = {}
    BY DEF RxStart
  <2>6. asked \in 0..MaxRequests /\ rxUpsets \in 0..MaxUpsets
    BY ReactionsAssumption DEF RxStart
  <2> QED BY <2>1, <2>2, <2>3, <2>4, <2>5, <2>6 DEF RxTyped
<1>2. ChainsFit
  <2>1. \A s, o : ~WaitsAt(NoRequest, o) /\ ~InLine(<<>>, s) /\ Distinct(<<>>)
    BY DEF WaitsAt, NoRequest, InLine, Distinct
  <2> QED BY <2>1 DEF RxStart, ChainsFit
<1>3. RequestsFit
  BY DEF RxStart, RequestsFit
<1>4. ASSUME NEW t \in RealMarks PROVE CopyFits(t)
  <2>1. Pend(t) = {}
    BY DEF RxStart, Pend, NoRequest
  <2>2. HomeOf(t) \in MarkStores /\ StoresOf(t[1]) \subseteq MarkStores /\ (HasCopy(t) => CopyOf(t) \in MarkStores)
    BY Stores DEF MarkStores, Audiences
  <2>3. HasCopy(t) => LastRight(t) /\ FlipsTold(t)
    BY <2>1, <2>2 DEF RxStart, LastRight, FlipsTold
  <2>4. Known(t)
    BY <2>2 DEF RxStart, Known, MarkStores
  <2> QED BY <2>3, <2>4 DEF CopyFits, Apprised
<1> QED BY <1>1, <1>2, <1>3, <1>4 DEF RxInv, CopiesFit

\* Every step keeps the invariant.
LEMMA ReactionsStep == RxInv /\ [RxNext]_rxVars => RxInv'
<1> SUFFICES ASSUME RxInv, [RxNext]_rxVars PROVE RxInv'
  OBVIOUS
<1>1. ASSUME NEW s \in RxSlots, Ask(s) PROVE RxInv'
  BY <1>1, AskStep
<1>2. ASSUME NEW s \in RxSlots, FindRecord(s) PROVE RxInv'
  BY <1>2, FindStep
<1>3. ASSUME NEW s \in RxSlots, OwnMark(s) PROVE RxInv'
  BY <1>3, OwnStep
<1>4. ASSUME NEW s \in RxSlots, OwnMarkFails(s) PROVE RxInv'
  BY <1>4, OwnFailsStep
<1>5. ASSUME NEW s \in RxSlots, MirrorMark(s) PROVE RxInv'
  BY <1>5, MirrorStep
<1>6. ASSUME NEW s \in RxSlots, ReadAndTell(s) PROVE RxInv'
  BY <1>6, ReadStep
<1>7. ASSUME NEW s \in RxSlots, NotifyAuthor(s) PROVE RxInv'
  BY <1>7, NotifyStep
<1>8. ASSUME NEW s \in RxSlots, ClearHistory(s) PROVE RxInv'
  BY <1>8, ClearStep
<1>9. ASSUME NEW s \in RxSlots, RemoveMessages(s) PROVE RxInv'
  BY <1>9, RemoveStep
<1>10. ASSUME NEW s \in RxSlots, Compact(s) PROVE RxInv'
  BY <1>10, CompactStep
<1>11. ASSUME FlushUses \/ UNCHANGED rxVars PROVE RxInv'
  BY <1>11, RestStep
<1>12. ASSUME RxCrash PROVE RxInv'
  BY <1>12, CrashStep
<1> QED BY <1>1, <1>2, <1>3, <1>4, <1>5, <1>6, <1>7, <1>8, <1>9, <1>10, <1>11, <1>12 DEF RxNext, RequestNext

\* Once no request is under way, copies and audiences agree.
LEMMA ReactionsQuiet == RxInv => ReactionsAgree
<1> SUFFICES ASSUME RxInv, NoneAsks, NEW t \in Triples \ cut, KeptByAll(t[1]),
                    NEW o \in StoresOf(t[1]), NEW c \in StoresOf(t[1])
             PROVE  /\ t \in marks[o] <=> t \in marks[c]
                    /\ t \notin untold => (t \in shown[o].marks <=> t \in marks[o])
  BY DEF ReactionsAgree, StoresOf
<1>1. StoresOf(t[1]) \subseteq MarkStores
  <2> SUFFICES ASSUME NEW x \in Parties(t[1]) PROVE StoreOf(t[1], x) \in MarkStores
    BY DEF StoresOf
  <2> DEFINE v == <<t[1], x, t[3]>>
  <2>1. v \in RealMarks /\ v[1] = t[1] /\ v[2] = x
    BY DEF RealMarks, Triples
  <2> HIDE DEF v
  <2> QED BY <2>1, Stores DEF HomeOf
<1>2. CASE t \in RealMarks
  <2>1. CopyFits(t)
    BY <1>2 DEF RxInv, CopiesFit
  <2>2. Pend(t) = {} /\ \A s \in RxSlots : ~Teller(req[s], t)
    BY DEF NoneAsks, NoRequest, Pend, Teller
  <2>3. HasCopy(t) => (t \in marks[CopyOf(t)] <=> t \in marks[HomeOf(t)])
    BY <2>1, <2>2 DEF CopyFits, LastRight
  <2>4. StoresOf(t[1]) = {HomeOf(t)} \union Copies(t[1], t[2]) /\ (HasCopy(t) => Copies(t[1], t[2]) = {CopyOf(t)})
    BY <1>2, Stores
  <2>5. t \in marks[o] <=> t \in marks[c]
    BY <2>3, <2>4 DEF HasCopy
  <2>6. t \notin untold => Known(t)
    BY <2>1, <2>2 DEF CopyFits, Apprised
  <2> QED BY <2>5, <2>6 DEF Known
<1>3. CASE t \notin RealMarks
  BY <1>1, <1>3 DEF RxInv, RxTyped, MarkStores
<1> QED BY <1>2, <1>3

\* However the requests of both sides of a chat run into each other: once none is under way,
\* its copies hold the same marks and the tabs were told what they hold, for any people,
\* messages and number of requests (reactions.ts).
THEOREM MarksAgree == RxSpec => []ReactionsAgree
BY ReactionsStart, ReactionsStep, ReactionsQuiet, PTL DEF RxSpec

(***************************************************************************)
(* The record of typed lines.                                              *)
(***************************************************************************)

LineChars == Letters \union {Newline}
ClInv ==
  /\ edited \in [before : Seq(LineChars), behind : Seq(LineChars)]
  /\ buffer \in [bytes : Seq(LineChars), state : {"text"}, csi : {<<>>}, paste : BOOLEAN,
                 poisoned : BOOLEAN, submitted : {NoLine}]
  /\ Len(buffer.bytes) <= LineMax /\ (buffer.poisoned => buffer.bytes = <<>>)
  /\ pasting \in BOOLEAN /\ plain \in BOOLEAN /\ long \in BOOLEAN /\ presses \in 0..MaxPresses
  /\ buffer.paste = pasting
  /\ plain => /\ edited.behind = <<>>
              /\ long <=> buffer.poisoned
              /\ ~long => buffer.bytes = edited.before
  /\ PlainLinesRecorded

\* The function that Fed is written with.
FedTo(f, b, bytes) == f = [n \in 0..Len(bytes) |-> IF n = 0 THEN b ELSE Feed(f[n - 1], bytes[n])]

\* Bytes are fed one after the other: the last one to what the others made of the buffer.
LEMMA FedIs ==
  ASSUME NEW b, NEW bytes, Len(bytes) \in 1..4
  PROVE  \E a1, a2, a3, a4 :
           /\ a1 = Feed(b, bytes[1]) /\ a2 = Feed(a1, bytes[2]) /\ a3 = Feed(a2, bytes[3]) /\ a4 = Feed(a3, bytes[4])
           /\ Fed(b, bytes) = CASE Len(bytes) = 1 -> a1 [] Len(bytes) = 2 -> a2 [] Len(bytes) = 3 -> a3 [] OTHER -> a4
<1> DEFINE a1 == Feed(b, bytes[1]) a2 == Feed(a1, bytes[2]) a3 == Feed(a2, bytes[3]) a4 == Feed(a3, bytes[4])
           g == [n \in 0..Len(bytes) |->
                   CASE n = 0 -> b [] n = 1 -> a1 [] n = 2 -> a2 [] n = 3 -> a3 [] OTHER -> a4]
           f == CHOOSE h : FedTo(h, b, bytes)
<1>0. Len(bytes) \in {1, 2, 3, 4} /\ \A n \in 0..Len(bytes) : n \in {0, 1, 2, 3, 4}
  <2>1. Len(bytes) \in {1, 2, 3, 4}
    OBVIOUS
  <2>2. ASSUME NEW k \in {1, 2, 3, 4}, NEW n \in 0..k PROVE n \in {0, 1, 2, 3, 4}
    OBVIOUS
  <2> QED BY <2>1, <2>2
<1>1. Fed(b, bytes) = f[Len(bytes)]
  BY DEF Fed, FedTo
<1>2. FedTo(g, b, bytes)
  <2> DEFINE k == [n \in 0..Len(bytes) |-> IF n = 0 THEN b ELSE Feed(g[n - 1], bytes[n])]
  <2>1. ASSUME NEW n \in 0..Len(bytes) PROVE g[n] = k[n]
    <3>0. k[n] = IF n = 0 THEN b ELSE Feed(g[n - 1], bytes[n])
      OBVIOUS
    <3>1. n = 0 \/ n - 1 \in 0..Len(bytes)
      OBVIOUS
    <3>2. \A i \in 0..Len(bytes) : g[i] = CASE i = 0 -> b [] i = 1 -> a1 [] i = 2 -> a2 [] i = 3 -> a3 [] OTHER -> a4
      OBVIOUS
    <3> HIDE DEF g, k
    <3>3. n \in {0, 1, 2, 3, 4}
      BY <1>0
    <3>4. CASE n = 0
      BY <3>0, <3>2, <3>4
    <3>5. CASE n = 1
      BY <3>0, <3>1, <3>2, <3>5
    <3>6. CASE n = 2
      BY <3>0, <3>1, <3>2, <3>6
    <3>7. CASE n = 3
      BY <3>0, <3>1, <3>2, <3>7
    <3>8. CASE n = 4
      BY <3>0, <3>1, <3>2, <3>8
    <3> QED BY <3>3, <3>4, <3>5, <3>6, <3>7, <3>8
  <2>2. g = k
    <3>1. DOMAIN g = DOMAIN k
      OBVIOUS
    <3> QED BY <2>1
  <2> HIDE DEF g
  <2> QED BY <2>2 DEF FedTo
<1> HIDE DEF g
<1>3. FedTo(f, b, bytes)
  BY <1>2
<1> HIDE DEF f
<1>4. \A n \in 0..Len(bytes) : f[n] = IF n = 0 THEN b ELSE Feed(f[n - 1], bytes[n])
  BY <1>3 DEF FedTo
<1> DEFINE L == Len(bytes)
<1>5. f[0] = b /\ f[1] = a1
  BY <1>4
<1>6. L >= 2 => f[2] = a2
  BY <1>4, <1>5
<1>7. L >= 3 => f[3] = a3
  BY <1>4, <1>6
<1>8. L >= 4 => f[4] = a4
  BY <1>4, <1>7
<1>9. Fed(b, bytes) = CASE L = 1 -> a1 [] L = 2 -> a2 [] L = 3 -> a3 [] OTHER -> a4
  <2> HIDE DEF a1, a2, a3, a4
  <2>1. CASE L = 1
    BY <1>1, <1>5, <2>1
  <2>2. CASE L = 2
    BY <1>1, <1>6, <2>2
  <2>3. CASE L = 3
    BY <1>1, <1>7, <2>3
  <2>4. CASE L = 4
    BY <1>1, <1>8, <2>4
  <2> QED BY <1>0, <2>1, <2>2, <2>3, <2>4
<1> QED BY <1>9

ClBuffer == [bytes : Seq(LineChars), state : {"text"}, csi : {<<>>}, paste : BOOLEAN,
             poisoned : BOOLEAN, submitted : {NoLine}]
Cleared(b) == [b EXCEPT !.bytes = <<>>, !.poisoned = FALSE]

\* What the keys make of a buffer between two keys.
LEMMA FedKeys ==
  ASSUME NEW b \in ClBuffer
  PROVE  /\ \A l \in Letters : Fed(b, Bytes(l)) = PushByte(b, l)
         /\ Fed(b, Bytes("newline")) = PushByte(b, Newline)
         /\ Fed(b, Bytes("enter")) = IF b.paste THEN PushByte(b, Newline) ELSE Submit(b)
         /\ Fed(b, Bytes("erase")) = IF b.bytes = <<>> THEN b ELSE [b EXCEPT !.bytes = Front(@)]
         /\ \A k \in {"kill", "left", "recall", "meta"} : Fed(b, Bytes(k)) = Cleared(b)
         /\ Fed(b, Bytes("paste")) = [b EXCEPT !.paste = TRUE]
         /\ Fed(b, Bytes("pasted")) = [b EXCEPT !.paste = FALSE]
<1>1. ASSUME NEW x PROVE Fed(b, <<x>>) = Feed(b, x)
  BY FedIs
<1>2. ASSUME NEW x, NEW y PROVE Fed(b, <<x, y>>) = Feed(Feed(b, x), y)
  <2>1. Len(<<x, y>>) = 2 /\ <<x, y>>[1] = x /\ <<x, y>>[2] = y
    OBVIOUS
  <2> QED BY <2>1, FedIs
<1>3. ASSUME NEW x, NEW y, NEW z PROVE Fed(b, <<x, y, z>>) = Feed(Feed(Feed(b, x), y), z)
  <2>1. Len(<<x, y, z>>) = 3 /\ <<x, y, z>>[1] = x /\ <<x, y, z>>[2] = y /\ <<x, y, z>>[3] = z
    OBVIOUS
  <2> QED BY <2>1, FedIs
<1>4. ASSUME NEW x, NEW y, NEW z, NEW w PROVE Fed(b, <<x, y, z, w>>) = Feed(Feed(Feed(Feed(b, x), y), z), w)
  <2>1. Len(<<x, y, z, w>>) = 4 /\ <<x, y, z, w>>[1] = x /\ <<x, y, z, w>>[2] = y /\ <<x, y, z, w>>[3] = z /\ <<x, y, z, w>>[4] = w
    OBVIOUS
  <2> QED BY <2>1, FedIs
<1>5. b.state = "text" /\ b.csi = <<>>
  BY DEF ClBuffer
<1>6. ASSUME NEW l \in Letters PROVE Fed(b, Bytes(l)) = PushByte(b, l)
  <2>1. Bytes(l) = <<l>>
    BY ConsoleLineAssumption DEF Bytes, NamedKeys
  <2>2. Feed(b, l) = PushByte(b, l)
    BY <1>5, ConsoleLineAssumption DEF Feed, Text
  <2> QED BY <1>1, <2>1, <2>2
<1> DEFINE e == [b EXCEPT !.state = "esc"] c == [b EXCEPT !.state = "csi"]
<1>7. /\ Feed(b, "esc") = e /\ e.state = "esc" /\ [e EXCEPT !.state = "text"] = b
      /\ [e EXCEPT !.state = "csi", !.csi = <<>>] = c /\ c.state = "csi" /\ c.csi = <<>>
      /\ [c EXCEPT !.state = "text", !.csi = <<>>] = b
  BY <1>5 DEF Feed, Text, InState, ClBuffer
<1>8. Fed(b, Bytes("newline")) = PushByte(b, Newline)
  <2>1. Bytes("newline") = <<"esc", "cr">>
    BY ConsoleLineAssumption DEF Bytes
  <2>2. Feed(e, "cr") = PushByte(b, Newline)
    BY <1>7 DEF Feed, Esc, InState
  <2> QED BY <1>2, <1>7, <2>1, <2>2
<1>9. Fed(b, Bytes("enter")) = IF b.paste THEN PushByte(b, Newline) ELSE Submit(b)
  <2>1. Bytes("enter") = <<"cr">>
    BY ConsoleLineAssumption DEF Bytes
  <2> QED BY <1>1, <1>5, <2>1 DEF Feed, Text
<1>10. Fed(b, Bytes("erase")) = IF b.bytes = <<>> THEN b ELSE [b EXCEPT !.bytes = Front(@)]
  <2>1. Bytes("erase") = <<"bs">>
    BY ConsoleLineAssumption DEF Bytes
  <2> QED BY <1>1, <1>5, <2>1 DEF Feed, Text
<1>11. Fed(b, Bytes("kill")) = Cleared(b)
  <2>1. Bytes("kill") = <<"ctrl">>
    BY ConsoleLineAssumption DEF Bytes
  <2> QED BY <1>1, <1>5, <2>1 DEF Feed, Text, Discard, Cleared
<1>12. Feed(e, "[") = c
  BY <1>7 DEF Feed, Esc
<1>13. Fed(b, Bytes("left")) = Cleared(b)
  <2>1. Bytes("left") = <<"esc", "[", "A">>
    BY ConsoleLineAssumption DEF Bytes
  <2>2. Feed(c, "A") = Csi(c, "A")
    BY <1>7 DEF Feed
  <2>3. Csi(c, "A") = Discard(b)
    BY <1>7 DEF Csi, IsFinal
  <2> QED BY <1>3, <1>7, <1>12, <2>1, <2>2, <2>3 DEF Discard, Cleared
<1>14. Fed(b, Bytes("recall")) = Cleared(b)
  <2>1. Bytes("recall") = <<"esc", "O", "A">>
    BY ConsoleLineAssumption DEF Bytes
  <2> DEFINE o == [e EXCEPT !.state = "ss3"]
  <2>2. Feed(e, "O") = o /\ o.state = "ss3" /\ [o EXCEPT !.state = "text"] = b
    BY <1>5, <1>7 DEF Feed, Esc, InState, ClBuffer
  <2>3. Feed(o, "A") = Discard(b)
    BY <2>2 DEF Feed, InState
  <2> QED BY <1>3, <1>7, <2>1, <2>2, <2>3 DEF Discard, Cleared
<1>15. Fed(b, Bytes("meta")) = Cleared(b)
  <2>1. Bytes("meta") = <<"esc", "A">>
    BY ConsoleLineAssumption DEF Bytes
  <2>2. Feed(e, "A") = Discard(b)
    BY <1>7 DEF Feed, Esc, InState
  <2> QED BY <1>2, <1>7, <2>1, <2>2 DEF Discard, Cleared
<1>16. ASSUME NEW v \in {"200", "201"}
       PROVE  Feed(Feed(c, v), "~") = IF v = "200" THEN [b EXCEPT !.paste = TRUE] ELSE [b EXCEPT !.paste = FALSE]
  <2> DEFINE d == [c EXCEPT !.csi = <<v>>]
  <2>1. Append(<<>>, v) = <<v>>
    OBVIOUS
  <2>2. Feed(c, v) = d
    BY <1>7, <2>1 DEF Feed, Csi, IsFinal
  <2>3. d.state = "csi" /\ d.csi = <<v>> /\ [d EXCEPT !.state = "text", !.csi = <<>>] = b
    BY <1>5, <1>7 DEF ClBuffer
  <2>4. (<<v>> = <<"200">> <=> v = "200") /\ (<<v>> = <<"201">> <=> v = "201")
    OBVIOUS
  <2> HIDE DEF d
  <2>5. Feed(d, "~") = Csi(d, "~")
    BY <2>3 DEF Feed
  <2>6. Csi(d, "~") = IF v = "200" THEN [b EXCEPT !.paste = TRUE] ELSE [b EXCEPT !.paste = FALSE]
    BY <2>3, <2>4 DEF Csi, IsFinal
  <2> QED BY <2>2, <2>5, <2>6
<1>17. /\ Fed(b, Bytes("paste")) = [b EXCEPT !.paste = TRUE]
       /\ Fed(b, Bytes("pasted")) = [b EXCEPT !.paste = FALSE]
  <2>1. Bytes("paste") = <<"esc", "[", "200", "~">> /\ Bytes("pasted") = <<"esc", "[", "201", "~">>
    BY ConsoleLineAssumption DEF Bytes
  <2> QED BY <1>4, <1>7, <1>12, <1>16, <2>1
<1> QED BY <1>6, <1>8, <1>9, <1>10, <1>11, <1>13, <1>14, <1>15, <1>17

\* An empty line is a line.
LEMMA NoChars == <<>> \in Seq(LineChars) /\ Len(<<>>) = 0
OBVIOUS

\* Other characters in a buffer leave it a buffer; so does a line that is given up.
LEMMA OtherChars ==
  ASSUME NEW b \in ClBuffer, NEW s \in Seq(LineChars), NEW p, p = [b EXCEPT !.bytes = s]
  PROVE  p \in ClBuffer /\ p.bytes = s /\ p.poisoned = b.poisoned /\ p.paste = b.paste
BY DEF ClBuffer

LEMMA GivenUp ==
  ASSUME NEW b \in ClBuffer, NEW p,
         p = [b EXCEPT !.bytes = <<>>, !.poisoned = TRUE] \/ p = [b EXCEPT !.bytes = <<>>, !.poisoned = FALSE]
  PROVE  p \in ClBuffer /\ p.bytes = <<>> /\ p.paste = b.paste
<1> DEFINE e == <<>>
<1>1. e \in Seq(LineChars)
  BY NoChars
<1> HIDE DEF e
<1>2. CASE p = [b EXCEPT !.bytes = e, !.poisoned = TRUE]
  <2>1. p \in ClBuffer /\ p.bytes = e /\ p.paste = b.paste
    BY <1>1, <1>2 DEF ClBuffer
  <2> QED BY <2>1 DEF e
<1>3. CASE p = [b EXCEPT !.bytes = e, !.poisoned = FALSE]
  <2>1. p \in ClBuffer /\ p.bytes = e /\ p.paste = b.paste
    BY <1>1, <1>3 DEF ClBuffer
  <2> QED BY <2>1 DEF e
<1> QED BY <1>2, <1>3 DEF e

LEMMA ClearedIs ==
  ASSUME NEW b \in ClBuffer
  PROVE  /\ Cleared(b) \in ClBuffer /\ Cleared(b).bytes = <<>> /\ Cleared(b).paste = b.paste
         /\ ~Cleared(b).poisoned
<1>1. Cleared(b) \in ClBuffer /\ Cleared(b).bytes = <<>> /\ Cleared(b).paste = b.paste
  BY GivenUp DEF Cleared
<1>2. ~Cleared(b).poisoned
  BY DEF Cleared, ClBuffer
<1> QED BY <1>1, <1>2

\* A character more in the buffer: it is there, or the line is too long for it.
LEMMA PushedByte ==
  ASSUME NEW b \in ClBuffer, NEW char \in LineChars, Len(b.bytes) <= LineMax, b.poisoned => b.bytes = <<>>
  PROVE  LET p == PushByte(b, char)
         IN /\ p \in ClBuffer /\ p.paste = b.paste
            /\ Len(p.bytes) <= LineMax /\ (p.poisoned => p.bytes = <<>>)
            /\ p.poisoned <=> b.poisoned \/ Len(b.bytes) = LineMax
            /\ ~p.poisoned => p.bytes = Append(b.bytes, char)
<1>1. b.bytes \in Seq(LineChars) /\ Len(b.bytes) \in Nat /\ LineMax \in Nat \ {0} /\ Len(<<>>) = 0 /\ b.poisoned \in BOOLEAN
  BY ConsoleLineAssumption DEF ClBuffer
<1>2. Append(b.bytes, char) \in Seq(LineChars) /\ Len(Append(b.bytes, char)) = Len(b.bytes) + 1
  BY <1>1
<1>3. CASE Len(b.bytes) >= LineMax
  <2>1. PushByte(b, char) = [b EXCEPT !.bytes = <<>>, !.poisoned = TRUE] /\ Len(b.bytes) = LineMax
    BY <1>1, <1>3 DEF PushByte
  <2>2. /\ PushByte(b, char) \in ClBuffer /\ PushByte(b, char).bytes = <<>>
        /\ PushByte(b, char).paste = b.paste
    BY <2>1, GivenUp
  <2>3. PushByte(b, char).poisoned
    BY <2>1 DEF ClBuffer
  <2> QED BY <1>1, <2>1, <2>2, <2>3
<1>4. CASE ~(Len(b.bytes) >= LineMax) /\ b.poisoned
  <2>1. PushByte(b, char) = b
    BY <1>4 DEF PushByte
  <2> QED BY <1>1, <1>4, <2>1
<1>5. CASE ~(Len(b.bytes) >= LineMax) /\ ~b.poisoned
  <2>1. PushByte(b, char) = [b EXCEPT !.bytes = Append(@, char)]
    BY <1>5 DEF PushByte
  <2>3. /\ PushByte(b, char) \in ClBuffer /\ PushByte(b, char).poisoned = b.poisoned
        /\ PushByte(b, char).paste = b.paste /\ PushByte(b, char).bytes = Append(b.bytes, char)
    <3> DEFINE t == Append(b.bytes, char) p == PushByte(b, char)
    <3>1. t \in Seq(LineChars) /\ p = [b EXCEPT !.bytes = t]
      BY <1>2, <2>1
    <3> HIDE DEF t, p
    <3>2. p \in ClBuffer /\ p.bytes = t /\ p.poisoned = b.poisoned /\ p.paste = b.paste
      BY <3>1, OtherChars
    <3> QED BY <3>2 DEF t, p
  <2> QED BY <1>1, <1>2, <1>5, <2>3
<1> QED BY <1>1, <1>3, <1>4, <1>5

\* At the start the buffer is as empty as the line.
LEMMA LineStart == ClStart => ClInv
<1> SUFFICES ASSUME ClStart PROVE ClInv
  OBVIOUS
<1>1. edited \in [before : Seq(LineChars), behind : Seq(LineChars)] /\ edited.before = <<>> /\ edited.behind = <<>>
  BY DEF ClStart, EmptyLine
<1>2. buffer = NoBuffer /\ pasting = FALSE /\ plain = TRUE /\ long = FALSE /\ presses \in 0..MaxPresses
  BY ConsoleLineAssumption DEF ClStart
<1>3. Len(<<>>) <= LineMax
  BY ConsoleLineAssumption
<1>4. PlainLinesRecorded
  <2>1. IsBlank(<<>>)
    BY DEF IsBlank
  <2>2. taken.text = <<>> /\ taken.recorded = NoLine
    BY DEF ClStart
  <2> QED BY <2>1, <2>2 DEF PlainLinesRecorded
<1> QED BY <1>1, <1>2, <1>3, <1>4 DEF ClInv, NoBuffer

\* A key that is not the end of a line.
LEMMA EditStep ==
  ASSUME ClInv, NEW key \in KeyNames, Edit(key), presses' \in 0..MaxPresses,
         IF pasting THEN key \in Letters \union {"enter", "pasted"} ELSE key # "pasted",
         ~(key = "enter" /\ ~pasting),
         buffer' = [Fed([buffer EXCEPT !.submitted = NoLine], Bytes(key)) EXCEPT !.submitted = NoLine]
  PROVE  ClInv'
<1> DEFINE b == buffer
<1>1. b \in ClBuffer /\ [b EXCEPT !.submitted = NoLine] = b
  BY DEF ClInv, ClBuffer
<1>2. /\ edited \in [before : Seq(LineChars), behind : Seq(LineChars)]
      /\ Len(edited.before) \in Nat /\ Len(edited.behind) \in Nat
  BY DEF ClInv
<1>3. /\ Len(b.bytes) <= LineMax /\ (b.poisoned => b.bytes = <<>>) /\ b.paste = pasting
      /\ pasting \in BOOLEAN /\ plain \in BOOLEAN /\ long \in BOOLEAN
      /\ plain => edited.behind = <<>> /\ (long <=> b.poisoned) /\ (~long => b.bytes = edited.before)
      /\ PlainLinesRecorded
  BY DEF ClInv
<1>4. /\ pasting' = (key = "paste" \/ (pasting /\ key # "pasted")) /\ UNCHANGED taken
      /\ plain' = ((key = "kill" /\ edited' = EmptyLine) \/ (plain /\ key \notin {"left", "recall", "kill", "meta"}))
      /\ long' = (~(key = "kill" /\ edited' = EmptyLine)
                  /\ (long \/ Len(edited'.before) + Len(edited'.behind) > LineMax))
  BY DEF Edit
<1>5. LineMax \in Nat \ {0} /\ Letters \cap (NamedKeys \union {"esc", "cr", "bs", "ctrl"}) = {}
  BY ConsoleLineAssumption
<1>6. PlainLinesRecorded'
  BY <1>3, <1>4 DEF PlainLinesRecorded
<1>7. pasting' \in BOOLEAN /\ plain' \in BOOLEAN /\ long' \in BOOLEAN
  BY <1>4
\* A character, typed or in a paste.
<1>8. ASSUME NEW char \in LineChars, Insert(char), Fed(b, Bytes(key)) = PushByte(b, char),
             key \notin {"left", "recall", "kill", "meta", "paste", "pasted"}
      PROVE  ClInv'
  <2> DEFINE p == PushByte(b, char)
  <2>1. /\ p \in ClBuffer /\ p.paste = b.paste
        /\ Len(p.bytes) <= LineMax /\ (p.poisoned => p.bytes = <<>>)
        /\ p.poisoned <=> b.poisoned \/ Len(b.bytes) = LineMax
        /\ ~p.poisoned => p.bytes = Append(b.bytes, char)
    BY <1>1, <1>3, PushedByte
  <2>2. buffer' = p
    <3>1. [p EXCEPT !.submitted = NoLine] = p
      BY <2>1 DEF ClBuffer
    <3> HIDE DEF p
    <3> QED BY <1>1, <1>8, <3>1 DEF p
  <2> HIDE DEF p
  <2>3. /\ edited' \in [before : Seq(LineChars), behind : Seq(LineChars)]
        /\ edited'.before = Append(edited.before, char) /\ edited'.behind = edited.behind
        /\ Len(edited'.before) = Len(edited.before) + 1
    <3>1. edited' = [edited EXCEPT !.before = Append(edited.before, char)]
      BY <1>8 DEF Insert
    <3>2. edited.before \in Seq(LineChars) /\ edited.behind \in Seq(LineChars)
      BY <1>2
    <3>3. Append(edited.before, char) \in Seq(LineChars) /\ Len(Append(edited.before, char)) = Len(edited.before) + 1
      BY <3>2
    <3>4. edited'.before = Append(edited.before, char) /\ edited'.behind = edited.behind
      BY <1>2, <3>1
    <3> QED BY <1>2, <3>1, <3>3, <3>4
  <2>4. pasting' = pasting /\ plain' = plain /\ long' = (long \/ Len(edited'.before) + Len(edited'.behind) > LineMax)
    BY <1>3, <1>4, <1>8
  <2>5. ASSUME plain PROVE /\ edited'.behind = <<>>
                           /\ long' <=> p.poisoned
                           /\ ~long' => p.bytes = edited'.before
    <3>1. Len(<<>>) = 0
      OBVIOUS
    <3>2. CASE long
      BY <1>3, <2>1, <2>3, <2>4, <2>5, <3>2
    <3>3. CASE ~long
      <4>1. b.bytes = edited.before /\ ~b.poisoned
        BY <1>3, <2>5, <3>3
      <4>2. long' <=> Len(edited.before) + 1 > LineMax
        <5>1. Len(edited.behind) = 0
          BY <1>3, <2>5, <3>1
        <5>2. Len(edited'.before) + Len(edited'.behind) = Len(edited.before) + 1
          BY <1>2, <2>3, <5>1
        <5> QED BY <2>4, <3>3, <5>2
      <4>3. Len(edited.before) + 1 > LineMax <=> Len(b.bytes) = LineMax
        BY <1>2, <1>3, <1>5, <4>1
      <4> QED BY <1>3, <2>1, <2>3, <2>5, <4>1, <4>2, <4>3
    <3> QED BY <3>2, <3>3
  <2> QED BY <1>3, <1>6, <1>7, <2>1, <2>2, <2>3, <2>4, <2>5 DEF ClInv, ClBuffer
\* A key that the buffer gives the line up for.
<1>9. ASSUME key \in {"kill", "left", "recall", "meta"},
             edited' \in [before : Seq(LineChars), behind : Seq(LineChars)]
      PROVE  ClInv'
  <2>1. buffer' = Cleared(b)
    <3>1. Fed(b, Bytes(key)) = Cleared(b)
      BY <1>1, <1>9, FedKeys
    <3>2. [Cleared(b) EXCEPT !.submitted = NoLine] = Cleared(b)
      BY <1>1 DEF ClBuffer, Cleared
    <3> QED BY <1>1, <3>1, <3>2
  <2>2. Cleared(b) \in ClBuffer /\ Cleared(b).bytes = <<>> /\ ~Cleared(b).poisoned /\ Cleared(b).paste = b.paste /\ Len(<<>>) = 0
    BY <1>1, NoChars, ClearedIs
  <2>3. pasting' = pasting
    BY <1>3, <1>4, <1>9
  <2>4. plain' => edited'.behind = <<>> /\ edited'.before = <<>> /\ ~long'
    <3> SUFFICES ASSUME plain' PROVE edited'.behind = <<>> /\ edited'.before = <<>> /\ ~long'
      OBVIOUS
    <3>1. key = "kill" /\ edited' = EmptyLine
      BY <1>4, <1>9
    <3>2. ~long'
      BY <1>4, <3>1
    <3> QED BY <3>1, <3>2 DEF EmptyLine
  <2>5. buffer' \in ClBuffer /\ buffer'.bytes = <<>> /\ ~buffer'.poisoned /\ buffer'.paste = pasting'
    BY <1>3, <2>1, <2>2, <2>3
  <2>6. Len(buffer'.bytes) <= LineMax
    BY <1>5, <2>2, <2>5
  <2> QED BY <1>6, <1>7, <1>9, <2>4, <2>5, <2>6 DEF ClInv, ClBuffer
\* The marks of a paste.
<1>10. ASSUME key \in {"paste", "pasted"}, UNCHANGED edited PROVE ClInv'
  <2> DEFINE v == key = "paste"
  <2>1. buffer' = [b EXCEPT !.paste = v]
    <3>1. Fed(b, Bytes(key)) = [b EXCEPT !.paste = v]
      BY <1>1, <1>10, FedKeys
    <3>2. [[b EXCEPT !.paste = v] EXCEPT !.submitted = NoLine] = [b EXCEPT !.paste = v]
      BY <1>1 DEF ClBuffer
    <3> QED BY <1>1, <3>1, <3>2
  <2>2. pasting' = v /\ plain' = plain
    BY <1>3, <1>4, <1>10
  <2>3. plain => long' = long
    <3>1. Len(<<>>) = 0
      OBVIOUS
    <3>2. plain /\ ~long => ~(Len(edited.before) + Len(edited.behind) > LineMax)
      BY <1>2, <1>3, <1>5, <3>1
    <3> QED BY <1>3, <1>4, <1>10, <3>2
  <2>4. [b EXCEPT !.paste = v] \in ClBuffer
    BY <1>1 DEF ClBuffer
  <2> QED BY <1>1, <1>2, <1>3, <1>6, <1>7, <1>10, <2>1, <2>2, <2>3, <2>4 DEF ClInv, ClBuffer
\* A character less.
<1>11. ASSUME key = "erase" PROVE ClInv'
  <2> DEFINE s == IF edited.before # <<>> THEN Front(edited.before) ELSE edited.before
             t == IF b.bytes # <<>> THEN Front(b.bytes) ELSE b.bytes
  <2>1. ASSUME NEW q \in Seq(LineChars), q # <<>>
        PROVE  Front(q) \in Seq(LineChars) /\ Len(Front(q)) = Len(q) - 1 /\ Len(q) \in Nat
    <3>1. Len(q) \in Nat /\ Len(q) # 0
      BY <2>1
    <3>2. 1 \in 1..(Len(q) + 1) /\ Len(q) - 1 \in 0..Len(q) /\ (Len(q) - 1) - 1 + 1 = Len(q) - 1
      BY <3>1
    <3>3. SubSeq(q, 1, Len(q) - 1) \in Seq(LineChars) /\ Len(SubSeq(q, 1, Len(q) - 1)) = Len(q) - 1
      BY <2>1, <3>1, <3>2, SubSeqProperties
    <3> QED BY <3>1, <3>3 DEF Front
  <2>2. edited' = [edited EXCEPT !.before = s] /\ s \in Seq(LineChars) /\ Len(s) <= Len(edited.before) /\ Len(s) \in Nat
    <3>1. key \notin Letters
      BY <1>5, <1>11 DEF NamedKeys
    <3>2. edited' = IF edited.before # <<>> THEN [edited EXCEPT !.before = Front(@)] ELSE edited
      BY <1>11, <3>1 DEF Edit
    <3> QED BY <1>2, <2>1, <3>2
  <2>3. buffer' = [b EXCEPT !.bytes = t] /\ t \in Seq(LineChars) /\ Len(t) <= Len(b.bytes) /\ Len(t) \in Nat
    <3>1. Fed(b, Bytes(key)) = IF b.bytes = <<>> THEN b ELSE [b EXCEPT !.bytes = Front(@)]
      BY <1>1, <1>11, FedKeys
    <3>2. b.bytes \in Seq(LineChars)
      BY <1>1 DEF ClBuffer
    <3>3. t \in Seq(LineChars) /\ Len(t) <= Len(b.bytes) /\ Len(t) \in Nat
      BY <2>1, <3>2
    <3>4. Fed(b, Bytes(key)) = [b EXCEPT !.bytes = t]
      BY <1>1, <3>1 DEF ClBuffer
    <3>5. [[b EXCEPT !.bytes = t] EXCEPT !.submitted = NoLine] = [b EXCEPT !.bytes = t]
      BY <1>1 DEF ClBuffer
    <3> QED BY <1>1, <3>3, <3>4, <3>5
  <2>4. pasting' = pasting /\ plain' = plain
    BY <1>3, <1>4, <1>11
  <2>5. b.bytes = <<>> => t = <<>>
    OBVIOUS
  <2>6. b.bytes = edited.before => s = t
    OBVIOUS
  <2> HIDE DEF s, t
  <2>7. edited'.before = s /\ edited'.behind = edited.behind /\ edited' \in [before : Seq(LineChars), behind : Seq(LineChars)]
    BY <1>2, <2>2
  <2>8. plain => (long' <=> long)
    <3>1. Len(<<>>) = 0
      OBVIOUS
    <3>2. plain /\ ~long => Len(edited.before) <= LineMax /\ edited.behind = <<>>
      BY <1>3
    <3>3. plain /\ ~long => ~(Len(edited'.before) + Len(edited'.behind) > LineMax)
      BY <1>2, <1>5, <2>2, <2>7, <3>1, <3>2
    <3> QED BY <1>4, <1>11, <3>3
  <2>9. [b EXCEPT !.bytes = t] \in ClBuffer /\ Len(t) <= LineMax
    BY <1>1, <1>3, <1>5, <2>3 DEF ClBuffer
  <2>10. buffer'.bytes = t /\ buffer'.poisoned = b.poisoned /\ buffer'.paste = b.paste /\ buffer' \in ClBuffer
    BY <1>1, <2>3, <2>9 DEF ClBuffer
  <2> QED BY <1>3, <1>6, <1>7, <2>4, <2>5, <2>6, <2>7, <2>8, <2>9, <2>10 DEF ClInv, ClBuffer
<1>12. CASE key \in Letters
  <2>1. Insert(key) /\ key \in LineChars
    <3>1. key # "newline" /\ key # "enter" /\ key # "erase" /\ key # "left" /\ key # "recall" /\ key # "kill" /\ key # "meta"
      BY <1>5, <1>12 DEF NamedKeys
    <3>2. Insert(key)
      BY <1>12, <3>1 DEF Edit
    <3> QED BY <1>12, <3>2 DEF LineChars
  <2>2. key \notin {"left", "recall", "kill", "meta", "paste", "pasted"}
    BY <1>5, <1>12 DEF NamedKeys
  <2> QED BY <1>1, <1>8, <1>12, <2>1, <2>2, FedKeys
<1>13. CASE key \in {"newline", "enter"}
  <2>1. key \notin Letters
    BY <1>5, <1>13 DEF NamedKeys
  <2>2. key = "enter" => pasting
    BY <1>3
  <2>3. Insert(Newline) /\ Newline \in LineChars
    BY <1>13, <2>1, <2>2 DEF Edit, LineChars
  <2>4. Fed(b, Bytes(key)) = PushByte(b, Newline)
    BY <1>1, <1>3, <1>13, <2>2, FedKeys
  <2> QED BY <1>8, <1>13, <2>3, <2>4
<1>14. CASE key \in {"kill", "left", "recall", "meta"}
  <2>1. key \notin Letters
    BY <1>5, <1>14 DEF NamedKeys
  <2>2. CASE key = "kill"
    <3>1. edited' = [edited EXCEPT !.before = <<>>]
      BY <2>1, <2>2 DEF Edit
    <3>2. edited' \in [before : Seq(LineChars), behind : Seq(LineChars)]
      BY <1>2, <3>1, NoChars
    <3> QED BY <1>9, <1>14, <3>2
  <2>3. CASE key = "left"
    <3>1. CASE edited.before = <<>>
      <4>1. edited' = edited
        BY <2>1, <2>3, <3>1 DEF Edit
      <4> QED BY <1>2, <1>9, <1>14, <4>1
    <3>2. CASE edited.before # <<>>
      <4>1. edited' = [before |-> Front(edited.before), behind |-> <<Last(edited.before)>> \o edited.behind]
        BY <2>1, <2>3, <3>2 DEF Edit
      <4>2. Len(edited.before) - 1 \in 0..Len(edited.before) /\ Len(edited.before) \in 1..Len(edited.before)
        BY <1>2, <3>2
      <4>3. Front(edited.before) \in Seq(LineChars) /\ Last(edited.before) \in LineChars
        BY <1>2, <3>2, <4>2 DEF Front, Last
      <4>4. <<Last(edited.before)>> \o edited.behind \in Seq(LineChars)
        BY <1>2, <4>3
      <4> QED BY <1>9, <1>14, <4>1, <4>3, <4>4
    <3> QED BY <3>1, <3>2
  <2>4. CASE key = "recall"
    <3>1. edited' \in {edited} \union {[before |-> <<l>>, behind |-> <<>>] : l \in Letters}
      BY <2>1, <2>4 DEF Edit
    <3>2. ASSUME NEW l \in Letters, edited' = [before |-> <<l>>, behind |-> <<>>]
          PROVE  edited' \in [before : Seq(LineChars), behind : Seq(LineChars)]
      <4>1. l \in LineChars
        BY DEF LineChars
      <4>2. <<l>> \in Seq(LineChars)
        BY <4>1
      <4> QED BY <3>2, <4>2, NoChars
    <3>3. edited' \in [before : Seq(LineChars), behind : Seq(LineChars)]
      <4>1. CASE edited' = edited
        BY <1>2, <4>1
      <4>2. CASE \E l \in Letters : edited' = [before |-> <<l>>, behind |-> <<>>]
        BY <3>2, <4>2
      <4> QED BY <3>1, <4>1, <4>2
    <3> QED BY <1>9, <1>14, <3>3
  <2>5. CASE key = "meta"
    <3>1. edited' \in {edited, EmptyLine}
      BY <2>1, <2>5 DEF Edit
    <3>2. EmptyLine \in [before : Seq(LineChars), behind : Seq(LineChars)]
      BY NoChars DEF EmptyLine
    <3>3. edited' \in [before : Seq(LineChars), behind : Seq(LineChars)]
      BY <1>2, <3>1, <3>2
    <3> QED BY <1>9, <1>14, <3>3
  <2> QED BY <1>14, <2>2, <2>3, <2>4, <2>5
<1>15. CASE key \in {"paste", "pasted"}
  <2>1. key \notin Letters
    BY <1>5, <1>15 DEF NamedKeys
  <2>2. UNCHANGED edited
    BY <1>15, <2>1 DEF Edit
  <2> QED BY <1>10, <1>15, <2>2
<1> QED BY <1>11, <1>12, <1>13, <1>14, <1>15 DEF KeyNames, NamedKeys

\* The end of a line.
LEMMA EnterStep ==
  ASSUME ClInv, ~pasting, presses' \in 0..MaxPresses, NEW b, b = Fed([buffer EXCEPT !.submitted = NoLine], Bytes("enter")),
         Enter(b.submitted), buffer' = [b EXCEPT !.submitted = NoLine]
  PROVE  ClInv'
<1>1. buffer \in ClBuffer /\ [buffer EXCEPT !.submitted = NoLine] = buffer /\ ~buffer.paste
  BY DEF ClInv, ClBuffer
<1>2. b = Submit(buffer)
  BY <1>1, FedKeys
<1>3. buffer' = Cleared(buffer)
  BY <1>1, <1>2 DEF Submit, Discard, Cleared, ClBuffer
<1>4. b.submitted = IF buffer.poisoned \/ IsBlank(buffer.bytes) THEN NoLine ELSE buffer.bytes
  BY <1>1, <1>2 DEF Submit, Discard, ClBuffer
<1>5. Cleared(buffer) \in ClBuffer /\ Cleared(buffer).bytes = <<>> /\ ~Cleared(buffer).poisoned /\ ~Cleared(buffer).paste /\ Len(<<>>) <= LineMax
  BY <1>1, NoChars, ClearedIs, ConsoleLineAssumption
<1>6. edited' = EmptyLine /\ plain' = TRUE /\ long' = FALSE /\ pasting' = pasting
      /\ taken' = [text |-> edited.before \o edited.behind, recorded |-> b.submitted, plain |-> plain, long |-> long]
  BY DEF Enter
<1>7. PlainLinesRecorded'
  <2> SUFFICES ASSUME plain PROVE b.submitted = IF long \/ IsBlank(edited.before \o edited.behind) THEN NoLine ELSE edited.before \o edited.behind
    BY <1>6 DEF PlainLinesRecorded
  <2>1. edited.behind = <<>> /\ edited.before \in Seq(LineChars)
    BY DEF ClInv
  <2>2. edited.before \o edited.behind = edited.before
    BY <2>1
  <2>3. (long <=> buffer.poisoned) /\ (~long => buffer.bytes = edited.before)
    BY DEF ClInv
  <2> QED BY <1>4, <2>2, <2>3
<1>8. EmptyLine \in [before : Seq(LineChars), behind : Seq(LineChars)] /\ EmptyLine.before = <<>> /\ EmptyLine.behind = <<>>
  BY NoChars DEF EmptyLine
<1>9. buffer' \in ClBuffer /\ buffer'.bytes = <<>> /\ ~buffer'.poisoned /\ buffer'.paste = pasting' /\ Len(buffer'.bytes) <= LineMax
  <2>1. pasting' = FALSE /\ buffer'.paste = FALSE
    BY <1>1, <1>3, <1>5, <1>6 DEF ClInv, ClBuffer
  <2> QED BY <1>3, <1>5, <2>1
<1>10. pasting' \in BOOLEAN
  BY <1>6 DEF ClInv
<1> QED BY <1>6, <1>7, <1>8, <1>9, <1>10 DEF ClInv, ClBuffer

\* Every key.
LEMMA LineStep == ClInv /\ [ClNext]_clVars => ClInv'
<1> SUFFICES ASSUME ClInv, [ClNext]_clVars PROVE ClInv'
  OBVIOUS
<1>1. ASSUME NEW key \in KeyNames, Press(key) PROVE ClInv'
  <2> DEFINE b == Fed([buffer EXCEPT !.submitted = NoLine], Bytes(key))
  <2>1. presses' \in 0..MaxPresses
    BY <1>1, ConsoleLineAssumption DEF Press, ClInv
  <2>2. /\ IF pasting THEN key \in Letters \union {"enter", "pasted"} ELSE key # "pasted"
        /\ buffer' = [b EXCEPT !.submitted = NoLine]
        /\ IF key = "enter" /\ ~pasting THEN Enter(b.submitted) ELSE Edit(key)
    BY <1>1 DEF Press
  <2>3. CASE key = "enter" /\ ~pasting
    BY <2>1, <2>2, <2>3, EnterStep
  <2>4. CASE ~(key = "enter" /\ ~pasting)
    BY <2>1, <2>2, <2>4, EditStep
  <2> QED BY <2>3, <2>4
<1>2. CASE UNCHANGED clVars
  BY <1>2 DEF clVars, ClInv, PlainLinesRecorded
<1> QED BY <1>1, <1>2 DEF ClNext

\* Whatever is typed, erased, pasted, killed or recalled: of a line that was only typed, erased
\* and pasted the record is that line, or there is none for a cause (console-input.ts).
THEOREM LinesAreRecorded == ClSpec => []PlainLinesRecorded
<1>1. ClInv => PlainLinesRecorded
  BY DEF ClInv
<1> QED BY <1>1, LineStart, LineStep, PTL DEF ClSpec

(***************************************************************************)
(* The run of the clients.                                                 *)
(***************************************************************************)

\* A step of the clients is a step of the panel's thread or leaves it alone.
LEMMA PanelSteps == ClientsNext => [PaNext]_paVars
BY DEF ClientsNext

\* The same of its badges.
LEMMA BadgesSteps == ClientsNext => [BaNext]_baVars
BY DEF ClientsNext

\* The same of the marks, and of the record of typed lines.
LEMMA MarkSteps == ClientsNext => [RxNext]_rxVars
BY DEF ClientsNext

LEMMA LineSteps == ClientsNext => [ClNext]_clVars
BY DEF ClientsNext

\* And of the prompts.
LEMMA PromptSteps == ClientsNext => [PrNext]_prVars
BY DEF ClientsNext

\* What an open tab shows: its thread is as complete as it says, and its badges and phases
\* are the ones the server last had, for any log, page size, number of requests under way,
\* moods, events and broken sockets (store.ts, connector.ts).
THEOREM PanelTellsTrue == ClientsSpec => []PanelTells
<1>1. ClientsInit => PaInv /\ BaInv
  BY StartStep, BadgesStart DEF ClientsInit
<1>2. PaInv /\ [ClientsNext]_<<focus, rxVars, paVars, baVars, coVars, clVars, loVars, prVars, ttVars, chVars>> => PaInv'
  BY PanelStep, PanelSteps
<1>3. BaInv /\ [ClientsNext]_<<focus, rxVars, paVars, baVars, coVars, clVars, loVars, prVars, ttVars, chVars>> => BaInv'
  BY BadgesStep, BadgesSteps
<1>4. PaInv /\ BaInv => PanelTells
  BY PanelQuiet, BadgesQuiet DEF PanelTells
<1> QED BY <1>1, <1>2, <1>3, <1>4, PTL DEF ClientsSpec

\* What is kept twice: the marks of a chat on both its sides and in the tabs agree once no
\* request is under way; the record of a line that was only typed, erased and pasted is that
\* line; the file of prompts is what the edits that were answered make of it, with every
\* shelf and prompt once.  For any people, messages, requests, letters, keys, libraries and
\* limits (reactions.ts, console-input.ts, prompts.ts).
THEOREM CopiesAlwaysAgree == ClientsSpec => []CopiesAgree
<1>1. ClientsInit => RxInv /\ ClInv /\ PrInv
  BY ReactionsStart, LineStart, PrInvInit DEF ClientsInit
<1>2. RxInv /\ [ClientsNext]_<<focus, rxVars, paVars, baVars, coVars, clVars, loVars, prVars, ttVars, chVars>> => RxInv'
  BY ReactionsStep, MarkSteps
<1>3. ClInv /\ [ClientsNext]_<<focus, rxVars, paVars, baVars, coVars, clVars, loVars, prVars, ttVars, chVars>> => ClInv'
  BY LineStep, LineSteps
<1>4. PrInv /\ [ClientsNext]_<<focus, rxVars, paVars, baVars, coVars, clVars, loVars, prVars, ttVars, chVars>> => PrInv'
  BY PrInvStep, PromptSteps
<1>5. RxInv /\ ClInv /\ PrInv => CopiesAgree
  BY ReactionsQuiet, RackQuiet DEF CopiesAgree, ClInv
<1> QED BY <1>1, <1>2, <1>3, <1>4, <1>5, PTL DEF ClientsSpec
===============================================================================
