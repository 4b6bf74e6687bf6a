------------------------------- MODULE Reactions -------------------------------
(***************************************************************************)
(* Marks on messages (ReactionStore, ReactionsHub and the handlers that    *)
(* call it).                                                               *)
(*                                                                         *)
(* Every store runs its operations one after the other; a request is a     *)
(* chain of them.  Two people each keep a copy of their chat, and of its   *)
(* marks: what one of them places is mirrored into the other's store.  A   *)
(* person and an agent share the person's store, two agents a store of the *)
(* pair, whose only audience is the journal.                               *)
(*                                                                         *)
(* Left out: the order of marks, the snapshots of their look, the picker   *)
(* and its catalog, numbers of uses.                                       *)
(***************************************************************************)
EXTENDS Integers, Sequences, FiniteSets

CONSTANTS
  Humans,      \* the people, with a chat history each
  Marked,      \* messages
  Ends,        \* [Marked -> pairs <<from, to>> of participants]
  Emoji,       \* the keys of the catalog
  Earnest,     \* those of them that ask the author for a turn
  RxSlots,     \* bound: requests at one time, 1..
  MaxRequests, \* bound: requests
  MaxUpsets    \* bound: failed writes, crashes

ASSUME ReactionsAssumption ==
  /\ Marked \cap Humans = {} /\ Earnest \subseteq Emoji
  /\ \A m \in Marked : Ends[m][1] # Ends[m][2]
  /\ {MaxRequests, MaxUpsets} \subseteq Nat

VARIABLES
  marks,     \* a store's events, folded: triples <<message, actor, key>>
  markFile,  \* what a restart would read
  markTail,  \* files, by store and pair, that end in part of a line
  keeps,     \* [Humans -> the messages in their history]
  req,       \* a slot's request: its await, who wants what, what it found
  line,      \* a store's chain: the slots whose operation waits
  shown,     \* what an audience was last told: the marks, and whose are "mine"
  notices,   \* notices to authors that the router took: triples, with "turn" or not
  uses,      \* keys: whether their counter is ahead of its file
  usesStuck, \* a write of the counters has failed
  cut,       \* history: triples whose request did not get to its end
  untold,    \* history: triples whose last change an audience may not know
  asked,     \* requests so far
  rxUpsets   \* disturbances so far

rxVars == <<marks, markFile, markTail, keeps, req, line, shown, notices, uses, usesStuck,
            cut, untold, asked, rxUpsets>>

Parties(m) == {Ends[m][1], Ends[m][2]}
AuthorOf(m) == Ends[m][1]
IsHuman(x) == x \in Humans
\* The journal shows the marks of agents, the people their own chats'.
Audiences == Humans \union {"journal"}
MarkStores == Audiences
Triples == {<<m, x, k>> : m \in Marked, x \in UNION {Parties(m) : m \in Marked}, k \in Emoji}

\* The store a request of x works on: its own, that of the person it talks to, the
\* pair's.  And the copy the other person keeps.
StoreOf(m, x) ==
  IF IsHuman(x) THEN x
  ELSE IF Parties(m) \cap Humans = {} THEN "journal"
  ELSE CHOOSE h \in Parties(m) : IsHuman(h)
Copies(m, x) == (Parties(m) \cap Humans) \ {StoreOf(m, x)}

NoRequest == [at |-> "idle"]
Ops == {"add", "remove", "clear", "drop"}
RequestAt == {"find", "own", "mirror", "read", "notify", "clear", "live", "compact"}

RxTypeOK ==
  /\ marks \in [MarkStores -> SUBSET Triples] /\ markFile \in [MarkStores -> SUBSET Triples]
  /\ markTail \subseteq MarkStores \X {Parties(m) : m \in Marked}
  /\ keeps \in [Humans -> SUBSET Marked]
  /\ \A s \in RxSlots :
       \/ req[s] = NoRequest
       \/ /\ req[s].at \in RequestAt /\ req[s].op \in Ops
          /\ req[s].mark \in Triples /\ req[s].changed \in BOOLEAN
          /\ req[s].found \subseteq Triples /\ req[s].live \subseteq Marked
  /\ \A o \in MarkStores : \A i \in DOMAIN line[o] : line[o][i] \in RxSlots
  /\ \A o \in Audiences : shown[o].marks \subseteq Triples /\ shown[o].viewer \in Audiences
  /\ notices \subseteq Triples \X BOOLEAN
  /\ uses \in [Emoji -> {"none", "ahead", "saved"}] /\ usesStuck \in BOOLEAN
  /\ cut \subseteq Triples /\ untold \subseteq Triples
  /\ asked \in 0..MaxRequests /\ rxUpsets \in 0..MaxUpsets

RxStart ==
  /\ marks = [o \in MarkStores |-> {}] /\ markFile = marks /\ markTail = {}
  /\ keeps = [h \in Humans |-> {m \in Marked : h \in Parties(m)}]
  /\ req = [s \in RxSlots |-> NoRequest] /\ line = [o \in MarkStores |-> <<>>]
  /\ shown = [o \in Audiences |-> [marks |-> {}, viewer |-> o]]
  /\ notices = {} /\ uses = [k \in Emoji |-> "none"] /\ usesStuck = FALSE
  /\ cut = {} /\ untold = {} /\ asked = 0 /\ rxUpsets = 0

RxUpset == rxUpsets < MaxUpsets /\ rxUpsets' = rxUpsets + 1

-----------------------------------------------------------------------------
(* Requests and the chains of the stores. *)

\* A request arrives: a person's over the panel, an agent's through its tools.  A
\* person clears a chat, or removes a topic and with it some of its messages.
Ask(s) ==
  /\ req[s] = NoRequest /\ asked < MaxRequests
  /\ \A q \in 1..s - 1 : req[q] # NoRequest
  /\ \E m \in Marked : \E x \in Parties(m) : \E k \in Emoji : \E o \in Ops :
       /\ o \in {"clear", "drop"} => IsHuman(x)
       /\ req' = [req EXCEPT ![s] =
            [at |-> CASE o = "clear" -> "clear" [] o = "drop" -> "live" [] OTHER -> "find",
             op |-> o, mark |-> <<m, x, k>>, changed |-> FALSE, found |-> {}, live |-> {}]]
  /\ asked' = asked + 1
  /\ UNCHANGED <<marks, markFile, markTail, keeps, line, shown, notices, uses, usesStuck,
                 cut, untold, rxUpsets>>

\* The next operation of s, queued behind what waits on the chain of store o.
QueueUp(s, o, r) == line' = [line EXCEPT ![o] = Append(@, s)] /\ req' = [req EXCEPT ![s] = r]
\* The head of a chain is done, and its request queues the next operation in the
\* same turn of the event loop.
QueueNext(s, from, to, r) ==
  /\ line' = [o \in MarkStores |->
       LET rest == IF o = from THEN Tail(line[o]) ELSE line[o]
       IN IF o = to THEN Append(rest, s) ELSE rest]
  /\ req' = [req EXCEPT ![s] = r]
AtHead(s, o) == line[o] # <<>> /\ Head(line[o]) = s

\* The marked message is looked up in the owner's history, or in the journal.
FindRecord(s) ==
  LET r == req[s] m == r.mark[1] o == StoreOf(m, r.mark[2])
  IN /\ r.at = "find"
     /\ IF o \in Humans /\ m \notin keeps[o]
        THEN req' = [req EXCEPT ![s] = NoRequest] /\ UNCHANGED line
        ELSE QueueUp(s, o, [r EXCEPT !.at = "own"])
     /\ UNCHANGED <<marks, markFile, markTail, keeps, shown, notices, uses, usesStuck, cut,
                    untold, asked, rxUpsets>>

\* What an add or a removal makes of the folded marks.
Marking(r, set) == IF r.op = "add" THEN set \union {r.mark} ELSE set \ {r.mark}
FileOf(o, r) == <<o, Parties(r.mark[1])>>
\* A line behind part of a line is no event.
Filed(o, r) ==
  /\ markFile' = [markFile EXCEPT ![o] = IF FileOf(o, r) \in markTail THEN @ ELSE Marking(r, @)]
  /\ markTail' = markTail \ {FileOf(o, r)}
\* A write that fails leaves part of a line, or nothing.
NotFiled(o, r) ==
  /\ UNCHANGED markFile
  /\ markTail' \in {markTail, markTail \union {FileOf(o, r)}}

-----------------------------------------------------------------------------
(* ReactionStore.add, remove, of, clear, compact. *)

\* The copy changes and the event is written, unless nothing changes.
Apply(o, r) ==
  IF Marking(r, marks[o]) = marks[o] THEN UNCHANGED <<marks, markFile, markTail>>
  ELSE marks' = [marks EXCEPT ![o] = Marking(r, @)] /\ Filed(o, r)

OwnMark(s) ==
  LET r == req[s] o == StoreOf(r.mark[1], r.mark[2]) others == Copies(r.mark[1], r.mark[2])
  IN /\ r.at = "own" /\ AtHead(s, o)
     /\ Apply(o, r)
     /\ LET q == [r EXCEPT !.changed = Marking(r, marks[o]) # marks[o]]
        IN IF others = {} THEN QueueNext(s, o, o, [q EXCEPT !.at = "read"])
           ELSE QueueNext(s, o, CHOOSE c \in others : TRUE, [q EXCEPT !.at = "mirror"])
     /\ UNCHANGED <<keeps, shown, notices, uses, usesStuck, cut, untold, asked, rxUpsets>>

\* The event is in the copy and the write fails: part of a line, or nothing.  The
\* request is refused.
OwnMarkFails(s) ==
  LET r == req[s] o == StoreOf(r.mark[1], r.mark[2])
  IN /\ r.at = "own" /\ AtHead(s, o) /\ RxUpset
     /\ Marking(r, marks[o]) # marks[o]
     /\ marks' = [marks EXCEPT ![o] = Marking(r, @)]
     /\ NotFiled(o, r)
     /\ line' = [line EXCEPT ![o] = Tail(@)] /\ req' = [req EXCEPT ![s] = NoRequest]
     /\ cut' = cut \union {r.mark} /\ untold' = untold \union {r.mark}
     /\ UNCHANGED <<keeps, shown, notices, uses, usesStuck, asked>>

\* No other request has still to mirror this mark.
LastMirror(s) == \A q \in RxSlots \ {s} : req[q].at = "mirror" => req[q].mark # req[s].mark

\* The other copy of the chat.  A mirror that fails is not the request's failure.  A
\* removal that changes only this copy is told as well, a placement is not.
MirrorMark(s) ==
  LET r == req[s] m == r.mark[1] x == r.mark[2]
      c == CHOOSE d \in Copies(m, x) : TRUE
      changes == Marking(r, marks[c]) # marks[c]
      told == r.changed \/ (changes /\ r.op = "remove")
  IN /\ r.at = "mirror" /\ AtHead(s, c)
     /\ \/ /\ Apply(c, r)
           /\ QueueNext(s, c, StoreOf(m, x), [r EXCEPT !.at = "read", !.changed = told])
           /\ cut' = IF (r.mark \in marks'[c]) = (r.mark \in marks[StoreOf(m, x)]) /\ LastMirror(s)
                     THEN cut \ {r.mark} ELSE cut
           /\ untold' = IF changes /\ ~told THEN untold \union {r.mark} ELSE untold
           /\ UNCHANGED rxUpsets
        \/ /\ changes /\ RxUpset
           /\ marks' = [marks EXCEPT ![c] = Marking(r, @)] /\ NotFiled(c, r)
           /\ QueueNext(s, c, StoreOf(m, x), [r EXCEPT !.at = "read"])
           /\ untold' = untold \union {r.mark} /\ UNCHANGED cut
     /\ UNCHANGED <<keeps, shown, notices, uses, usesStuck, asked>>

-----------------------------------------------------------------------------
(* Who is told. *)

BroadcastOwner(r) ==
  LET o == StoreOf(r.mark[1], r.mark[2])
  IN shown' = [shown EXCEPT ![o] =
       [marks |-> {t \in @.marks : t[1] # r.mark[1]} \union r.found, viewer |-> o]]

\* The tabs of both sides take the marks of the message as they were read, folded for
\* the one who reacted; the journal's are folded for nobody.
Broadcast(r) ==
  LET m == r.mark[1] o == StoreOf(m, r.mark[2])
  IN shown' = [a \in Audiences |->
       IF a \in {o} \union Copies(m, r.mark[2])
       THEN [marks |-> {t \in shown[a].marks : t[1] # m} \union r.found, viewer |-> o]
       ELSE shown[a]]

\* The marks of the message are read, and told before any other operation begins.  A
\* repeat is told to nobody; a placement is counted, told, and the author notified.
ReadAndTell(s) ==
  LET o == StoreOf(req[s].mark[1], req[s].mark[2])
      r == [req[s] EXCEPT !.found = {t \in marks[o] : t[1] = req[s].mark[1]}]
      placed == r.changed /\ r.op = "add"
  IN /\ r.at = "read" /\ AtHead(s, o)
     /\ line' = [line EXCEPT ![o] = Tail(@)]
     /\ IF r.changed THEN Broadcast(r) ELSE UNCHANGED shown
     /\ uses' = IF placed THEN [uses EXCEPT ![r.mark[3]] = "ahead"] ELSE uses
     /\ req' = [req EXCEPT ![s] = IF placed THEN [r EXCEPT !.at = "notify"] ELSE NoRequest]
     /\ UNCHANGED <<marks, markFile, markTail, keeps, notices, usesStuck, cut, untold, asked,
                    rxUpsets>>

\* An agent hears of a mark on its message, by a person's key with a turn to answer
\* it in.  The notice's id is the mark, so its queue takes it once; the router may
\* refuse it.
NotifyAuthor(s) ==
  LET r == req[s] author == AuthorOf(r.mark[1])
      turn == r.mark[3] \in Earnest /\ IsHuman(r.mark[2])
  IN /\ r.at = "notify"
     /\ \/ UNCHANGED notices
        \/ /\ author # r.mark[2] /\ ~IsHuman(author)
           /\ notices' = IF \E n \in notices : n[1] = r.mark THEN notices
                         ELSE notices \union {<<r.mark, turn>>}
     /\ req' = [req EXCEPT ![s] = NoRequest]
     /\ UNCHANGED <<marks, markFile, markTail, keeps, line, shown, uses, usesStuck, cut,
                    untold, asked, rxUpsets>>

-----------------------------------------------------------------------------
(* A chat that loses messages, its marks, and the counters. *)

\* The history is cleared, then the marks of the pair; the tabs drop both.
ClearHistory(s) ==
  LET r == req[s] h == r.mark[2]
      pair == {m \in Marked : Parties(m) = Parties(r.mark[1])}
  IN /\ r.at = "clear"
     /\ IF r.found = {}
        THEN /\ keeps' = [keeps EXCEPT ![h] = @ \ pair]
             /\ QueueUp(s, h, [r EXCEPT !.found = {r.mark}])
             /\ UNCHANGED <<marks, markFile, markTail, shown>>
        ELSE /\ AtHead(s, h)
             /\ marks' = [marks EXCEPT ![h] = {t \in @ : t[1] \notin pair}]
             /\ markFile' = [markFile EXCEPT ![h] = {t \in @ : t[1] \notin pair}]
             /\ markTail' = markTail \ {FileOf(h, r)}
             /\ line' = [line EXCEPT ![h] = Tail(@)] /\ req' = [req EXCEPT ![s] = NoRequest]
             /\ shown' = [shown EXCEPT ![h].marks = {t \in @ : t[1] \notin pair}]
             /\ UNCHANGED keeps
     /\ UNCHANGED <<notices, uses, usesStuck, cut, untold, asked, rxUpsets>>

\* A topic's messages leave the history; what is left is read, and the marks of the
\* others are compacted away: the file is written anew unless it holds nothing else.
RemoveMessages(s) ==
  LET r == req[s] h == r.mark[2]
  IN /\ r.at = "live"
     /\ keeps' = [keeps EXCEPT ![h] = @ \ {r.mark[1]}]
     /\ QueueUp(s, h, [r EXCEPT !.at = "compact", !.live = keeps'[h]])
     /\ UNCHANGED <<marks, markFile, markTail, shown, notices, uses, usesStuck, cut, untold,
                    asked, rxUpsets>>

Compact(s) ==
  LET r == req[s] h == r.mark[2]
      left == {t \in marks[h] : t[1] \in r.live \/ Parties(t[1]) # Parties(r.mark[1])}
  IN /\ r.at = "compact" /\ AtHead(s, h)
     /\ marks' = [marks EXCEPT ![h] = left]
     /\ \/ left = marks[h] /\ UNCHANGED <<markFile, markTail>>
        \/ markFile' = [markFile EXCEPT ![h] =
                {t \in @ : Parties(t[1]) # Parties(r.mark[1])}
                \union {t \in left : Parties(t[1]) = Parties(r.mark[1])}]
           /\ markTail' = markTail \ {FileOf(h, r)}
     /\ line' = [line EXCEPT ![h] = Tail(@)] /\ req' = [req EXCEPT ![s] = NoRequest]
     /\ shown' = [shown EXCEPT ![h].marks = {t \in @ : t[1] # r.mark[1]}]
     /\ UNCHANGED <<keeps, notices, uses, usesStuck, cut, untold, asked, rxUpsets>>

\* The counters are written a while after a placement.  Every write waits for the one
\* before it, also for one that failed, and then fails with it.
FlushUses ==
  /\ \E k \in Emoji : uses[k] = "ahead"
  /\ \/ ~usesStuck /\ uses' = [k \in Emoji |-> IF uses[k] = "ahead" THEN "saved" ELSE uses[k]]
        /\ UNCHANGED <<usesStuck, rxUpsets>>
     \/ ~usesStuck /\ RxUpset /\ usesStuck' = TRUE /\ UNCHANGED uses
  /\ UNCHANGED <<marks, markFile, markTail, keeps, req, line, shown, notices, cut, untold, asked>>

\* A restart: the stores are read again and the requests are gone.
RxCrash ==
  /\ RxUpset
  /\ LET begun == {req[s].mark : s \in {u \in RxSlots : req[u] # NoRequest}}
         lost == {t \in Triples : \E o \in MarkStores : (t \in marks[o]) # (t \in markFile[o])}
     IN cut' = cut \union begun \union lost /\ untold' = untold \union begun \union lost
  /\ marks' = markFile
  /\ req' = [s \in RxSlots |-> NoRequest] /\ line' = [o \in MarkStores |-> <<>>]
  /\ uses' = [k \in Emoji |-> IF uses[k] = "ahead" THEN "none" ELSE uses[k]]
  /\ usesStuck' = FALSE
  /\ UNCHANGED <<markFile, markTail, keeps, shown, notices, asked>>

RequestNext ==
  \E s \in RxSlots :
    /\ req[s] # NoRequest
    /\ \/ FindRecord(s) \/ OwnMark(s) \/ OwnMarkFails(s) \/ MirrorMark(s) \/ ReadAndTell(s)
       \/ NotifyAuthor(s) \/ ClearHistory(s) \/ RemoveMessages(s) \/ Compact(s)

RxNext ==
  \/ \E s \in RxSlots : Ask(s)
  \/ RequestNext
  \/ FlushUses
  \/ RxCrash

RxSpec == RxStart /\ [][RxNext]_rxVars

-----------------------------------------------------------------------------
(* What the hub promises. *)

NoneAsks == \A s \in RxSlots : req[s] = NoRequest
KeptByAll(m) == \A h \in Parties(m) \cap Humans : m \in keeps[h]

\* Once no request is under way, the two copies of a chat hold the same marks on the
\* messages that both still have, and every audience was last told what its store
\* holds: however the requests of both sides ran into each other, and but for the
\* marks whose request a failed write or a crash cut short (ReactionsHub.react).
ReactionsAgree ==
  NoneAsks =>
    \A t \in Triples \ cut :
      LET m == t[1] IN
      KeptByAll(m) =>
        \A o, c \in {StoreOf(m, x) : x \in Parties(m)} :
          /\ (t \in marks[o]) = (t \in marks[c])
          /\ t \notin untold => (t \in shown[o].marks) = (t \in marks[o])
===============================================================================
