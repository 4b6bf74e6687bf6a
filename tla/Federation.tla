------------------------------ MODULE Federation ------------------------------
(***************************************************************************)
(* Messages between servers (the router's federated egress and ingress,    *)
(* the egress dispatcher of a link's queue, the federation manager and its *)
(* sockets).                                                               *)
(*                                                                         *)
(* A link is named after the server at its other end.  A fully qualified   *)
(* name y@c@b is the sequence <<y, c, b>>: its last element is the next    *)
(* link.  A side <<s, t>> is what server s keeps of its link to t.         *)
(*                                                                         *)
(* A link's queue is a queue directory as Maildir models it, reduced to    *)
(* pending/, cur/ and the ids of done/; an actor's queue drops repeated    *)
(* ids and is a set.  Pause and WIP limit are one gate, refusing.  A step  *)
(* ends where a crash, a close or another handler can make a difference:   *)
(* a handler's awaits up to an enqueue are one, and so are its last        *)
(* enqueue and the acknowledgement, which a fault may lose on its way.     *)
(***************************************************************************)
EXTENDS Integers, Sequences, SequencesExt, FiniteSets

CONSTANTS
  Servers, Actors,
  Home,        \* [Actors -> Servers]
  ExportedAs,  \* export names of the exported actors: [SUBSET Actors -> names]
  Imports,     \* <<s, t>>: s imports from t, t accepts s
  TransitImports, \* those of them that are re-exported
  Edges,       \* <<actor, server>>: topology edges from actors to link nodes
  Messages,
  Plan,        \* [Messages -> [from : Actors, to : Seq]]
  HopCap,
  Faults,      \* bound: the kinds of disturbances, see Event
  MaxFaults,   \* bound: how many of them during a message: [Messages -> Nat]
  Pausable,    \* bound: whose gate turns
  Answered,    \* bound: the messages that are answered
  MaxAsks      \* bound: how many messages are written

ASSUME HopCapAssumption == HopCap \in Nat
ASSUME MaxFaultsAssumption == MaxFaults \in [Messages -> Nat]
ASSUME MaxAsksAssumption == MaxAsks \in Nat

\* What a name is made of.
Names == Actors \union Servers \union {ExportedAs[n] : n \in DOMAIN ExportedAs}

ASSUME TopologyAssumption ==
  /\ Home \in [Actors -> Servers]
  /\ DOMAIN ExportedAs \subseteq Actors
  /\ Imports \subseteq Servers \X Servers
  /\ Pausable \subseteq Actors
ASSUME PlanAssumption == \A m \in Messages :
  Plan[m].from \in Actors /\ Plan[m].to \in Seq(Names) /\ Len(Plan[m].to) > 1

Back(p) == <<p[2], p[1]>>
Sides == Imports \union {Back(p) : p \in Imports}

\* Transit is open towards an accept, and towards an import that is re-exported.
Onward(p) == p \in Sides /\ (p \in Imports => p \in TransitImports)

\* A message and its answer: the ids a producer makes up.
Ids == Messages \X {"ask", "answer"}
Codes == {"none", "ok", "AGENT_PAUSED", "UNKNOWN_ACTOR", "HOP_CAP"}

VARIABLES
  queue,     \* a link's queue: pending, cur and the ids of done
  push,      \* its egress: waits for an acknowledgement, and what it sent last
  open,      \* the manager holds a connection for this side
  stale,     \* a replaced connection of this side whose close is still to come
  frames,    \* frames on their way from p[1] to p[2]
  handlers,  \* a server's running handlers of received records
  inbox,     \* what actors received: message id and stamped sender
  notices,   \* failure notices: <<actor, id of the message that failed>>
  refusing,  \* actors that refuse: paused, or at their WIP limit
  journal,   \* the transport log: <<actor, remote name, id>>
  accepted,  \* history: ids a sender was told are accepted
  repeated,  \* history: ids pushed more than once by some server
  faults     \* disturbances so far

linkVars == <<push, open, stale, frames>>
actorVars == <<inbox, notices, refusing>>
histVars == <<accepted, repeated>>
vars == <<queue, linkVars, handlers, actorVars, journal, histVars, faults>>

Asked == {m \in Messages : <<m, "ask">> \in accepted}

Event(kind) ==
  /\ kind \in Faults
  /\ Asked # {} /\ \A m \in Asked : faults < MaxFaults[m]
  /\ faults' = faults + 1

-----------------------------------------------------------------------------
(* Names and records. *)

IsFqn(name) == Len(name) > 1
NoReply == <<>>
ReplyTo(id) == IF id[2] = "answer" THEN <<id[1], "ask">> ELSE NoReply

\* A record of a link's queue; a receipt carries the code of what it reports.
Record(id, code, from, to, hops) ==
  [id |-> id, code |-> code, from |-> from, to |-> to, hops |-> hops]
IsReceipt(r) == r.code # "none"
FileId(r) == <<r.id, IsReceipt(r)>>

QueueKeyOf(s, name) == name \in Actors /\ Home[name] = s
ExportedToLocal(s, name) ==
  {a \in DOMAIN ExportedAs : ExportedAs[a] = name /\ Home[a] = s}

\* wireName: a local sender crosses under its export name.
WireName(name) ==
  IF ~IsFqn(name) /\ name[1] \in DOMAIN ExportedAs THEN <<ExportedAs[name[1]]>> ELSE name

Enqueue(q, p, r) == [q EXCEPT ![p].pending = Append(@, r)]

-----------------------------------------------------------------------------
(* Egress at the origin: #routeFederatedEgress. *)

HasCorrelation(a, fqn, replyTo) == replyTo # NoReply /\ <<a, fqn, replyTo>> \in journal

\* onRouted.
Journaled(entry) == journal' = journal \union {entry}

\* A message to a qualified name, over an edge to the link or as a correlated
\* answer; otherwise the caller is refused at once.
RouteEgress(a, fqn, id) ==
  LET side == <<Home[a], Last(fqn)>>
  IN  /\ side \in Sides
      /\ <<a, Last(fqn)>> \in Edges \/ HasCorrelation(a, fqn, ReplyTo(id))
      /\ queue' = Enqueue(queue, side, Record(id, "none", <<a>>, Front(fqn), 0))
      /\ Journaled(<<a, fqn, id>>)
      /\ accepted' = accepted \union {id}
      /\ UNCHANGED <<linkVars, handlers, actorVars, repeated, faults>>

\* Agents write each message once (bound: MaxAsks), and answer once what they received.
Send(m) ==
  /\ m \notin Asked /\ Cardinality(Asked) < MaxAsks
  /\ RouteEgress(Plan[m].from, Plan[m].to, <<m, "ask">>)

Answer(a, mail) ==
  /\ mail \in inbox[a]
  /\ mail.id[2] = "ask" /\ mail.id[1] \in Answered
  /\ LET id == <<mail.id[1], "answer">>
     IN  id \notin accepted /\ RouteEgress(a, mail.from, id)

-----------------------------------------------------------------------------
(* The egress dispatcher of a side, and the manager's deliver. *)

Wired(p) == open[p] /\ open[Back(p)]

SendFrame(fs, p, f) == IF Wired(p) THEN [fs EXCEPT ![p] = Append(@, f)] ELSE fs

\* dequeue: a repetition of an id in done/ is dropped.
Dequeue(p) ==
  /\ queue[p].cur = <<>> /\ queue[p].pending # <<>>
  /\ LET r == Head(queue[p].pending)
     IN  queue' = [queue EXCEPT ![p].pending = Tail(@),
                                ![p].cur = IF FileId(r) \in queue[p].done THEN <<>> ELSE <<r>>]
  /\ UNCHANGED <<linkVars, handlers, actorVars, journal, histVars, faults>>

\* #push and deliver: with no connection the record stays in cur/; on a dead one the
\* frame is lost.
Push(p) ==
  /\ ~push[p].waits /\ queue[p].cur # <<>> /\ open[p]
  /\ LET r == queue[p].cur[1]
     IN  /\ frames' = SendFrame(frames, p,
                        [type |-> "record", record |-> [r EXCEPT !.from = WireName(@)]])
         /\ push' = [push EXCEPT ![p] = [waits |-> TRUE, sent |-> r.id]]
         /\ repeated' = IF push[p].sent = r.id THEN repeated \union {r.id} ELSE repeated
  /\ UNCHANGED <<queue, open, stale, handlers, actorVars, journal, accepted, faults>>

\* detach, or no answer in time: the promise of the push is rejected.
Rejected(p) == [push EXCEPT ![p].waits = FALSE]

AckTimeoutOfDeadLinks(p) ==
  /\ push[p].waits /\ ~Wired(p)
  /\ push' = Rejected(p)
  /\ UNCHANGED <<queue, open, stale, frames, handlers, actorVars, journal, histVars, faults>>

\* Nothing can acknowledge any more, or it is only late, which is an event.
AckTimeout(p) ==
  /\ push[p].waits
  /\ \/ /\ frames[p] = <<>> /\ frames[Back(p)] = <<>>
        /\ \A h \in handlers : h.side # Back(p)
        /\ UNCHANGED faults
     \/ Event("late")
  /\ push' = Rejected(p)
  /\ UNCHANGED <<queue, open, stale, frames, handlers, actorVars, journal, histVars>>

-----------------------------------------------------------------------------
(* Sockets. *)

\* The handlers of a side whose connection went away acknowledge in vain.
Unheard(p, hs) == {IF h.side = p THEN [h EXCEPT !.heard = FALSE] ELSE h : h \in hs}

\* The client's loop connects again; a server that has not noticed yet replaces
\* the connection it holds.  (Frames of the old one count as lost.)
Connect(p) ==
  /\ p \in Imports
  /\ ~open[p]
  /\ open' = [open EXCEPT ![p] = TRUE, ![Back(p)] = TRUE]
  /\ stale' = [stale EXCEPT ![Back(p)] = @ \/ open[Back(p)]]
  /\ frames' = [frames EXCEPT ![p] = <<>>, ![Back(p)] = <<>>]
  /\ handlers' = Unheard(p, Unheard(Back(p), handlers))
  /\ UNCHANGED <<queue, push, actorVars, journal, histVars, faults>>

\* A side closes: it broke, or the other side is gone already.
Close(p) ==
  /\ open[p]
  /\ IF open[Back(p)] THEN Event("break") ELSE UNCHANGED faults
  /\ open' = [open EXCEPT ![p] = FALSE]
  /\ frames' = [frames EXCEPT ![Back(p)] = <<>>]
  /\ handlers' = Unheard(p, handlers)
  /\ push' = Rejected(p)
  /\ UNCHANGED <<queue, stale, actorVars, journal, histVars>>

\* The late close of a replaced connection leaves the new one attached, but rejects
\* what waits on it.
StaleClose(p) ==
  /\ stale[p]
  /\ stale' = [stale EXCEPT ![p] = FALSE]
  /\ push' = Rejected(p)
  /\ UNCHANGED <<queue, open, frames, handlers, actorVars, journal, histVars, faults>>

\* A server dies and starts again: queues and journal survive.  What it sent may
\* still arrive; what was sent to it is lost.
Crash(s) ==
  /\ Event("crash")
  /\ push' = [p \in Sides |-> IF p[1] = s THEN [push[p] EXCEPT !.waits = FALSE] ELSE push[p]]
  /\ open' = [p \in Sides |-> open[p] /\ p[1] # s]
  /\ stale' = [p \in Sides |-> stale[p] /\ p[1] # s]
  /\ frames' = [p \in Sides |-> IF p[2] = s THEN <<>> ELSE frames[p]]
  /\ handlers' = {h \in handlers : h.side[1] # s}
  /\ UNCHANGED <<queue, actorVars, journal, histVars>>

-----------------------------------------------------------------------------
(* handleMessage of side p, which receives what Back(p) sent. *)

Arrives(p, type) ==
  /\ open[p] /\ frames[Back(p)] # <<>>
  /\ Head(frames[Back(p)]).type = type
  /\ frames' = [frames EXCEPT ![Back(p)] = Tail(@)]

AcknowledgedLoosely(p) ==
  /\ Arrives(p, "ack")
  /\ queue' = [queue EXCEPT ![p].cur = <<>>]
  /\ push' = Rejected(p)
  /\ UNCHANGED <<open, stale, handlers, actorVars, journal, histVars, faults>>

\* The acknowledgement of what waits resolves the push, which completes the record;
\* any other is ignored.
Acknowledged(p) ==
  /\ Arrives(p, "ack")
  /\ LET ref == Head(frames[Back(p)]).ref
     IN  IF push[p].waits /\ FileId(queue[p].cur[1]) = ref
           THEN /\ queue' = [queue EXCEPT ![p].cur = <<>>, ![p].done = @ \union {ref}]
                /\ push' = [push EXCEPT ![p] = [waits |-> FALSE, sent |-> NoReply]]
           ELSE UNCHANGED <<queue, push>>
  /\ UNCHANGED <<open, stale, handlers, actorVars, journal, histVars, faults>>

Received(p) ==
  /\ Arrives(p, "record")
  /\ handlers' = handlers \union
       {[side |-> p, record |-> Head(frames[Back(p)]).record, delivered |-> FALSE, heard |-> TRUE]}
  /\ UNCHANGED <<queue, push, open, stale, actorVars, journal, histVars, faults>>

StampedOnce(h) == IF IsFqn(h.record.from) THEN h.record.from ELSE Append(h.record.from, h.side[2])

\* How the sender of the record is called here, and where its name leads next.
Stamped(h) == Append(h.record.from, h.side[2])
NextSide(h) == <<h.side[1], Last(h.record.to)>>
Forwarded(h) ==
  [h.record EXCEPT !.from = Stamped(h), !.to = Front(@), !.hops = @ + 1]
ReceiptFor(h, code) == Record(h.record.id, code, h.record.to, h.record.from, 0)

Recipients(h) ==
  LET s == h.side[1]
      name == h.record.to[1]
  IN  IF ExportedToLocal(s, name) # {} THEN ExportedToLocal(s, name)
      ELSE {r \in Actors : /\ r = name /\ QueueKeyOf(s, name)
                           /\ HasCorrelation(r, Stamped(h), ReplyTo(h.record.id))}

\* The gates of routeFederatedIngress, in their order.
Verdict(h) ==
  IF IsFqn(h.record.to)
    THEN IF h.record.hops + 1 > HopCap THEN "HOP_CAP"
         ELSE IF Onward(NextSide(h)) THEN "ok" ELSE "UNKNOWN_ACTOR"
  ELSE IF Recipients(h) = {} THEN "UNKNOWN_ACTOR"
  ELSE IF Recipients(h) \subseteq refusing THEN "AGENT_PAUSED" ELSE "ok"

AtGate(h) == h \in handlers /\ ~h.delivered /\ ~IsReceipt(h.record)

\* The handler ends with an acknowledgement to the connection the record came on.
Acks(h) ==
  /\ handlers' = handlers \ {h}
  /\ frames' = IF h.heard
                 THEN SendFrame(frames, h.side, [type |-> "ack", ref |-> FileId(h.record)])
                 ELSE frames
  /\ UNCHANGED <<push, open, stale>>

Refuse(h) ==
  /\ AtGate(h) /\ Verdict(h) # "ok"
  /\ queue' = Enqueue(queue, h.side, ReceiptFor(h, Verdict(h)))
  /\ Acks(h)
  /\ UNCHANGED <<actorVars, journal, histVars, faults>>

Transit(h) ==
  /\ AtGate(h) /\ IsFqn(h.record.to) /\ Verdict(h) = "ok"
  /\ queue' = Enqueue(queue, NextSide(h), Forwarded(h))
  /\ Acks(h)
  /\ UNCHANGED <<actorVars, journal, histVars, faults>>

Deliver(h) ==
  /\ AtGate(h) /\ ~IsFqn(h.record.to) /\ Verdict(h) = "ok"
  /\ \E r \in Recipients(h) :
       /\ inbox' = [inbox EXCEPT ![r] = @ \union {[id |-> h.record.id, from |-> Stamped(h)]}]
       /\ Journaled(<<r, Stamped(h), h.record.id>>)
  /\ handlers' = (handlers \ {h}) \union {[h EXCEPT !.delivered = TRUE]}
  /\ UNCHANGED <<queue, linkVars, notices, refusing, histVars, faults>>

ReceiptOfTheMoment(h) ==
  /\ h \in handlers /\ h.delivered
  /\ queue' = Enqueue(queue, h.side, ReceiptFor(h, Verdict(h)))
  /\ Acks(h)
  /\ UNCHANGED <<actorVars, journal, histVars, faults>>

ReceiptQueued(h) ==
  /\ h \in handlers /\ h.delivered
  /\ queue' = Enqueue(queue, h.side, ReceiptFor(h, "ok"))
  /\ Acks(h)
  /\ UNCHANGED <<actorVars, journal, histVars, faults>>

\* #ingressReceipt, on the way: forwarded, or dropped where it can go no further.
ReceiptTransit(h) ==
  /\ h \in handlers /\ IsReceipt(h.record) /\ IsFqn(h.record.to)
  /\ queue' = IF h.record.hops + 1 > HopCap \/ NextSide(h) \notin Sides
                THEN queue ELSE Enqueue(queue, NextSide(h), Forwarded(h))
  /\ Acks(h)
  /\ UNCHANGED <<actorVars, journal, histVars, faults>>

\* At the origin: a failure becomes a notice in the sender's queue.  The name it is
\* addressed to is looked up among local names only.
ReceiptComesHome(h) ==
  /\ h \in handlers /\ IsReceipt(h.record) /\ ~IsFqn(h.record.to)
  /\ LET name == h.record.to[1]
     IN  IF QueueKeyOf(h.side[1], name) /\ h.record.code # "ok"
           THEN /\ notices' = notices \union {<<name, h.record.id>>}
                /\ Journaled(<<name, Stamped(h), h.record.id>>)
           ELSE UNCHANGED <<notices, journal>>
  /\ Acks(h)
  /\ UNCHANGED <<queue, inbox, refusing, histVars, faults>>

\* The disk refuses an enqueue: no acknowledgement.
IngressFails(h) ==
  /\ Event("disk")
  /\ handlers' = handlers \ {h}
  /\ UNCHANGED <<queue, linkVars, actorVars, journal, histVars>>

\* An actor is paused or its queue is full, and later it is not.
GateTurns(r) ==
  /\ Event("gate")
  /\ refusing' = IF r \in refusing THEN refusing \ {r} ELSE refusing \union {r}
  /\ UNCHANGED <<queue, linkVars, handlers, inbox, notices, journal, histVars>>

-----------------------------------------------------------------------------

EgressNext(p) == Dequeue(p) \/ Push(p) \/ AckTimeout(p)
SocketNext(p) == Connect(p) \/ Close(p) \/ StaleClose(p) \/ Acknowledged(p) \/ Received(p)
HandlerNext(h) ==
  \/ Refuse(h) \/ Transit(h) \/ Deliver(h) \/ ReceiptQueued(h)
  \/ ReceiptTransit(h) \/ ReceiptComesHome(h)
AgentNext ==
  \/ \E m \in Messages : Send(m)
  \/ \E r \in Pausable : GateTurns(r)
  \/ \E r \in Actors : \E mail \in inbox[r] : Answer(r, mail)

Next ==
  \/ \E p \in Sides : EgressNext(p) \/ SocketNext(p)
  \/ \E h \in handlers : HandlerNext(h) \/ IngressFails(h)
  \/ AgentNext
  \/ \E s \in Servers : Crash(s)

\* The servers are up and connected.
Init ==
  /\ queue = [p \in Sides |-> [pending |-> <<>>, cur |-> <<>>, done |-> {}]]
  /\ push = [p \in Sides |-> [waits |-> FALSE, sent |-> NoReply]]
  /\ open = [p \in Sides |-> TRUE]
  /\ stale = [p \in Sides |-> FALSE]
  /\ frames = [p \in Sides |-> <<>>]
  /\ handlers = {}
  /\ inbox = [r \in Actors |-> {}]
  /\ notices = {}
  /\ refusing \in {{}, Pausable}
  /\ journal = {}
  /\ accepted = {} /\ repeated = {}
  /\ faults = 0

Spec == Init /\ [][Next]_vars

\* Every loop runs on: the dispatchers of the links, the clients, the sockets' events,
\* and every handler that was started.
Answering(p) == Dequeue(p) \/ Connect(p) \/ Acknowledged(p) \/ Received(p)
Fairness ==
  /\ WF_vars((\E p \in Sides : Answering(p)) \/ (\E h \in handlers : HandlerNext(h)))
  /\ WF_vars(\E p \in Sides : Push(p))
  /\ WF_vars(UNCHANGED faults /\ \E p \in Sides : AckTimeout(p))
  /\ WF_vars(UNCHANGED faults /\ \E p \in Sides : StaleClose(p) \/ Close(p))

FairSpec == Spec /\ Fairness

-----------------------------------------------------------------------------
(* Properties. *)

Wrote(r, id) ==
  IF id[2] = "ask" THEN Plan[id[1]].from = r
  ELSE \E mail \in inbox[r] : mail.id = <<id[1], "ask">>

Delivered(id) == \E a \in Actors : \E mail \in inbox[a] : mail.id = id
Told(id) == \E r \in Actors : Wrote(r, id) /\ <<r, id>> \in notices
Held(p) == Range(queue[p].pending) \union Range(queue[p].cur)
OnItsWay(id) == \E p \in Sides : \E r \in Held(p) : r.id = id /\ FileId(r) \notin queue[p].done

FedTypeOK ==
  /\ \A p \in Sides : Len(queue[p].cur) <= 1 /\ (push[p].waits => queue[p].cur # <<>>)
  /\ \A p \in Sides : push[p].waits => push[p].sent = queue[p].cur[1].id
  /\ open \in [Sides -> BOOLEAN] /\ stale \in [Sides -> BOOLEAN]
  /\ \A h \in handlers : h.side \in Sides /\ h.record.id \in Ids /\ h.record.code \in Codes
  /\ accepted \subseteq Ids /\ repeated \subseteq Ids
  /\ refusing \subseteq Actors /\ faults \in Nat

\* "asynchronously, never lost silently" (router, federated ingress): whatever crashes,
\* closes or times out between the servers, an accepted message was delivered, its
\* sender was told that it was not, or one of the two is still under way in some
\* server's link queue.
NeverLostSilently == \A id \in accepted : Delivered(id) \/ Told(id) \/ OnItsWay(id)

\* What that takes of a topology and a plan: exports keep their names, or receipts do not
\* find their way home; and no way takes a link twice in one direction, or the link's
\* queue drops the second time as a repetition of the first.
Visited(s, to) == <<s>> \o Reverse(SubSeq(to, 2, Len(to)))
Way(m) == Visited(Home[Plan[m].from], Plan[m].to)
OwnNames == \A n \in DOMAIN ExportedAs : ExportedAs[n] = n
NoLinkTwice == \A m \in Messages : \A j, k \in 1..Len(Way(m)) - 1 :
  Way(m)[j] = Way(m)[k] /\ Way(m)[j + 1] = Way(m)[k + 1] => j = k

\* A sender told that a message failed can rely on it, unless some server had to send
\* it twice: the second copy passes the gates anew.
TrueReport == \A id \in accepted : Told(id) /\ Delivered(id) => id \in repeated

\* The sender's name as its recipient sees it leads back hop by hop (stamped by the
\* receiving side): answering it reaches the server and the actor that wrote.
ReturnPath == \A a \in Actors : \A mail \in inbox[a] :
  mail.id[2] = "ask" =>
    LET plan == Plan[mail.id[1]]
    IN  mail.from = WireName(<<plan.from>>) \o Front(Visited(Home[plan.from], plan.to))

\* A non-exported actor "is reachable only through reply-correlation" (router): it
\* receives only answers to what it wrote itself.
OnlyAnswers == \A a \in Actors \ DOMAIN ExportedAs : \A mail \in inbox[a] :
  mail.id[2] = "answer" /\ Wrote(a, ReplyTo(mail.id))

\* A name is an address: what is received can be answered, and only what may be is.
NamesLeadBack == ReturnPath /\ OnlyAnswers

\* With disturbances that end, every accepted message is delivered or reported.
Settled == \A id \in accepted : Delivered(id) \/ Told(id)
EveryEnvelopeEnds == []<>Settled
=============================================================================
