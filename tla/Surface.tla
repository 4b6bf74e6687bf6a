-------------------------------- MODULE Surface --------------------------------
(***************************************************************************)
(* What servers tell each other about their actors (RemoteRegistry and the *)
(* publisher of FederationManager): one actor of one server, and the feeds *)
(* on which its status travels from server to server.                      *)
(*                                                                         *)
(* The receiving end of a feed is either the client of the link (an        *)
(* import) or the side that accepts it (a relay).  A link may break with   *)
(* one end hearing of it long after the other has connected again.         *)
(*                                                                         *)
(* Left out: names, paths and the cycle guard, the pause flag, servers     *)
(* that publish no statuses, and the messages on the links (Federation).   *)
(***************************************************************************)
EXTENDS Integers, Sequences, FiniteSets

CONSTANTS
  Origin,      \* the server of the actor
  From, To,    \* the ends of each feed; every server but the origin has one feed
  Relays,      \* the feeds whose receiving end accepts the link
  Statuses,
  MaxJolts,    \* bound: changes of the status, breaks, restarts
  MaxInFlight  \* bound: frames on a feed

ASSUME SurfaceAssumption ==
  /\ DOMAIN From = DOMAIN To /\ Relays \subseteq DOMAIN From
  /\ \A f, g \in DOMAIN From : To[f] # Origin /\ (To[f] = To[g] => f = g)
  /\ {MaxJolts, MaxInFlight} \subseteq Nat

Feeds == DOMAIN From
Servers == {Origin} \union {To[f] : f \in Feeds}

Unknown == "unknown"
Absent == "absent"
Shown == Statuses \union {Unknown, Absent}

VARIABLES
  truth,     \* the status of the actor, at the origin
  registry,  \* the receiving end of a feed: is its link up, and what it says
  published, \* what a server's publisher compares with: the last tick's surface
  client,    \* the connecting end of a link, and the actors it has fetched
  accept,    \* the accepting end: its connection, and an older one not yet closed
  wire,      \* the frames under way
  ahead,     \* servers that have sent a snapshot their publisher does not know of
  blinked,   \* history: feeds that were told of a status which a tick never saw
  jolts      \* disturbances so far

suVars == <<truth, registry, published, client, accept, wire, ahead, blinked, jolts>>

Frame == [what : {"surface", "status"}, status : Shown]

SuTypeOK ==
  /\ truth \in Statuses
  /\ registry \in [Feeds -> [up : BOOLEAN, status : Shown]]
  /\ published \in [Servers -> Shown]
  /\ client \in [Feeds -> [at : {"down", "opening", "up", "broken"}, actors : Shown]]
  /\ accept \in [Feeds -> [at : {"none", "live", "dead"}, late : BOOLEAN]]
  /\ \A f \in Feeds : wire[f] \in Seq(Frame) /\ Len(wire[f]) <= MaxInFlight
  /\ ahead \subseteq Feeds /\ blinked \subseteq Feeds
  /\ jolts \in 0..MaxJolts

SuIdle ==
  /\ registry = [f \in Feeds |-> [up |-> FALSE, status |-> Absent]]
  /\ published = [s \in Servers |-> Absent]
  /\ client = [f \in Feeds |-> [at |-> "down", actors |-> Absent]]
  /\ accept = [f \in Feeds |-> [at |-> "none", late |-> FALSE]]
  /\ wire = [f \in Feeds |-> <<>>]
  /\ ahead = {} /\ blinked = {}

SuStart == SuIdle /\ truth \in Statuses /\ jolts = 0

\* Everybody is connected, and knows.
SuQuiet ==
  /\ truth \in Statuses
  /\ registry = [f \in Feeds |-> [up |-> TRUE, status |-> truth]]
  /\ published = [s \in Servers |-> truth]
  /\ client = [f \in Feeds |-> [at |-> "up", actors |-> Absent]]
  /\ accept = [f \in Feeds |-> [at |-> "live", late |-> FALSE]]
  /\ wire = [f \in Feeds |-> <<>>]
  /\ ahead = {} /\ blinked = {}
  /\ jolts = MaxJolts

Jolt == jolts < MaxJolts /\ jolts' = jolts + 1

-----------------------------------------------------------------------------
(* What a server says of the actor. *)

\* A dead link beats every value, but the actor is still known.
View(f) ==
  IF registry[f].up \/ registry[f].status = Absent THEN registry[f].status ELSE Unknown

Says(s) == IF s = Origin THEN truth ELSE View(CHOOSE f \in Feeds : To[f] = s)

\* The connection that the exporting end sends to.
Sends(f) ==
  IF f \in Relays THEN client[f].at = "up" ELSE accept[f].at = "live"

-----------------------------------------------------------------------------
(* The link. *)

\* The handshake; an import fetches the actors with it.
Fetch(f) ==
  /\ client[f].at = "down"
  /\ client' = [client EXCEPT ![f] = [at |-> "opening", actors |-> Says(From[f])]]
  /\ UNCHANGED <<truth, registry, published, accept, wire, ahead, blinked, jolts>>

LinkUp(r, f, status) == [r EXCEPT ![f] = [up |-> TRUE, status |-> status]]

OpenUnannounced(f) ==
  /\ client[f].at = "opening"
  /\ client' = [client EXCEPT ![f] = [at |-> "up", actors |-> Absent]]
  /\ accept' = [accept EXCEPT ![f] = [at |-> "live", late |-> @.late \/ @.at # "none"]]
  /\ registry' = LinkUp(registry, f, IF f \in Relays THEN registry[f].status ELSE client[f].actors)
  /\ ahead' = ahead \ {f}
  /\ blinked' = blinked \ {f}
  /\ UNCHANGED <<truth, published, wire, jolts>>

\* The new connection replaces what the accepting end has, and the exporting end
\* sends its surface and a snapshot.
Open(f) ==
  /\ client[f].at = "opening"
  /\ client' = [client EXCEPT ![f] = [at |-> "up", actors |-> Absent]]
  /\ accept' = [accept EXCEPT ![f] = [at |-> "live", late |-> @.late \/ @.at # "none"]]
  /\ registry' = LinkUp(registry, f, IF f \in Relays THEN registry[f].status ELSE client[f].actors)
  /\ wire' = [wire EXCEPT ![f] = <<[what |-> "surface", status |-> Says(From[f])]>>]
  /\ ahead' = IF Says(From[f]) # published[From[f]] THEN ahead \union {f} ELSE ahead \ {f}
  /\ blinked' = blinked \ {f}
  /\ UNCHANGED <<truth, published, jolts>>

Broken(f) ==
  /\ client' = [client EXCEPT ![f].at = "broken"]
  /\ accept' = [accept EXCEPT ![f].at = "dead"]
  /\ wire' = [wire EXCEPT ![f] = <<>>]

Break(f) ==
  /\ client[f].at = "up" /\ accept[f].at = "live"
  /\ Jolt
  /\ Broken(f)
  /\ UNCHANGED <<truth, registry, published, ahead, blinked>>

LinkDown(r, f) ==
  [r EXCEPT ![f] = [up |-> FALSE, status |-> IF @.status = Absent THEN Absent ELSE Unknown]]

\* onDown, before the client connects again.
ClientHears(f) ==
  /\ client[f].at = "broken"
  /\ client' = [client EXCEPT ![f] = [at |-> "down", actors |-> Absent]]
  /\ registry' = IF f \in Relays THEN registry ELSE LinkDown(registry, f)
  /\ UNCHANGED <<truth, published, accept, wire, ahead, blinked, jolts>>

\* onClose of a dead connection, the latest or an older one: the link goes down.
AcceptHears(f) ==
  /\ \/ accept[f].late /\ accept' = [accept EXCEPT ![f].late = FALSE]
     \/ accept[f].at = "dead" /\ accept' = [accept EXCEPT ![f].at = "none"]
  /\ registry' = IF f \in Relays THEN LinkDown(registry, f) ELSE registry
  /\ UNCHANGED <<truth, published, client, wire, ahead, blinked, jolts>>

-----------------------------------------------------------------------------
(* The publisher, and the frames. *)

\* A new set of actors goes as a surface, a new status as a delta; nothing is sent
\* that the last tick saw.
Tick(s) ==
  LET now == Says(s)
      before == published[s]
      what == IF (now = Absent) # (before = Absent) THEN "surface" ELSE "status"
      targets == {f \in Feeds : From[f] = s /\ Sends(f)}
  IN  /\ now # before \/ \E f \in ahead : From[f] = s
      /\ \A f \in targets : Len(wire[f]) < MaxInFlight
      /\ published' = [published EXCEPT ![s] = now]
      /\ wire' = [f \in Feeds |->
           IF now # before /\ f \in targets
           THEN Append(wire[f], [what |-> what, status |-> now]) ELSE wire[f]]
      /\ ahead' = {f \in ahead : From[f] # s}
      /\ blinked' = IF now = before THEN blinked \union {f \in ahead : From[f] = s}
                    ELSE {f \in blinked : From[f] # s}
      /\ UNCHANGED <<truth, registry, client, accept, jolts>>

\* A delta for an actor that is not on the surface is ignored.
Receive(f) ==
  /\ wire[f] # <<>>
  /\ wire' = [wire EXCEPT ![f] = Tail(@)]
  /\ registry' = IF Head(wire[f]).what = "status" /\ registry[f].status = Absent THEN registry
                 ELSE [registry EXCEPT ![f].status = Head(wire[f]).status]
  /\ UNCHANGED <<truth, published, client, accept, ahead, blinked, jolts>>

-----------------------------------------------------------------------------
Changes(status) ==
  /\ truth # status
  /\ Jolt
  /\ truth' = status
  /\ UNCHANGED <<registry, published, client, accept, wire, ahead, blinked>>

\* A server starts with an empty registry; the other end of a link has yet to hear.
Restart(s) ==
  /\ Jolt
  /\ LET mine == {f \in Feeds : From[f] = s \/ To[f] = s}
         connects(f) == IF f \in Relays THEN From[f] = s ELSE To[f] = s
     IN  /\ client' = [f \in Feeds |->
              IF f \notin mine THEN client[f]
              ELSE IF connects(f) THEN [at |-> "down", actors |-> Absent]
              ELSE IF client[f].at = "up" THEN [client[f] EXCEPT !.at = "broken"]
              ELSE [client[f] EXCEPT !.at = IF @ = "opening" THEN "down" ELSE @]]
         /\ accept' = [f \in Feeds |->
              IF f \notin mine THEN accept[f]
              ELSE IF ~connects(f) THEN [at |-> "none", late |-> FALSE]
              ELSE [accept[f] EXCEPT !.at = IF @ = "live" THEN "dead" ELSE @]]
         /\ wire' = [f \in Feeds |-> IF f \in mine THEN <<>> ELSE wire[f]]
         /\ registry' = [f \in Feeds |->
              IF To[f] = s THEN [up |-> FALSE, status |-> Absent] ELSE registry[f]]
         /\ ahead' = {f \in ahead : From[f] # s}
  /\ published' = [published EXCEPT ![s] = Absent]
  /\ UNCHANGED <<truth, blinked>>

LinkNext == \E f \in Feeds : Fetch(f) \/ Open(f) \/ ClientHears(f) \/ AcceptHears(f) \/ Receive(f)
PublisherNext == \E s \in Servers : Tick(s)

SuNext ==
  \/ LinkNext \/ PublisherNext
  \/ \E f \in Feeds : Break(f)
  \/ \E status \in Statuses : Changes(status)
  \/ \E s \in Servers : Restart(s)

\* Clients connect again, ends hear of a broken link, publishers tick.
SuFair ==
  /\ WF_suVars(LinkNext)
  /\ WF_suVars(PublisherNext)

(***************************************************************************)
(* Properties.                                                             *)
(***************************************************************************)

Told(f) == View(f) = Says(From[f])

\* A relay whose old connection was closed after the new one had come up.
Stranded(f) == f \in Relays /\ accept[f].at = "live" /\ ~registry[f].up

\* Every server comes to show the actor as the next one on the way to it does, a dead
\* link as unknown, whatever breaks and restarts there were.  (Two cases stay wrong
\* until the next change or connection: a snapshot that was sent while the status
\* was away from the publisher's last tick for less than a tick; and a relay of which
\* the accepting end heard an old connection close after the new one had opened.)
ViewConverges ==
  <>[](\A f \in Feeds : Told(f) \/ f \in blinked \/ Stranded(f))

SuSpec == SuStart /\ [][SuNext]_suVars /\ SuFair
=============================================================================
