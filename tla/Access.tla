------------------------------- MODULE Access -------------------------------
(***************************************************************************)
(* Who may do what, once a configuration is accepted: the panel of a       *)
(* person (handlers of the webchat's connector, and the ports that         *)
(* bootstrap gives each of them), and the operator plane, which is asked   *)
(* for without a name.  The guard of a handler and that of its port are    *)
(* computed apart, and so is what the panel is told that it may ask for.   *)
(*                                                                         *)
(* Left out: who is logged in (Logins), peers of other servers (Surface),  *)
(* whether a session is up.                                                *)
(***************************************************************************)
EXTENDS Config

LOCAL INSTANCE Functions

PanelActions == {"shutdown", "reload", "pause"}

\* The identities of the panels: the users bound to a webchat, or its one operator.
Viewers(c) ==
  UNION {IF ch.bindOperator # None THEN {[name |-> ch.bindOperator, admin |-> TRUE, user |-> FALSE]}
         ELSE {[name |-> u.name, admin |-> u.admin, user |-> TRUE] :
                 u \in {w \in Entries(c.users) : \E b \in w.channels : b[1] = ch.name}} :
         ch \in {d \in Entries(c.channels) : d.type = "webchat"}}

\* The ports that a panel lists its peers from, and the list: a user's own chat is on it.
PanelPeers(c, n) == {m \in NamesIn(c.agents) \union NamesIn(c.users) : HasEdge(c, n, m)}
BroadcastPeers(c, n) ==
  {m \in NamesIn(c.groups) \union UNION {a.tags : a \in Entries(c.agents)} : HasEdge(c, n, m)}
PeersShown(c, v) ==
  PanelPeers(c, v.name) \union BroadcastPeers(c, v.name) \union (IF v.user THEN {v.name} ELSE {})

\* What the panel is told that it may do (shutdown only while the session is up) ...
Actions(c, v, m) ==
  IF m \in NamesIn(c.users)
  THEN IF m = v.name \/ \E u \in Entries(c.users) : u.name = v.name /\ u.admin THEN {"pause"} ELSE {}
  ELSE IF m \notin PanelPeers(c, v.name) THEN {}
  ELSE {"shutdown", "pause"} \union (IF Agent(c, m).provision THEN {"reload"} ELSE {})
CommandsShown(c, v, m) ==
  IF m \in NamesIn(c.agents) /\ HasEdge(c, v.name, m) THEN CommandsOf(c, m) ELSE {}

\* ... and what LifecycleAdmin does for whoever gets through: to restart or reload takes
\* the session down before it is found that nothing can start it again.
Perform(c, m, action) ==
  IF m \notin NamesIn(c.agents)
  THEN IF action = "pause" /\ m \in NamesIn(c.users) THEN "done" ELSE "unknown"
  ELSE IF action \in NeedProvision /\ ~Agent(c, m).provision
  THEN IF action = "start" THEN "failed" ELSE "taken down"
  ELSE "done"
RunCommand(c, m, slash) ==
  IF m \in NamesIn(c.agents) /\ slash \in CommandsOf(c, m) THEN "run" ELSE "unknown"

\* handleAgentAction: whom it lets through, to a user or to a neighbour.
MayActUnjoined(c, v, m, action) ==
  LET targetIsUser == IF m = v.name THEN v.user ELSE PeerType(c, m) = "user"
  IN IF targetIsUser THEN action = "pause" /\ (m = v.name \/ v.admin) ELSE m \in NamesIn(c.agents)
MayAct(c, v, m, action) ==
  LET targetIsUser == IF m = v.name THEN v.user ELSE PeerType(c, m) = "user"
  IN IF targetIsUser THEN action = "pause" /\ (m = v.name \/ v.admin) ELSE m \in PanelPeers(c, v.name)
PostAction(c, v, m, action) == IF MayAct(c, v, m, action) THEN Perform(c, m, action) ELSE "refused"
PostCommand(c, v, m, slash) ==
  IF MayAct(c, v, m, "command") THEN RunCommand(c, m, slash) ELSE "refused"

\* intersectSelectors, and the command that each of the agents found is given.
Selects(c, s) == s \in NamesIn(c.groups) \union Tags(c) \union NamesIn(c.agents)
Selected(c, S) ==
  {a \in NamesIn(c.agents) : \A s \in S :
     a \in (IF s \in NamesIn(c.groups) \union Tags(c) THEN MembersOf(c, s) ELSE {s})}
FanOut(c, v, S, slash) ==
  IF \E s \in S : ~Selects(c, s) THEN <<>>
  ELSE [a \in Selected(c, S) |-> IF HasEdge(c, v.name, a) THEN RunCommand(c, a, slash) ELSE "denied"]

\* The screen, the console, the clock: the handler lets a neighbour through, the port
\* has them of agents.
ConsoleGate(c, v, m) == m \in PanelPeers(c, v.name)
LookInto(c, v, m) ==
  IF ~ConsoleGate(c, v, m) THEN "unknown"
  ELSE IF m \in NamesIn(c.agents) /\ HasEdge(c, v.name, m) THEN "run" ELSE "failed"
HasTopics(c, v, m) ==
  ~(v.user /\ m = v.name) /\ m \in PanelPeers(c, v.name) /\ PeerType(c, m) = "agent"
PanelSend(c, v, m, raw) ==
  IF raw /\ PeerType(c, m) # "agent" THEN "refused" ELSE LeadsTo(c, v.name, m)
ReadsJournal(v) == v.admin

\* The operator plane: in whose name it sends, and whose queue it looks into.
SendAs(c, from, to) ==
  IF from \in NamesIn(c.agents) \union Operators(c) \union NamesIn(c.users)
  THEN LeadsTo(c, from, to) ELSE "unknown from"
ResolveQueue(c, n) ==
  IF n \in NamesIn(c.agents) THEN <<Agent(c, n).tmux>>
  ELSE IF n \in Operators(c) \union NamesIn(c.users) THEN <<n>>
  ELSE IF n \in {l.name : l \in ServingLinks(c)} THEN <<"fed", n>>
  ELSE <<>>
\* The directories that retention sweeps, each with the loop whose ids it forgets.
SweepTargets(c) ==
  {[dir |-> <<a.tmux>>, of |-> a.name] : a \in Entries(c.agents)}
    \union {[dir |-> <<n>>, of |-> n] : n \in Operators(c) \union NamesIn(c.users)}
    \union {[dir |-> <<"fed", l.name>>, of |-> l.name] : l \in ServingLinks(c)}

-----------------------------------------------------------------------------
(* Properties. *)

\* What a panel offers is accepted, and what it is refused was not offered: the guards of
\* the handlers, those of the ports and the lists agree, name by name.  An action on an
\* agent, a look at it, a command, alone or by selectors, needs an edge; a user is paused
\* by himself or an admin (an operator is one, though its panel offers no such button).
\* The names shown are those a message reaches, and all of them are shown, but operators
\* and tags of users only.
PanelAgrees ==
  stage = "up" =>
    LET c == config
        agents == NamesIn(c.agents) \ Hidden(c)
        known == Participants(c) \ (Hidden(c) \union Links(c))
    IN \A v \in Viewers(c) :
      /\ \A m \in known :
           /\ \A a \in PanelActions :
                /\ a \in Actions(c, v, m) => PostAction(c, v, m, a) = "done"
                /\ PostAction(c, v, m, a) = "done" => a \in Actions(c, v, m) \/ (m \in NamesIn(c.users) /\ ~v.user)
                /\ PostAction(c, v, m, a) \in {"done", "taken down"} =>
                     HasEdge(c, v.name, m) \/ (a = "pause" /\ m \in NamesIn(c.users))
           /\ CommandsShown(c, v, m) = {s \in Slashes : PostCommand(c, v, m, s) = "run"}
           /\ m \in PeersShown(c, v) => PanelSend(c, v, m, FALSE) \in {"delivered", "fan-out"}
           /\ PanelSend(c, v, m, FALSE) \in {"delivered", "fan-out"} =>
                m \in PeersShown(c, v) \union Operators(c) \union {t \in Tags(c) : \A a \in Entries(c.agents) : t \notin a.tags}
           /\ LookInto(c, v, m) = "run" <=> m \in PeersShown(c, v) \intersect agents
           /\ HasTopics(c, v, m) <=> m \in PeersShown(c, v) \intersect agents
           /\ PanelSend(c, v, m, TRUE) = "delivered" <=> HasTopics(c, v, m) \/ (m \in Operators(c) /\ LeadsTo(c, v.name, m) = "delivered")
      /\ \A x \in known : \A y \in NamesIn(c.groups) \union {x} : \A s \in Slashes :
           LET fan == FanOut(c, v, {x, y}, s)
           IN \A a \in DOMAIN fan \ Hidden(c) : fan[a] = "run" <=> PostCommand(c, v, a, s) = "run"

\* The operator plane reaches what the others do: what an agent or a person may do to a
\* session, it may; a queue is looked at, and swept, where its own loop serves it, and
\* none is left out.
PlaneReaches ==
  stage = "up" =>
    LET c == config IN
      /\ \A x \in Serving(c) \union ServingLinks(c) :
           /\ ResolveQueue(c, x.name) = x.dir \/ x.name \in Hidden(c)
           /\ [dir |-> x.dir, of |-> x.name] \in SweepTargets(c)
      /\ \A s, t \in SweepTargets(c) : s.dir = t.dir => s = t
      /\ \A from, to \in Participants(c) \ Hidden(c) :
           /\ \A a \in SessionActions : ControlSession(c, from, to, a) = "run" => Perform(c, to, a) = "done"
           /\ \A s \in Slashes : SendCommand(c, from, to, s) = "run" => RunCommand(c, to, s) = "run"
           /\ SendAs(c, from, to) \in {"delivered", "fan-out"} => from = to \/ HasEdge(c, from, to)

\* Grants, panels and the operator plane mean the same configuration.
AccessAgrees == GrantsHonoured /\ PanelAgrees /\ PlaneReaches
=============================================================================
