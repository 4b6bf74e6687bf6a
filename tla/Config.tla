------------------------------- MODULE Config -------------------------------
(***************************************************************************)
(* The configuration (loadConfig) and what the server makes of it: the     *)
(* assembly of the file from its $refs, the rules of validation, the       *)
(* queues and addresses of bootstrap, the grants of the agent plane.       *)
(*                                                                         *)
(* A section is a sequence of records, as two entries may bear one name.   *)
(* A name stands for itself; the rules that look into names see two sets   *)
(* of them.  Durations, colors, titles, limits and other values that no    *)
(* rule compares with another section are left out, and so are warnings.   *)
(***************************************************************************)
EXTENDS Naturals, Sequences, FiniteSets

LOCAL INSTANCE Functions
LOCAL INSTANCE SequencesExt

CONSTANTS
  Names, None, Own,  \* Own: exported under its own name
  FqnNames,          \* names with an @ in them
  PathNames,         \* names that are no plain directory name
  Types,             \* the registered adapters
  Catalog,           \* the commands of each type
  Slashes, Internal, \* commands, and those that the server itself carries out
  Aliases,
  Nodes,             \* nodes a $ref may point to, <<file, pointer>>
  RootFile, Nowhere, \* the configuration itself; a target that is not there
  Loads              \* a configuration, and what each node refers to in its order

NeedProvision == {"start", "restart", "reload"}
SessionActions == NeedProvision \union {"stop", "shutdown"}
UsersModeTypes == {"webchat", "telegram", "slack"}
Wildcard == "*"  \* the wildcard of grants

Maybe(S) == S \union {None}

AgentShape ==
  [name: Names, tmux: Names, type: Names, provision: BOOLEAN, commands: SUBSET Slashes,
   group: Maybe(Names), tags: SUBSET Names, exported: Names \union {None, Own}]
\* channels: pairs of a channel and an alias, None for a plain `true`.
UserShape ==
  [name: Names, group: Maybe(Names), tags: SUBSET Names, auth: BOOLEAN, admin: BOOLEAN,
   channels: SUBSET (Names \X Maybe(Aliases)), exported: Names \union {None, Own}]
ChannelShape ==
  [name: Names, type: Names, bindOperator: Maybe(Names), defaultTarget: Maybe(Names),
   auth: {"none", "password", "users"}, inline: BOOLEAN, port: Nat]
GroupShape == [name: Names, parent: Maybe(Names)]
ImportShape == [name: Names, inline: BOOLEAN]
AcceptShape == [name: Names, inline: BOOLEAN, relay: BOOLEAN]

ConfigShape ==
  [agents: Seq(AgentShape), users: Seq(UserShape), channels: Seq(ChannelShape),
   groups: Seq(GroupShape), imports: Seq(ImportShape), accept: Seq(AcceptShape),
   federation: BOOLEAN, federationPort: Nat, serverPort: Nat, topology: SUBSET (Names \X Names),
   commandGrants: SUBSET ((Names \union {Wildcard}) \X (Names \union {Wildcard}) \X (Slashes \union {Wildcard})),
   sessionGrants: SUBSET ((Names \union {Wildcard}) \X (Names \union {Wildcard}) \X (SessionActions \union {Wildcard})),
   categories: SUBSET Names, reactions: SUBSET Maybe(Names)]

VARIABLES
  config,  \* the file's content
  refs,    \* the references in each node
  stack,   \* nodes being resolved, each with the references left in it
  stage    \* reading, circular, dangling, refused, up

cfVars == <<config, refs, stack, stage>>

CfTypeOK ==
  /\ config \in ConfigShape
  /\ refs \in [Nodes -> Seq(Nodes \union {Nowhere})]
  /\ stack \in Seq([node: Nodes, left: Seq(Nodes \union {Nowhere})])
  /\ stage \in {"reading", "circular", "dangling", "refused", "up"}

-----------------------------------------------------------------------------
(* The names of a section, and the topology. *)

Column(s, f) == [i \in DOMAIN s |-> s[i][f]]
Entries(s) == Range(s)
NamesIn(s) == {e.name : e \in Entries(s)}
Agent(c, n) == CHOOSE a \in Entries(c.agents) : a.name = n

Operators(c) == {ch.bindOperator : ch \in Entries(c.channels)} \ {None}
Tags(c) == UNION {e.tags : e \in Entries(c.agents) \union Entries(c.users)}
RelayNames(c) == {a.name : a \in {b \in Entries(c.accept) : b.relay}}
Links(c) == NamesIn(c.imports) \union RelayNames(c)
Federated(c) == c.federation \/ c.imports # <<>>
HasEdge(c, a, b) == a # b /\ (<<a, b>> \in c.topology \/ <<b, a>> \in c.topology)
Exports(c) == SelectSeq(c.agents \o c.users, LAMBDA e : e.exported # None)
ExportName(e) == IF e.exported = Own THEN e.name ELSE e.exported

\* The parent of a declared group that has one.
Parent(c) == {<<g.name, g.parent>> : g \in {h \in Entries(c.groups) : h.parent # None}}
Step(R, S) == {e[2] : e \in {d \in R : d[1] \in S}}
Closure(R, S, n) ==
  LET within[k \in 1..n + 1] == IF k = 1 THEN Step(R, S) ELSE within[k - 1] \union Step(R, within[k - 1])
  IN  within[n + 1]
Above(c, g) == Closure(Parent(c), {g}, Len(c.groups))

-----------------------------------------------------------------------------
(* The rules, one operator each.  Two disjoint sets of names: no common one. *)

Disjoint(S, T) == S \intersect T = {}

UniqueAgents(c) == IsInjective(Column(c.agents, "name"))
UniqueUsers(c) == IsInjective(Column(c.users, "name"))
UniqueGroups(c) == IsInjective(Column(c.groups, "name"))
UniqueChannels(c) == IsInjective(Column(c.channels, "name"))
OneChannelPerOperator(c) ==
  IsInjective(Column(SelectSeq(c.channels, LAMBDA ch : ch.bindOperator # None), "bindOperator"))
AgentsAreNoOperators(c) == Disjoint(NamesIn(c.agents), Operators(c))
QueueKeysOfSessions(c) == IsInjective(Column(c.agents, "tmux"))
QueueKeysUnique(c) ==
  LET keys == {a.tmux : a \in Entries(c.agents)}
  IN  /\ IsInjective(Column(c.agents, "tmux"))
      /\ Disjoint(keys, Operators(c)) /\ Disjoint(keys \union Operators(c), NamesIn(c.users))
KnownTypes(c) == \A a \in Entries(c.agents) : a.type \in Types
GroupHierarchy(c) ==
  /\ \A p \in Parent(c) : p[1] # p[2] /\ p[2] \in NamesIn(c.groups)
  /\ \A g \in NamesIn(c.groups) : g \notin Above(c, g)
AgentGroups(c) == \A a \in Entries(c.agents) : a.group \in Maybe(NamesIn(c.groups))
UserGroups(c) == \A u \in Entries(c.users) : u.group \in Maybe(NamesIn(c.groups))
BroadcastDisjoint(c) ==
  LET people == NamesIn(c.agents) \union Operators(c) \union NamesIn(c.users)
  IN  Disjoint(NamesIn(c.groups), people \union Tags(c)) /\ Disjoint(Tags(c), people)
ReactionCategories(c) == c.reactions \subseteq Maybe(c.categories)

PlainLinks(c) == Disjoint(NamesIn(c.imports) \union NamesIn(c.accept), PathNames)
RelaysAreNoImports(c) ==
  IsInjective(Column(c.imports, "name")) /\ Disjoint(RelayNames(c), NamesIn(c.imports))
NoFqnSeparator(c) ==
  Disjoint(FqnNames,
    NamesIn(c.agents) \union NamesIn(c.users) \union NamesIn(c.groups) \union Operators(c)
      \union NamesIn(c.imports) \union NamesIn(c.accept) \union Tags(c)
      \union {e.exported : e \in Entries(Exports(c))})
LinksDisjoint(c) ==
  Disjoint(Links(c), NamesIn(c.agents) \union Operators(c) \union NamesIn(c.groups)
                       \union Tags(c) \union NamesIn(c.users))
ExportsUnique(c) == IsInjective([i \in DOMAIN Exports(c) |-> ExportName(Exports(c)[i])])
FederationPorts(c) ==
  c.federation =>
    /\ c.federationPort = 0
         \/ c.federationPort \notin {c.serverPort} \union {ch.port : ch \in Entries(c.channels)}
    /\ IsInjective(Column(c.accept, "name"))
FederationQueueKey(c) ==
  Federated(c) =>
    "fed" \notin {a.tmux : a \in Entries(c.agents)} \union NamesIn(c.users) \union Operators(c)

Participants(c) ==
  NamesIn(c.agents) \union Operators(c) \union NamesIn(c.groups) \union Tags(c)
    \union NamesIn(c.users) \union Links(c)
TopologyClosed(c) == \A e \in c.topology : {e[1], e[2]} \subseteq Participants(c)

DefaultTargets(c) ==
  \A ch \in Entries(c.channels) : ch.defaultTarget # None =>
    /\ ch.bindOperator # None /\ ch.defaultTarget \in NamesIn(c.agents)
    /\ HasEdge(c, ch.bindOperator, ch.defaultTarget)
\* A channel speaks for one operator or for its users; a webchat says which.
ChannelModes(c) ==
  \A ch \in Entries(c.channels) :
    IF ch.type = "webchat"
    THEN /\ ch.port # 0 /\ ch.port # c.serverPort /\ ch.defaultTarget = None
         /\ ch.auth = (IF ch.bindOperator = None THEN "users" ELSE "password")
    ELSE ch.bindOperator # None \/ ch.type \in UsersModeTypes
WebchatNames(c) == {ch.name : ch \in {d \in Entries(c.channels) : d.type = "webchat"}}
UserBindings(c) ==
  /\ \A u \in Entries(c.users) : \A b \in u.channels :
       b[1] \in NamesIn(c.channels) /\ (b[1] \in WebchatNames(c) <=> b[2] = None)
  /\ \A i, j \in DOMAIN c.users : i # j =>
       \A b \in c.users[i].channels \intersect c.users[j].channels : b[2] = None
UserAuth(c) ==
  \A u \in Entries(c.users) : (\E b \in u.channels : b[1] \in WebchatNames(c)) => u.auth

CommandsOf(c, n) == Internal \union Catalog[Agent(c, n).type] \union Agent(c, n).commands
\* Both ends exist, and are joined unless the grant is to oneself or for any.
GrantEnds(c, g) ==
  /\ g[1] \in NamesIn(c.agents) \union {Wildcard} /\ g[2] \in NamesIn(c.agents) \union {Wildcard}
  /\ g[1] = Wildcard \/ g[2] = Wildcard \/ g[1] = g[2] \/ HasEdge(c, g[1], g[2])
CommandGrants(c) ==
  \A g \in c.commandGrants :
    GrantEnds(c, g) /\ (g[2] = Wildcard \/ g[3] \in CommandsOf(c, g[2]) \union {Wildcard})
SessionGrants(c) ==
  \A g \in c.sessionGrants :
    GrantEnds(c, g) /\ (g[2] # Wildcard /\ g[3] \in NeedProvision => Agent(c, g[2]).provision)

\* Before the environment is looked at: no secret stands in the file itself.
SecretsByReference(c) ==
  \A e \in Entries(c.channels) \union Entries(c.imports) \union Entries(c.accept) : ~e.inline

NamesSound(c) ==
  /\ UniqueAgents(c) /\ OneChannelPerOperator(c) /\ UniqueUsers(c) /\ UniqueGroups(c)
  /\ UniqueChannels(c) /\ AgentsAreNoOperators(c) /\ QueueKeysUnique(c) /\ BroadcastDisjoint(c)
  /\ NoFqnSeparator(c)
LinksSound(c) ==
  /\ PlainLinks(c) /\ RelaysAreNoImports(c) /\ LinksDisjoint(c) /\ ExportsUnique(c)
  /\ FederationPorts(c) /\ FederationQueueKey(c)
ReferencesSound(c) ==
  /\ KnownTypes(c) /\ ReactionCategories(c) /\ GroupHierarchy(c) /\ AgentGroups(c)
  /\ UserGroups(c) /\ TopologyClosed(c) /\ DefaultTargets(c) /\ ChannelModes(c)
  /\ UserBindings(c) /\ UserAuth(c)
\* The grants are read once the names they hold are known to be unique.
Valid(c) ==
  /\ SecretsByReference(c) /\ NamesSound(c) /\ LinksSound(c) /\ ReferencesSound(c)
  /\ CommandGrants(c) /\ SessionGrants(c)

-----------------------------------------------------------------------------
(* Bootstrap: who serves which directory, and where an address leads. *)

\* One loop per entry: at is its place in its section.
Loop(kind, at, name, dir) == [kind |-> kind, at |-> at, name |-> name, dir |-> dir]
Serving(c) ==
  {Loop("agent", i, c.agents[i].name, <<c.agents[i].tmux>>) : i \in DOMAIN c.agents}
    \union {Loop("operator", i, c.channels[i].bindOperator, <<c.channels[i].bindOperator>>) :
              i \in {k \in DOMAIN c.channels : c.channels[k].bindOperator # None}}
    \union {Loop("user", i, c.users[i].name, <<c.users[i].name>>) : i \in DOMAIN c.users}
ServingLinks(c) ==
  IF Federated(c)
  THEN {Loop("import", i, c.imports[i].name, <<"fed", c.imports[i].name>>) : i \in DOMAIN c.imports}
         \union {Loop(IF c.accept[i].relay THEN "relay" ELSE "leaf", i, c.accept[i].name,
                      <<"fed", c.accept[i].name>>) : i \in DOMAIN c.accept}
  ELSE {}

QueueKeyOf(c, n) ==
  IF n \in NamesIn(c.agents) THEN <<Agent(c, n).tmux>>
  ELSE IF n \in NamesIn(c.users) \union Operators(c) THEN <<n>> ELSE None

\* The members of a group are those of its whole subtree.
MembersOf(c, n) ==
  {e.name : e \in {x \in Entries(c.agents) \union Entries(c.users) :
     \/ n \in x.tags
     \/ x.group = n
     \/ x.group # None /\ n \in Above(c, x.group)}}

\* Router.route, up to its gates.
LeadsTo(c, from, to) ==
  IF Federated(c) /\ to \in FqnNames THEN "abroad"
  ELSE IF to \in NamesIn(c.groups) \union Tags(c) THEN IF HasEdge(c, from, to) THEN "fan-out" ELSE "denied"
  ELSE IF QueueKeyOf(c, to) = None THEN "unknown"
  ELSE IF from = to \/ HasEdge(c, from, to) THEN "delivered" ELSE "denied"

PeerType(c, n) ==
  IF n \in NamesIn(c.groups) \union Tags(c) THEN "broadcast"
  ELSE IF n \in NamesIn(c.users) THEN "user" ELSE "agent"

\* The gate of a link: the actor behind an exported name.  The last entry of a name wins.
ExportedToLocal(c, name) ==
  LET found == SelectSeq(Exports(c), LAMBDA e : ExportName(e) = name)
  IN  IF found = <<>> THEN None ELSE Last(found).name
\* identityOf: the user behind an alias of a channel.
UserOf(c, channel, alias) ==
  LET found == SelectSeq(c.users, LAMBDA u : <<channel, alias>> \in u.channels)
  IN  IF found = <<>> THEN None ELSE Last(found).name

Cells(grants, from, to) == {g[3] : g \in {x \in grants : x[1] \in {from, Wildcard} /\ x[2] \in {to, Wildcard}}}
Permits(grants, from, to, what) == Cells(grants, from, to) \intersect {what, Wildcard} # {}
PermitsSelf(grants, n, what) == {<<n, n, what>>, <<n, n, Wildcard>>} \intersect grants # {}

\* send_command and control_session, and what the port behind them has for the agent.
SendCommand(c, from, to, slash) ==
  LET known == IF from = to THEN slash \in Internal
               ELSE HasEdge(c, from, to) /\ PeerType(c, to) = "agent"
      permitted == IF from = to THEN PermitsSelf(c.commandGrants, to, slash)
                   ELSE Permits(c.commandGrants, from, to, slash)
  IN  IF ~known THEN "unknown peer"
      ELSE IF ~permitted THEN "denied"
      ELSE IF to \in NamesIn(c.agents) /\ slash \in CommandsOf(c, to) THEN "run" ELSE "failed"
Controls(c, n) ==
  IF n \notin NamesIn(c.agents) THEN {}
  ELSE IF Agent(c, n).provision THEN SessionActions ELSE {"stop", "shutdown"}
ControlSession(c, from, to, action) ==
  IF ~HasEdge(c, from, to) \/ PeerType(c, to) # "agent" THEN "unknown peer"
  ELSE IF ~Permits(c.sessionGrants, from, to, action) THEN "denied"
  ELSE IF action \in Controls(c, to) THEN "run" ELSE "failed"
\* list_peers, and the tools that look at one of them or mark its messages.
ListPeers(c, n) ==
  {[name |-> m, type |-> PeerType(c, m)] : m \in {x \in Participants(c) : HasEdge(c, n, x)}}
KindsFor(tool) ==
  CASE tool \in {"get_status", "get_screen", "list_controls"} -> {"agent"}
    [] tool = "react" -> {"agent", "user"}
    [] tool = "get_history" -> {"agent", "user", "broadcast"}
LookAt(c, from, to, tool) ==
  IF ~HasEdge(c, from, to) THEN "unknown peer"
  ELSE IF PeerType(c, to) \notin KindsFor(tool) THEN "wrong kind"
  ELSE IF tool = "get_screen" /\ to \notin NamesIn(c.agents) THEN "down" ELSE "run"

ListControls(c, from, to) ==
  {a \in Controls(c, to) : LookAt(c, from, to, "list_controls") = "run" /\ Permits(c.sessionGrants, from, to, a)}
ListCommands(c, from, to) ==
  IF from = to
  THEN {s \in CommandsOf(c, to) : PermitsSelf(c.commandGrants, from, s)}
  ELSE {s \in CommandsOf(c, to) : Permits(c.commandGrants, from, to, s)}

-----------------------------------------------------------------------------
(* Loading.  A node is resolved depth first; its own references come before *)
(* whatever follows it in its parent.                                       *)

CfStart ==
  /\ \E l \in Loads : config = l[1] /\ refs = l[2]
  /\ stack = <<[node |-> RootFile, left |-> refs[RootFile]]>>
  /\ stage = "reading"

Resolving == {stack[i].node : i \in DOMAIN stack}
NextRef == Head(Last(stack).left)

FollowRef ==
  /\ stage = "reading" /\ stack # <<>> /\ Last(stack).left # <<>>
  /\ IF NextRef \in Resolving
     THEN stage' = "circular" /\ UNCHANGED stack
     ELSE IF NextRef = Nowhere
     THEN stage' = "dangling" /\ UNCHANGED stack
     ELSE /\ stack' = Append([stack EXCEPT ![Len(stack)].left = Tail(@)],
                             [node |-> NextRef, left |-> refs[NextRef]])
          /\ UNCHANGED stage
  /\ UNCHANGED <<config, refs>>

NodeResolved ==
  /\ stage = "reading" /\ stack # <<>> /\ Last(stack).left = <<>>
  /\ stack' = Front(stack)
  /\ UNCHANGED <<config, refs, stage>>

\* validateRules, and the server's start when it returns.
Validate ==
  /\ stage = "reading" /\ stack = <<>>
  /\ stage' = IF Valid(config) THEN "up" ELSE "refused"
  /\ UNCHANGED <<config, refs, stack>>

CfNext == FollowRef \/ NodeResolved \/ Validate

-----------------------------------------------------------------------------
(* Properties. *)

RefEdges == {<<f, g>> \in Nodes \X Nodes : \E i \in DOMAIN refs[f] : refs[f][i] = g}
Reached == {RootFile} \union Closure(RefEdges, {RootFile}, Cardinality(Nodes))
HasCycle == \E f \in Reached : f \in Closure(RefEdges, {f}, Cardinality(Nodes))
Dangles == \E f \in Reached : Nowhere \in Range(refs[f])

\* A user may bear the name of an agent whose session has another: the rule on names
\* compares the two with the operators only, and the rule on keys compares keys.
Hidden(c) == NamesIn(c.agents) \intersect NamesIn(c.users)

\* resolveRefs blames a cycle or a missing node only when there is one, for a fragment that
\* two places share is no cycle, and lets none through.
\* In a configuration that validateRules lets through, an address means one thing to
\* everyone who reads it.  No two loops serve one directory, nor one inside another (but
\* an accept that is no relay may share its name, and so its queue, with an import); what
\* an actor sends to itself, and what goes along an edge, reaches the directory that the
\* recipient's own loop serves (but an agent hides a user of its name); a link is no
\* actor; an exported name and an alias lead back to who bears it; and no group is in its
\* own subtree.
BootIsSound ==
  /\ stage = "circular" => HasCycle
  /\ stage = "dangling" => Dangles
  /\ stage \in {"refused", "up"} => ~HasCycle /\ ~Dangles
  /\ stage = "up" =>
    LET c == config IN
      /\ \A x, y \in Serving(c) \union ServingLinks(c) :
           /\ x.dir = y.dir => x = y \/ {x.kind, y.kind} = {"import", "leaf"}
           /\ ~IsStrictPrefix(x.dir, y.dir)
      /\ \A x \in Serving(c) :
           /\ LeadsTo(c, x.name, x.name) = "delivered"
           /\ QueueKeyOf(c, x.name) = x.dir \/ (x.kind = "user" /\ x.name \in Hidden(c))
      /\ \A e \in c.topology : \A to \in {e[1], e[2]} \ Links(c) :
           \A from \in {e[1], e[2]} \ {to} : LeadsTo(c, from, to) \in {"fan-out", "delivered"}
      /\ \A l \in Links(c) : LeadsTo(c, l, l) = "unknown"
      /\ \A e \in Entries(Exports(c)) : ExportedToLocal(c, ExportName(e)) = e.name
      /\ \A u \in Entries(c.users) : \A b \in u.channels :
           b[2] # None => UserOf(c, b[1], b[2]) = u.name
      /\ \A g \in NamesIn(c.groups) : g \notin Above(c, g)

\* A grant that validation lets through is no dead letter.  Between two agents, what its
\* line names runs when the agent plane is asked for it, and is on the list it shows; to
\* oneself it is on the list, and runs at once if the server carries it out; and what
\* runs has an edge, or a line that names this one agent twice.  What list_peers names
\* can be written to, and looked at as its type says; a link's own name is listed too,
\* as an agent that is down.
GrantsHonoured ==
  stage = "up" =>
    LET c == config
        agents == NamesIn(c.agents) \ Hidden(c)
    IN
      /\ \A g \in c.commandGrants : {g[1], g[2]} \subseteq agents =>
           \A s \in (IF g[3] = Wildcard THEN CommandsOf(c, g[2]) ELSE {g[3]}) :
             /\ s \in ListCommands(c, g[1], g[2])
             /\ g[1] # g[2] \/ s \in Internal => SendCommand(c, g[1], g[2], s) = "run"
      /\ \A g \in c.sessionGrants : {g[1], g[2]} \subseteq agents /\ g[1] # g[2] =>
           \A a \in (IF g[3] = Wildcard THEN Controls(c, g[2]) ELSE {g[3]}) :
             ControlSession(c, g[1], g[2], a) = "run"
      /\ \A from, to \in agents : \A s \in Slashes :
           SendCommand(c, from, to, s) = "run" =>
             HasEdge(c, from, to) \/ (from = to /\ \E g \in c.commandGrants : <<g[1], g[2]>> = <<from, to>>)
      /\ \A from, to \in agents : from # to /\ HasEdge(c, from, to) =>
           /\ ListCommands(c, from, to) = {s \in Slashes : SendCommand(c, from, to, s) = "run"}
           /\ ListControls(c, from, to) = {a \in SessionActions : ControlSession(c, from, to, a) = "run"}
      /\ \A from \in agents : \A p \in {q \in ListPeers(c, from) : q.name \notin Links(c)} :
           /\ LeadsTo(c, from, p.name) = (IF p.type = "broadcast" THEN "fan-out" ELSE "delivered")
           /\ p.name \in agents =>
                \A tool \in {"get_status", "get_screen", "list_controls", "react", "get_history"} :
                  LookAt(c, from, p.name, tool) = "run"
===============================================================================
