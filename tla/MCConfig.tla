----------------------------- MODULE MCConfig -----------------------------
(***************************************************************************)
(* Configurations for TLC: one that uses every section, and what differs   *)
(* from it in one section, or in two that some rule compares.              *)
(***************************************************************************)
EXTENDS Access

LOCAL INSTANCE SequencesExt

MCNames == {"a", "b", "u", "v", "o", "g", "h", "t", "imp", "acc", "sa", "sb", "fed", "x@y", "p/q",
            "web", "tg", "claude", "webchat", "telegram", "mail", "zz", "like"}
MCCatalog == [t \in {"claude"} |-> {"clear"}]

A(name, tmux) ==
  [name |-> name, tmux |-> tmux, type |-> "claude", provision |-> name = "a", commands |-> {},
   group |-> None, tags |-> {}, exported |-> None]
AgentA == [A("a", "sa") EXCEPT !.group = "h", !.exported = Own, !.commands = {"fix"}]
AgentB == [A("b", "sb") EXCEPT !.tags = {"t"}, !.exported = "zz"]
U(name) ==
  [name |-> name, group |-> None, tags |-> {}, auth |-> TRUE, admin |-> name = "u", channels |-> {<<"web", None>>},
   exported |-> None]
Web ==
  [name |-> "web", type |-> "webchat", bindOperator |-> None, defaultTarget |-> None,
   auth |-> "users", inline |-> FALSE, port |-> 2]
Tg ==
  [name |-> "tg", type |-> "telegram", bindOperator |-> "o", defaultTarget |-> "a",
   auth |-> "none", inline |-> FALSE, port |-> 0]
TgUsers == [Tg EXCEPT !.bindOperator = None, !.defaultTarget = None]
G(name, parent) == [name |-> name, parent |-> parent]
Imp == [name |-> "imp", inline |-> FALSE]
Acc == [name |-> "acc", inline |-> FALSE, relay |-> TRUE]

Base ==
  [agents |-> <<AgentA, AgentB>>, users |-> <<U("u"), U("v")>>, channels |-> <<Web, Tg>>,
   groups |-> <<G("g", None), G("h", "g")>>, imports |-> <<Imp>>, accept |-> <<Acc>>,
   federation |-> TRUE, federationPort |-> 3, serverPort |-> 1,
   topology |-> {<<"a", "b">>, <<"o", "a">>, <<"u", "a">>, <<"u", "g">>, <<"b", "t">>, <<"a", "imp">>,
                 <<"acc", "b">>},
   commandGrants |-> {<<"a", "b", "clear">>, <<"b", "a", "fix">>, <<"a", "a", "pause">>, <<"*", "b", "pause">>},
   sessionGrants |-> {<<"b", "a", "restart">>, <<"a", "b", "stop">>, <<"a", "a", "reload">>},
   categories |-> {"like"}, reactions |-> {None, "like"}]

\* What one section may be instead.  A name taken from another section, a reference to
\* nothing, a value another section uses.
Borrowed == {"a", "b", "u", "o", "g", "t", "imp", "acc", "sa", "sb", "fed", "x@y", "zz"}
AgentsAlt ==
  {<<AgentA, [AgentB EXCEPT !.name = n]>> : n \in Borrowed}
    \union {<<AgentA, [AgentB EXCEPT !.tmux = n]>> : n \in Borrowed}
    \union {<<AgentA, [AgentB EXCEPT !.tags = {n}]>> : n \in Borrowed}
    \union {<<AgentA, [AgentB EXCEPT !.exported = n]>> : n \in {"a", "u", "x@y"}}
    \union {<<AgentA, [AgentB EXCEPT !.group = n]>> : n \in {"g", "t", "zz"}}
    \union {<<AgentA, [AgentB EXCEPT !.type = "mail"]>>, <<AgentB>>}
BoundUsers ==
  {<<[U("u") EXCEPT !.channels = x], [U("v") EXCEPT !.channels = y]>> :
     x, y \in {{}, {<<"tg", "al">>}, {<<"web", "al">>}, {<<"tg", None>>}, {<<"zz", None>>}}}
UsersAlt ==
  {<<U("u"), [U("v") EXCEPT !.name = n]>> : n \in Borrowed} \union BoundUsers \union {<<U("u"), [U("v") EXCEPT !.auth = FALSE]>>, <<U("u"), [U("v") EXCEPT !.group = "zz"]>>,
            <<U("u"), [U("v") EXCEPT !.exported = "zz"]>>, <<U("u"), [U("v") EXCEPT !.tags = {"g"}]>>, <<>>}
OtherModes ==
  {<<Web, TgUsers>>, <<Web, [Tg EXCEPT !.defaultTarget = "b"]>>, <<Web, [Tg EXCEPT !.name = "web"]>>,
   <<Web, [TgUsers EXCEPT !.type = "mail"]>>, <<Web, [Tg EXCEPT !.inline = TRUE]>>,
   <<[Web EXCEPT !.port = 1]>>, <<[Web EXCEPT !.port = 3]>>, <<[Web EXCEPT !.auth = "password"]>>,
   <<[Web EXCEPT !.auth = "password", !.bindOperator = "o"]>>, <<Web, [Tg EXCEPT !.type = "webchat"]>>}
ChannelsAlt == {<<Web, [Tg EXCEPT !.bindOperator = n]>> : n \in Borrowed} \union OtherModes
GroupsAlt ==
  {<<G("g", None), G(n, "g")>> : n \in Borrowed} \union
    {<<G("g", x), G("h", y)>> : x, y \in {None, "g", "h", "zz"}}
ImportsAlt == {<<[Imp EXCEPT !.name = n]>> : n \in Borrowed \union {"p/q"}} \union {<<[Imp EXCEPT !.inline = TRUE]>>, <<>>, <<Imp, Imp>>}
AcceptAlt ==
  {<<[Acc EXCEPT !.name = n, !.relay = r]>> : n \in {"imp", "a", "x@y", "p/q", "acc"}, r \in BOOLEAN}
    \union {<<[Acc EXCEPT !.inline = TRUE]>>, <<>>, <<Acc, Acc>>}
TopologyAlt == {Base.topology \ {e} : e \in Base.topology} \union {Base.topology \union {<<"a", "zz">>}}
GrantAlt ==
  {Base.commandGrants \union {<<f, t, s>>} :
     f \in {"a", "b", "u", "*"}, t \in {"a", "b", "u", "*"}, s \in {"clear", "fix", "*"}}
SessionAlt ==
  {Base.sessionGrants \union {<<f, t, s>>} :
     f \in {"a", "b", "u", "*"}, t \in {"a", "b", "*"}, s \in {"start", "stop", "*"}}

Alternatives ==
  [agents |-> AgentsAlt, users |-> UsersAlt, channels |-> ChannelsAlt, groups |-> GroupsAlt,
   imports |-> ImportsAlt, accept |-> AcceptAlt, topology |-> TopologyAlt, commandGrants |-> GrantAlt,
   sessionGrants |-> SessionAlt, federation |-> {FALSE}, federationPort |-> {0, 1, 2},
   categories |-> {{}}]

\* An edit is a sequence of sections and what stands in them instead.
Edited(e) == FoldLeft(LAMBDA c, p : [c EXCEPT ![p[1]] = p[2]], Base, e)
Differing(s, X, t, Y) == {<<<<s, x>>, <<t, y>>>> : x \in X, y \in Y}
Edits ==
  UNION {{<<<<s, x>>>> : x \in Alternatives[s]} : s \in DOMAIN Alternatives}
    \union Differing("users", BoundUsers, "channels", OtherModes)
    \union Differing("imports", ImportsAlt, "accept", AcceptAlt)
    \union Differing("topology", TopologyAlt, "commandGrants", GrantAlt)
    \union Differing("topology", TopologyAlt, "sessionGrants", SessionAlt)

\* Who looks at the panel, and whom it shows.
SeenEdges == {<<"u", "v">>, <<"v", "b">>, <<"v", "t">>, <<"o", "v">>, <<"u", "o">>, <<"u", "acc">>, <<"v", "g">>}
Viewed ==
  {<<<<"channels", p>>, <<"topology", Base.topology \union e>>, <<"imports", i>>, <<"users", us>>>> :
     p \in {<<Web, Tg>>, <<[Web EXCEPT !.auth = "password", !.bindOperator = "o"]>>, <<TgUsers>>},
     e \in {x \in SUBSET SeenEdges : Cardinality(x) \in {0, 2}},
     i \in {<<Imp>>, <<Imp, [Imp EXCEPT !.name = "sb"]>>},
     us \in {<<U("u"), [U("v") EXCEPT !.group = "h", !.tags = {"t"}]>>,
             <<[U("u") EXCEPT !.tags = {"zz"}], [U("v") EXCEPT !.channels = {}]>>}}

\* Nothing refers to a name here, so that only the rules on names can refuse one.
Strip ==
  <<<<"topology", {}>>, <<"commandGrants", {}>>, <<"sessionGrants", {}>>,
    <<"agents", <<[AgentA EXCEPT !.group = None], AgentB>>>>,
    <<"channels", <<Web, [Tg EXCEPT !.defaultTarget = None], [TgUsers EXCEPT !.name = "mail"]>>>>>>
Bare == Edited(Strip)
Named(s) ==
  {<<s, [Bare[s] EXCEPT ![i].name = n]>> : n \in Borrowed, i \in {1, Len(Bare[s])}}
BareEdits ==
  {Strip \o <<p>> : p \in
     UNION {Named(s) : s \in {"agents", "users", "channels", "groups", "imports", "accept"}}
       \union {<<"users", [Bare.users EXCEPT ![i].exported = n]>> : i \in {1, 2}, n \in {Own, "a", "zz"}}
       \union {<<"channels", [Bare.channels EXCEPT ![3].bindOperator = n]>> : n \in {"o", "a", "g"}}
       \union {<<"users", us>> : us \in BoundUsers}
       \union {<<"users", [Bare.users EXCEPT ![1].channels = {<<"mail", "al">>}, ![2].channels = {<<ch, "al">>}]>> :
                  ch \in {"mail", "tg", "web"}}}

MCRefs == {"root", "f", "g"}
MCGraphs ==
  LET lists(k) == UNION {[1..n -> MCRefs \union {Nowhere}] : n \in 0..k}
  IN  {[root |-> x, f |-> y, g |-> z] : x \in lists(2), y, z \in lists(1)}

\* Every shape of references with the one configuration; every configuration in one file.
MCLoads ==
  {<<Edited(l[1]), l[2]>> : l \in
     ({<<>>} \X MCGraphs) \union ((Edits \union Viewed \union BareEdits) \X {[f \in MCRefs |-> <<>>]})}

\* Nothing is loaded.
CfQuiet ==
  /\ config = [Bare EXCEPT !.agents = <<>>, !.users = <<>>, !.channels = <<>>, !.groups = <<>>,
                           !.imports = <<>>, !.accept = <<>>]
  /\ refs = [f \in MCRefs |-> <<>>] /\ stack = <<>> /\ stage = "refused"
===============================================================================
