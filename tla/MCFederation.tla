----------------------------- MODULE MCFederation -----------------------------
(***************************************************************************)
(* Three servers in a row for TLC: a imports from b, b imports from c.     *)
(***************************************************************************)
EXTENDS Federation

CONSTANTS a, b, c, x, w, y, z, alias, next, talk, far, call, hidden, loop, ghost

MCServers == {a, b, c}
MCActors == {x, w, y, z}
MCHome == [n \in MCActors |-> IF n = x THEN a ELSE IF n = y THEN c ELSE b]
MCImports == {<<a, b>>, <<b, c>>}
MCTransit == {<<b, c>>}
MCPausable == {y, z}
MCEdges == {<<x, b>>}

\* y and z are exported, w is not; nor is x, or under another name.
NotX == [n \in {y, z} |-> n]
AlsoAlias == [n \in {x, y, z} |-> IF n = x THEN alias ELSE n]

\* To the server next door and to the one behind it, to an actor that is not
\* exported, around until the hop cap, and over a link nobody has.
MCMessages == {next, talk, far, call, hidden, loop, ghost}
MCPlan == [m \in MCMessages |->
  [from |-> x, to |-> CASE m \in {next, talk} -> <<z, b>>
                        [] m \in {far, call} -> <<y, c, b>>
                        [] m = hidden -> <<w, b>>
                        [] m = loop -> <<y, b, c, b>>
                        [] m = ghost -> <<y, a, c, b>>]]

\* Two disturbances of one hop, one of a longer way; a call over the long way and its
\* answer are left alone.
MCMaxFaults == [m \in MCMessages |-> CASE m = next -> 2 [] m = call -> 0 [] OTHER -> 1]

MCAnswered == {talk, call}

AllFaults == {"late", "break", "crash", "disk", "gate"}
=============================================================================
