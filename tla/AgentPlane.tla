------------------------------ MODULE AgentPlane ------------------------------
(***************************************************************************)
(* How a session of an agent reaches the server: the shims that proxy its  *)
(* tool calls (mcp/shim.ts), the server's sessions and the one name they   *)
(* all declare (mcp/transport.ts, mcp/identity.ts).                        *)
(*                                                                         *)
(* Left out: what the tools do (Config has who may use them), the shim's   *)
(* backoff, names that the configuration does not know.                    *)
(***************************************************************************)
EXTENDS Integers, FiniteSets

CONSTANTS
  Shims,        \* processes that declare the name of one agent
  Calls,        \* the tool calls of their agents
  Probes,       \* the supervisors' own calls
  ShimOf,       \* [Calls \union Probes -> Shims]
  MaxSessions,  \* bound: sessions that the server opens
  MaxSetbacks   \* bound: crashes, ends of agents, lost and failed requests

ASSUME AgentPlaneAssumption ==
  /\ ShimOf \in [Calls \union Probes -> Shims] /\ Calls \intersect Probes = {}
  /\ MaxSessions \in Nat /\ MaxSetbacks \in Nat

VARIABLES
  serving,     \* the server runs
  drawn,       \* sessions opened so far
  nameHeld,    \* #sessionByName of the name: a session, Reserved or NoSession
  named,       \* the sessions in #nameBySession
  transports,  \* the sessions that answer
  handshake,   \* [Shims -> the server's part of an initialize]
  present,     \* shims whose agent is there
  session,     \* [Shims -> #client: its session, or NoSession]
  dialing,     \* shims whose #connecting is pending
  request,     \* what became of each call
  runs,        \* [Calls -> how often the server ran it]
  setbacks     \* disturbances so far

apVars == <<serving, drawn, nameHeld, named, transports, handshake, present, session, dialing,
            request, runs, setbacks>>

NoSession == 0
Reserved == -1
All == Calls \union Probes
CallsOf(s) == {c \in All : ShimOf[c] = s}
NoRequest == [at |-> "idle", on |-> NoSession, tries |-> 0]

ApTypeOK ==
  /\ serving \in BOOLEAN /\ drawn \in 0..MaxSessions /\ nameHeld \in Reserved..MaxSessions
  /\ named \union transports \subseteq 1..drawn
  /\ handshake \in [Shims -> {"none", "asked", "reserved", "done"}]
  /\ present \subseteq Shims /\ dialing \subseteq Shims
  /\ session \in [Shims -> 0..MaxSessions]
  /\ request \in [All -> [at : {"idle", "ensure", "dial", "sent", "ran", "dead", "ended"},
                          on : 0..MaxSessions, tries : 0..2]]
  /\ runs \in [Calls -> 0..2]
  /\ setbacks \in 0..MaxSetbacks

ApStart ==
  /\ serving = TRUE /\ drawn = 0 /\ nameHeld = NoSession /\ named = {} /\ transports = {}
  /\ handshake = [s \in Shims |-> "none"] /\ present = {} /\ session = [s \in Shims |-> NoSession]
  /\ dialing = {} /\ request = [c \in All |-> NoRequest]
  /\ runs = [c \in Calls |-> 0] /\ setbacks = 0

Setback == setbacks < MaxSetbacks /\ setbacks' = setbacks + 1

-----------------------------------------------------------------------------
(* The shim. *)

\* A call of the agent, or the supervisor's next probe of the loop.
AskOnce(c) ==
  /\ ShimOf[c] \in present /\ request[c] = NoRequest
  /\ c \in Probes => session[ShimOf[c]] = NoSession
  /\ request' = [request EXCEPT ![c].at = "ensure"]
  /\ UNCHANGED <<serving, drawn, nameHeld, named, transports, handshake, present, session, dialing,
                 runs, setbacks>>

Call(c) ==
  /\ ShimOf[c] \in present /\ request[c] = NoRequest
  /\ request' = [request EXCEPT ![c].at = "ensure"]
  /\ UNCHANGED <<serving, drawn, nameHeld, named, transports, handshake, present, session, dialing,
                 runs, setbacks>>

Ended(c) == IF c \in Probes THEN NoRequest ELSE [request[c] EXCEPT !.at = "ended"]

\* #ensure: the client at hand, or the one connection that all of them wait for.
Ensure(c) ==
  LET s == ShimOf[c]
  IN /\ request[c].at = "ensure"
     /\ IF session[s] # NoSession
        THEN /\ request' = [request EXCEPT ![c].at = "sent", ![c].on = session[s]]
             /\ UNCHANGED <<dialing, handshake>>
        ELSE /\ s \notin dialing => handshake[s] = "none"
             /\ request' = [request EXCEPT ![c].at = "dial"]
             /\ dialing' = dialing \union {s}
             /\ handshake' = IF s \in dialing THEN handshake ELSE [handshake EXCEPT ![s] = "asked"]
     /\ UNCHANGED <<serving, drawn, nameHeld, named, transports, present, session, runs, setbacks>>

\* Whoever waited goes on with the new client ...
Dialed(s) ==
  /\ s \in dialing /\ handshake[s] = "done"
  /\ dialing' = dialing \ {s} /\ handshake' = [handshake EXCEPT ![s] = "none"]
  /\ session' = [session EXCEPT ![s] = drawn]
  /\ request' = [c \in All |-> IF c \in CallsOf(s) /\ request[c].at = "dial"
                               THEN [request[c] EXCEPT !.at = "sent", !.on = drawn] ELSE request[c]]
  /\ UNCHANGED <<serving, drawn, nameHeld, named, transports, present, runs, setbacks>>

\* ... or is told that the server cannot be reached.
DialFails(s) ==
  /\ s \in dialing /\ handshake[s] = "none"
  /\ dialing' = dialing \ {s}
  /\ request' = [c \in All |-> IF c \in CallsOf(s) /\ request[c].at = "dial" THEN Ended(c) ELSE request[c]]
  /\ UNCHANGED <<serving, drawn, nameHeld, named, transports, handshake, present, session, runs, setbacks>>

Answered(c) ==
  /\ request[c].at = "ran"
  /\ request' = [request EXCEPT ![c] = Ended(c)]
  /\ UNCHANGED <<serving, drawn, nameHeld, named, transports, handshake, present, session, dialing,
                 runs, setbacks>>

\* run: a failed call drops the client, and with it whatever else was sent on it, and
\* is made once more; a second failure is told.
Retry(c) ==
  LET s == ShimOf[c] old == request[c].on
  IN /\ request[c].at = "dead"
     /\ IF request[c].tries = 0
        THEN /\ session' = IF session[s] = old THEN [session EXCEPT ![s] = NoSession] ELSE session
             /\ request' = [d \in All |->
                  IF d = c THEN [at |-> "ensure", on |-> NoSession, tries |-> 1]
                  ELSE IF d \in CallsOf(s) /\ request[d].on = old /\ request[d].at \in {"sent", "ran"}
                  THEN [request[d] EXCEPT !.at = "dead"] ELSE request[d]]
        ELSE request' = [request EXCEPT ![c] = Ended(c)] /\ UNCHANGED session
     /\ UNCHANGED <<serving, drawn, nameHeld, named, transports, handshake, present, dialing, runs, setbacks>>

-----------------------------------------------------------------------------
(* The server. *)

\* reserve: the name is claimed, and whoever held it is evicted.
Reserve(s) ==
  /\ serving /\ handshake[s] = "asked"
  /\ handshake' = [handshake EXCEPT ![s] = "reserved"]
  /\ nameHeld' = Reserved
  /\ named' = named \ {nameHeld} /\ transports' = transports \ {nameHeld}
  /\ UNCHANGED <<serving, drawn, present, session, dialing, request, runs, setbacks>>

\* onsessioninitialized; or the session does not come up, and the name is released.
Bind(s) ==
  /\ serving /\ handshake[s] = "reserved"
  /\ \/ /\ drawn < MaxSessions /\ drawn' = drawn + 1
        /\ \A other \in Shims : handshake[other] # "done"  \* bound: one answer under way
        /\ nameHeld' = drawn + 1
        /\ named' = named \union {drawn + 1} /\ transports' = transports \union {drawn + 1}
        /\ handshake' = [handshake EXCEPT ![s] = IF s \in dialing THEN "done" ELSE "none"]
        /\ UNCHANGED setbacks
     \/ /\ Setback
        /\ nameHeld' = IF nameHeld = Reserved THEN NoSession ELSE nameHeld
        /\ handshake' = [handshake EXCEPT ![s] = "none"]
        /\ UNCHANGED <<drawn, named, transports>>
  /\ UNCHANGED <<serving, present, session, dialing, request, runs>>

\* A session that is not known is answered with 404; a tool may throw after it acted.
Serve(c) ==
  /\ request[c].at = "sent"
  /\ \/ /\ serving /\ request[c].on \in transports
        /\ runs' = IF c \in Calls THEN [runs EXCEPT ![c] = @ + 1] ELSE runs
        /\ \/ request' = [request EXCEPT ![c].at = "ran"] /\ UNCHANGED setbacks
           \/ request' = [request EXCEPT ![c].at = "dead"] /\ Setback
     \/ /\ ~serving \/ request[c].on \notin transports
        /\ request' = [request EXCEPT ![c].at = "dead"] /\ UNCHANGED <<runs, setbacks>>
  /\ UNCHANGED <<serving, drawn, nameHeld, named, transports, handshake, present, session, dialing>>

\* The answer is lost, or comes after the client has given up.
AnswerLost(c) ==
  /\ Setback /\ request[c].at \in {"sent", "ran"}
  /\ request' = [request EXCEPT ![c].at = "dead"]
  /\ UNCHANGED <<serving, drawn, nameHeld, named, transports, handshake, present, session, dialing, runs>>

\* onsessionclosed: a client that says goodbye (the shim never does).
SessionCloses(id) ==
  /\ Setback /\ id \in transports
  /\ nameHeld' = IF nameHeld = id THEN NoSession ELSE nameHeld
  /\ named' = named \ {id} /\ transports' = transports \ {id}
  /\ UNCHANGED <<serving, drawn, handshake, present, session, dialing, request, runs>>

ServerStops ==
  /\ Setback /\ serving /\ serving' = FALSE
  /\ nameHeld' = NoSession /\ named' = {} /\ transports' = {}
  /\ handshake' = [s \in Shims |-> "none"]
  /\ request' = [c \in All |-> IF request[c].at \in {"sent", "ran"}
                               THEN [request[c] EXCEPT !.at = "dead"] ELSE request[c]]
  /\ UNCHANGED <<drawn, present, session, dialing, runs>>

ServerStarts ==
  /\ ~serving /\ serving' = TRUE
  /\ UNCHANGED <<drawn, nameHeld, named, transports, handshake, present, session, dialing, request,
                 runs, setbacks>>

\* While the server is down a connection is refused.
Refuse(s) ==
  /\ ~serving /\ handshake[s] = "asked"
  /\ handshake' = [handshake EXCEPT ![s] = "none"]
  /\ UNCHANGED <<serving, drawn, nameHeld, named, transports, present, session, dialing, request, runs, setbacks>>

\* An agent starts its shim; the shim goes with the agent, without a word to the server.
AgentStarts(s) ==
  /\ s \notin present /\ handshake[s] = "none" /\ present' = present \union {s}
  /\ \A c \in CallsOf(s) : request[c] = NoRequest
  /\ UNCHANGED <<serving, drawn, nameHeld, named, transports, handshake, session, dialing, request,
                 runs, setbacks>>

AgentGoes(s) ==
  /\ Setback /\ s \in present /\ present' = present \ {s}
  /\ session' = [session EXCEPT ![s] = NoSession] /\ dialing' = dialing \ {s}
  /\ handshake' = [handshake EXCEPT ![s] = IF @ = "done" THEN "none" ELSE @]
  /\ request' = [c \in All |-> IF c \notin CallsOf(s) THEN request[c]
                               ELSE IF c \in Calls /\ request[c] # NoRequest
                               THEN [request[c] EXCEPT !.at = "ended"] ELSE NoRequest]
  /\ UNCHANGED <<serving, drawn, nameHeld, named, transports, runs>>

-----------------------------------------------------------------------------

ShimNext ==
  \/ \E c \in All : Ensure(c) \/ Answered(c) \/ Retry(c)
  \/ \E s \in Shims : Dialed(s) \/ DialFails(s)
ServerNext ==
  \/ \E s \in Shims : Reserve(s) \/ Bind(s) \/ Refuse(s)
  \/ \E c \in All : Serve(c)
  \/ ServerStarts
Supervise == \E c \in Probes : Call(c)

ApNext ==
  \/ ShimNext \/ ServerNext \/ Supervise
  \/ \E c \in Calls : Call(c)
  \/ \E c \in All : AnswerLost(c)
  \/ \E s \in Shims : AgentStarts(s) \/ AgentGoes(s)
  \/ ServerStops
  \/ \E id \in 1..MaxSessions : SessionCloses(id)

\* Promises resolve; the loop of supervise never stops while its agent is there.
ApFair == WF_apVars(ShimNext) /\ WF_apVars(ServerNext) /\ WF_apVars(Supervise)

ApSpec == ApStart /\ [][ApNext]_apVars /\ ApFair

-----------------------------------------------------------------------------

\* The registry's two maps and the transports tell one story: a session answers under
\* the name as long as nobody took the name from it, and an evicted one answers nobody,
\* however a goodbye, a failed initialize and a takeover fall together (identity.ts,
\* transport.ts).
RegistrySound ==
  /\ named = transports
  /\ nameHeld > NoSession => nameHeld \in named

\* A call is run a second time only if something failed or the name changed hands: the
\* concurrent calls of a shim share one connection and never make each other's fail.
CallsBounded == \A c \in Calls : runs[c] > 1 => setbacks > 0 \/ drawn > 1

\* With one agent left and nothing failing any more, its shim comes to hold a session
\* that answers and the server to take the name for live, without any call being made
\* (supervise: a session the server no longer knows is found by the probe).
Severed == \E s \in Shims : present = {s} /\ session[s] \notin transports
Restored ==
  <>[](serving /\ Cardinality(present) = 1 /\ drawn < MaxSessions) =>
    <>[](nameHeld > NoSession /\ ~Severed)

PlaneServes == [][(ApTypeOK /\ RegistrySound /\ CallsBounded)']_apVars /\ Restored

\* Contradicted by the code: "two concurrent initializes for the same name cannot both
\* win in the single-threaded event loop" (identity.ts:24-26).
OneSessionPerName == Cardinality(named) <= 1
===============================================================================
