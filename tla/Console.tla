-------------------------------- MODULE Console --------------------------------
(***************************************************************************)
(* An agent's terminal in a popup of the panel (attachConsole, the console *)
(* sockets of WebChatConnector, Console.tsx): one socket, from its opening *)
(* to the end of the tmux client behind it.                                *)
(*                                                                         *)
(* The popup opens before the client is attached.  Meanwhile keys wait in  *)
(* the server; output before the screen was captured is in the screen, and *)
(* output behind it waits in a backlog.                                    *)
(*                                                                         *)
(* Left out: the bytes of frames, their escapes and limits, the size of    *)
(* the terminal, the record of typed lines (module ConsoleLine).           *)
(***************************************************************************)
EXTENDS Integers, Sequences, SequencesExt

CONSTANTS
  MaxOutput,  \* bound: pieces of output of the session
  MaxKeys,    \* bound: keys typed
  MaxFaults   \* bound: refused commands, full sockets, broken connections

ASSUME ConsoleAssumption == {MaxOutput, MaxKeys, MaxFaults} \subseteq Nat

VARIABLES
  session,   \* the session: alive or not, and the pieces of output so far
  typed,     \* keys that reached it
  client,    \* the tmux client of this console
  cmds,      \* commands on its input
  stream,    \* what tmux has written on its output
  attach,    \* how far attachConsole and its caller are, and the screen captured
  entry,     \* the socket in the server's #consoles
  attached,  \* the entry has its attachment
  live,      \* output goes to the socket
  backlog,   \* output until then
  waiting,   \* keys until the entry has its attachment
  tabEnd,    \* the popup's end of the socket
  toTab, toServer,  \* frames on it
  popup,     \* the phase the popup shows
  screen,    \* output on its screen, the captured screen first
  sent,      \* history: keys sent
  gaps,      \* history: output that a full socket dropped, keys refused or lost
  faults     \* faults so far

coVars == <<session, typed, client, cmds, stream, attach, entry, attached, live, backlog, waiting,
            tabEnd, toTab, toServer, popup, screen, sent, gaps, faults>>

Outputs == 1..MaxOutput
Keys == 1..MaxKeys
NoGaps == [out |-> {}, keys |-> {}]

CoTypeOK ==
  /\ session.alive \in BOOLEAN /\ session.out \in 0..MaxOutput
  /\ ToSet(typed) \subseteq Keys /\ ToSet(waiting) \subseteq Keys /\ ToSet(toServer) \subseteq Keys
  /\ client \in {"none", "up", "killed", "exited", "settled"}
  /\ \A i \in DOMAIN cmds : cmds[i].do \in {"geometry", "capture", "key"}
  /\ \A i \in DOMAIN stream : stream[i].is \in {"geometry", "capture", "out", "error", "exit"}
  /\ attach.at \in {"none", "pane", "replies", "ready", "failed", "over"}
  /\ attach.geometry \in BOOLEAN /\ attach.screen \in 0..MaxOutput
  /\ entry \in {"none", "open", "closed", "gone"} /\ {attached, live} \subseteq BOOLEAN
  /\ ToSet(backlog) \subseteq Outputs
  /\ tabEnd \in {"none", "open", "closed"}
  /\ \A i \in DOMAIN toTab : toTab[i].t \in {"init", "out", "exit", "error"}
  /\ popup \in {"connecting", "live", "ended", "shut"}
  /\ ToSet(screen) \subseteq 0..MaxOutput
  /\ sent \in 0..MaxKeys /\ faults \in 0..MaxFaults
  /\ gaps.out \subseteq Outputs /\ gaps.keys \subseteq Keys

CoStart ==
  /\ session = [alive |-> TRUE, out |-> 0] /\ typed = <<>>
  /\ client = "none" /\ cmds = <<>> /\ stream = <<>>
  /\ attach = [at |-> "none", geometry |-> FALSE, screen |-> 0]
  /\ entry = "none" /\ attached = FALSE /\ live = FALSE /\ backlog = <<>> /\ waiting = <<>>
  /\ tabEnd = "none" /\ toTab = <<>> /\ toServer = <<>> /\ popup = "connecting" /\ screen = <<>>
  /\ sent = 0 /\ gaps = NoGaps /\ faults = 0

CoFault == faults < MaxFaults /\ faults' = faults + 1

-----------------------------------------------------------------------------
(* The session and tmux, as the code uses them. *)

\* A client gets every piece of output, and answers to its commands in between.
SessionWrites ==
  /\ session.alive /\ session.out < MaxOutput
  /\ session' = [session EXCEPT !.out = @ + 1]
  /\ stream' = IF client = "up" THEN Append(stream, [is |-> "out", n |-> session.out + 1]) ELSE stream
  /\ UNCHANGED <<typed, client, cmds, attach, entry, attached, live, backlog, waiting, tabEnd, toTab,
                 toServer, popup, screen, sent, gaps, faults>>

SessionEnds ==
  /\ session.alive /\ session' = [session EXCEPT !.alive = FALSE]
  /\ stream' = IF client = "up" THEN Append(stream, [is |-> "exit"]) ELSE stream
  /\ UNCHANGED <<typed, client, cmds, attach, entry, attached, live, backlog, waiting, tabEnd, toTab,
                 toServer, popup, screen, sent, gaps, faults>>

\* A command may be refused.  A key is typed into the pane by its id.
TmuxRuns ==
  LET c == Head(cmds)
  IN /\ client = "up" /\ session.alive /\ cmds # <<>> /\ cmds' = Tail(cmds)
     /\ \/ /\ CoFault /\ stream' = Append(stream, [is |-> "error"])
           /\ gaps' = IF c.do = "key" THEN [gaps EXCEPT !.keys = @ \union {c.k}] ELSE gaps
           /\ UNCHANGED typed
        \/ /\ CASE c.do = "key" -> typed' = Append(typed, c.k) /\ UNCHANGED stream
                [] c.do = "geometry" -> stream' = Append(stream, [is |-> "geometry"]) /\ UNCHANGED typed
                [] OTHER -> stream' = Append(stream, [is |-> "capture", n |-> session.out])
                            /\ UNCHANGED typed
           /\ UNCHANGED <<gaps, faults>>
     /\ UNCHANGED <<session, client, attach, entry, attached, live, backlog, waiting, tabEnd, toTab,
                    toServer, popup, screen, sent>>

ClientExits ==
  /\ client = "killed" \/ (client = "up" /\ ~session.alive)
  /\ client' = "exited"
  /\ UNCHANGED <<session, typed, cmds, stream, attach, entry, attached, live, backlog, waiting,
                 tabEnd, toTab, toServer, popup, screen, sent, gaps, faults>>

-----------------------------------------------------------------------------
(* attachConsole. *)

Killed(c) == IF c = "up" THEN "killed" ELSE c
\* What is sent to a socket that its tab has closed is lost.
Sending(frames) == toTab' = IF tabEnd = "open" THEN toTab \o frames ELSE toTab
Frame(type) == [t |-> type, n |-> 0]
OutFrames(chunk) == [i \in DOMAIN chunk |-> [t |-> "out", n |-> chunk[i]]]

\* The pane is asked for before anything is spawned; both commands are written at once.
Spawn ==
  /\ attach.at = "pane"
  /\ IF session.alive
     THEN /\ client' = "up" /\ attach' = [attach EXCEPT !.at = "replies"]
          /\ cmds' = <<[do |-> "geometry"], [do |-> "capture"]>>
     ELSE attach' = [attach EXCEPT !.at = "failed"] /\ UNCHANGED <<client, cmds>>
  /\ UNCHANGED <<session, typed, stream, entry, attached, live, backlog, waiting, tabEnd, toTab,
                 toServer, popup, screen, sent, gaps, faults>>

\* The `ready` of attachConsole: it has been answered, one way or the other.
IsReady(a) == a.at \in {"ready", "failed", "over"}

\* One line of the stream.  Output before the captured screen is in it.
Consume(r, item) ==
  CASE item.is = "geometry" /\ ~IsReady(r.attach) -> [r EXCEPT !.attach.geometry = TRUE]
    [] item.is = "capture" /\ ~IsReady(r.attach) /\ r.attach.geometry ->
         [r EXCEPT !.attach.at = "ready", !.attach.screen = item.n]
    [] item.is = "error" /\ ~IsReady(r.attach) ->
         [r EXCEPT !.attach.at = "failed", !.client = Killed(@)]
    [] item.is = "error" /\ IsReady(r.attach) -> [r EXCEPT !.exits = TRUE]
    [] item.is = "out" /\ IsReady(r.attach) -> [r EXCEPT !.batch = Append(@, item.n)]
    [] item.is = "exit" -> [r EXCEPT !.client = Killed(@)]
    [] OTHER -> r

\* A chunk holds one line or more.  A refused command ends the console at once; the
\* output of the chunk goes out at its end, all of it or, past a full socket, none.
ReadChunk ==
  \E n \in DOMAIN stream :
    LET r == FoldLeft(Consume, [attach |-> attach, client |-> client, batch |-> <<>>, exits |-> FALSE],
                      SubSeq(stream, 1, n))
        ends == r.exits /\ entry = "open"
        heard == entry = "open" /\ ~r.exits /\ r.batch # <<>>
    IN /\ stream' = SubSeq(stream, n + 1, Len(stream))
       /\ attach' = r.attach /\ client' = r.client
       /\ entry' = IF ends THEN "closed" ELSE entry
       /\ \/ ends /\ Sending(<<Frame("exit")>>) /\ UNCHANGED <<backlog, gaps, faults>>
          \/ heard /\ ~live /\ backlog' = backlog \o r.batch /\ UNCHANGED <<toTab, gaps, faults>>
          \/ heard /\ live /\ Sending(OutFrames(r.batch)) /\ UNCHANGED <<backlog, gaps, faults>>
          \/ heard /\ live /\ CoFault /\ gaps' = [gaps EXCEPT !.out = @ \union ToSet(r.batch)]
             /\ UNCHANGED <<toTab, backlog>>
          \/ ~ends /\ ~heard /\ UNCHANGED <<toTab, backlog, gaps, faults>>
       /\ UNCHANGED <<session, typed, cmds, attached, live, waiting, tabEnd, toServer, popup,
                      screen, sent>>

\* The client's end is noticed, whether its output has been read or not.
Settle ==
  /\ client = "exited" /\ client' = "settled"
  /\ IF IsReady(attach)
     THEN /\ UNCHANGED attach
          /\ IF entry = "open" THEN entry' = "closed" /\ Sending(<<Frame("exit")>>)
             ELSE UNCHANGED <<entry, toTab>>
     ELSE attach' = [attach EXCEPT !.at = "failed"] /\ UNCHANGED <<entry, toTab>>
  /\ UNCHANGED <<session, typed, cmds, stream, attached, live, backlog, waiting, tabEnd, toServer,
                 popup, screen, sent, gaps, faults>>

-----------------------------------------------------------------------------
(* The server's end of the socket. *)

\* A write to a client that was closed does nothing.
Typing(keys) ==
  cmds' = IF client = "up" THEN cmds \o [i \in DOMAIN keys |-> [do |-> "key", k |-> keys[i]]] ELSE cmds

OpenConsoleForgets ==
  /\ attach.at = "ready" /\ attach' = [attach EXCEPT !.at = "over"]
  /\ IF entry # "open"
     THEN client' = Killed(client) /\ UNCHANGED <<attached, live, backlog, waiting, toTab, cmds>>
     ELSE /\ attached' = TRUE /\ live' = TRUE /\ backlog' = <<>> /\ waiting' = <<>>
          /\ Sending(<<[t |-> "init", n |-> attach.screen]>>)
          /\ Typing(waiting)
          /\ UNCHANGED client
  /\ UNCHANGED <<session, typed, stream, entry, tabEnd, toServer, popup, screen, sent, gaps, faults>>

\* Behind the await: the socket may have closed, or the session ended.  Else the
\* screen goes out, then the backlog, and the keys that waited are typed.
OpenConsole ==
  /\ attach.at = "ready" /\ attach' = [attach EXCEPT !.at = "over"]
  /\ IF entry # "open"
     THEN client' = Killed(client) /\ UNCHANGED <<attached, live, backlog, waiting, toTab, cmds>>
     ELSE /\ attached' = TRUE /\ live' = TRUE /\ backlog' = <<>> /\ waiting' = <<>>
          /\ Sending(<<[t |-> "init", n |-> attach.screen]>> \o OutFrames(backlog))
          /\ Typing(waiting)
          /\ UNCHANGED client
  /\ UNCHANGED <<session, typed, stream, entry, tabEnd, toServer, popup, screen, sent, gaps, faults>>

FailConsole ==
  /\ attach.at = "failed" /\ attach' = [attach EXCEPT !.at = "over"]
  /\ entry' = IF entry = "open" THEN "closed" ELSE entry
  /\ Sending(<<Frame("error")>>)
  /\ UNCHANGED <<session, typed, client, cmds, stream, attached, live, backlog, waiting, tabEnd,
                 toServer, popup, screen, sent, gaps, faults>>

HearKey ==
  /\ toServer # <<>> /\ toServer' = Tail(toServer)
  /\ IF attached THEN Typing(<<Head(toServer)>>) /\ UNCHANGED waiting
     ELSE waiting' = Append(waiting, Head(toServer)) /\ UNCHANGED cmds
  /\ UNCHANGED <<session, typed, client, stream, attach, entry, attached, live, backlog, tabEnd,
                 toTab, popup, screen, sent, gaps, faults>>

\* The entry goes, and takes the attachment it has with it.
DropEntry ==
  /\ entry' = "gone"
  /\ client' = IF attached THEN Killed(client) ELSE client

SocketClosed ==
  /\ tabEnd = "closed" /\ toServer = <<>> /\ entry \in {"open", "closed"}
  /\ DropEntry
  /\ UNCHANGED <<session, typed, cmds, stream, attach, attached, live, backlog, waiting, tabEnd,
                 toTab, toServer, popup, screen, sent, gaps, faults>>

\* A popup whose socket is lost says so once it was live; before that it goes on
\* connecting.
Lose ==
  /\ tabEnd' = "closed" /\ toServer' = <<>> /\ toTab' = <<>>
  /\ popup' = IF popup = "live" THEN "ended" ELSE popup
  /\ gaps' = [gaps EXCEPT !.keys = @ \union ToSet(toServer)]

StopServer ==
  /\ entry \in {"open", "closed"} /\ CoFault
  /\ DropEntry /\ Lose
  /\ UNCHANGED <<session, typed, cmds, stream, attach, attached, live, backlog, waiting, screen,
                 sent>>

-----------------------------------------------------------------------------
(* The popup. *)

\* The upgrade is refused without a login, a lifecycle or such an agent.
Upgrade ==
  /\ tabEnd = "none"
  /\ \/ /\ tabEnd' = "open" /\ entry' = "open" /\ attach' = [attach EXCEPT !.at = "pane"]
        /\ UNCHANGED popup
     \/ tabEnd' = "closed" /\ popup' = "ended" /\ UNCHANGED <<entry, attach>>
  /\ UNCHANGED <<session, typed, client, cmds, stream, attached, live, backlog, waiting, toTab,
                 toServer, screen, sent, gaps, faults>>

TypeKey ==
  /\ tabEnd = "open" /\ sent < MaxKeys /\ sent' = sent + 1
  /\ toServer' = Append(toServer, sent + 1)
  /\ UNCHANGED <<session, typed, client, cmds, stream, attach, entry, attached, live, backlog, waiting,
                 tabEnd, toTab, popup, screen, gaps, faults>>

\* The popup closes the socket when it is told of an end.
HearFrame ==
  LET f == Head(toTab)
  IN /\ tabEnd = "open" /\ toTab # <<>>
     /\ \/ /\ f.t \in {"init", "out"}
           /\ screen' = Append(screen, f.n) /\ toTab' = Tail(toTab)
           /\ popup' = IF f.t = "init" THEN "live" ELSE popup
           /\ UNCHANGED tabEnd
        \/ /\ f.t \in {"exit", "error"}
           /\ popup' = "ended" /\ tabEnd' = "closed" /\ toTab' = <<>>
           /\ UNCHANGED screen
     /\ UNCHANGED <<session, typed, client, cmds, stream, attach, entry, attached, live, backlog,
                    waiting, toServer, sent, gaps, faults>>

ShutPopup ==
  /\ tabEnd = "open" /\ tabEnd' = "closed" /\ popup' = "shut" /\ toTab' = <<>>
  /\ UNCHANGED <<session, typed, client, cmds, stream, attach, entry, attached, live, backlog, waiting,
                 toServer, screen, sent, gaps, faults>>

ConnectionBreaks ==
  /\ tabEnd = "open" /\ CoFault /\ Lose
  /\ UNCHANGED <<session, typed, client, cmds, stream, attach, entry, attached, live, backlog, waiting,
                 screen, sent>>

CoNext ==
  \/ SessionWrites \/ SessionEnds \/ TmuxRuns \/ ClientExits
  \/ Spawn \/ ReadChunk \/ Settle
  \/ OpenConsole \/ FailConsole \/ HearKey \/ SocketClosed \/ StopServer
  \/ Upgrade \/ TypeKey \/ HearFrame \/ ShutPopup \/ ConnectionBreaks

CoSpec == CoStart /\ [][CoNext]_coVars

-----------------------------------------------------------------------------
(* What the popup promises. *)

\* Behind its first screen a popup shows every piece of output, once and in order, but
\* for those that a full socket dropped.  Keys reach the session once and in order,
\* and all do while the console lives, but for those that tmux refused or a broken
\* socket lost.  No client outlives its socket, even one that closed while the client
\* was being attached (attachConsole, #openConsole).
ConsoleFaithful ==
  /\ screen # <<>> =>
       LET last == screen[Len(screen)]
       IN screen = <<Head(screen)>> \o
            SelectSeq([i \in 1..last - Head(screen) |-> Head(screen) + i], LAMBDA n : n \notin gaps.out)
  /\ LET all == IF typed = <<>> THEN 0 ELSE typed[Len(typed)]
     IN typed = SelectSeq([i \in 1..all |-> i], LAMBDA k : k \notin gaps.keys)
  /\ entry = "open" /\ attached /\ client = "up" /\ toServer = <<>> /\ cmds = <<>> =>
       ToSet(typed) \union gaps.keys = 1..sent
  /\ entry \in {"none", "gone"} /\ attach.at \notin {"pane", "replies", "ready"} => client # "up"
===============================================================================
