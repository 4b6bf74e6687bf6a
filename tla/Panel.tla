--------------------------------- MODULE Panel ---------------------------------
(***************************************************************************)
(* What one tab of the panel shows of one chat (the reducer of store.ts    *)
(* and the effects of App.tsx), against the log that the server keeps.     *)
(*                                                                         *)
(* Three ways lead from the log to the screen, and none waits for another: *)
(* pages that the tab asks for over HTTP, events on the tab's WebSocket,   *)
(* and the answer to a send.  The tab folds them into one thread per view: *)
(* the chat, each of its topics, and the self chat, which shows it all.    *)
(* Threads do not look at each other: a behaviour follows one of them.     *)
(*                                                                         *)
(* Left out: what a message says, the order within a thread, badges, the   *)
(* topic tree and its resolution, other tabs of the same person.           *)
(***************************************************************************)
EXTENDS Integers, Sequences, SequencesExt, FiniteSets

CONSTANTS
  Mine, Theirs,  \* what the person sends, what the agent says
  Threads,       \* topics of the chat
  ThreadOf,      \* [Mine \union Theirs -> Threads]
  Past,          \* the log when the tab opens
  PageSize,      \* records on a page
  Requests,      \* bound: requests for a page under way at a time
  MaxWipes,      \* bound: removals
  MaxBreaks      \* bound: broken connections, failed appends

ASSUME PanelAssumption ==
  /\ Mine \cap Theirs = {} /\ "start" \notin Mine \union Theirs
  /\ {"chat", "self", "none", "all"} \cap Threads = {}
  /\ ThreadOf \in [Mine \union Theirs -> Threads]
  /\ Past \in Seq(Mine \union Theirs) /\ \A i, j \in DOMAIN Past : Past[i] = Past[j] => i = j
  /\ PageSize \in Nat \ {0} /\ {MaxWipes, MaxBreaks} \subseteq Nat

Texts == Mine \union Theirs
Views == {"chat", "self"} \union Threads
Start == "start"

VARIABLES
  view,     \* the view that is followed
  records,  \* the log of the chat
  wiping,   \* a removal that its tabs do not know of yet
  post,     \* how far a send or a delivery is
  socket,   \* whether the tab's WebSocket is open
  wire,     \* events on it
  thread,   \* what the view shows: records, loaded or not, the older cursor
  pages,    \* the view's requests for a page: the cursor, then the answer
  doubt,    \* history: records that the view may have wrong
  wipes,    \* removals so far
  breaks    \* disturbances so far

paVars == <<view, records, wiping, post, socket, wire, thread, pages, doubt, wipes, breaks>>

NoPage == [at |-> "none", before |-> Start, recs |-> <<>>, next |-> Start, known |-> TRUE]
NoWipe == [what |-> "none", ids |-> {}]
Absent == [recs |-> <<>>, loaded |-> FALSE, before |-> Start, there |-> FALSE]
Cursors == Texts \union {Start}

PaTypeOK ==
  /\ view \in Views /\ ToSet(records) \subseteq Texts
  /\ wiping.what \in {"none", "all"} \union Threads /\ wiping.ids \subseteq Texts
  /\ post \in [Texts -> {"new", "appended", "told", "done"}]
  /\ socket \in BOOLEAN
  /\ \A i \in DOMAIN wire :
       \/ wire[i].type = "message" /\ wire[i].m \in Texts
       \/ wire[i].type = "history-cleared" /\ wire[i].ids \subseteq Texts /\ wire[i].all \in BOOLEAN
  /\ ToSet(thread.recs) \subseteq Texts /\ thread.before \in Cursors
  /\ {thread.loaded, thread.there} \subseteq BOOLEAN
  /\ \A r \in Requests :
       /\ pages[r].at \in {"none", "asked", "answered"} /\ {pages[r].before, pages[r].next} \subseteq Cursors
       /\ ToSet(pages[r].recs) \subseteq Texts /\ pages[r].known \in BOOLEAN
  /\ doubt \subseteq Texts
  /\ wipes \in 0..MaxWipes /\ breaks \in 0..MaxBreaks

PaStart ==
  /\ view \in Views
  /\ records = Past /\ wiping = NoWipe
  /\ post = [m \in Texts |-> IF m \in ToSet(Past) THEN "done" ELSE "new"]
  /\ socket = TRUE /\ wire = <<>> /\ thread = Absent /\ pages = [r \in Requests |-> NoPage]
  /\ doubt = {} /\ wipes = 0 /\ breaks = 0

PaBreak == breaks < MaxBreaks /\ breaks' = breaks + 1

\* The records of a log that are in a set.
Keep(recs, set) ==
  LET kept[i \in 0..Len(recs)] ==
        IF i = 0 THEN <<>>
        ELSE IF recs[i] \in set THEN Append(kept[i - 1], recs[i]) ELSE kept[i - 1]
  IN kept[Len(recs)]

Logged == ToSet(records)
Shown == ToSet(thread.recs)
Told == {i \in DOMAIN wire : wire[i].type = "message"}
\* Of these records an event or an answer is still on its way.
Coming == {wire[i].m : i \in Told} \union {m \in Texts : post[m] \in {"appended", "told"}}
Viewed == IF view \in Threads THEN {m \in Texts : ThreadOf[m] = view} ELSE Texts
\* What a removal that is still on its way will take off the screen.
Leaving == wiping.ids \union UNION {wire[i].ids : i \in DOMAIN wire \ Told}
\* Of records that the tab learns of now, those that are gone and nothing will say so.
Ghosts(set) == (set \ Logged) \ Leaving

-----------------------------------------------------------------------------
(* The server: sends, deliveries, removals, pages. *)

\* Events go to the open socket, and nowhere else.
Push(e, about) ==
  IF socket THEN wire' = Append(wire, e) /\ UNCHANGED doubt
  ELSE UNCHANGED wire /\ doubt' = doubt \union about

\* The router has taken a message.  An append that fails stops neither a send nor its
\* echo.
RecordSent(m) ==
  /\ post[m] = "new" /\ m \in Mine
  /\ post' = [post EXCEPT ![m] = "appended"]
  /\ \/ records' = Append(records, m) /\ UNCHANGED <<doubt, breaks>>
     \/ PaBreak /\ doubt' = doubt \union {m} /\ UNCHANGED records
  /\ UNCHANGED <<view, wiping, socket, wire, thread, pages, wipes>>

\* Behind the write of the topic's count the send is echoed and answered, also when
\* the record has been removed meanwhile.
TellSent(m) ==
  /\ post[m] = "appended"
  /\ post' = [post EXCEPT ![m] = "told"]
  /\ Push([type |-> "message", m |-> m], {m})
  /\ UNCHANGED <<view, records, wiping, socket, thread, pages, wipes, breaks>>

\* The agent's message is recorded and told at once.
DeliverTheirs(m) ==
  /\ post[m] = "new" /\ m \in Theirs
  /\ post' = [post EXCEPT ![m] = "done"]
  /\ records' = Append(records, m)
  /\ Push([type |-> "message", m |-> m], {m})
  /\ UNCHANGED <<view, wiping, socket, thread, pages, wipes, breaks>>

\* The chat is cleared, or a topic with its messages; the marks go next, and only
\* then are the tabs told.
Wipe ==
  /\ wiping = NoWipe /\ wipes < MaxWipes /\ wipes' = wipes + 1
  /\ \E w \in {"all"} \union Threads :
       LET ids == {m \in Logged : w \in {"all", ThreadOf[m]}}
       IN /\ wiping' = [what |-> w, ids |-> ids]
          /\ records' = Keep(records, Texts \ ids)
  /\ UNCHANGED <<view, post, socket, wire, thread, pages, doubt, breaks>>

TellWipe ==
  /\ wiping # NoWipe
  /\ Push([type |-> "history-cleared", ids |-> wiping.ids, all |-> wiping.what = "all"], wiping.ids)
  /\ wiping' = NoWipe
  /\ UNCHANGED <<view, records, post, socket, thread, pages, wipes, breaks>>

\* sliceBackwards: the records before the cursor, or before the end.  A cursor that
\* has left the log is no error: the page is empty, and the last one.
Slice(recs, before) ==
  LET places == {i \in DOMAIN recs : recs[i] = before}
      end == IF before = Start THEN Len(recs)
             ELSE IF places = {} THEN 0 ELSE (CHOOSE i \in places : TRUE) - 1
      start == IF end > PageSize THEN end - PageSize ELSE 0
  IN [recs |-> SubSeq(recs, start + 1, end), next |-> IF start > 0 THEN recs[start + 1] ELSE Start]

AnswerPage(r) ==
  LET before == pages[r].before
      s == Slice(Keep(records, Viewed), before)
  IN /\ pages[r].at = "asked"
     /\ pages' = [pages EXCEPT ![r] = [at |-> "answered", before |-> before, recs |-> s.recs, next |-> s.next,
                                       known |-> before \in Logged \union {Start}]]
     /\ UNCHANGED <<view, records, wiping, post, socket, wire, thread, doubt, wipes, breaks>>

-----------------------------------------------------------------------------
(* The tab. *)

\* A view is loaded when it opens, and again while it is not; an older page is asked for
\* by every move at the top of it, whether or not one is under way.
AskPage(r) ==
  /\ pages[r].at = "none"
  /\ ~thread.loaded \/ thread.before # Start
  /\ pages' = [pages EXCEPT ![r] = [NoPage EXCEPT !.at = "asked", !.before = IF thread.loaded THEN thread.before ELSE Start]]
  /\ UNCHANGED <<view, records, wiping, post, socket, wire, thread, doubt, wipes, breaks>>

HistoryPageReplaces(t, p) == [recs |-> p.recs, loaded |-> TRUE, before |-> p.next, there |-> TRUE]

\* What the thread does not have yet goes before what it has.
HistoryPage(t, p) ==
  [recs |-> Keep(p.recs, Texts \ ToSet(t.recs)) \o t.recs,
   loaded |-> TRUE, before |-> p.next, there |-> TRUE]

\* What a page brings is shown for certain; but a page read before a removal brings
\* removed records back, and the page behind a lost cursor says that there is nothing
\* older.
PageArrives(r) ==
  LET page == pages[r]
  IN /\ page.at = "answered"
     /\ thread' = HistoryPage(thread, page)
     /\ pages' = [pages EXCEPT ![r] = NoPage]
     /\ doubt' = (doubt \ Logged) \union (doubt \ ToSet(page.recs)) \union Ghosts(ToSet(page.recs))
                   \union (IF page.known THEN {} ELSE (Logged \ Shown) \ Coming)
     /\ UNCHANGED <<view, records, wiping, post, socket, wire, wipes, breaks>>

\* A record joins every thread it belongs to, once.
WithRecord(m) ==
  thread' = IF m \in Viewed \ Shown
            THEN [thread EXCEPT !.recs = Append(@, m), !.there = TRUE] ELSE thread

\* The answer to the send: the record is filed, whatever the feed has said of it.
SendReturns(m) ==
  /\ post[m] = "told"
  /\ post' = [post EXCEPT ![m] = "done"]
  /\ WithRecord(m)
  /\ doubt' = doubt \union Ghosts({m})
  /\ UNCHANGED <<view, records, wiping, socket, wire, pages, wipes, breaks>>

\* Named records leave every thread.  A cleared chat empties its own, with what came
\* between the clearing and this event, and leaves the self chat as it is.
WithCleared(e) ==
  CASE ~e.all -> thread' = [thread EXCEPT !.recs = Keep(@, Texts \ e.ids)]
    [] e.all /\ (view = "chat" \/ (view \in Threads /\ thread.there)) ->
         thread' = [recs |-> <<>>, loaded |-> TRUE, before |-> Start, there |-> TRUE]
    [] OTHER -> UNCHANGED thread

EventArrives ==
  LET e == Head(wire)
  IN /\ wire # <<>> /\ wire' = Tail(wire)
     /\ \/ /\ e.type = "message" /\ WithRecord(e.m)
           /\ doubt' = doubt \union Ghosts({e.m})
        \/ /\ e.type = "history-cleared" /\ WithCleared(e)
           /\ doubt' = doubt \union
                (IF ~e.all THEN {} ELSE IF view = "self" THEN e.ids ELSE Shown \ e.ids)
     /\ UNCHANGED <<view, records, wiping, post, socket, pages, wipes, breaks>>

\* The connection breaks with what is on it.  The tab connects again and asks for
\* nothing.
SocketBreaks ==
  /\ socket /\ PaBreak
  /\ socket' = FALSE /\ wire' = <<>>
  /\ doubt' = doubt \union UNION {IF i \in Told THEN {wire[i].m} ELSE wire[i].ids : i \in DOMAIN wire}
  /\ UNCHANGED <<view, records, wiping, post, thread, pages, wipes>>

SocketOpens ==
  /\ ~socket /\ socket' = TRUE
  /\ UNCHANGED <<view, records, wiping, post, wire, thread, pages, doubt, wipes, breaks>>

PaNext ==
  \/ \E m \in Texts : RecordSent(m) \/ TellSent(m) \/ DeliverTheirs(m) \/ SendReturns(m)
  \/ Wipe \/ TellWipe
  \/ \E r \in Requests : AskPage(r) \/ AnswerPage(r) \/ PageArrives(r)
  \/ EventArrives
  \/ SocketBreaks \/ SocketOpens

PaSpec == PaStart /\ [][PaNext]_paVars

-----------------------------------------------------------------------------
(* What the screen says. *)

NothingComes ==
  /\ wire = <<>> /\ wiping = NoWipe /\ \A r \in Requests : pages[r].at = "none"
  /\ \A m \in Texts : post[m] \in {"new", "done"}

PlaceOf(m) == CHOOSE i \in DOMAIN records : records[i] = m
\* What a loaded view owes: all of the log that is not before its cursor.
Owed ==
  LET cursor == thread.before
  IN {m \in Logged \cap Viewed :
        cursor = Start \/ (cursor \in Logged /\ PlaceOf(m) >= PlaceOf(cursor))}

\* Once nothing is on its way, a loaded view shows every record of the log from its
\* cursor on, once, and none that is not in the log: in whatever order pages, events
\* and answers arrived (applyHistoryPage, applyEvent, applyOutgoing).  Excepted are
\* the records of an event that a broken socket lost, until a page brings them, those
\* that a removal met on their way, and what lies behind a cursor that was removed.
FeedComplete ==
  NothingComes /\ thread.loaded =>
    /\ Owed \ doubt \subseteq Shown
    /\ Shown \ doubt \subseteq Logged
    /\ IsInjective(thread.recs)
===============================================================================
