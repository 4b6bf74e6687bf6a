------------------------------- MODULE Channels -------------------------------
(***************************************************************************)
(* A messenger beside the panel (TelegramConnector, SlackConnector and     *)
(* what wire-channels.ts and wire-users.ts make of them): the loop that    *)
(* polls for posts and routes them, and the egress that shows letters in   *)
(* the chat.  A channel serves one operator, whose queue it drains, or     *)
(* users, whose history is the delivery and whose chats are told of it.    *)
(*                                                                         *)
(* Left out: texts, the names in them and who is addressed, the limit of a *)
(* page of posts, other targets of a user's push.                          *)
(***************************************************************************)
EXTENDS Integers, Sequences, FiniteSets, SequencesExt

CONSTANTS
  MaxPosts,     \* bound: posts in the chat
  MaxLetters,   \* bound: letters of agents
  MaxEntries,   \* bound: both together
  MaxMishaps    \* bound: failed requests, refusals, crashes, forgotten ids

ASSUME ChannelsAssumption == {MaxPosts, MaxLetters, MaxEntries, MaxMishaps} \subseteq Nat

VARIABLES
  channel,    \* its type, whom it serves, and whether the shipped client polls
  posts,      \* what was posted: kinds, in order
  confirmed,  \* telegram: posts that it does not offer again
  cursor,     \* the connector's #offset or #cursor
  batch,      \* posts polled and not handled yet
  step,       \* the await that the first of them is at, or the poll
  outcome,    \* what became of a post
  inbox,      \* posts in the queues of their recipients
  ran,        \* [post -> how often its recipient ran it]
  archive,    \* ids in done/, of both queues
  chatKnown,  \* the chat or the alias's chat is known
  suppressed, \* the connector's #suppressed
  letters,    \* kinds of letters
  outbox,     \* the queue of the operator or the user: posts and letters
  egress,     \* the egress loop: its item and the part it sends next
  log,        \* the user's history
  seen,       \* what the chat shows: ids and parts
  shaken,     \* history: ids that retention or a crash may show again
  mishaps     \* disturbances so far

chVars == <<channel, posts, confirmed, cursor, batch, step, outcome, inbox, ran, archive, chatKnown,
            suppressed, letters, outbox, egress, log, seen, shaken, mishaps>>

PostIds == 1..MaxPosts
LetterIds == MaxPosts + 1..MaxPosts + MaxLetters
\* A post to an agent, one with media, a note to self, one without text or media, one
\* that nobody is addressed in, one of an account that is not bound.
PostKinds == {"plain", "media", "own", "empty", "unaddressed", "stranger"}
LetterKinds == {"text", "file", "other"}
NoItem == [id |-> 0, at |-> "idle", part |-> 1]

ChTypeOK ==
  /\ channel \in [type : {"telegram", "slack"}, users : BOOLEAN, shipped : BOOLEAN]
  /\ ToSet(posts) \subseteq PostKinds /\ ToSet(letters) \subseteq LetterKinds
  /\ {confirmed, cursor} \subseteq 0..MaxPosts
  /\ ToSet(batch) \union ToSet(inbox) \union suppressed \subseteq PostIds
  /\ step \in {"poll", "take", "fetch", "route", "reply"}
  /\ outcome \in [PostIds -> {"none", "routed", "nothing", "refused", "unknown"}]
  /\ ran \in [PostIds -> Nat] /\ chatKnown \in BOOLEAN
  /\ ToSet(outbox) \union ToSet(log) \union archive \union shaken \subseteq PostIds \union LetterIds
  /\ egress.at \in {"idle", "append", "push", "complete"} /\ egress.part \in 1..2
  /\ ToSet(seen) \subseteq (PostIds \union LetterIds) \X (1..2)
  /\ mishaps \in 0..MaxMishaps

ChStart ==
  /\ channel \in [type : {"telegram", "slack"}, users : BOOLEAN, shipped : BOOLEAN]
  /\ posts = <<>> /\ confirmed = 0 /\ cursor = 0 /\ batch = <<>> /\ step = "poll"
  /\ outcome = [p \in PostIds |-> "none"] /\ inbox = <<>> /\ ran = [p \in PostIds |-> 0]
  /\ archive = {} /\ chatKnown = FALSE /\ suppressed = {} /\ letters = <<>> /\ outbox = <<>>
  /\ egress = NoItem /\ log = <<>> /\ seen = <<>> /\ shaken = {} /\ mishaps = 0

Mishap == mishaps < MaxMishaps /\ mishaps' = mishaps + 1

-----------------------------------------------------------------------------
(* The people. *)

Room == Len(posts) + Len(letters) < MaxEntries

Say(kind) ==
  /\ Len(posts) < MaxPosts /\ Room /\ posts' = Append(posts, kind)
  /\ kind \in (IF channel.users THEN {"own", "stranger"} ELSE {"unaddressed"}) \union {"plain", "media", "empty"}
  /\ UNCHANGED <<channel, confirmed, cursor, batch, step, outcome, inbox, ran, archive, chatKnown,
                 suppressed, letters, outbox, egress, log, seen, shaken, mishaps>>

Write(kind) ==
  /\ Len(letters) < MaxLetters /\ Room /\ letters' = Append(letters, kind)
  /\ outbox' = Append(outbox, MaxPosts + Len(letters) + 1)
  /\ UNCHANGED <<channel, posts, confirmed, cursor, batch, step, outcome, inbox, ran, archive,
                 chatKnown, suppressed, egress, log, seen, shaken, mishaps>>

\* The recipient of a post runs an id once, for as long as it remembers it.
RunPost ==
  LET p == Head(inbox)
  IN /\ inbox # <<>> /\ inbox' = Tail(inbox)
     /\ ran' = IF p \in archive THEN ran ELSE [ran EXCEPT ![p] = @ + 1]
     /\ archive' = archive \union {p}
     /\ UNCHANGED <<channel, posts, confirmed, cursor, batch, step, outcome, chatKnown, suppressed,
                    letters, outbox, egress, log, seen, shaken, mishaps>>

ForgetId ==
  /\ Mishap
  /\ \E id \in archive : archive' = archive \ {id} /\ shaken' = shaken \union {id}
  /\ UNCHANGED <<channel, posts, confirmed, cursor, batch, step, outcome, inbox, ran, chatKnown,
                 suppressed, letters, outbox, egress, log, seen>>

-----------------------------------------------------------------------------
(* The polling loop. *)

From(n) == [i \in 1..Len(posts) - n |-> n + i]

\* Telegram takes the offset for an acknowledgement, and offers the rest again; slack
\* is asked for what came after the cursor, which moves with the answer.  A poll that
\* fails is made again.
Poll ==
  /\ step = "poll"
  /\ LET first == IF channel.type = "telegram" /\ confirmed > cursor THEN confirmed ELSE cursor
     IN /\ first < Len(posts)
        /\ batch' = From(first) /\ step' = "take"
        /\ confirmed' = IF channel.type = "telegram" THEN first ELSE confirmed
        /\ cursor' = IF channel.type = "slack" THEN Len(posts) ELSE cursor
  /\ UNCHANGED <<channel, posts, outcome, inbox, ran, archive, chatKnown, suppressed, letters, outbox,
                 egress, log, seen, shaken, mishaps>>

\* The first post of the batch is done with, in one way or another.
AdvancedEarly(p) == batch' = Tail(batch) /\ cursor' = Len(posts)

Advanced(p) ==
  batch' = Tail(batch) /\ cursor' = IF channel.type = "telegram" THEN p ELSE cursor
Ended(p, how) ==
  /\ Advanced(p)
  /\ step' = IF Len(batch) = 1 THEN "poll" ELSE "take"
  /\ outcome' = [outcome EXCEPT ![p] = how]

\* The shipped clients decode a post without its sender.
SenderKnown(kind) == kind # "stranger" /\ ~channel.shipped

\* Who wrote it, and to whom.  Telegram's chat is known from here on.
TakePost ==
  LET p == Head(batch) kind == posts[p]
      unknown == channel.users /\ ~SenderKnown(kind)
  IN /\ step = "take"
     /\ chatKnown' = (chatKnown \/ (channel.type = "telegram" /\ ~unknown))
     /\ IF kind = "empty" /\ ~unknown THEN Ended(p, "nothing")
        ELSE /\ step' = IF unknown \/ kind = "unaddressed" THEN "reply"
                        ELSE IF kind = "media" THEN "fetch" ELSE "route"
             /\ outcome' = IF unknown THEN [outcome EXCEPT ![p] = "unknown"] ELSE outcome
             /\ UNCHANGED <<batch, cursor>>
     /\ UNCHANGED <<channel, posts, confirmed, inbox, ran, archive, suppressed, letters, outbox,
                    egress, log, seen, shaken, mishaps>>

\* The blobs are written before anything refers to them.
FetchMedia ==
  /\ step = "fetch"
  /\ \/ step' = "route" /\ UNCHANGED mishaps
     \/ step' = "reply" /\ Mishap
  /\ UNCHANGED <<channel, posts, confirmed, cursor, batch, outcome, inbox, ran, archive, chatKnown,
                 suppressed, letters, outbox, egress, log, seen, shaken>>

\* Queued under the id of the post; a note to self goes to the user's own queue, and
\* is marked before anything else runs.  The router may refuse.
RoutePost ==
  LET p == Head(batch) own == posts[p] = "own"
  IN /\ step = "route"
     /\ \/ /\ Ended(p, "routed")
           /\ inbox' = IF own THEN inbox ELSE Append(inbox, p)
           /\ outbox' = IF own THEN Append(outbox, p) ELSE outbox
           /\ suppressed' = IF own THEN suppressed \union {p} ELSE suppressed
           /\ UNCHANGED mishaps
        \/ Mishap /\ step' = "reply" /\ UNCHANGED <<batch, cursor, outcome, inbox, outbox, suppressed>>
     /\ UNCHANGED <<channel, posts, confirmed, ran, archive, chatKnown, letters, egress, log, seen, shaken>>

\* The person is told, if the chat can be reached.
Reply ==
  /\ step = "reply"
  /\ Ended(Head(batch), IF outcome[Head(batch)] = "unknown" THEN "unknown" ELSE "refused")
  /\ UNCHANGED <<channel, posts, confirmed, inbox, ran, archive, chatKnown, suppressed, letters,
                 outbox, egress, log, seen, shaken, mishaps>>

-----------------------------------------------------------------------------
(* The egress. *)

KindOf(id) == IF id \in PostIds THEN "text" ELSE letters[id - MaxPosts]
Parts(id) == IF KindOf(id) = "file" THEN 2 ELSE 1

\* dequeue: the first item whose id is not done; what lies before it is dropped, and all
\* when there is none.
TakeLetter ==
  /\ egress = NoItem
  /\ \E n \in 1..Len(outbox) :
       /\ \A i \in 1..n - 1 : outbox[i] \in archive
       /\ outbox' = SubSeq(outbox, n + 1, Len(outbox))
       /\ IF outbox[n] \in archive
          THEN n = Len(outbox) /\ UNCHANGED egress
          ELSE egress' = [id |-> outbox[n], at |-> IF channel.users THEN "append" ELSE "push", part |-> 1]
  /\ UNCHANGED <<channel, posts, confirmed, cursor, batch, step, outcome, inbox, ran, archive,
                 chatKnown, suppressed, letters, log, seen, shaken, mishaps>>

\* The sink of a user: an id that the history holds is delivered already.
AppendLog ==
  /\ egress.at = "append"
  /\ IF egress.id \in ToSet(log)
     THEN egress' = [egress EXCEPT !.at = "complete"] /\ UNCHANGED log
     ELSE egress' = [egress EXCEPT !.at = "push"] /\ log' = Append(log, egress.id)
  /\ UNCHANGED <<channel, posts, confirmed, cursor, batch, step, outcome, inbox, ran, archive,
                 chatKnown, suppressed, letters, outbox, seen, shaken, mishaps>>

\* What the connector does not show: a note where it was written, a user's record
\* while no chat is known, a kind it has no form for.
Ignored(id) ==
  \/ channel.users /\ id \in suppressed
  \/ channel.users /\ channel.type = "telegram" /\ ~chatKnown
  \/ KindOf(id) = "other" /\ ~(channel.users /\ channel.type = "telegram")
CanSend == channel.users \/ channel.type = "slack" \/ chatKnown

PushPart ==
  LET id == egress.id
  IN /\ egress.at = "push"
     /\ \/ /\ egress.part = 1 /\ Ignored(id)
           /\ egress' = [egress EXCEPT !.at = "complete"] /\ suppressed' = suppressed \ {id}
           /\ UNCHANGED <<seen, mishaps>>
        \/ /\ egress.part = 2 \/ (~Ignored(id) /\ CanSend)
           /\ seen' = Append(seen, <<id, egress.part>>)
           /\ egress' = IF egress.part = Parts(id) THEN [egress EXCEPT !.at = "complete"]
                        ELSE [egress EXCEPT !.part = 2]
           /\ UNCHANGED <<suppressed, mishaps>>
        \/ \* An operator's item is sent again from its beginning; a user's push is not.
           /\ Mishap /\ (egress.part = 2 \/ ~Ignored(id))
           /\ egress' = IF channel.users THEN [egress EXCEPT !.at = "complete"]
                        ELSE [egress EXCEPT !.part = 1]
           /\ UNCHANGED <<suppressed, seen>>
     /\ UNCHANGED <<channel, posts, confirmed, cursor, batch, step, outcome, inbox, ran, archive,
                    chatKnown, letters, outbox, log, shaken>>

Complete ==
  /\ egress.at = "complete" /\ egress' = NoItem /\ archive' = archive \union {egress.id}
  /\ UNCHANGED <<channel, posts, confirmed, cursor, batch, step, outcome, inbox, ran, chatKnown,
                 suppressed, letters, outbox, log, seen, shaken, mishaps>>

\* The queues, the archives and the history stay; the item in cur/ is sent again.
ChCrash ==
  /\ Mishap
  /\ cursor' = 0 /\ batch' = <<>> /\ step' = "poll"
  /\ chatKnown' = FALSE /\ suppressed' = {}
  /\ shaken' = shaken \union {p \in PostIds : p <= Len(posts)}
  /\ egress' = IF egress.at = "idle" THEN NoItem
               ELSE [egress EXCEPT !.at = IF channel.users THEN "append" ELSE "push", !.part = 1]
  /\ UNCHANGED <<channel, posts, confirmed, outcome, inbox, ran, archive, letters, outbox, log, seen>>

ChNext ==
  \/ \E kind \in PostKinds : Say(kind)
  \/ \E kind \in LetterKinds : Write(kind)
  \/ RunPost \/ ForgetId
  \/ Poll \/ TakePost \/ FetchMedia \/ RoutePost \/ Reply
  \/ TakeLetter \/ AppendLog \/ PushPart \/ Complete
  \/ ChCrash

ChSpec == ChStart /\ [][ChNext]_chVars

-----------------------------------------------------------------------------
(* What a channel promises. *)

Passed == 1..(IF channel.type = "telegram" /\ confirmed > cursor THEN confirmed ELSE cursor)
PlacesOf(id, part) == {i \in DOMAIN seen : seen[i] = <<id, part>>}
ShownWhole(id) == \A part \in 1..Parts(id) : PlacesOf(id, part) # {}

\* No post is passed over, whatever crashed when; a post runs once while its id is
\* remembered; an operator's letter is archived only when all of it was shown, and
\* before any of the next; a user's history has a record once, and the chat is told of
\* it at most once, never of a note that was written there (the loops of telegram.ts
\* and slack.ts, egress.ts, the sink of wire-users.ts).
ChannelsDeliver ==
  /\ \A p \in Passed : outcome[p] # "none" \/ p \in ToSet(batch)
  /\ \A p \in PostIds \ shaken : ran[p] <= 1
  /\ \A p \in PostIds : outcome[p] = "routed" =>
       \/ p \in ToSet(inbox) \union ToSet(outbox) \union ToSet(log) \union {egress.id}
       \/ ran[p] > 0
  /\ ~channel.users =>
       \A a, b \in LetterIds : a < b =>
         /\ a \in archive /\ KindOf(a) # "other" => ShownWhole(a)
         /\ \A i \in PlacesOf(b, 1) : KindOf(a) # "other" => \E j \in PlacesOf(a, Parts(a)) : j < i
  /\ channel.users =>
       /\ IsInjective(log) /\ IsInjective(seen)
       /\ \A i \in DOMAIN seen : seen[i][1] \in PostIds => seen[i][1] \in shaken
===============================================================================
