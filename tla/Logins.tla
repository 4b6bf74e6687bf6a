--------------------------------- MODULE Logins ---------------------------------
(***************************************************************************)
(* Logins of one person (SessionStore, LoginRateLimiter, the handlers of   *)
(* login, session, renewal and logout) and the panel that keeps its        *)
(* session alive (App.tsx): one browser, whose cookie names one session.   *)
(*                                                                         *)
(* Time passes only when the panel's timer is not late: it looks every     *)
(* minute, and a session lasts for hours.                                  *)
(*                                                                         *)
(* Left out: how a password is verified, other people and addresses, which *)
(* have limits and sessions of their own, a store that is not durable, the *)
(* attributes of the cookie.                                               *)
(***************************************************************************)
EXTENDS Integers, FiniteSets

CONSTANTS
  Ttl,          \* lifetime of a session
  Renewal,      \* how far a renewal pushes its end
  MaxAttempts,  \* password attempts in one window
  Window,       \* the window
  MaxTime,      \* bound: time
  MaxLogins,    \* bound: sessions issued
  MaxHiccups    \* bound: lost requests, failed writes, restarts

ASSUME LoginsAssumption ==
  /\ {Ttl, Renewal, MaxAttempts, Window} \subseteq Nat \ {0}
  /\ {MaxTime, MaxLogins, MaxHiccups} \subseteq Nat

VARIABLES
  now,
  sessions,  \* [token -> when it ends], the store
  stored,    \* the same, in its file
  limiter,   \* the window of attempts
  verifying, \* a password is being verified
  cookie,    \* the token in the browser, and when the browser drops it
  panel,     \* "login" or "open"
  learned,   \* the panel's request for the session's end
  dueAt,     \* when it renews, or Never
  renewing,  \* a renewal: none, asked, or its answer
  promised,  \* history: [token -> the end last given to it]
  revoked,   \* history: tokens logged out
  shaky,     \* history: tokens that the file has wrong, by a write that failed
  lost,      \* history: tokens that a restart read wrong from it
  hiccups    \* disturbances so far

loVars == <<now, sessions, stored, limiter, verifying, cookie, panel, learned, dueAt, renewing,
            promised, revoked, shaky, lost, hiccups>>

Tokens == 1..MaxLogins
Ends0 == 0..MaxTime + Ttl + Renewal  \* ends of sessions: 0 for none
Never == MaxTime + Ttl + Renewal + 1
NoCookie == [token |-> 0, until |-> 0]
Unasked == [at |-> "none", until |-> 0]

LoTypeOK ==
  /\ now \in 0..MaxTime /\ {sessions, stored, promised} \subseteq [Tokens -> Ends0]
  /\ limiter.start \in -Window..MaxTime /\ limiter.count \in Nat
  /\ verifying \in BOOLEAN
  /\ cookie.token \in Tokens \union {0} /\ cookie.until \in Ends0
  /\ panel \in {"login", "open"} /\ learned \in {"none", "asked", "done", "failed"}
  /\ dueAt \in Ends0 \union {Never}
  /\ renewing.at \in {"none", "asked", "renewed", "refused", "failed"}
  /\ revoked \subseteq Tokens /\ shaky \subseteq Tokens /\ lost \subseteq Tokens
  /\ hiccups \in 0..MaxHiccups

LoStart ==
  /\ now = 0 /\ sessions = [t \in Tokens |-> 0] /\ stored = sessions /\ promised = sessions
  /\ limiter = [start |-> -Window, count |-> 0] /\ verifying = FALSE
  /\ cookie = NoCookie /\ panel = "login" /\ learned = "none" /\ dueAt = Never
  /\ renewing = Unasked /\ revoked = {} /\ shaky = {} /\ lost = {} /\ hiccups = 0

Hiccup == hiccups < MaxHiccups /\ hiccups' = hiccups + 1

-----------------------------------------------------------------------------
(* SessionStore. *)

Alive(t) == t # 0 /\ sessions[t] > now
Swept(s) == [t \in Tokens |-> IF s[t] > now THEN s[t] ELSE 0]

\* Every change is written, without what has ended; a write may fail unnoticed.
Save(s) ==
  /\ sessions' = Swept(s)
  /\ \/ stored' = Swept(s) /\ shaky' = {} /\ UNCHANGED hiccups
     \/ Hiccup /\ UNCHANGED stored /\ shaky' = {t \in Tokens : Swept(s)[t] # stored[t]}

\* A request with a session that has ended drops it.
DropEnded(t) ==
  IF t # 0 /\ sessions[t] # 0 THEN Save(sessions) ELSE UNCHANGED <<sessions, stored, shaky, hiccups>>

\* The browser sends a cookie until it drops it.
Sent == IF cookie.until > now THEN cookie.token ELSE 0

-----------------------------------------------------------------------------
(* The server's handlers. *)

NextToken == Cardinality({t \in Tokens : promised[t] # 0}) + 1

\* An attempt counts, also one that the limit refuses.
TryLogin ==
  /\ panel = "login" /\ ~verifying /\ NextToken \in Tokens
  /\ LET fresh == now - limiter.start >= Window
         count == IF fresh THEN 1 ELSE limiter.count + 1
     IN /\ count <= MaxAttempts + 1  \* bound: one refusal is like another
        /\ limiter' = [start |-> IF fresh THEN now ELSE limiter.start, count |-> count]
        /\ verifying' = (count <= MaxAttempts)
  /\ UNCHANGED <<now, sessions, stored, cookie, panel, learned, dueAt, renewing, promised, revoked,
                 shaky, lost, hiccups>>

\* The password is right, and a session begins, or wrong.  The panel opens.
LoginVerified ==
  /\ verifying /\ verifying' = FALSE
  /\ \/ /\ Save([sessions EXCEPT ![NextToken] = now + Ttl])
        /\ promised' = [promised EXCEPT ![NextToken] = now + Ttl]
        /\ cookie' = [token |-> NextToken, until |-> now + Ttl]
        /\ panel' = "open" /\ learned' = "asked" /\ dueAt' = Never /\ renewing' = Unasked
     \/ UNCHANGED <<sessions, stored, promised, cookie, panel, learned, dueAt, renewing, shaky, hiccups>>
  /\ UNCHANGED <<now, limiter, revoked, lost>>

RenewInMemory(t) ==
  /\ sessions' = [sessions EXCEPT ![t] = now + Renewal] /\ UNCHANGED <<stored, shaky, hiccups>>

\* The same token gets a new end; one that has ended is not revived.
Renew(t) == Save([sessions EXCEPT ![t] = now + Renewal])

HandleRenew ==
  /\ renewing.at = "asked"
  /\ IF Alive(Sent)
     THEN /\ Renew(Sent)
          /\ promised' = [promised EXCEPT ![Sent] = now + Renewal]
          /\ cookie' = [cookie EXCEPT !.until = now + Renewal]
          /\ renewing' = [at |-> "renewed", until |-> now + Renewal]
     ELSE /\ DropEnded(Sent) /\ renewing' = [renewing EXCEPT !.at = "refused"]
          /\ UNCHANGED <<promised, cookie>>
  /\ UNCHANGED <<now, limiter, verifying, panel, learned, dueAt, revoked, lost>>

\* The panel goes to its login page whatever the server makes of a logout.
Logout ==
  /\ panel = "open"
  /\ panel' = "login" /\ dueAt' = Never /\ learned' = "none" /\ renewing' = Unasked
  /\ \/ /\ Alive(Sent) /\ Save([sessions EXCEPT ![Sent] = 0])
        /\ revoked' = revoked \union {Sent} /\ cookie' = NoCookie
     \/ ~Alive(Sent) /\ DropEnded(Sent) /\ UNCHANGED <<revoked, cookie>>
     \/ Hiccup /\ UNCHANGED <<sessions, stored, revoked, cookie, shaky>>
  /\ UNCHANGED <<now, limiter, verifying, promised, lost>>

\* The store is read again, without what has ended; the limits are forgotten.
RestartServer ==
  /\ Hiccup
  /\ sessions' = Swept(stored)
  /\ limiter' = [start |-> -Window, count |-> 0] /\ verifying' = FALSE
  /\ renewing' = IF renewing.at = "asked" THEN [renewing EXCEPT !.at = "failed"] ELSE renewing
  /\ lost' = lost \union shaky
  /\ UNCHANGED <<now, stored, cookie, panel, learned, dueAt, promised, revoked, shaky>>

-----------------------------------------------------------------------------
(* The panel. *)

\* Half of what the session has left.
RenewDueAt(until) == now + (until - now) \div 2

\* The end of the session is asked for once.
LearnSession ==
  /\ panel = "open" /\ learned = "asked"
  /\ \/ Alive(Sent) /\ dueAt' = RenewDueAt(sessions[Sent]) /\ learned' = "done"
        /\ UNCHANGED <<sessions, stored, shaky, hiccups>>
     \/ ~Alive(Sent) /\ DropEnded(Sent) /\ learned' = "failed" /\ UNCHANGED dueAt
     \/ Hiccup /\ learned' = "failed" /\ UNCHANGED <<sessions, stored, shaky, dueAt>>
  /\ UNCHANGED <<now, limiter, verifying, cookie, panel, renewing, promised, revoked, lost>>

TimerIsDue == panel = "open" /\ now >= dueAt

\* One renewal at a time: nothing is due until it is answered.
TickRenews ==
  /\ TimerIsDue /\ dueAt' = Never /\ renewing' = [Unasked EXCEPT !.at = "asked"]
  /\ UNCHANGED <<now, sessions, stored, limiter, verifying, cookie, panel, learned, promised,
                 revoked, shaky, lost, hiccups>>

LoseRenewal ==
  /\ renewing.at \in {"asked", "renewed"} /\ Hiccup
  /\ renewing' = [renewing EXCEPT !.at = "failed"]
  /\ UNCHANGED <<now, sessions, stored, limiter, verifying, cookie, panel, learned, dueAt, promised,
                 revoked, shaky, lost>>

\* Only a refusal leads to the login page; a failure is let go.
RenewalAnswered ==
  /\ renewing.at \in {"renewed", "refused", "failed"} /\ renewing' = Unasked
  /\ dueAt' = IF renewing.at = "renewed" THEN RenewDueAt(renewing.until) ELSE dueAt
  /\ panel' = IF renewing.at = "refused" THEN "login" ELSE panel
  /\ learned' = IF renewing.at = "refused" THEN "none" ELSE learned
  /\ UNCHANGED <<now, sessions, stored, limiter, verifying, cookie, promised, revoked, shaky, lost,
                 hiccups>>

TimePasses ==
  /\ now < MaxTime /\ now' = now + 1
  /\ ~TimerIsDue /\ learned # "asked" /\ renewing.at = "none" /\ ~verifying
  /\ UNCHANGED <<sessions, stored, limiter, verifying, cookie, panel, learned, dueAt, renewing,
                 promised, revoked, shaky, lost, hiccups>>

LoNext ==
  \/ TryLogin \/ LoginVerified \/ HandleRenew \/ Logout \/ RestartServer
  \/ LearnSession \/ TickRenews \/ LoseRenewal \/ RenewalAnswered \/ TimePasses

LoSpec == LoStart /\ [][LoNext]_loVars

-----------------------------------------------------------------------------
(* What a login promises. *)

\* A session lives until the end it was given, over restarts, and no longer; one that
\* was logged out never lives again; but for what a restart read behind a failed write.  And an
\* open panel keeps its session as long as nothing goes wrong (SessionStore, the
\* renewal in App.tsx).
LoginsHold ==
  /\ \A t \in Tokens \ lost : Alive(t) <=> (promised[t] > now /\ t \notin revoked)
  /\ panel = "open" /\ hiccups = 0 => Alive(Sent)
===============================================================================
