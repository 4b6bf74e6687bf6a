---------------------------- MODULE PeopleProofs ----------------------------
(***************************************************************************)
(* Proofs about what people do on several devices at once: the alarm of    *)
(* one agent, against two of them who answer it (Alarms), and the logins   *)
(* of one of them, against the tabs of a browser and the writes of the     *)
(* store that overtake each other (Logins); and about the messengers that  *)
(* they write in, against crashes between any two awaits (Channels).       *)
(***************************************************************************)
EXTENDS Alarms, Logins, Channels, FiniteSetTheorems, TLAPS

(***************************************************************************)
(* Alarms.                                                                 *)
(***************************************************************************)

\* One operation runs at a time; what it carries is about the alarm in the slot.
OneOp == \A a, b \in Actors : ops[a].at # "idle" /\ ops[b].at # "idle" => a = b
OpsFit == \A a \in Actors :
  /\ ops[a].at \in {"answer", "receipt"} => a \in People
  /\ ops[a].at = "store" => slot = ops[a].alarm /\ (slot.state = "acknowledged" => a \in People)
  /\ ops[a].at = "answer" =>
       /\ IsActive(slot) /\ slot.id \in 1..MaxCries
       /\ ops[a].alarm.id = slot.id /\ ops[a].alarm.state = "answered" /\ ops[a].alarm.how \in Answers
  /\ ops[a].at = "receipt" => slot = ops[a].alarm /\ slot.state = "acknowledged" /\ slot.id \in 1..MaxCries

\* The file is behind the slot, and both are behind the counter.
FileBehind == slotFile.id <= slot.id /\ slot.id <= cries /\ \A r \in accepted : r.id <= cries
ActiveIsReal == (IsActive(slot) => slot.id >= 1) /\ (slot.state = "acknowledged" => slot.id >= 1)
                /\ (IsActive(slotFile) => slotFile.id >= 1) /\ (slotFile.state = "acknowledged" => slotFile.id >= 1)

\* An alarm of which a resolution was accepted is not open, nor has it a receipt to send.
ResolvedOnce ==
  /\ \A r \in accepted : r.id \notin undone =>
       /\ r.id = slot.id => ~IsActive(slot)
       /\ r.id = slot.id => \A a \in Actors :
            ops[a].at \in {"store", "receipt"} => ops[a].alarm.state # "acknowledged"
  /\ \A r, q \in accepted : r.id = q.id /\ r.id \notin undone => r = q

AnsweredWasSent ==
  /\ slot.state = "answered" => \E r \in accepted : r.id = slot.id /\ r.how = slot.how
  /\ slotFile.state = "answered" => \E r \in accepted : r.id = slotFile.id /\ r.how = slotFile.how

AlInv == AlTypeOK /\ OneOp /\ OpsFit /\ FileBehind /\ ActiveIsReal /\ ResolvedOnce /\ AnsweredWasSent

\* A step of AlarmsHub keeps the types of the slot, its file and the operations.
LEMMA AlTypedStep ==
  ASSUME AlInv, AlNext
  PROVE  AlTypeOK'
<1> USE AlarmsAssumption
<1>0. "agent" \in Actors /\ People \subseteq Actors
  BY DEF Actors
<1>1. \A a \in Actors : ops[a].at \in {"idle", "store", "answer", "receipt"} /\ ops[a].alarm \in AlarmRecord
  BY DEF AlInv, AlTypeOK
<1>2. \A a \in Actors : \A at \in {"store", "answer", "receipt"} : \A alarm \in AlarmRecord : At(a, at, alarm) =>
        ops' \in [Actors -> [at : {"idle", "store", "answer", "receipt"}, alarm : AlarmRecord]]
  BY DEF At, AlInv, AlTypeOK
<1>3. NoAlarm \in AlarmRecord
  BY DEF NoAlarm, Alarm, AlarmRecord, Answers
<1>4. \A a \in Actors : Done(a) =>
        ops' \in [Actors -> [at : {"idle", "store", "answer", "receipt"}, alarm : AlarmRecord]]
  BY <1>3 DEF Done, IdleOp, AlInv, AlTypeOK
<1>5. \A a \in AlarmRecord : Showing(a) \in 0..MaxCries
  BY DEF Showing, AlarmRecord
<1>6. Upset => upsets' \in 0..MaxUpsets
  BY DEF Upset, AlInv, AlTypeOK
<1>7. ASSUME NEW a \in Actors, StoreEnds(a) \/ StoreFails(a) PROVE AlTypeOK'
  BY <1>1, <1>2, <1>4, <1>5, <1>6, <1>7 DEF StoreEnds, StoreFails, AlInv, AlTypeOK
<1>8. CASE Raise
  <2>1. Alarm(cries + 1, "raised", "none") \in AlarmRecord
    BY <1>8 DEF Raise, Alarm, AlarmRecord, Answers, AlInv, AlTypeOK
  <2> QED BY <1>0, <1>2, <1>8, <2>1 DEF Raise, StoreBegins, AlInv, AlTypeOK
<1>9. CASE Withdraw
  <2>1. [slot EXCEPT !.state = "withdrawn"] \in AlarmRecord
    BY DEF AlarmRecord, AlInv, AlTypeOK
  <2> QED BY <1>0, <1>2, <1>9, <2>1 DEF Withdraw, StoreBegins, AlInv, AlTypeOK
<1>10. ASSUME NEW u \in People, NEW id \in 1..cries,
              SeeAlarm(u, id) \/ DismissAlarm(u, id) \/ \E o \in Options : AnswerAlarm(u, id, o)
       PROVE  AlTypeOK'
  <2>1. [slot EXCEPT !.state = "seen"] \in AlarmRecord
    BY DEF AlarmRecord, AlInv, AlTypeOK
  <2>2. \A how \in Answers : Alarm(id, "acknowledged", how) \in AlarmRecord /\ Alarm(id, "answered", how) \in AlarmRecord
    BY DEF AlarmRecord, Alarm, AlInv, AlTypeOK
  <2>3. "heard" \in Answers /\ "dismissed" \in Answers /\ Options \subseteq Answers
    BY DEF Answers
  <2> QED BY <1>0, <1>2, <1>10, <2>1, <2>2, <2>3 DEF SeeAlarm, DismissAlarm, AnswerAlarm, StoreBegins, AlInv, AlTypeOK
<1>11. ASSUME NEW u \in People, AnswerRouted(u) \/ ReceiptRouted(u) PROVE AlTypeOK'
  <2>1. ops[u].alarm \in AlarmRecord /\ ops[u].alarm.id \in 1..MaxCries
    BY <1>0, <1>1, <1>11 DEF AnswerRouted, ReceiptRouted, AlInv, OpsFit
  <2>2. Accept(u) => accepted' \subseteq [id : 1..MaxCries, by : People, how : Answers]
    BY <2>1 DEF Accept, AlarmRecord, AlInv, AlTypeOK
  <2> QED BY <1>0, <1>2, <1>4, <1>11, <2>1, <2>2 DEF AnswerRouted, ReceiptRouted, StoreBegins, AlInv, AlTypeOK
<1>12. ASSUME NEW u \in People, AnswerRefused(u) \/ ReceiptRefused(u) PROVE AlTypeOK'
  BY <1>0, <1>4, <1>6, <1>12 DEF AnswerRefused, ReceiptRefused, AlInv, AlTypeOK
<1>13. CASE AlCrash
  <2>1. IsActive(slotFile) => slotFile.id \in 1..MaxCries
    BY DEF AlInv, AlTypeOK, ActiveIsReal, AlarmRecord
  <2> QED BY <1>3, <1>5, <1>6, <1>13, <2>1 DEF AlCrash, IdleOp, AlInv, AlTypeOK
<1> QED BY <1>7, <1>8, <1>9, <1>10, <1>11, <1>12, <1>13 DEF AlNext

\* A step of AlarmsHub keeps the order of slot and file, and one resolution to an alarm:
\* the answer is routed while the alarm is open, and closes it before another operation starts.
LEMMA AlStep ==
  ASSUME AlInv, AlNext
  PROVE  OneOp' /\ OpsFit' /\ FileBehind' /\ ActiveIsReal' /\ ResolvedOnce' /\ AnsweredWasSent'
<1> USE AlarmsAssumption DEF AlInv
<1> USE DEF OneOp, OpsFit, FileBehind, ActiveIsReal, ResolvedOnce, AnsweredWasSent
<1>0. "agent" \in Actors /\ People \subseteq Actors /\ "agent" \notin People
  BY DEF Actors
<1>1. /\ slot \in AlarmRecord /\ slotFile \in AlarmRecord /\ cries \in Nat
      /\ \A a \in Actors : ops[a].alarm \in AlarmRecord
      /\ ops \in [Actors -> [at : {"idle", "store", "answer", "receipt"}, alarm : AlarmRecord]]
      /\ \A r \in accepted : r.id \in 1..MaxCries
      /\ \A a \in AlarmRecord : a.id \in Nat
  BY DEF AlTypeOK, AlarmRecord
<1>2. ASSUME NEW a \in Actors, StoreEnds(a)
      PROVE  OneOp' /\ OpsFit' /\ FileBehind' /\ ActiveIsReal' /\ ResolvedOnce' /\ AnsweredWasSent'
  <2>1. /\ ops[a].at = "store" /\ slot = ops[a].alarm /\ slotFile' = slot
        /\ UNCHANGED <<slot, cries, accepted, undone>>
    BY <1>2 DEF StoreEnds
  <2>2. \A b \in Actors \ {a} : ops'[b] = ops[b] /\ ops[b].at = "idle"
    BY <1>1, <1>2 DEF StoreEnds, At, Done
  <2>3. \/ slot.state # "acknowledged" /\ ops'[a] = IdleOp
        \/ slot.state = "acknowledged" /\ ops'[a] = [at |-> "receipt", alarm |-> slot]
    BY <1>1, <1>2, <2>1 DEF StoreEnds, At, Done
  <2>4. slot.state = "acknowledged" => slot.id \in 1..MaxCries /\ a \in People
    <3>1. slot.id \in 0..MaxCries
      BY <1>1 DEF AlarmRecord
    <3> QED BY <2>1, <3>1
  <2> QED BY <1>0, <1>1, <2>1, <2>2, <2>3, <2>4 DEF IdleOp
<1>3. ASSUME NEW a \in Actors, StoreFails(a)
      PROVE  OneOp' /\ OpsFit' /\ FileBehind' /\ ActiveIsReal' /\ ResolvedOnce' /\ AnsweredWasSent'
  BY <1>0, <1>1, <1>3 DEF StoreFails, At, Done, IdleOp, IsActive, Active
<1>4. CASE Raise
  BY <1>0, <1>1, <1>4 DEF Raise, StoreBegins, Serialized, At, Alarm, IsActive, Active
<1>5. CASE Withdraw
  BY <1>0, <1>1, <1>5 DEF Withdraw, StoreBegins, Serialized, At, Alarm, IsActive, Active
<1>6. ASSUME NEW u \in People, NEW id \in 1..cries, SeeAlarm(u, id) \/ DismissAlarm(u, id)
      PROVE  OneOp' /\ OpsFit' /\ FileBehind' /\ ActiveIsReal' /\ ResolvedOnce' /\ AnsweredWasSent'
  <2>1. PICK alarm : /\ slot' = alarm /\ ops' = [ops EXCEPT ![u] = [at |-> "store", alarm |-> alarm]]
                     /\ alarm.id = slot.id /\ alarm.state \in {"seen", "acknowledged"}
    BY <1>1, <1>6 DEF SeeAlarm, DismissAlarm, StoreBegins, At, Alarm, Check, AlarmRecord
  <2>2. /\ \A a \in Actors : ops[a].at = "idle"
        /\ IsActive(slot) /\ slot.id >= 1
        /\ UNCHANGED <<slotFile, cries, accepted, undone>>
    BY <1>6 DEF SeeAlarm, DismissAlarm, Check, Serialized
  <2>3. \A a \in Actors : ops'[a] = IF a = u THEN [at |-> "store", alarm |-> alarm] ELSE ops[a]
    BY <1>0, <1>1, <2>1
  <2> QED BY <1>0, <1>1, <2>1, <2>2, <2>3 DEF IsActive, Active
<1>7. ASSUME NEW u \in People, NEW id \in 1..cries, NEW o \in Options, AnswerAlarm(u, id, o)
      PROVE  OneOp' /\ OpsFit' /\ FileBehind' /\ ActiveIsReal' /\ ResolvedOnce' /\ AnsweredWasSent'
  BY <1>0, <1>1, <1>7 DEF AnswerAlarm, Serialized, At, Alarm, IsActive, Active, Check, Answers, AlTypeOK
<1>8. ASSUME NEW u \in People, AnswerRouted(u)
      PROVE  OneOp' /\ OpsFit' /\ FileBehind' /\ ActiveIsReal' /\ ResolvedOnce' /\ AnsweredWasSent'
  <2>1. /\ slot' = ops[u].alarm /\ slot'.id = slot.id /\ slot'.state = "answered"
        /\ IsActive(slot) /\ ~IsActive(slot')
        /\ ops[u].at = "answer" /\ UNCHANGED <<slotFile, cries, undone>>
    BY <1>0, <1>8 DEF AnswerRouted, StoreBegins, IsActive, Active
  <2>2. \A a \in Actors : ops'[a] = IF a = u THEN [at |-> "store", alarm |-> ops[u].alarm] ELSE ops[a]
    BY <1>0, <1>1, <1>8 DEF AnswerRouted, StoreBegins, At
  <2>3. \A a \in Actors \ {u} : ops[a].at = "idle"
    BY <1>0, <2>1
  <2>4. accepted' = accepted \union {[id |-> slot'.id, by |-> u, how |-> slot'.how]}
    BY <1>8, <2>1 DEF AnswerRouted, Accept
  <2>5. \A r \in accepted : r.id \notin undone => r.id # slot.id
    BY <2>1
  <2>6. OneOp' /\ OpsFit'
    BY <1>0, <1>1, <2>1, <2>2, <2>3
  <2>7. FileBehind' /\ ActiveIsReal'
    BY <1>1, <2>1, <2>4
  <2>8. ResolvedOnce'
    <3>1. ASSUME NEW r \in accepted', r.id \notin undone', r.id = slot'.id
          PROVE  r = [id |-> slot'.id, by |-> u, how |-> slot'.how]
      BY <2>1, <2>4, <2>5, <3>1
    <3>2. \A a \in Actors : ops'[a].at \in {"store", "receipt"} => ops'[a].alarm.state # "acknowledged"
      BY <2>1, <2>2, <2>3
    <3>3. \A r \in accepted' : r.id # slot'.id => r \in accepted
      BY <2>4
    <3>4. \A r, q \in accepted' : r.id = q.id /\ r.id \notin undone' => r = q
      BY <2>1, <3>1, <3>3
    <3> QED BY <2>1, <3>2, <3>4
  <2>9. AnsweredWasSent'
    <3>1. \E r \in accepted' : r.id = slot'.id /\ r.how = slot'.how
      <4>1. [id |-> slot'.id, by |-> u, how |-> slot'.how] \in accepted'
        BY <2>4
      <4> QED BY <4>1
    <3>2. accepted \subseteq accepted' /\ slotFile' = slotFile
      BY <2>1, <2>4
    <3> QED BY <3>1, <3>2
  <2> QED BY <2>6, <2>7, <2>8, <2>9
<1>9. ASSUME NEW u \in People, ReceiptRouted(u)
      PROVE  OneOp' /\ OpsFit' /\ FileBehind' /\ ActiveIsReal' /\ ResolvedOnce' /\ AnsweredWasSent'
  BY <1>0, <1>1, <1>9 DEF ReceiptRouted, Accept, Done, IdleOp, IsActive, Active
<1>10. ASSUME NEW u \in People, AnswerRefused(u) \/ ReceiptRefused(u)
      PROVE  OneOp' /\ OpsFit' /\ FileBehind' /\ ActiveIsReal' /\ ResolvedOnce' /\ AnsweredWasSent'
  <2>1. /\ \A a \in Actors : ops'[a] = IF a = u THEN IdleOp ELSE ops[a]
        /\ UNCHANGED <<slot, slotFile, cries, accepted, undone>>
    BY <1>0, <1>1, <1>10 DEF AnswerRefused, ReceiptRefused, Done
  <2> QED BY <1>0, <1>1, <2>1 DEF IdleOp
<1>11. CASE AlCrash
  BY <1>0, <1>1, <1>11 DEF AlCrash, IdleOp, IsActive, Active
<1> QED BY <1>2, <1>3, <1>4, <1>5, <1>6, <1>7, <1>8, <1>9, <1>10, <1>11 DEF AlNext

\* What is accepted for an alarm at most once.
LEMMA AtMostOneOf ==
  ASSUME NEW S, \A r, q \in S : r = q
  PROVE  Cardinality(S) <= 1
<1>1. CASE S = {}
  BY <1>1, FS_EmptySet
<1>2. CASE \E r : S = {r}
  BY <1>2, FS_Singleton
<1> QED BY <1>1, <1>2

\* The invariant contains that an alarm is answered once, as the slot says.
LEMMA AlInvIsOneAnswer == ASSUME AlInv PROVE OneAnswer
<1>1. ASSUME NEW id \in 1..MaxCries \ undone PROVE Cardinality({r \in accepted : r.id = id}) <= 1
  <2>1. \A r, q \in {p \in accepted : p.id = id} : r = q
    BY <1>1 DEF AlInv, ResolvedOnce
  <2> QED BY <2>1, AtMostOneOf
<1> QED BY <1>1 DEF OneAnswer, AlInv, AnsweredWasSent

\* The slot never goes back to an older alarm, unless a crash reads a file that is behind.
LEMMA AlInvLatest == ASSUME AlInv, [AlNext]_alVars PROVE slot'.id >= slot.id \/ slotFile.id < slot.id
<1> USE DEF AlInv
<1>1. slot.id \in Nat /\ slotFile.id \in Nat /\ cries \in Nat /\ slotFile.id <= slot.id /\ slot.id <= cries
  BY AlarmsAssumption DEF AlTypeOK, AlarmRecord, FileBehind
<1>2. ASSUME NEW a \in Actors, StoreEnds(a) \/ StoreFails(a) PROVE slot' = slot
  BY <1>2 DEF StoreEnds, StoreFails
<1>3. Raise \/ Withdraw => slot'.id >= slot.id
  BY <1>1 DEF Raise, Withdraw, StoreBegins, Alarm, AlTypeOK, AlarmRecord
<1>4. ASSUME NEW u \in People, NEW id \in 1..cries, SeeAlarm(u, id) \/ DismissAlarm(u, id) \/ \E o \in Options : AnswerAlarm(u, id, o)
      PROVE  slot'.id = slot.id
  <2>1. slot \in AlarmRecord
    BY DEF AlTypeOK
  <2>2. SeeAlarm(u, id) => slot'.id = slot.id
    BY <2>1 DEF SeeAlarm, Check, StoreBegins, Alarm, AlarmRecord
  <2>3. DismissAlarm(u, id) => slot'.id = slot.id
    BY DEF DismissAlarm, Check, StoreBegins, Alarm
  <2>4. (\E o \in Options : AnswerAlarm(u, id, o)) => slot' = slot
    BY DEF AnswerAlarm
  <2> QED BY <1>4, <2>2, <2>3, <2>4
<1>5. ASSUME NEW u \in People, AnswerRouted(u) \/ AnswerRefused(u) \/ ReceiptRouted(u) \/ ReceiptRefused(u)
      PROVE  slot'.id = slot.id
  <2>1. u \in Actors
    BY DEF Actors
  <2>2. AnswerRouted(u) => slot' = ops[u].alarm /\ ops[u].alarm.id = slot.id
    BY <2>1 DEF AnswerRouted, StoreBegins, OpsFit
  <2>3. AnswerRefused(u) \/ ReceiptRouted(u) \/ ReceiptRefused(u) => slot' = slot
    BY DEF AnswerRefused, ReceiptRouted, ReceiptRefused
  <2>4. CASE AnswerRouted(u)
    BY <2>2, <2>4
  <2>5. CASE slot' = slot
    BY <2>5
  <2> QED BY <1>5, <2>3, <2>4, <2>5
<1>6. AlCrash => slot' = slotFile
  BY DEF AlCrash
<1>7. UNCHANGED alVars => slot' = slot
  BY DEF alVars
<1> QED BY <1>1, <1>2, <1>3, <1>4, <1>5, <1>6, <1>7 DEF AlNext

\* For every number of people, options and alarms: an alarm that no crash brought back is
\* resolved at most once, the slot shows the answer that was routed to the agent, and the
\* latest alarm is the one that stays (AlarmsHub).
THEOREM AlarmsAreAnswered == AlSpec => AlarmsAnswered
<1>1. AlStart => AlInv
  BY AlarmsAssumption DEF AlStart, AlIdle, AlInv, AlTypeOK, OneOp, OpsFit, FileBehind, ActiveIsReal, ResolvedOnce,
     AnsweredWasSent, NoAlarm, Alarm, AlarmRecord, Answers, IdleOp, IsActive, Active
<1>2. AlInv /\ [AlNext]_alVars => AlInv'
  <2>1. AlInv /\ AlNext => AlInv'
    BY AlTypedStep, AlStep DEF AlInv
  <2>2. AlInv /\ UNCHANGED alVars => AlInv'
    BY DEF AlInv, AlTypeOK, OneOp, OpsFit, FileBehind, ActiveIsReal, ResolvedOnce, AnsweredWasSent, alVars,
       IsActive
  <2> QED BY <2>1, <2>2
<1>3. AlInv => OneAnswer
  BY AlInvIsOneAnswer
<1>4. AlInv /\ [AlNext]_alVars => LatestWins
  BY AlInvLatest DEF LatestWins
<1>5. AlSpec => []AlInv
  BY <1>1, <1>2, PTL DEF AlSpec
<1> QED BY <1>3, <1>4, <1>5, PTL DEF AlSpec, AlarmsAnswered

(***************************************************************************)
(* Logins.                                                                 *)
(***************************************************************************)

LoTyped ==
  /\ now \in 0..MaxTime /\ {sessions, stored, promised} \subseteq [Tokens -> Nat]
  /\ limiter \in [start : Int, count : Nat] /\ verifying \in BOOLEAN
  /\ cookie \in [token : Tokens \union {0}, until : Nat]
  /\ panel \in {"login", "open"} /\ learned \in {"none", "asked", "done", "failed"}
  /\ dueAt \in Nat
  /\ renewing \in [at : {"none", "asked", "renewed", "refused", "failed"}, until : Nat]
  /\ revoked \subseteq Tokens /\ shaky \subseteq Tokens /\ lost \subseteq Tokens
  /\ hiccups \in Nat

\* Tokens are issued in turn: the next one names no session yet.
IssuedInTurn ==
  /\ \E k \in 0..MaxLogins : {t \in Tokens : promised[t] # 0} = 1..k
  /\ \A t \in Tokens : promised[t] = 0 => sessions[t] = 0 /\ stored[t] = 0 /\ t \notin revoked
  /\ verifying => NextToken \in Tokens

\* The store has what was promised, or nothing of what has ended.
StoreFits == \A t \in Tokens \ lost :
  IF t \in revoked THEN sessions[t] = 0
  ELSE sessions[t] = promised[t] \/ (sessions[t] = 0 /\ promised[t] <= now)

\* The file has what the store has, or what has ended.
FileFits == \A t \in Tokens \ shaky :
  stored[t] = sessions[t] \/ (sessions[t] = 0 /\ stored[t] <= now)

\* While nothing went wrong: the browser's cookie ends with its session, and the panel
\* renews it before, or is about to learn when.
PanelKeepsUp ==
  /\ verifying => panel = "login"
  /\ hiccups = 0 => shaky = {} /\ lost = {}
  /\ panel = "open" /\ hiccups = 0 =>
       /\ cookie.token \in Tokens \ revoked
       /\ promised[cookie.token] = cookie.until /\ cookie.until > now
       /\ renewing.at \in {"none", "asked", "renewed"}
       /\ renewing.at = "renewed" => renewing.until = cookie.until
       /\ learned = "asked" \/ (learned = "done" /\ (renewing.at # "none" \/ dueAt < cookie.until))

LoInv == LoTyped /\ IssuedInTurn /\ StoreFits /\ FileFits /\ PanelKeepsUp

\* What a write of the store does: the store has what has not ended, and so has the file
\* unless the write failed.
LEMMA SaveDoes ==
  ASSUME LoTyped, NEW s \in [Tokens -> Nat], Save(s)
  PROVE  /\ sessions' \in [Tokens -> Nat] /\ stored' \in [Tokens -> Nat]
         /\ shaky' \subseteq Tokens /\ hiccups' \in Nat /\ (hiccups' = 0 => hiccups = 0 /\ shaky' = {})
         /\ \A t \in Tokens : sessions'[t] = IF s[t] > now THEN s[t] ELSE 0
         /\ \A t \in Tokens : t \notin shaky' => stored'[t] = sessions'[t]
         /\ \A t \in Tokens : stored'[t] = stored[t] \/ stored'[t] = sessions'[t]
<1>1. Swept(s) \in [Tokens -> Nat] /\ \A t \in Tokens : Swept(s)[t] = IF s[t] > now THEN s[t] ELSE 0
  BY DEF Swept
<1>2. sessions' = Swept(s)
  BY DEF Save
<1>3. CASE stored' = Swept(s) /\ shaky' = {} /\ UNCHANGED hiccups
  BY <1>1, <1>2, <1>3 DEF LoTyped
<1>4. CASE Hiccup /\ UNCHANGED stored /\ shaky' = {t \in Tokens : Swept(s)[t] # stored[t]}
  BY <1>1, <1>2, <1>4 DEF LoTyped, Hiccup
<1> QED BY <1>3, <1>4 DEF Save

\* The same of the request that drops an ended session: it changes nothing or writes.
LEMMA DropDoes ==
  ASSUME LoTyped, NEW c, DropEnded(c)
  PROVE  \/ Save(sessions)
         \/ UNCHANGED <<sessions, stored, shaky, hiccups>>
BY DEF DropEnded

\* The token issued next is that of no session (SessionStore.create).
LEMMA NextIsNew ==
  ASSUME LoTyped, IssuedInTurn, NextToken \in Tokens
  PROVE  /\ promised[NextToken] = 0
         /\ \A e \in Nat \ {0} : \E k \in 0..MaxLogins :
              {t \in Tokens : [promised EXCEPT ![NextToken] = e][t] # 0} = 1..k
<1>1. PICK k \in 0..MaxLogins : {t \in Tokens : promised[t] # 0} = 1..k
  BY DEF IssuedInTurn
<1>2. k \in Nat /\ MaxLogins \in Nat
  BY LoginsAssumption
<1>3. Cardinality(1..k) = k
  BY <1>2, FS_Interval
<1>4. NextToken = k + 1
  BY <1>1, <1>3 DEF NextToken
<1> DEFINE n == NextToken
<1>5. n \in Tokens /\ n = k + 1
  BY <1>4
<1> HIDE DEF n
<1>6. promised[n] = 0
  <2>1. n \notin 1..k
    BY <1>2, <1>5
  <2> QED BY <1>1, <1>5, <2>1
<1>7. ASSUME NEW e \in Nat \ {0}
      PROVE  {t \in Tokens : [promised EXCEPT ![n] = e][t] # 0} = 1..k + 1
  <2>1. ASSUME NEW t \in Tokens
        PROVE  [promised EXCEPT ![n] = e][t] # 0 <=> t \in 1..k + 1
    <3>1. CASE t = n
      BY <1>2, <1>5, <3>1 DEF LoTyped
    <3>2. CASE t # n
      <4>1. [promised EXCEPT ![n] = e][t] = promised[t]
        BY <3>2 DEF LoTyped
      <4>2. promised[t] # 0 <=> t \in 1..k
        BY <1>1
      <4>3. t \in Nat
        BY DEF Tokens
      <4> QED BY <1>2, <1>5, <3>2, <4>1, <4>2, <4>3
    <3> QED BY <3>1, <3>2
  <2>2. 1..k + 1 \subseteq Tokens
    BY <1>2, <1>5 DEF Tokens
  <2> QED BY <2>1, <2>2
<1>8. k + 1 \in 0..MaxLogins
  BY <1>2, <1>5 DEF Tokens
<1> QED BY <1>6, <1>7, <1>8 DEF n

\* A session whose end stays the same, or that has ended, or is written, is as promised.
LEMMA SaveKeepsFits ==
  ASSUME LoTyped, FileFits, NEW s \in [Tokens -> Nat], Save(s), now' = now
  PROVE  FileFits'
BY SaveDoes DEF FileFits

\* Every step of the server and of the panel keeps the types.
LEMMA LoTypedStep ==
  ASSUME LoTyped, IssuedInTurn, LoNext
  PROVE  LoTyped'
<1> USE LoginsAssumption
<1>0. /\ now \in Nat /\ sessions \in [Tokens -> Nat] /\ promised \in [Tokens -> Nat]
      /\ \A u \in Nat : u > now => RenewDueAt(u) \in Nat
      /\ Sent \in Tokens \union {0}
      /\ now + Ttl \in Nat /\ now + Renewal \in Nat /\ Never \in Nat
  BY DEF RenewDueAt, LoTyped, Sent, Never
<1>1. Hiccup \/ UNCHANGED hiccups => hiccups' \in Nat
  BY DEF Hiccup, LoTyped
<1>2. ASSUME NEW s \in [Tokens -> Nat], Save(s)
      PROVE  {sessions', stored'} \subseteq [Tokens -> Nat] /\ shaky' \subseteq Tokens /\ hiccups' \in Nat
  BY <1>2, SaveDoes
<1>3. DropEnded(Sent) \/ UNCHANGED <<sessions, stored, shaky, hiccups>>
        => {sessions', stored'} \subseteq [Tokens -> Nat] /\ shaky' \subseteq Tokens /\ hiccups' \in Nat
  BY <1>0, <1>2, DropDoes DEF LoTyped
<1>4. CASE TryLogin
  BY <1>4 DEF TryLogin, LoTyped
<1>5. CASE LoginVerified
  <2>1. CASE UNCHANGED <<sessions, stored, promised, cookie, panel, learned, dueAt, renewing, shaky, hiccups>>
    BY <1>5, <2>1 DEF LoginVerified, LoTyped
  <2>2. CASE ~ UNCHANGED <<sessions, stored, promised, cookie, panel, learned, dueAt, renewing, shaky, hiccups>>
    <3> DEFINE n == NextToken
    <3>1. n \in Tokens
      BY <1>5 DEF LoginVerified, IssuedInTurn
    <3>2. /\ Save([sessions EXCEPT ![n] = now + Ttl]) /\ promised' = [promised EXCEPT ![n] = now + Ttl]
          /\ cookie' = [token |-> n, until |-> now + Ttl]
          /\ panel' = "open" /\ learned' = "asked" /\ dueAt' = Never /\ renewing' = Unasked
          /\ verifying' = FALSE /\ UNCHANGED <<now, limiter, revoked, lost>>
      BY <1>5, <2>2 DEF LoginVerified
    <3> HIDE DEF n
    <3>3. {sessions', stored'} \subseteq [Tokens -> Nat] /\ shaky' \subseteq Tokens /\ hiccups' \in Nat
      <4>1. [sessions EXCEPT ![n] = now + Ttl] \in [Tokens -> Nat]
        BY <1>0, <3>1
      <4> QED BY <1>2, <3>2, <4>1
    <3>4. promised' \in [Tokens -> Nat]
      BY <1>0, <3>1, <3>2
    <3>5. cookie' \in [token : Tokens \union {0}, until : Nat]
      BY <1>0, <3>1, <3>2
    <3>6. renewing' \in [at : {"none", "asked", "renewed", "refused", "failed"}, until : Nat] /\ dueAt' \in Nat
      BY <1>0, <3>2 DEF Unasked
    <3> QED BY <3>2, <3>3, <3>4, <3>5, <3>6 DEF LoTyped
  <2> QED BY <2>1, <2>2
<1>6. CASE HandleRenew
  <2>1. CASE Alive(Sent)
    <3>1. Sent \in Tokens
      BY <1>0, <2>1 DEF Alive
    <3>2. [sessions EXCEPT ![Sent] = now + Renewal] \in [Tokens -> Nat]
      BY <1>0
    <3>3. {sessions', stored'} \subseteq [Tokens -> Nat] /\ shaky' \subseteq Tokens /\ hiccups' \in Nat
      BY <1>2, <1>6, <2>1, <3>2 DEF HandleRenew, Renew
    <3>4. promised' \in [Tokens -> Nat]
      BY <1>0, <1>6, <2>1 DEF HandleRenew
    <3> QED BY <1>0, <1>6, <2>1, <3>3, <3>4 DEF HandleRenew, LoTyped
  <2>2. CASE ~Alive(Sent)
    BY <1>3, <1>6, <2>2 DEF HandleRenew, LoTyped
  <2> QED BY <2>1, <2>2
<1>7. CASE Logout
  <2>1. /\ panel' = "login" /\ dueAt' = Never /\ learned' = "none" /\ renewing' = Unasked
        /\ UNCHANGED <<now, limiter, verifying, promised, lost>>
    BY <1>7 DEF Logout
  <2>2. /\ {sessions', stored'} \subseteq [Tokens -> Nat] /\ shaky' \subseteq Tokens /\ hiccups' \in Nat
        /\ revoked' \subseteq Tokens /\ cookie' \in [token : Tokens \union {0}, until : Nat]
    <3>1. CASE Alive(Sent) /\ Save([sessions EXCEPT ![Sent] = 0]) /\ revoked' = revoked \union {Sent} /\ cookie' = NoCookie
      <4>1. [sessions EXCEPT ![Sent] = 0] \in [Tokens -> Nat]
        BY <1>0
      <4> QED BY <1>0, <1>2, <3>1, <4>1 DEF Alive, LoTyped, NoCookie
    <3>2. CASE ~Alive(Sent) /\ DropEnded(Sent) /\ UNCHANGED <<revoked, cookie>>
      BY <1>3, <3>2 DEF LoTyped
    <3>3. CASE Hiccup /\ UNCHANGED <<sessions, stored, revoked, cookie, shaky>>
      BY <1>1, <3>3 DEF LoTyped
    <3> QED BY <1>7, <3>1, <3>2, <3>3 DEF Logout
  <2> QED BY <2>1, <2>2 DEF LoTyped, Unasked, Never
<1>8. CASE RestartServer
  <2>1. sessions' \in [Tokens -> Nat]
    BY <1>8 DEF RestartServer, Swept, LoTyped
  <2>2. renewing' \in [at : {"none", "asked", "renewed", "refused", "failed"}, until : Nat]
    BY <1>8 DEF RestartServer, LoTyped
  <2>3. hiccups' \in Nat /\ limiter' \in [start : Int, count : Nat]
    BY <1>1, <1>8 DEF RestartServer
  <2> QED BY <1>8, <2>1, <2>2, <2>3 DEF RestartServer, LoTyped
<1>9. CASE LearnSession
  <2>1. /\ learned' \in {"done", "failed"}
        /\ UNCHANGED <<now, limiter, verifying, cookie, panel, renewing, promised, revoked, lost>>
    BY <1>9 DEF LearnSession
  <2>2. {sessions', stored'} \subseteq [Tokens -> Nat] /\ shaky' \subseteq Tokens /\ hiccups' \in Nat
    BY <1>1, <1>3, <1>9 DEF LearnSession, LoTyped
  <2>3. dueAt' \in Nat
    <3>1. Alive(Sent) => RenewDueAt(sessions[Sent]) \in Nat
      BY <1>0 DEF Alive
    <3> QED BY <1>9, <3>1 DEF LearnSession, LoTyped
  <2> QED BY <2>1, <2>2, <2>3 DEF LoTyped
<1>10. CASE TickRenews
  BY <1>10 DEF TickRenews, LoTyped, Unasked, Never
<1>11. CASE LoseRenewal
  BY <1>1, <1>11 DEF LoseRenewal, LoTyped
<1>12. CASE RenewalAnswered
  <2>1. RenewDueAt(renewing.until) \in Nat
    BY DEF LoTyped, RenewDueAt
  <2> QED BY <1>12, <2>1 DEF RenewalAnswered, LoTyped, Unasked
<1>13. CASE TimePasses
  BY <1>13 DEF TimePasses, LoTyped
<1> QED BY <1>4, <1>5, <1>6, <1>7, <1>8, <1>9, <1>10, <1>11, <1>12, <1>13 DEF LoNext

\* The same when one session gets a new end.
LEMMA SaveOneDoes ==
  ASSUME LoTyped, NEW n \in Tokens, NEW e \in Nat, e > now \/ e = 0, Save([sessions EXCEPT ![n] = e])
  PROVE  /\ \A t \in Tokens : sessions'[t] = IF t = n THEN e ELSE IF sessions[t] > now THEN sessions[t] ELSE 0
         /\ \A t \in Tokens : stored'[t] = stored[t] \/ stored'[t] = sessions'[t]
<1> DEFINE s == [sessions EXCEPT ![n] = e]
<1>1. now \in Nat /\ sessions \in [Tokens -> Nat]
  BY DEF LoTyped
<1>2. s \in [Tokens -> Nat] /\ \A t \in Tokens : s[t] = IF t = n THEN e ELSE sessions[t]
  BY <1>1
<1>3. Save(s)
  OBVIOUS
<1> HIDE DEF s
<1> QED BY <1>1, <1>2, <1>3, SaveDoes

\* A step that changes no promise, and at most drops what has ended, leaves the store and the
\* file as promised.
LEMMA StoreRemains ==
  ASSUME LoTyped, IssuedInTurn, StoreFits, FileFits, now' \in Nat, now' >= now,
         UNCHANGED <<promised, revoked, lost>>,
         (now' = now /\ DropEnded(Sent)) \/ UNCHANGED <<sessions, stored, shaky>>,
         verifying' => NextToken \in Tokens
  PROVE  IssuedInTurn' /\ StoreFits' /\ FileFits'
<1>0. /\ now \in Nat /\ sessions \in [Tokens -> Nat] /\ stored \in [Tokens -> Nat] /\ promised \in [Tokens -> Nat]
  BY DEF LoTyped
<1>1. CASE UNCHANGED <<sessions, stored, shaky>>
  BY <1>0, <1>1 DEF IssuedInTurn, NextToken, StoreFits, FileFits
<1>2. CASE Save(sessions) /\ now' = now
  <2>1. /\ \A t \in Tokens : sessions'[t] = IF sessions[t] > now THEN sessions[t] ELSE 0
        /\ \A t \in Tokens : t \notin shaky' => stored'[t] = sessions'[t]
        /\ \A t \in Tokens : stored'[t] = stored[t] \/ stored'[t] = sessions'[t]
    BY <1>0, <1>2, SaveDoes
  <2>2. IssuedInTurn'
    BY <1>0, <2>1 DEF IssuedInTurn, NextToken
  <2>3. StoreFits'
    BY <1>0, <1>2, <2>1 DEF StoreFits
  <2> QED BY <1>0, <1>2, <2>2, <2>3, SaveKeepsFits
<1> QED BY <1>1, <1>2, DropDoes

\* A session that lives was issued.
LEMMA AliveWasIssued ==
  ASSUME LoTyped, IssuedInTurn, Alive(Sent)
  PROVE  Sent \in Tokens /\ promised[Sent] # 0 /\ sessions[Sent] > now
<1>1. Sent \in Tokens
  BY DEF Sent, Alive, LoTyped
<1>2. now \in Nat /\ sessions \in [Tokens -> Nat]
  BY DEF LoTyped
<1> QED BY <1>1, <1>2 DEF Alive, IssuedInTurn

\* Every step keeps the store and the file as promised, where a failed write has left no
\* trace (create, renew, destroy, and the reading of the store at a start).
LEMMA LoStoreStep ==
  ASSUME LoTyped, IssuedInTurn, StoreFits, FileFits, LoNext
  PROVE  IssuedInTurn' /\ StoreFits' /\ FileFits'
<1> USE LoginsAssumption
<1>0. /\ now \in Nat /\ sessions \in [Tokens -> Nat] /\ stored \in [Tokens -> Nat] /\ promised \in [Tokens -> Nat]
      /\ now + Ttl \in Nat /\ now + Renewal \in Nat /\ now + Ttl > now /\ now + Renewal > now
  BY DEF LoTyped
<1>1. (verifying' => verifying) => (verifying' => NextToken \in Tokens)
  BY DEF IssuedInTurn
<1>2. CASE TryLogin
  BY <1>0, <1>2, StoreRemains DEF TryLogin
<1>3. CASE LoginVerified
  <2>1. CASE UNCHANGED <<sessions, stored, promised, cookie, panel, learned, dueAt, renewing, shaky, hiccups>>
    BY <1>0, <1>1, <1>3, <2>1, StoreRemains DEF LoginVerified
  <2>2. CASE ~ UNCHANGED <<sessions, stored, promised, cookie, panel, learned, dueAt, renewing, shaky, hiccups>>
    <3> DEFINE n == NextToken
               e == now + Ttl
    <3>1. /\ n \in Tokens /\ promised[n] = 0
          /\ \E k \in 0..MaxLogins : {t \in Tokens : [promised EXCEPT ![n] = e][t] # 0} = 1..k
      BY <1>0, <1>3, NextIsNew DEF LoginVerified, IssuedInTurn
    <3>2. /\ Save([sessions EXCEPT ![n] = e]) /\ promised' = [promised EXCEPT ![n] = e]
          /\ verifying' = FALSE /\ UNCHANGED <<now, revoked, lost>>
      BY <1>3, <2>2 DEF LoginVerified
    <3>3. e \in Nat /\ e > now
      BY <1>0
    <3> HIDE DEF n, e
    <3>4. [sessions EXCEPT ![n] = e] \in [Tokens -> Nat]
      BY <1>0, <3>3
    <3>5. /\ \A t \in Tokens : sessions'[t] = IF t = n THEN e ELSE IF sessions[t] > now THEN sessions[t] ELSE 0
          /\ \A t \in Tokens : promised'[t] = IF t = n THEN e ELSE promised[t]
          /\ \A t \in Tokens : stored'[t] = stored[t] \/ stored'[t] = sessions'[t]
      BY <1>0, <3>1, <3>2, <3>3, SaveOneDoes
    <3>6. sessions[n] = 0 /\ n \notin revoked
      BY <3>1 DEF IssuedInTurn
    <3>7. IssuedInTurn'
      <4>1. \A t \in Tokens : promised'[t] = 0 => t # n /\ promised[t] = 0
        BY <1>0, <3>3, <3>5
      <4>2. \A t \in Tokens : promised'[t] = 0 => sessions'[t] = 0 /\ stored'[t] = 0 /\ t \notin revoked'
        BY <1>0, <3>2, <3>5, <4>1 DEF IssuedInTurn
      <4> QED BY <3>1, <3>2, <4>2 DEF IssuedInTurn
    <3>8. StoreFits'
      BY <1>0, <3>2, <3>3, <3>5, <3>6 DEF StoreFits
    <3> QED BY <3>2, <3>4, <3>7, <3>8, SaveKeepsFits
  <2> QED BY <2>1, <2>2
<1>4. CASE HandleRenew
  <2>1. CASE Alive(Sent)
    <3> DEFINE n == Sent
               e == now + Renewal
    <3>1. n \in Tokens /\ promised[n] # 0 /\ sessions[n] > now
      BY <2>1, AliveWasIssued
    <3>2. /\ Save([sessions EXCEPT ![n] = e]) /\ promised' = [promised EXCEPT ![n] = e]
          /\ UNCHANGED <<now, revoked, lost, verifying>>
      BY <1>4, <2>1 DEF HandleRenew, Renew
    <3>3. e \in Nat /\ e > now
      BY <1>0
    <3> HIDE DEF n, e
    <3>4. [sessions EXCEPT ![n] = e] \in [Tokens -> Nat]
      BY <1>0, <3>3
    <3>5. /\ \A t \in Tokens : sessions'[t] = IF t = n THEN e ELSE IF sessions[t] > now THEN sessions[t] ELSE 0
          /\ \A t \in Tokens : promised'[t] = IF t = n THEN e ELSE promised[t]
          /\ \A t \in Tokens : stored'[t] = stored[t] \/ stored'[t] = sessions'[t]
      BY <1>0, <3>1, <3>2, <3>3, SaveOneDoes
    <3>6. {t \in Tokens : promised'[t] # 0} = {t \in Tokens : promised[t] # 0}
      BY <1>0, <3>1, <3>3, <3>5
    <3>7. IssuedInTurn'
      <4>1. \A t \in Tokens : promised'[t] = 0 => t # n /\ promised[t] = 0
        BY <1>0, <3>3, <3>5
      <4>2. \A t \in Tokens : promised'[t] = 0 => sessions'[t] = 0 /\ stored'[t] = 0 /\ t \notin revoked'
        BY <1>0, <3>2, <3>5, <4>1 DEF IssuedInTurn
      <4>3. NextToken' = NextToken
        BY <3>6 DEF NextToken
      <4> QED BY <3>2, <3>6, <4>2, <4>3 DEF IssuedInTurn
    <3>8. StoreFits'
      BY <1>0, <3>1, <3>2, <3>3, <3>5 DEF StoreFits
    <3> QED BY <3>2, <3>4, <3>7, <3>8, SaveKeepsFits
  <2>2. CASE ~Alive(Sent)
    BY <1>0, <1>1, <1>4, <2>2, StoreRemains DEF HandleRenew
  <2> QED BY <2>1, <2>2
<1>5. CASE Logout
  <2>1. UNCHANGED <<now, verifying, promised, lost>>
    BY <1>5 DEF Logout
  <2>2. CASE Alive(Sent) /\ Save([sessions EXCEPT ![Sent] = 0]) /\ revoked' = revoked \union {Sent}
    <3> DEFINE n == Sent
    <3>1. n \in Tokens /\ promised[n] # 0
      BY <2>2, AliveWasIssued
    <3>2. Save([sessions EXCEPT ![n] = 0]) /\ revoked' = revoked \union {n}
      BY <2>2
    <3> HIDE DEF n
    <3>3. [sessions EXCEPT ![n] = 0] \in [Tokens -> Nat]
      BY <1>0
    <3>4. /\ \A t \in Tokens : sessions'[t] = IF t = n THEN 0 ELSE IF sessions[t] > now THEN sessions[t] ELSE 0
          /\ \A t \in Tokens : stored'[t] = stored[t] \/ stored'[t] = sessions'[t]
      BY <1>0, <3>1, <3>2, <3>3, SaveOneDoes
    <3>5. IssuedInTurn'
      BY <1>0, <2>1, <3>1, <3>2, <3>4 DEF IssuedInTurn, NextToken
    <3>6. StoreFits'
      BY <1>0, <2>1, <3>1, <3>2, <3>4 DEF StoreFits
    <3> QED BY <2>1, <3>2, <3>3, <3>5, <3>6, SaveKeepsFits
  <2>3. CASE DropEnded(Sent) /\ UNCHANGED <<revoked, cookie>>
    BY <1>0, <1>1, <2>1, <2>3, StoreRemains
  <2>4. CASE UNCHANGED <<sessions, stored, revoked, cookie, shaky>>
    BY <1>0, <1>1, <2>1, <2>4, StoreRemains
  <2> QED BY <1>5, <2>2, <2>3, <2>4 DEF Logout
<1>6. CASE RestartServer
  <2>1. /\ \A t \in Tokens : sessions'[t] = IF stored[t] > now THEN stored[t] ELSE 0
        /\ verifying' = FALSE /\ lost' = lost \union shaky
        /\ UNCHANGED <<now, stored, promised, revoked, shaky>>
    BY <1>6 DEF RestartServer, Swept
  <2>2. IssuedInTurn'
    BY <1>0, <2>1 DEF IssuedInTurn
  <2>3. StoreFits'
    BY <1>0, <2>1 DEF StoreFits, FileFits
  <2>4. FileFits'
    BY <1>0, <2>1 DEF FileFits
  <2> QED BY <2>2, <2>3, <2>4
<1>7. CASE LearnSession
  <2>1. UNCHANGED <<now, verifying, promised, revoked, lost>> /\ (DropEnded(Sent) \/ UNCHANGED <<sessions, stored, shaky>>)
    BY <1>7 DEF LearnSession
  <2> QED BY <1>0, <1>1, <2>1, StoreRemains
<1>8. CASE TickRenews
  BY <1>0, <1>1, <1>8, StoreRemains DEF TickRenews
<1>9. CASE LoseRenewal
  BY <1>0, <1>1, <1>9, StoreRemains DEF LoseRenewal
<1>10. CASE RenewalAnswered
  BY <1>0, <1>1, <1>10, StoreRemains DEF RenewalAnswered
<1>11. CASE TimePasses
  BY <1>0, <1>1, <1>11, StoreRemains DEF TimePasses
<1> QED BY <1>2, <1>3, <1>4, <1>5, <1>6, <1>7, <1>8, <1>9, <1>10, <1>11 DEF LoNext

\* While nothing went wrong, the session of an open panel lives until its cookie ends.
LEMMA OpenIsAlive ==
  ASSUME LoTyped, StoreFits, PanelKeepsUp, panel = "open", hiccups = 0
  PROVE  /\ Sent = cookie.token /\ Sent \in Tokens \ revoked /\ Alive(Sent)
         /\ sessions[Sent] = cookie.until
<1>1. /\ cookie.token \in Tokens \ revoked /\ cookie.token \notin lost
      /\ promised[cookie.token] = cookie.until /\ cookie.until > now
  BY DEF PanelKeepsUp
<1>2. Sent = cookie.token
  BY <1>1 DEF Sent
<1>3. now \in Nat /\ sessions \in [Tokens -> Nat] /\ cookie.until \in Nat
  BY DEF LoTyped
<1>4. sessions[cookie.token] = promised[cookie.token]
  BY <1>1, <1>3 DEF StoreFits
<1>5. cookie.token # 0
  BY <1>1 DEF Tokens
<1> QED BY <1>1, <1>2, <1>3, <1>4, <1>5 DEF Alive

\* A renewal falls due before the end that it moves (sessionEndsAt's half).
LEMMA DueBeforeEnd ==
  ASSUME LoTyped, NEW u \in Nat, u > now
  PROVE  RenewDueAt(u) < u
<1>1. now \in Nat
  BY DEF LoTyped
<1> QED BY <1>1 DEF RenewDueAt

\* Every step keeps the panel ahead of its session while nothing goes wrong: a login and
\* a renewal set the cookie to the session's end, the timer is due before it, and the panel
\* renews once it is.
LEMMA LoPanelStep ==
  ASSUME LoTyped, StoreFits, PanelKeepsUp, IssuedInTurn, LoNext
  PROVE  PanelKeepsUp'
<1> USE LoginsAssumption
<1>0. /\ now \in Nat /\ sessions \in [Tokens -> Nat] /\ promised \in [Tokens -> Nat]
      /\ cookie \in [token : Tokens \union {0}, until : Nat]
      /\ renewing \in [at : {"none", "asked", "renewed", "refused", "failed"}, until : Nat]
      /\ dueAt \in Nat /\ hiccups \in Nat
      /\ now + Ttl \in Nat /\ now + Renewal \in Nat /\ now + Ttl > now /\ now + Renewal > now
  BY DEF LoTyped
<1>1. Hiccup => hiccups' # 0
  BY <1>0 DEF Hiccup
<1>2. ASSUME NEW s \in [Tokens -> Nat], Save(s), hiccups' = 0 PROVE hiccups = 0 /\ shaky' = {}
  BY <1>2, SaveDoes
<1>3. DropEnded(Sent) /\ hiccups' = 0 /\ PanelKeepsUp => hiccups = 0 /\ shaky' = {}
  BY <1>0, <1>2, DropDoes DEF PanelKeepsUp
<1>4. CASE TryLogin
  BY <1>4 DEF TryLogin, PanelKeepsUp
<1>5. CASE LoginVerified
  <2>1. CASE UNCHANGED <<sessions, stored, promised, cookie, panel, learned, dueAt, renewing, shaky, hiccups>>
    BY <1>5, <2>1 DEF LoginVerified, PanelKeepsUp
  <2>2. CASE ~ UNCHANGED <<sessions, stored, promised, cookie, panel, learned, dueAt, renewing, shaky, hiccups>>
    <3> DEFINE n == NextToken
               e == now + Ttl
    <3>1. n \in Tokens /\ promised[n] = 0
      BY <1>5, NextIsNew DEF LoginVerified, IssuedInTurn
    <3>2. /\ Save([sessions EXCEPT ![n] = e]) /\ promised' = [promised EXCEPT ![n] = e]
          /\ cookie' = [token |-> n, until |-> e] /\ learned' = "asked" /\ renewing'.at = "none"
          /\ verifying' = FALSE /\ UNCHANGED <<now, revoked, lost>>
      BY <1>5, <2>2 DEF LoginVerified, Unasked
    <3>3. e \in Nat /\ e > now /\ n \notin revoked
      BY <1>0, <3>1 DEF IssuedInTurn
    <3> HIDE DEF n, e
    <3>4. hiccups' = 0 => hiccups = 0 /\ shaky' = {}
      <4>1. [sessions EXCEPT ![n] = e] \in [Tokens -> Nat]
        BY <1>0, <3>3
      <4> QED BY <1>2, <3>2, <4>1
    <3>5. promised'[n] = e /\ cookie'.token = n /\ cookie'.until = e
      BY <1>0, <3>1, <3>2
    <3> QED BY <3>1, <3>2, <3>3, <3>4, <3>5 DEF PanelKeepsUp
  <2> QED BY <2>1, <2>2
<1>6. CASE HandleRenew
  <2>1. UNCHANGED <<now, limiter, verifying, panel, learned, dueAt, revoked, lost>> /\ renewing.at = "asked"
    BY <1>6 DEF HandleRenew
  <2>2. CASE Alive(Sent)
    <3> DEFINE n == Sent
               e == now + Renewal
    <3>1. n \in Tokens
      BY <2>2, AliveWasIssued
    <3>2. /\ Save([sessions EXCEPT ![n] = e]) /\ promised' = [promised EXCEPT ![n] = e]
          /\ cookie' = [cookie EXCEPT !.until = e] /\ renewing' = [at |-> "renewed", until |-> e]
      BY <1>6, <2>2 DEF HandleRenew, Renew
    <3>3. e \in Nat /\ e > now /\ (n = cookie.token)
      BY <1>0, <2>2 DEF Alive, Sent
    <3> HIDE DEF n, e
    <3>4. hiccups' = 0 => hiccups = 0 /\ shaky' = {}
      <4>1. [sessions EXCEPT ![n] = e] \in [Tokens -> Nat]
        BY <1>0, <3>3
      <4> QED BY <1>2, <3>2, <4>1
    <3>5. /\ promised'[n] = e /\ cookie'.token = n /\ cookie'.until = e
          /\ renewing'.at = "renewed" /\ renewing'.until = e
      BY <1>0, <3>1, <3>2, <3>3
    <3> QED BY <2>1, <3>1, <3>2, <3>3, <3>4, <3>5 DEF PanelKeepsUp
  <2>3. CASE ~Alive(Sent)
    <3>1. ~(panel = "open" /\ hiccups = 0)
      BY <2>3, OpenIsAlive
    <3> QED BY <1>3, <1>6, <2>1, <2>3, <3>1 DEF HandleRenew, PanelKeepsUp
  <2> QED BY <2>2, <2>3
<1>7. CASE Logout
  <2>1. panel' = "login" /\ lost' = lost
    BY <1>7 DEF Logout
  <2>2. hiccups' = 0 => hiccups = 0 /\ shaky' = {}
    <3>1. CASE Alive(Sent) /\ Save([sessions EXCEPT ![Sent] = 0])
      <4>1. [sessions EXCEPT ![Sent] = 0] \in [Tokens -> Nat]
        BY <1>0
      <4> QED BY <1>2, <3>1, <4>1
    <3> QED BY <1>1, <1>3, <1>7, <3>1 DEF Logout
  <2> QED BY <2>1, <2>2 DEF PanelKeepsUp
<1>8. CASE RestartServer
  <2>1. hiccups' # 0 /\ verifying' = FALSE
    BY <1>1, <1>8 DEF RestartServer
  <2> QED BY <2>1 DEF PanelKeepsUp
<1>9. CASE LearnSession
  <2>1. UNCHANGED <<now, limiter, verifying, cookie, panel, renewing, promised, revoked, lost>> /\ panel = "open"
    BY <1>9 DEF LearnSession
  <2>2. CASE Alive(Sent) /\ dueAt' = RenewDueAt(sessions[Sent]) /\ learned' = "done"
             /\ UNCHANGED <<sessions, stored, shaky, hiccups>>
    <3>1. hiccups = 0 => dueAt' < cookie.until
      BY <1>0, <2>1, <2>2, OpenIsAlive, DueBeforeEnd DEF PanelKeepsUp
    <3> QED BY <2>1, <2>2, <3>1 DEF PanelKeepsUp
  <2>3. CASE ~Alive(Sent) /\ DropEnded(Sent)
    <3>1. hiccups # 0
      BY <2>1, <2>3, OpenIsAlive
    <3> QED BY <1>3, <2>1, <2>3, <3>1 DEF PanelKeepsUp
  <2>4. CASE Hiccup
    BY <1>1, <2>1, <2>4 DEF PanelKeepsUp
  <2> QED BY <1>9, <2>2, <2>3, <2>4 DEF LearnSession
<1>10. CASE TickRenews
  BY <1>10 DEF TickRenews, PanelKeepsUp, Unasked
<1>11. CASE LoseRenewal
  BY <1>1, <1>11 DEF LoseRenewal, PanelKeepsUp
<1>12. CASE RenewalAnswered
  <2>1. /\ dueAt' = (IF renewing.at = "renewed" THEN RenewDueAt(renewing.until) ELSE dueAt)
        /\ panel' = (IF renewing.at = "refused" THEN "login" ELSE panel)
        /\ learned' = (IF renewing.at = "refused" THEN "none" ELSE learned)
        /\ renewing'.at = "none"
        /\ renewing.at \in {"renewed", "refused", "failed"}
        /\ UNCHANGED <<now, verifying, cookie, promised, revoked, shaky, lost, hiccups>>
    BY <1>12 DEF RenewalAnswered, Unasked
  <2>2. panel = "open" /\ hiccups = 0 => renewing.at = "renewed" /\ RenewDueAt(renewing.until) < cookie.until
    BY <1>0, <2>1, DueBeforeEnd DEF PanelKeepsUp
  <2> QED BY <2>1, <2>2 DEF PanelKeepsUp
<1>13. CASE TimePasses
  <2>1. /\ now' = now + 1 /\ ~(panel = "open" /\ now >= dueAt) /\ learned # "asked" /\ renewing.at = "none"
        /\ UNCHANGED <<verifying, cookie, panel, learned, dueAt, renewing, promised, revoked, shaky, lost, hiccups>>
    BY <1>13 DEF TimePasses, TimerIsDue
  <2>2. panel = "open" /\ hiccups = 0 => now + 1 < cookie.until
    BY <1>0, <2>1 DEF PanelKeepsUp
  <2> QED BY <1>0, <2>1, <2>2 DEF PanelKeepsUp
<1> QED BY <1>4, <1>5, <1>6, <1>7, <1>8, <1>9, <1>10, <1>11, <1>12, <1>13 DEF LoNext

\* The invariant is what the property says.
LEMMA LoInvHolds == ASSUME LoInv PROVE LoginsHold
<1>1. ASSUME NEW t \in Tokens \ lost PROVE Alive(t) <=> (promised[t] > now /\ t \notin revoked)
  <2>1. now \in Nat /\ sessions[t] \in Nat /\ promised[t] \in Nat /\ t # 0
    BY DEF LoInv, LoTyped, Tokens
  <2> QED BY <2>1 DEF LoInv, StoreFits, Alive
<1> QED BY <1>1, OpenIsAlive DEF LoginsHold, LoInv

\* A session lives until the end it was given last, over restarts, and no longer, and one
\* that was logged out never lives again, unless a restart read it behind a failed write; and an open
\* panel keeps its session as long as nothing goes wrong (SessionStore, the handlers of
\* login, renewal and logout, and the panel's timer).
THEOREM LoginsAreHeld == LoSpec => []LoginsHold
<1>1. LoStart => LoInv
  <2> SUFFICES ASSUME LoStart PROVE LoInv
    OBVIOUS
  <2> USE LoginsAssumption
  <2>1. LoTyped
    <3>1. limiter \in [start : Int, count : Nat]
      BY DEF LoStart
    <3>2. sessions \in [Tokens -> Nat] /\ stored \in [Tokens -> Nat] /\ promised \in [Tokens -> Nat]
      BY DEF LoStart
    <3>3. now \in 0..MaxTime /\ dueAt \in Nat
      BY DEF LoStart, Never
    <3> QED BY <3>1, <3>2, <3>3 DEF LoStart, LoTyped, NoCookie, Unasked
  <2>2. IssuedInTurn
    <3>1. {t \in Tokens : promised[t] # 0} = 1..0
      BY DEF LoStart, Tokens
    <3> QED BY <3>1 DEF LoStart, IssuedInTurn
  <2>3. StoreFits /\ FileFits /\ PanelKeepsUp
    BY DEF LoStart, StoreFits, FileFits, PanelKeepsUp
  <2> QED BY <2>1, <2>2, <2>3 DEF LoInv
<1>2. ASSUME LoInv, [LoNext]_loVars PROVE LoInv'
  <2>1. CASE LoNext
    BY <1>2, <2>1, LoTypedStep, LoStoreStep, LoPanelStep DEF LoInv
  <2>2. CASE UNCHANGED loVars
    BY <1>2, <2>2 DEF loVars, LoInv, LoTyped, IssuedInTurn, NextToken, StoreFits, FileFits, PanelKeepsUp
  <2> QED BY <1>2, <2>1, <2>2
<1>3. LoInv => LoginsHold
  BY LoInvHolds
<1> QED BY <1>1, <1>2, <1>3, PTL DEF LoSpec

(***************************************************************************)
(* Channels.                                                               *)
(***************************************************************************)

Ids == PostIds \union LetterIds
Items == [id : Ids \union {0}, at : {"idle", "append", "push", "complete"}, part : 1..2]
ChTyped ==
  /\ channel \in [type : {"telegram", "slack"}, users : BOOLEAN, shipped : BOOLEAN]
  /\ posts \in Seq(PostKinds) /\ Len(posts) <= MaxPosts
  /\ letters \in Seq(LetterKinds) /\ Len(letters) <= MaxLetters
  /\ confirmed \in Nat /\ cursor \in Nat
  /\ batch \in Seq(PostIds) /\ inbox \in Seq(PostIds)
  /\ step \in {"poll", "take", "fetch", "route", "reply"}
  /\ outcome \in [PostIds -> {"none", "routed", "nothing", "refused", "unknown"}]
  /\ ran \in [PostIds -> Nat] /\ suppressed \subseteq PostIds
  /\ outbox \in Seq(Ids) /\ log \in Seq(Ids) /\ archive \subseteq Ids /\ shaken \subseteq PostIds \union LetterIds
  /\ egress \in Items
  /\ seen \in Seq(Ids \X (1..2))

\* The place from which the next poll reads on.
Offset == IF channel.type = "telegram" /\ confirmed > cursor THEN confirmed ELSE cursor

\* What was polled follows what was handled (telegram), or precedes the cursor (slack).
BatchFits ==
  /\ Offset <= Len(posts)
  /\ \A i \in 1..Len(batch) : batch[i] <= Len(posts)
  /\ channel.type = "telegram" => \A i \in 1..Len(batch) : batch[i] = Offset + i
  /\ step = "poll" <=> batch = <<>>
  /\ \A p \in 1..Offset : outcome[p] # "none" \/ p \in ToSet(batch)

\* What exists: an id names a post or a letter that was written.
Real(id) == IF id \in PostIds THEN channel.users /\ id <= Len(posts) ELSE id - MaxPosts \in 1..Len(letters)
IdsExist ==
  /\ \A i \in 1..Len(posts) : posts[i] = "own" => channel.users
  /\ \A id \in ToSet(outbox) \union ToSet(log) : Real(id)
  /\ egress.at = "idle" => egress = NoItem
  /\ egress.at # "idle" => egress.id \in Ids /\ Real(egress.id)
  /\ egress.at = "append" => channel.users
  /\ channel.users /\ egress.at \in {"push", "complete"} => egress.id \in ToSet(log)
  /\ \A i \in DOMAIN seen : Real(seen[i][1])

\* A post that ran, or that its user's history took, is remembered; what is remembered
\* ran or was shown.
RunFits ==
  /\ \A p \in PostIds \ shaken : ran[p] <= 1 /\ (ran[p] = 1 => p \in archive)
  /\ \A p \in PostIds \cap archive : ran[p] > 0 \/ p \in ToSet(log)
  /\ \A p \in PostIds : outcome[p] = "routed" =>
       \/ p \in ToSet(inbox) \union ToSet(outbox) \union ToSet(log) \union {egress.id}
       \/ ran[p] > 0

\* An operator's letters leave in order, each shown whole before it is archived and
\* before any part of the next.
Shown(a) == KindOf(a) = "other" \/ ShownWhole(a)
Written == MaxPosts + 1..MaxPosts + Len(letters)
PartFits ==
  /\ egress.at = "append" => egress.part = 1
  /\ egress.at = "push" /\ egress.part = 2 => Parts(egress.id) = 2 /\ PlacesOf(egress.id, 1) # {}
ShownInOrder == ~channel.users =>
  /\ \A i, j \in 1..Len(outbox) : i < j => outbox[i] < outbox[j]
  /\ \A i \in 1..Len(outbox) : egress.id < outbox[i]
  /\ \A a \in archive \cap LetterIds : a \in Written /\ Shown(a)
  /\ \A a \in Written : a \notin ToSet(outbox) /\ a # egress.id => Shown(a)
  /\ egress.at = "complete" => Shown(egress.id)
  /\ \A a, b \in Written : a < b /\ KindOf(a) # "other" =>
       \A i \in PlacesOf(b, 1) : \E j \in PlacesOf(a, Parts(a)) : j < i

\* A user's chat is told once of what the history took, and of a note only after a crash
\* or when its id was forgotten.
ToldOnce == channel.users =>
  /\ IsInjective(log) /\ IsInjective(seen)
  /\ \A i \in DOMAIN seen : seen[i][1] \in ToSet(log)
  /\ egress.at = "push" => PlacesOf(egress.id, egress.part) = {} /\ PlacesOf(egress.id, 2) = {}
  /\ \A i \in DOMAIN seen : seen[i][1] \in PostIds => seen[i][1] \in shaken
  /\ \A p \in PostIds \ shaken :
       (p \in ToSet(outbox) /\ p \notin ToSet(log)) \/ (egress.id = p /\ egress.at = "append" /\ p \notin ToSet(log))
         \/ (egress.id = p /\ egress.at = "push") => p \in suppressed

ChInv == ChTyped /\ BatchFits /\ IdsExist /\ RunFits /\ PartFits /\ ShownInOrder /\ ToldOnce

\* The operations on sequences, by what they do to the elements.
LEMMA AppendIs ==
  ASSUME NEW S, NEW s \in Seq(S), NEW x \in S
  PROVE  /\ Append(s, x) \in Seq(S) /\ Len(Append(s, x)) = Len(s) + 1 /\ Len(s) \in Nat
         /\ \A i \in 1..Len(s) : Append(s, x)[i] = s[i]
         /\ Append(s, x)[Len(s) + 1] = x
         /\ ToSet(Append(s, x)) = ToSet(s) \union {x}
<1>1. /\ Append(s, x) \in Seq(S) /\ Len(Append(s, x)) = Len(s) + 1 /\ Len(s) \in Nat
      /\ \A i \in 1..Len(s) : Append(s, x)[i] = s[i]
      /\ Append(s, x)[Len(s) + 1] = x
  OBVIOUS
<1>2. DOMAIN s = 1..Len(s) /\ DOMAIN Append(s, x) = 1..Len(s) + 1
  BY <1>1
<1>3. 1..Len(s) + 1 = 1..Len(s) \union {Len(s) + 1}
  BY <1>1
<1> DEFINE t == Append(s, x)
<1> HIDE DEF t
<1>4. DOMAIN t = DOMAIN s \union {Len(s) + 1} /\ (\A i \in DOMAIN s : t[i] = s[i]) /\ t[Len(s) + 1] = x
  BY <1>1, <1>2, <1>3 DEF t
<1>5. ToSet(t) = ToSet(s) \union {x}
  BY <1>4 DEF ToSet
<1> QED BY <1>1, <1>5 DEF t

\* The head and what is left.
LEMMA TailIs ==
  ASSUME NEW S, NEW s \in Seq(S), s # <<>>
  PROVE  /\ Tail(s) \in Seq(S) /\ Len(Tail(s)) = Len(s) - 1 /\ Len(s) \in Nat \ {0} /\ Head(s) \in S
         /\ Head(s) = s[1]
         /\ \A i \in 1..Len(s) - 1 : Tail(s)[i] = s[i + 1]
         /\ ToSet(s) = ToSet(Tail(s)) \union {Head(s)}
<1>1. /\ Tail(s) \in Seq(S) /\ Len(Tail(s)) = Len(s) - 1 /\ Len(s) \in Nat \ {0} /\ Head(s) \in S
      /\ Head(s) = s[1]
      /\ \A i \in 1..Len(s) - 1 : Tail(s)[i] = s[i + 1]
  OBVIOUS
<1>2. DOMAIN s = 1..Len(s) /\ DOMAIN Tail(s) = 1..Len(s) - 1
  BY <1>1
<1> DEFINE t == Tail(s)
           n == Len(s)
<1> HIDE DEF t, n
<1>3. /\ n \in Nat \ {0} /\ DOMAIN s = 1..n /\ DOMAIN t = 1..n - 1
      /\ \A i \in 1..n - 1 : t[i] = s[i + 1]
  BY <1>1, <1>2 DEF t, n
<1>4. ToSet(t) \subseteq ToSet(s)
  BY <1>3 DEF ToSet
<1>5. ASSUME NEW i \in 1..n PROVE s[i] \in ToSet(t) \union {s[1]}
  <2>1. CASE i = 1
    BY <2>1
  <2>2. CASE i # 1
    <3>1. i - 1 \in 1..n - 1 /\ t[i - 1] = s[i]
      BY <1>3, <2>2
    <3> QED BY <1>3, <3>1 DEF ToSet
  <2> QED BY <2>1, <2>2
<1>6. s[1] \in ToSet(s)
  BY <1>3 DEF ToSet
<1>7. ToSet(s) \subseteq ToSet(t) \union {s[1]}
  BY <1>3, <1>5 DEF ToSet
<1>8. ToSet(s) = ToSet(t) \union {s[1]}
  BY <1>4, <1>6, <1>7
<1> QED BY <1>1, <1>8 DEF t

\* What is left after the first n.
LEMMA RestIs ==
  ASSUME NEW S, NEW s \in Seq(S), NEW n \in 1..Len(s)
  PROVE  /\ SubSeq(s, n + 1, Len(s)) \in Seq(S) /\ Len(SubSeq(s, n + 1, Len(s))) = Len(s) - n
         /\ \A i \in 1..Len(s) - n : SubSeq(s, n + 1, Len(s))[i] = s[n + i]
         /\ \A x \in ToSet(s) : x \in ToSet(SubSeq(s, n + 1, Len(s))) \/ \E i \in 1..n : x = s[i]
         /\ ToSet(SubSeq(s, n + 1, Len(s))) \subseteq ToSet(s)
<1> DEFINE t == SubSeq(s, n + 1, Len(s))
           l == Len(s)
<1>1. l \in Nat /\ DOMAIN s = 1..l /\ n \in 1..l
  OBVIOUS
<1>2. /\ t \in Seq(S) /\ Len(t) = l - n
      /\ \A i \in 1..l - n : t[i] = s[n + i]
  OBVIOUS
<1> HIDE DEF t, l
<1>3. DOMAIN t = 1..l - n
  BY <1>1, <1>2
<1>4. ToSet(t) \subseteq ToSet(s)
  BY <1>1, <1>2, <1>3 DEF ToSet
<1>5. ASSUME NEW i \in 1..l PROVE s[i] \in ToSet(t) \/ \E j \in 1..n : s[i] = s[j]
  <2>1. CASE i \in 1..n
    BY <2>1
  <2>2. CASE i \notin 1..n
    <3>1. i - n \in 1..l - n /\ n + (i - n) = i
      BY <1>1, <2>2
    <3>2. t[i - n] = s[i]
      BY <1>2, <3>1
    <3> QED BY <1>3, <3>1, <3>2 DEF ToSet
  <2> QED BY <2>1, <2>2
<1>6. \A x \in ToSet(s) : x \in ToSet(t) \/ \E i \in 1..n : x = s[i]
  BY <1>1, <1>5 DEF ToSet
<1> QED BY <1>2, <1>4, <1>6 DEF t, l

How == {"none", "routed", "nothing", "refused", "unknown"}

\* A post of the batch exists, at the head of what is left.
LEMMA HeadOfBatch ==
  ASSUME ChTyped, BatchFits, step # "poll"
  PROVE  /\ batch # <<>> /\ Head(batch) \in PostIds /\ Head(batch) <= Len(posts) /\ Head(batch) = batch[1]
         /\ channel.type = "telegram" => Head(batch) = Offset + 1
         /\ Len(batch) \in Nat \ {0} /\ Offset \in Nat /\ Len(posts) \in Nat
<1>1. batch # <<>> /\ batch \in Seq(PostIds) /\ posts \in Seq(PostKinds)
  BY DEF BatchFits, ChTyped
<1>2. Offset \in Nat /\ Len(posts) \in Nat
  BY <1>1 DEF Offset, ChTyped
<1>3. Head(batch) \in PostIds /\ Head(batch) = batch[1] /\ Len(batch) \in Nat \ {0}
  BY <1>1, TailIs
<1>4. 1 \in 1..Len(batch)
  BY <1>3
<1> QED BY <1>1, <1>2, <1>3, <1>4 DEF BatchFits

\* What the end of one post does: the next one is at the head, and the telegram offset
\* moves past it (the bodies of the polling loops).
LEMMA EndedDoes ==
  ASSUME ChTyped, BatchFits, step # "poll", NEW how \in How, Ended(Head(batch), how),
         UNCHANGED <<channel, posts, confirmed>>
  PROVE  /\ batch' \in Seq(PostIds) /\ cursor' \in Nat /\ step' \in {"poll", "take"}
         /\ outcome' \in [PostIds -> How]
         /\ \A q \in PostIds : outcome'[q] = IF q = Head(batch) THEN how ELSE outcome[q]
         /\ how # "none" => BatchFits'
<1> DEFINE p == Head(batch)
           n == Len(batch)
<1>1. /\ batch # <<>> /\ p \in PostIds /\ p <= Len(posts) /\ Offset \in Nat /\ n \in Nat \ {0}
      /\ channel.type = "telegram" => p = Offset + 1
      /\ Len(posts) \in Nat
  BY HeadOfBatch
<1>2. /\ batch' = Tail(batch) /\ cursor' = (IF channel.type = "telegram" THEN p ELSE cursor)
      /\ step' = (IF n = 1 THEN "poll" ELSE "take")
      /\ outcome' = [outcome EXCEPT ![p] = how]
  BY DEF Ended, Advanced
<1>3. /\ Tail(batch) \in Seq(PostIds) /\ Len(Tail(batch)) = n - 1
      /\ \A i \in 1..n - 1 : Tail(batch)[i] = batch[i + 1]
      /\ ToSet(batch) = ToSet(Tail(batch)) \union {p}
  BY <1>1, TailIs DEF ChTyped
<1>4. outcome \in [PostIds -> How] /\ cursor \in Nat /\ confirmed \in Nat /\ PostIds \subseteq Nat
  BY DEF ChTyped, How, PostIds
<1> HIDE DEF p, n
<1>5. /\ outcome' \in [PostIds -> How]
      /\ \A q \in PostIds : outcome'[q] = IF q = p THEN how ELSE outcome[q]
  BY <1>1, <1>2, <1>4
<1>6. cursor' \in Nat
  BY <1>1, <1>2, <1>4
<1>7. ASSUME how # "none" PROVE BatchFits'
  <2>1. Offset' = IF channel.type = "telegram" THEN Offset + 1 ELSE Offset
    <3>1. CASE channel.type = "telegram"
      <4>1. p > cursor /\ p > confirmed /\ p = Offset + 1
        BY <1>1, <1>4, <3>1 DEF Offset
      <4>2. Offset' = IF confirmed > p THEN confirmed ELSE p
        BY <1>2, <3>1 DEF Offset
      <4> QED BY <1>4, <3>1, <4>1, <4>2
    <3>2. CASE channel.type # "telegram"
      BY <1>2, <3>2 DEF Offset
    <3> QED BY <3>1, <3>2
  <2>2. Offset' <= Len(posts)'
    BY <1>1, <2>1 DEF BatchFits
  <2>3. Len(batch') = n - 1 /\ \A i \in 1..n - 1 : batch'[i] = batch[i + 1] /\ i + 1 \in 1..n
    BY <1>1, <1>2, <1>3
  <2>4. \A i \in 1..Len(batch') : batch'[i] <= Len(posts)'
    BY <2>3 DEF BatchFits, n
  <2>5. channel'.type = "telegram" => \A i \in 1..Len(batch') : batch'[i] = Offset' + i
    <3>1. CASE channel.type = "telegram"
      <4>1. \A i \in 1..n - 1 : batch[i + 1] = Offset + (i + 1)
        BY <2>3, <3>1 DEF BatchFits, n
      <4> QED BY <1>1, <2>1, <2>3, <3>1, <4>1
    <3> QED BY <3>1
  <2>6. step' = "poll" <=> batch' = <<>>
    <3>1. batch' = <<>> <=> Len(batch') = 0
      <4>1. \A s \in Seq(PostIds) : s = <<>> <=> Len(s) = 0
        OBVIOUS
      <4>2. batch' \in Seq(PostIds)
        BY <1>2, <1>3
      <4> QED BY <4>1, <4>2
    <3>2. Len(batch') = n - 1 /\ n \in Nat \ {0}
      BY <1>1, <1>2, <1>3
    <3> QED BY <1>2, <3>1, <3>2
  <2>7. ASSUME NEW q \in 1..Offset' PROVE outcome'[q] # "none" \/ q \in ToSet(batch')
    <3>1. q \in PostIds
      <4>1. Len(posts) <= MaxPosts /\ MaxPosts \in Nat
        BY ChannelsAssumption DEF ChTyped
      <4> QED BY <1>1, <2>1, <2>2, <4>1 DEF PostIds
    <3>2. CASE q = p
      BY <1>5, <1>7, <3>1, <3>2
    <3>3. CASE q # p
      <4>1. q \in 1..Offset
        BY <1>1, <2>1, <3>3
      <4>2. outcome[q] # "none" \/ q \in ToSet(batch)
        BY <4>1 DEF BatchFits
      <4> QED BY <1>2, <1>3, <1>5, <3>1, <3>3, <4>2
    <3> QED BY <3>2, <3>3
  <2> QED BY <2>2, <2>4, <2>5, <2>6, <2>7 DEF BatchFits
<1> QED BY <1>2, <1>3, <1>5, <1>6, <1>7 DEF p, n

\* What becomes of the item that the egress holds.
LEMMA ItemsAre ==
  /\ NoItem \in Items
  /\ \A e \in Items : /\ e.id \in Ids \union {0} /\ e.at \in {"idle", "append", "push", "complete"} /\ e.part \in 1..2
                      /\ \A at \in {"append", "push", "complete"} : [e EXCEPT !.at = at] \in Items
                      /\ \A k \in 1..2 : [e EXCEPT !.part = k] \in Items
                      /\ \A at \in {"append", "push"} : [e EXCEPT !.at = at, !.part = 1] \in Items
  /\ \A i \in Ids, at \in {"append", "push"} : [id |-> i, at |-> at, part |-> 1] \in Items
<1>1. NoItem \in Items
  BY DEF Items, NoItem
<1>2. \A i \in Ids, at \in {"append", "push"} : [id |-> i, at |-> at, part |-> 1] \in Items
  BY DEF Items
<1>3. ASSUME NEW e \in Items
      PROVE  /\ e.id \in Ids \union {0} /\ e.at \in {"idle", "append", "push", "complete"} /\ e.part \in 1..2
             /\ \A at \in {"append", "push", "complete"} : [e EXCEPT !.at = at] \in Items
             /\ \A k \in 1..2 : [e EXCEPT !.part = k] \in Items
             /\ \A at \in {"append", "push"} : [e EXCEPT !.at = at, !.part = 1] \in Items
  <2>1. e.id \in Ids \union {0} /\ e.at \in {"idle", "append", "push", "complete"} /\ e.part \in 1..2
    BY DEF Items
  <2>2. \A at \in {"append", "push", "complete"} : [e EXCEPT !.at = at] \in Items
    BY DEF Items
  <2>3. \A k \in 1..2 : [e EXCEPT !.part = k] \in Items
    BY DEF Items
  <2>4. ASSUME NEW at \in {"append", "push"} PROVE [e EXCEPT !.at = at, !.part = 1] \in Items
    <3>1. 1 \in 1..2
      OBVIOUS
    <3> QED BY <3>1 DEF Items
  <2> QED BY <2>1, <2>2, <2>3, <2>4
<1> QED BY <1>1, <1>2, <1>3

\* Every step of the people, of the polling loop and of the egress keeps the types.
LEMMA ChTypedStep ==
  ASSUME ChTyped, BatchFits, IdsExist, ChNext
  PROVE  ChTyped'
<1> USE ChannelsAssumption DEF ChTyped
<1>0. /\ PostIds \subseteq Nat /\ PostIds \subseteq Ids /\ LetterIds \subseteq Ids
      /\ Len(posts) \in Nat /\ Len(letters) \in Nat /\ MaxPosts \in Nat /\ MaxLetters \in Nat
  <2>1. PostIds \subseteq Nat /\ PostIds \subseteq Ids /\ LetterIds \subseteq Ids /\ MaxPosts \in Nat /\ MaxLetters \in Nat
    BY DEF PostIds, LetterIds, Ids
  <2>2. Len(posts) \in Nat /\ Len(letters) \in Nat
    OBVIOUS
  <2> QED BY <2>1, <2>2
<1>1. ASSUME NEW kind \in PostKinds, Say(kind) PROVE ChTyped'
  <2>1. posts' \in Seq(PostKinds) /\ Len(posts') <= MaxPosts
    BY <1>0, <1>1, AppendIs DEF Say
  <2> QED BY <1>1, <2>1 DEF Say
<1>2. ASSUME NEW kind \in LetterKinds, Write(kind) PROVE ChTyped'
  <2>1. letters' \in Seq(LetterKinds) /\ Len(letters') <= MaxLetters
    BY <1>0, <1>2, AppendIs DEF Write
  <2>2. MaxPosts + Len(letters) + 1 \in Ids
    BY <1>0, <1>2 DEF Write, LetterIds, Ids
  <2>3. outbox' \in Seq(Ids)
    BY <1>2, <2>2, AppendIs DEF Write
  <2> QED BY <1>2, <2>1, <2>3 DEF Write
<1>3. CASE RunPost
  <2>1. Tail(inbox) \in Seq(PostIds) /\ Head(inbox) \in PostIds
    BY <1>3, TailIs DEF RunPost
  <2>2. ran' \in [PostIds -> Nat]
    <3>1. PICK h \in PostIds : h = Head(inbox)
      BY <2>1
    <3>2. ran[h] + 1 \in Nat /\ [ran EXCEPT ![h] = @ + 1] \in [PostIds -> Nat]
      OBVIOUS
    <3>3. ran' = ran \/ ran' = [ran EXCEPT ![h] = @ + 1]
      BY <1>3, <3>1 DEF RunPost
    <3> QED BY <3>2, <3>3
  <2>3. archive' \subseteq Ids
    BY <1>0, <1>3, <2>1 DEF RunPost
  <2> QED BY <1>3, <2>1, <2>2, <2>3 DEF RunPost
<1>4. CASE ForgetId
  <2>1. archive' \subseteq Ids /\ shaken' \subseteq PostIds \union LetterIds
    BY <1>4 DEF ForgetId, Ids
  <2> QED BY <1>4, <2>1 DEF ForgetId
<1>5. CASE Poll
  <2>1. step' = "take" /\ confirmed' \in {Offset, confirmed} /\ cursor' \in {Len(posts), cursor} /\ batch' = From(Offset)
        /\ Offset < Len(posts)
    BY <1>5 DEF Poll, Offset
  <2>2. Offset \in Nat
    BY DEF Offset
  <2>3. From(Offset) \in Seq(PostIds)
    <3> DEFINE n == Len(posts) - Offset
               o == Offset
    <3>1. n \in Nat /\ o \in Nat /\ n + o <= MaxPosts
      BY <1>0, <2>1, <2>2
    <3> HIDE DEF n, o
    <3>2. \A i \in 1..n : o + i \in PostIds
      BY <3>1 DEF PostIds
    <3>3. [i \in 1..n |-> o + i] \in Seq(PostIds)
      BY <3>1, <3>2
    <3> QED BY <3>3 DEF From, n, o
  <2> QED BY <1>0, <1>5, <2>1, <2>2, <2>3 DEF Poll
<1>6. CASE TakePost
  <2>1. step # "poll" /\ Head(batch) \in PostIds
    BY <1>6, HeadOfBatch DEF TakePost
  <2>2. UNCHANGED <<channel, posts, confirmed, inbox, ran, archive, suppressed, letters, outbox,
                    egress, log, seen, shaken, mishaps>>
    BY <1>6 DEF TakePost
  <2>3. /\ batch' \in Seq(PostIds) /\ cursor' \in Nat /\ step' \in {"poll", "take", "fetch", "route", "reply"}
        /\ outcome' \in [PostIds -> How]
    <3>1. CASE Ended(Head(batch), "nothing")
      BY <2>1, <2>2, <3>1, EndedDoes DEF How
    <3>2. CASE ~Ended(Head(batch), "nothing")
      BY <1>6, <2>1, <3>2 DEF TakePost, How
    <3> QED BY <3>1, <3>2
  <2> QED BY <2>2, <2>3 DEF How
<1>7. CASE FetchMedia
  BY <1>7 DEF FetchMedia
<1>8. CASE RoutePost
  <2>1. step # "poll" /\ Head(batch) \in PostIds
    BY <1>8, HeadOfBatch DEF RoutePost
  <2>2. UNCHANGED <<channel, posts, confirmed, ran, archive, chatKnown, letters, egress, log, seen, shaken>>
    BY <1>8 DEF RoutePost
  <2>3. CASE Ended(Head(batch), "routed")
    <3>1. /\ batch' \in Seq(PostIds) /\ cursor' \in Nat /\ step' \in {"poll", "take"}
          /\ outcome' \in [PostIds -> How]
      BY <2>1, <2>2, <2>3, EndedDoes DEF How
    <3>2. /\ inbox' \in {inbox, Append(inbox, Head(batch))} /\ outbox' \in {outbox, Append(outbox, Head(batch))}
          /\ suppressed' \subseteq suppressed \union {Head(batch)}
      BY <1>8, <2>3 DEF RoutePost
    <3>3. inbox' \in Seq(PostIds)
      <4>1. inbox \in Seq(PostIds) /\ Append(inbox, Head(batch)) \in Seq(PostIds)
        BY <2>1, AppendIs
      <4> QED BY <3>2, <4>1
    <3>4. outbox' \in Seq(Ids)
      <4>1. outbox \in Seq(Ids) /\ Append(outbox, Head(batch)) \in Seq(Ids)
        BY <1>0, <2>1, AppendIs
      <4> QED BY <3>2, <4>1
    <3> QED BY <2>1, <2>2, <3>1, <3>2, <3>3, <3>4 DEF How
  <2>4. CASE UNCHANGED <<batch, cursor, outcome, inbox, outbox, suppressed>> /\ step' = "reply"
    BY <2>2, <2>4
  <2> QED BY <1>8, <2>3, <2>4 DEF RoutePost
<1>9. CASE Reply
  <2>1. step # "poll" /\ (IF outcome[Head(batch)] = "unknown" THEN "unknown" ELSE "refused") \in How
        /\ Ended(Head(batch), IF outcome[Head(batch)] = "unknown" THEN "unknown" ELSE "refused")
        /\ UNCHANGED <<channel, posts, confirmed, inbox, ran, archive, chatKnown, suppressed, letters,
                 outbox, egress, log, seen, shaken, mishaps>>
    BY <1>9 DEF Reply, How
  <2>2. /\ batch' \in Seq(PostIds) /\ cursor' \in Nat /\ step' \in {"poll", "take"}
        /\ outcome' \in [PostIds -> How]
    BY <2>1, EndedDoes
  <2> QED BY <2>1, <2>2 DEF How
<1>10. CASE TakeLetter
  <2>1. PICK n \in 1..Len(outbox) :
          /\ outbox' = SubSeq(outbox, n + 1, Len(outbox))
          /\ egress' \in {egress, [id |-> outbox[n], at |-> IF channel.users THEN "append" ELSE "push", part |-> 1]}
    BY <1>10 DEF TakeLetter
  <2>2. outbox[n] \in Ids /\ outbox' \in Seq(Ids)
    <3>1. outbox \in Seq(Ids) /\ n \in 1..Len(outbox)
      OBVIOUS
    <3>2. SubSeq(outbox, n + 1, Len(outbox)) \in Seq(Ids)
      BY <3>1, RestIs
    <3>3. outbox[n] \in Ids
      BY <3>1
    <3> QED BY <2>1, <3>2, <3>3
  <2>3. egress' \in Items
    BY <2>1, <2>2, ItemsAre
  <2> QED BY <1>10, <2>2, <2>3 DEF TakeLetter
<1>11. CASE AppendLog
  <2>1. egress.id \in Ids
    BY <1>11 DEF AppendLog, IdsExist
  <2>2. log' \in Seq(Ids)
    <3>1. log \in Seq(Ids) /\ Append(log, egress.id) \in Seq(Ids)
      BY <2>1, AppendIs
    <3> QED BY <1>11, <3>1 DEF AppendLog
  <2>3. egress' \in Items
    BY <1>11, ItemsAre DEF AppendLog
  <2> QED BY <1>11, <2>2, <2>3 DEF AppendLog
<1>12. CASE PushPart
  <2>1. egress.id \in Ids
    BY <1>12 DEF PushPart, IdsExist
  <2>2. seen' \in Seq(Ids \X (1..2))
    <3>1. seen' \in {seen, Append(seen, <<egress.id, egress.part>>)}
      BY <1>12 DEF PushPart
    <3>2. <<egress.id, egress.part>> \in Ids \X (1..2)
      BY <2>1, ItemsAre
    <3>3. seen \in Seq(Ids \X (1..2)) /\ Append(seen, <<egress.id, egress.part>>) \in Seq(Ids \X (1..2))
      BY <3>2, AppendIs
    <3> QED BY <3>1, <3>3
  <2>3. egress' \in Items
    <3>1. egress' \in {[egress EXCEPT !.at = "complete"], [egress EXCEPT !.part = 1], [egress EXCEPT !.part = 2]}
      BY <1>12 DEF PushPart
    <3>2. egress \in Items /\ 1 \in 1..2 /\ 2 \in 1..2
      OBVIOUS
    <3>3. [egress EXCEPT !.at = "complete"] \in Items
      BY <3>2, ItemsAre, Zenon
    <3>4. [egress EXCEPT !.part = 1] \in Items /\ [egress EXCEPT !.part = 2] \in Items
      BY <3>2, ItemsAre, Zenon
    <3> QED BY <3>1, <3>3, <3>4
  <2>4. suppressed' \subseteq PostIds
    BY <1>12 DEF PushPart
  <2> QED BY <1>12, <2>2, <2>3, <2>4 DEF PushPart
<1>13. CASE Complete
  <2>1. egress.id \in Ids
    BY <1>13 DEF Complete, IdsExist
  <2> QED BY <1>13, <2>1, ItemsAre DEF Complete
<1>14. CASE ChCrash
  <2>1. egress' \in Items
    <3> DEFINE at == IF channel.users THEN "append" ELSE "push"
    <3>1. at \in {"append", "push"}
      OBVIOUS
    <3>2. egress' = NoItem \/ egress' = [egress EXCEPT !.at = at, !.part = 1]
      BY <1>14 DEF ChCrash
    <3> HIDE DEF at
    <3>3. egress \in Items
      OBVIOUS
    <3>4. [egress EXCEPT !.at = at, !.part = 1] \in Items
      BY <3>1, <3>3, ItemsAre, Zenon
    <3> QED BY <3>2, <3>4, ItemsAre
  <2>2. batch' \in Seq(PostIds) /\ shaken' \subseteq PostIds \union LetterIds
    BY <1>14 DEF ChCrash
  <2> QED BY <1>14, <2>1, <2>2 DEF ChCrash
<1> QED BY <1>1, <1>2, <1>3, <1>4, <1>5, <1>6, <1>7, <1>8, <1>9, <1>10, <1>11, <1>12, <1>13, <1>14 DEF ChNext

\* Every step keeps what was polled in its place: no post is passed over.
LEMMA BatchFitsStep ==
  ASSUME ChTyped, BatchFits, ChNext
  PROVE  BatchFits'
<1>0. Offset \in Nat /\ Len(posts) \in Nat /\ confirmed \in Nat /\ cursor \in Nat
  BY DEF ChTyped, Offset
<1>1. ASSUME UNCHANGED <<channel, confirmed, cursor, batch, outcome>>, step' # "poll" <=> step # "poll",
             Len(posts') >= Len(posts), Len(posts') \in Nat
      PROVE  BatchFits'
  <2>1. Offset' = Offset
    BY <1>1 DEF Offset
  <2>2. \A i \in 1..Len(batch) : batch[i] \in Nat /\ batch[i] <= Len(posts')
    <3>1. \A i \in 1..Len(batch) : batch[i] \in PostIds
      BY DEF ChTyped
    <3>2. PostIds \subseteq Nat
      BY DEF PostIds
    <3>3. \A i \in 1..Len(batch) : batch[i] <= Len(posts)
      BY DEF BatchFits
    <3>4. \A k \in Nat : k <= Len(posts) => k <= Len(posts')
      BY <1>0, <1>1
    <3> QED BY <3>1, <3>2, <3>3, <3>4
  <2> QED BY <1>0, <1>1, <2>1, <2>2 DEF BatchFits
<1>2. UNCHANGED <<channel, posts, confirmed, cursor, batch, step, outcome>> => BatchFits'
  BY <1>0, <1>1
<1>3. ASSUME NEW kind \in PostKinds, Say(kind) PROVE BatchFits'
  <2>1. Len(posts') = Len(posts) + 1
    BY <1>3, AppendIs DEF Say, ChTyped
  <2>2. UNCHANGED <<channel, confirmed, cursor, batch, outcome, step>>
    BY <1>3 DEF Say
  <2> QED BY <1>0, <1>1, <2>1, <2>2
<1>4. CASE Poll
  <2>1. /\ Offset < Len(posts) /\ batch' = From(Offset) /\ step' = "take"
        /\ confirmed' = (IF channel.type = "telegram" THEN Offset ELSE confirmed)
        /\ cursor' = (IF channel.type = "slack" THEN Len(posts) ELSE cursor)
        /\ UNCHANGED <<channel, posts, outcome>> /\ batch = <<>>
    BY <1>4 DEF Poll, Offset, BatchFits
  <2> DEFINE n == Len(posts)
             o == Offset
  <2>2. n \in Nat /\ o \in Nat /\ o < n
    BY <1>0, <2>1
  <2>3. channel.type \in {"telegram", "slack"}
    BY DEF ChTyped
  <2>4. Offset' = IF channel.type = "telegram" THEN o ELSE n
    BY <1>0, <2>1, <2>3 DEF Offset
  <2> HIDE DEF o
  <2>5. batch' = [i \in 1..n - o |-> o + i]
    BY <2>1 DEF From, o
  <2> HIDE DEF n
  <2>6. Len(batch') = n - o /\ (\A i \in 1..n - o : batch'[i] = o + i) /\ batch' # <<>>
    <3>1. [i \in 1..n - o |-> o + i] \in Seq(Nat) /\ n - o \in Nat /\ n - o # 0
      BY <2>2
    <3> QED BY <2>5, <3>1
  <2>7. ASSUME NEW q \in 1..Offset' PROVE outcome'[q] # "none" \/ q \in ToSet(batch')
    <3>1. CASE q <= o
      <4>1. q \in 1..Offset
        BY <2>2, <2>4, <3>1 DEF o
      <4>2. q \notin ToSet(batch)
        BY <2>1 DEF ToSet
      <4> QED BY <2>1, <4>1, <4>2 DEF BatchFits
    <3>2. CASE ~(q <= o)
      <4>1. q - o \in 1..n - o /\ o + (q - o) = q
        BY <2>2, <2>4, <3>2
      <4>2. DOMAIN batch' = 1..n - o
        BY <2>5
      <4>3. batch'[q - o] = q
        BY <2>6, <4>1
      <4> QED BY <4>1, <4>2, <4>3 DEF ToSet
    <3> QED BY <3>1, <3>2
  <2>8. Offset' <= Len(posts') /\ \A i \in 1..Len(batch') : batch'[i] <= Len(posts')
    BY <2>1, <2>2, <2>4, <2>6 DEF n
  <2> QED BY <2>1, <2>4, <2>6, <2>7, <2>8 DEF BatchFits
<1>5. CASE TakePost
  <2>1. step # "poll" /\ UNCHANGED <<channel, posts, confirmed>>
    BY <1>5 DEF TakePost
  <2>2. CASE Ended(Head(batch), "nothing")
    BY <2>1, <2>2, EndedDoes DEF How
  <2>3. CASE ~Ended(Head(batch), "nothing")
    <3>1. step' # "poll" /\ UNCHANGED <<batch, cursor>> /\ outcome' \in {outcome, [outcome EXCEPT ![Head(batch)] = "unknown"]}
      BY <1>5, <2>3 DEF TakePost
    <3>2. Offset' = Offset
      BY <2>1, <3>1 DEF Offset
    <3>3. \A q \in 1..Offset : outcome[q] # "none" => outcome'[q] # "none"
      <4>1. \A q \in 1..Offset : q \in PostIds
        BY <1>0, ChannelsAssumption DEF BatchFits, ChTyped, PostIds
      <4> QED BY <3>1, <4>1 DEF ChTyped
    <3> QED BY <2>1, <3>1, <3>2, <3>3 DEF BatchFits
  <2> QED BY <2>2, <2>3
<1>6. CASE FetchMedia
  <2>1. step # "poll" /\ step' # "poll" /\ UNCHANGED <<channel, posts, confirmed, cursor, batch, outcome>>
    BY <1>6 DEF FetchMedia
  <2> QED BY <1>0, <1>1, <2>1
<1>7. CASE RoutePost
  <2>1. step # "poll" /\ UNCHANGED <<channel, posts, confirmed>>
    BY <1>7 DEF RoutePost
  <2>2. CASE Ended(Head(batch), "routed")
    BY <2>1, <2>2, EndedDoes DEF How
  <2>3. CASE step' = "reply" /\ UNCHANGED <<batch, cursor, outcome>>
    BY <1>0, <1>1, <2>1, <2>3
  <2> QED BY <1>7, <2>2, <2>3 DEF RoutePost
<1>8. CASE Reply
  <2>1. step # "poll" /\ (IF outcome[Head(batch)] = "unknown" THEN "unknown" ELSE "refused") \in How \ {"none"}
        /\ Ended(Head(batch), IF outcome[Head(batch)] = "unknown" THEN "unknown" ELSE "refused")
        /\ UNCHANGED <<channel, posts, confirmed>>
    BY <1>8 DEF Reply, How
  <2> QED BY <2>1, EndedDoes
<1>9. CASE ChCrash
  <2>1. /\ cursor' = 0 /\ batch' = <<>> /\ step' = "poll" /\ UNCHANGED <<channel, posts, confirmed, outcome>>
    BY <1>9 DEF ChCrash
  <2>2. Offset' <= Offset /\ Offset' \in Nat
    BY <1>0, <2>1 DEF Offset
  <2>3. ASSUME NEW q \in 1..Offset' PROVE outcome'[q] # "none"
    <3>1. q \in 1..Offset
      BY <1>0, <2>2
    <3>2. CASE channel.type = "telegram"
      <4>1. \A i \in 1..Len(batch) : batch[i] = Offset + i
        BY <3>2 DEF BatchFits
      <4>2. DOMAIN batch = 1..Len(batch) /\ Len(batch) \in Nat
        BY DEF ChTyped
      <4>3. q \notin ToSet(batch)
        BY <1>0, <3>1, <4>1, <4>2 DEF ToSet
      <4> QED BY <2>1, <3>1, <4>3 DEF BatchFits
    <3>3. CASE channel.type # "telegram"
      <4>1. Offset' = 0
        BY <2>1, <3>3 DEF Offset
      <4> QED BY <4>1
    <3> QED BY <3>2, <3>3
  <2>4. Len(batch') = 0 /\ Offset' <= Len(posts')
    BY <1>0, <2>1, <2>2 DEF BatchFits
  <2> QED BY <2>1, <2>3, <2>4 DEF BatchFits
<1>10. CASE (\E kind \in LetterKinds : Write(kind)) \/ RunPost \/ ForgetId
  BY <1>2, <1>10 DEF Write, RunPost, ForgetId
<1>11. CASE TakeLetter \/ AppendLog \/ PushPart \/ Complete
  BY <1>2, <1>11 DEF TakeLetter, AppendLog, PushPart, Complete
<1> QED BY <1>3, <1>4, <1>5, <1>6, <1>7, <1>8, <1>9, <1>10, <1>11 DEF ChNext

\* What exists keeps existing: posts and letters are only added.
LEMMA RealStays ==
  ASSUME ChTyped, channel' = channel, Len(posts') >= Len(posts), Len(posts') \in Nat,
         Len(letters') >= Len(letters), Len(letters') \in Nat
  PROVE  \A id \in Ids : Real(id) => Real(id)'
<1>1. Len(posts) \in Nat /\ Len(letters) \in Nat /\ MaxPosts \in Nat
  BY ChannelsAssumption DEF ChTyped
<1>2. Ids \subseteq Nat
  BY ChannelsAssumption DEF Ids, PostIds, LetterIds
<1> QED BY <1>1, <1>2 DEF Real

\* Every step keeps the ids that lie in the queue, in the history and in the chat those
\* of what was posted or written, and a user's egress behind its history.
LEMMA IdsExistStep ==
  ASSUME ChTyped, BatchFits, IdsExist, ChNext
  PROVE  IdsExist'
<1>0. /\ posts \in Seq(PostKinds) /\ letters \in Seq(LetterKinds) /\ outbox \in Seq(Ids) /\ log \in Seq(Ids)
      /\ seen \in Seq(Ids \X (1..2)) /\ egress \in Items
      /\ Len(posts) \in Nat /\ Len(letters) \in Nat /\ Len(seen) \in Nat
      /\ PostIds \subseteq Ids /\ MaxPosts \in Nat
  BY ChannelsAssumption DEF ChTyped, Ids
<1>1. ToSet(outbox) \union ToSet(log) \subseteq Ids /\ \A i \in DOMAIN seen : seen[i][1] \in Ids
  BY <1>0 DEF ToSet
<1>2. UNCHANGED <<channel, posts, letters, outbox, egress, log, seen>> => IdsExist'
  BY DEF IdsExist, Real
<1>3. ASSUME UNCHANGED <<channel, posts, letters>>
      PROVE \A id : Real(id)' <=> Real(id)
  BY <1>3 DEF Real
<1>4. ASSUME NEW kind \in PostKinds, Say(kind) PROVE IdsExist'
  <2>1. /\ Len(posts') = Len(posts) + 1 /\ posts'[Len(posts) + 1] = kind
        /\ \A i \in 1..Len(posts) : posts'[i] = posts[i]
    BY <1>0, <1>4, AppendIs DEF Say
  <2>2. kind = "own" => channel.users
    BY <1>4 DEF Say
  <2>3. \A i \in 1..Len(posts') : posts'[i] = "own" => channel.users
    <3>1. \A i \in 1..Len(posts') : i \in 1..Len(posts) \/ i = Len(posts) + 1
      <4>1. \A n \in Nat : \A i \in 1..n + 1 : i \in 1..n \/ i = n + 1
        OBVIOUS
      <4> QED BY <1>0, <2>1, <4>1
    <3>2. \A i \in 1..Len(posts) : posts[i] = "own" => channel.users
      BY DEF IdsExist
    <3> QED BY <2>1, <2>2, <3>1, <3>2
  <2>4. UNCHANGED <<channel, letters, outbox, egress, log, seen>>
    BY <1>4 DEF Say
  <2>5. \A id \in Ids : Real(id) => Real(id)'
    BY <1>0, <2>1, <2>4, RealStays
  <2> QED BY <1>1, <2>3, <2>4, <2>5 DEF IdsExist
<1>5. ASSUME NEW kind \in LetterKinds, Write(kind) PROVE IdsExist'
  <2>0. PICK id \in Nat : id = MaxPosts + Len(letters) + 1
    BY <1>0
  <2>1. /\ Len(letters') = Len(letters) + 1 /\ UNCHANGED <<channel, posts, egress, log, seen>>
        /\ outbox' = Append(outbox, id) /\ Len(letters) < MaxLetters
    BY <1>0, <1>5, <2>0, AppendIs DEF Write
  <2>2. id \in Ids /\ id \notin PostIds /\ id - MaxPosts \in 1..Len(letters')
    BY <1>0, <2>0, <2>1, ChannelsAssumption DEF Ids, LetterIds, PostIds
  <2>3. ToSet(outbox') = ToSet(outbox) \union {id}
    BY <1>0, <2>1, <2>2, AppendIs
  <2>4. Real(id)'
    BY <2>2 DEF Real
  <2>5. \A i \in Ids : Real(i) => Real(i)'
    BY <1>0, <2>1, RealStays
  <2> QED BY <1>1, <2>1, <2>3, <2>4, <2>5 DEF IdsExist
<1>6. CASE RoutePost
  <2>1. step # "poll" /\ UNCHANGED <<channel, posts, letters, egress, log, seen>>
    BY <1>6 DEF RoutePost
  <2>2. CASE outbox' = outbox
    BY <1>2, <2>1, <2>2
  <2>3. CASE outbox' # outbox
    <3> DEFINE p == Head(batch)
    <3>1. posts[p] = "own" /\ outbox' = Append(outbox, p)
      BY <1>6, <2>3 DEF RoutePost
    <3>2. p \in PostIds /\ p <= Len(posts) /\ PostIds \subseteq Nat \ {0}
      BY <2>1, HeadOfBatch DEF PostIds
    <3> HIDE DEF p
    <3>3. p \in 1..Len(posts)
      <4>1. p \in Nat /\ p # 0 /\ p <= Len(posts)
        BY <3>2
      <4> QED BY <1>0, <4>1
    <3>4. Real(p)
      BY <3>1, <3>2, <3>3 DEF IdsExist, Real
    <3>5. ToSet(outbox') = ToSet(outbox) \union {p}
      BY <1>0, <3>1, <3>2, AppendIs
    <3> QED BY <1>3, <2>1, <3>4, <3>5 DEF IdsExist
  <2> QED BY <2>2, <2>3
<1>7. CASE TakeLetter
  <2>1. PICK n \in 1..Len(outbox) :
          /\ outbox' = SubSeq(outbox, n + 1, Len(outbox))
          /\ IF outbox[n] \in archive THEN UNCHANGED egress
             ELSE egress' = [id |-> outbox[n], at |-> IF channel.users THEN "append" ELSE "push", part |-> 1]
    BY <1>7 DEF TakeLetter
  <2>2. outbox[n] \in ToSet(outbox) /\ ToSet(outbox') \subseteq ToSet(outbox)
    BY <1>0, <2>1, RestIs DEF ToSet
  <2>3. UNCHANGED <<channel, posts, letters, log, seen>>
    BY <1>7 DEF TakeLetter
  <2>4. outbox[n] \in Ids /\ Real(outbox[n])
    BY <1>1, <2>2 DEF IdsExist
  <2>5. CASE UNCHANGED egress
    BY <1>3, <2>2, <2>3, <2>5 DEF IdsExist
  <2>6. CASE egress' = [id |-> outbox[n], at |-> IF channel.users THEN "append" ELSE "push", part |-> 1]
    <3>1. /\ egress'.id = outbox[n] /\ egress'.at = (IF channel.users THEN "append" ELSE "push")
      BY <2>6
    <3> QED BY <1>3, <2>2, <2>3, <2>4, <3>1 DEF IdsExist
  <2> QED BY <2>1, <2>5, <2>6
<1>8. CASE AppendLog
  <2>1. egress.at = "append" /\ egress.id \in Ids /\ Real(egress.id) /\ channel.users
    BY <1>8 DEF AppendLog, IdsExist
  <2>2. UNCHANGED <<channel, posts, letters, outbox, seen>>
    BY <1>8 DEF AppendLog
  <2>3. egress'.id = egress.id /\ egress'.at \in {"push", "complete"}
    BY <1>0, <1>8 DEF AppendLog, Items
  <2>4. ToSet(log') = ToSet(log) \union {egress.id}
    <3>1. ToSet(Append(log, egress.id)) = ToSet(log) \union {egress.id}
      BY <1>0, <2>1, AppendIs
    <3> QED BY <1>8, <3>1 DEF AppendLog
  <2> QED BY <1>3, <2>1, <2>2, <2>3, <2>4 DEF IdsExist
<1>9. CASE PushPart
  <2>1. egress.at = "push" /\ egress.id \in Ids /\ Real(egress.id)
    BY <1>9 DEF PushPart, IdsExist
  <2>2. UNCHANGED <<channel, posts, letters, outbox, log>>
    BY <1>9 DEF PushPart
  <2>3. egress'.id = egress.id /\ egress'.at \in {"push", "complete"}
    BY <1>0, <1>9 DEF PushPart, Items
  <2>4. \A i \in DOMAIN seen' : seen'[i][1] = egress.id \/ (i \in DOMAIN seen /\ seen'[i] = seen[i])
    <3>1. CASE seen' = seen
      BY <3>1
    <3>2. CASE seen' = Append(seen, <<egress.id, egress.part>>)
      <4>1. <<egress.id, egress.part>> \in Ids \X (1..2)
        BY <1>0, <2>1, ItemsAre
      <4>2. /\ Len(seen') = Len(seen) + 1 /\ \A i \in 1..Len(seen) : seen'[i] = seen[i]
            /\ seen'[Len(seen) + 1] = <<egress.id, egress.part>> /\ seen' \in Seq(Ids \X (1..2))
        BY <1>0, <3>2, <4>1, AppendIs
      <4>3. DOMAIN seen' = 1..Len(seen) + 1 /\ DOMAIN seen = 1..Len(seen)
        BY <1>0, <4>2
      <4> QED BY <1>0, <4>2, <4>3
    <3> QED BY <1>9, <3>1, <3>2 DEF PushPart
  <2> QED BY <1>3, <2>1, <2>2, <2>3, <2>4 DEF IdsExist
<1>10. CASE Complete
  <2>1. egress' = NoItem /\ UNCHANGED <<channel, posts, letters, outbox, log, seen>>
    BY <1>10 DEF Complete
  <2> QED BY <1>3, <2>1 DEF IdsExist, NoItem
<1>11. CASE ChCrash
  <2>1. UNCHANGED <<channel, posts, letters, outbox, log, seen>>
    BY <1>11 DEF ChCrash
  <2>2. CASE egress.at = "idle"
    <3>1. egress' = NoItem
      BY <1>11, <2>2 DEF ChCrash
    <3> QED BY <1>3, <2>1, <3>1 DEF IdsExist, NoItem
  <2>3. CASE egress.at # "idle"
    <3>1. egress'.id = egress.id /\ egress'.at = (IF channel.users THEN "append" ELSE "push")
      BY <1>0, <1>11, <2>3 DEF ChCrash, Items
    <3> QED BY <1>3, <2>1, <2>3, <3>1 DEF IdsExist
  <2> QED BY <2>2, <2>3
<1>12. CASE RunPost \/ ForgetId \/ Poll \/ FetchMedia
  BY <1>2, <1>12 DEF RunPost, ForgetId, Poll, FetchMedia
<1>13. CASE TakePost \/ Reply
  BY <1>2, <1>13 DEF TakePost, Reply
<1> QED BY <1>4, <1>5, <1>6, <1>7, <1>8, <1>9, <1>10, <1>11, <1>12, <1>13 DEF ChNext

\* Every step keeps the books of what ran: once while its id is remembered, and no post
\* that was routed is lost between the queues.
LEMMA RunFitsStep ==
  ASSUME ChTyped, BatchFits, IdsExist, RunFits, ChNext
  PROVE  RunFits'
<1>0. /\ inbox \in Seq(PostIds) /\ outbox \in Seq(Ids) /\ log \in Seq(Ids) /\ egress \in Items
      /\ ran \in [PostIds -> Nat] /\ PostIds \subseteq Ids /\ outcome \in [PostIds -> How] /\ archive \subseteq Ids
  BY DEF ChTyped, Ids, How
<1> DEFINE Held(p) == p \in ToSet(inbox) \union ToSet(outbox) \union ToSet(log) \union {egress.id}
<1>1. ASSUME ran' = ran, shaken \subseteq shaken',
             \A p \in PostIds \ shaken' : p \in archive => p \in archive',
             \A p \in PostIds : p \in archive' => p \in archive \/ p \in ToSet(log'),
             ToSet(log) \subseteq ToSet(log'),
             \A p \in PostIds : outcome'[p] = "routed" => outcome[p] = "routed" \/ Held(p)',
             \A p \in PostIds : Held(p) => Held(p)' \/ ran[p] > 0
      PROVE  RunFits'
  BY <1>1 DEF RunFits
<1>2. ASSUME UNCHANGED <<ran, archive, shaken, outcome, inbox, outbox, egress, log>> PROVE RunFits'
  BY <1>2 DEF RunFits
<1>3. ASSUME NEW kind \in LetterKinds, Write(kind) PROVE RunFits'
  <2>1. PICK id \in Ids : outbox' = Append(outbox, id)
    <3>1. MaxPosts + Len(letters) + 1 \in Ids
      <4>1. MaxPosts \in Nat /\ MaxLetters \in Nat /\ Len(letters) \in Nat /\ Len(letters) < MaxLetters
        BY <1>3, ChannelsAssumption DEF ChTyped, Write
      <4>2. \A n \in Nat : n < MaxLetters => MaxPosts + n + 1 \in LetterIds
        BY <4>1 DEF LetterIds
      <4> QED BY <4>1, <4>2 DEF Ids
    <3> QED BY <1>3, <3>1 DEF Write
  <2>2. ToSet(outbox') = ToSet(outbox) \union {id}
    BY <1>0, <2>1, AppendIs
  <2>3. UNCHANGED <<ran, archive, shaken, outcome, inbox, egress, log>>
    BY <1>3 DEF Write
  <2> QED BY <1>1, <2>2, <2>3
<1>4. CASE RunPost
  <2> DEFINE q == Head(inbox)
  <2>1. /\ q \in PostIds /\ ToSet(inbox) = ToSet(inbox') \union {q}
        /\ ran' = (IF q \in archive THEN ran ELSE [ran EXCEPT ![q] = @ + 1])
        /\ archive' = archive \union {q}
        /\ UNCHANGED <<outcome, outbox, egress, log, shaken>>
    BY <1>0, <1>4, TailIs DEF RunPost
  <2> HIDE DEF q
  <2>2. \A p \in PostIds : ran'[p] = IF p = q /\ q \notin archive THEN ran[p] + 1 ELSE ran[p]
    BY <1>0, <2>1
  <2>3. ASSUME NEW p \in PostIds \ shaken PROVE ran'[p] <= 1 /\ (ran'[p] = 1 => p \in archive')
    <3>1. ran[p] \in Nat /\ ran[p] <= 1 /\ (ran[p] = 1 => p \in archive)
      BY <1>0 DEF RunFits
    <3> QED BY <2>1, <2>2, <3>1
  <2>4. ASSUME NEW p \in PostIds, p \in archive' PROVE ran'[p] > 0 \/ p \in ToSet(log)
    <3>1. ran[p] \in Nat
      BY <1>0
    <3>2. p \in archive => ran[p] > 0 \/ p \in ToSet(log)
      BY DEF RunFits
    <3> QED BY <2>1, <2>2, <2>4, <3>1, <3>2
  <2>5. ASSUME NEW p \in PostIds, outcome'[p] = "routed" PROVE Held(p)' \/ ran'[p] > 0
    <3>1. ran[p] \in Nat /\ (Held(p) \/ ran[p] > 0)
      BY <1>0, <2>1, <2>5 DEF RunFits
    <3>2. CASE p = q
      BY <2>1, <2>4, <3>2
    <3>3. CASE p # q
      BY <2>1, <2>2, <3>1, <3>3
    <3> QED BY <3>2, <3>3
  <2> QED BY <2>1, <2>3, <2>4, <2>5 DEF RunFits
<1>5. CASE ForgetId
  <2>1. PICK id \in archive : archive' = archive \ {id} /\ shaken' = shaken \union {id}
    BY <1>5 DEF ForgetId
  <2>2. UNCHANGED <<ran, outcome, inbox, outbox, egress, log>>
    BY <1>5 DEF ForgetId
  <2> QED BY <1>1, <2>1, <2>2
<1>6. CASE TakePost
  <2>1. UNCHANGED <<ran, archive, shaken, inbox, outbox, egress, log>>
    BY <1>6 DEF TakePost
  <2>2. step # "poll" /\ Head(batch) \in PostIds /\ UNCHANGED <<channel, posts, confirmed>>
    BY <1>6, HeadOfBatch DEF TakePost
  <2>3. \A p \in PostIds : outcome'[p] = "routed" => outcome[p] = "routed"
    <3>1. CASE Ended(Head(batch), "nothing")
      BY <2>2, <3>1, EndedDoes DEF How
    <3>2. CASE ~Ended(Head(batch), "nothing")
      <4>1. outcome' \in {outcome, [outcome EXCEPT ![Head(batch)] = "unknown"]}
        BY <1>6, <3>2 DEF TakePost
      <4> QED BY <1>0, <2>2, <4>1
    <3> QED BY <3>1, <3>2
  <2> QED BY <1>1, <2>1, <2>3
<1>7. CASE RoutePost
  <2>1. UNCHANGED <<ran, archive, shaken, egress, log>>
    BY <1>7 DEF RoutePost
  <2>2. step # "poll" /\ Head(batch) \in PostIds /\ UNCHANGED <<channel, posts, confirmed>>
    BY <1>7, HeadOfBatch DEF RoutePost
  <2>3. CASE Ended(Head(batch), "routed")
    <3>1. /\ \A p \in PostIds : outcome'[p] = IF p = Head(batch) THEN "routed" ELSE outcome[p]
          /\ step' \in {"poll", "take"}
      BY <2>2, <2>3, EndedDoes DEF How
    <3> DEFINE h == Head(batch)
    <3>2. \/ inbox' = Append(inbox, h) /\ outbox' = outbox
          \/ inbox' = inbox /\ outbox' = Append(outbox, h)
      BY <1>7, <3>1 DEF RoutePost
    <3>3. h \in PostIds
      BY <2>2
    <3> HIDE DEF h
    <3>4. /\ ToSet(Append(inbox, h)) = ToSet(inbox) \union {h}
          /\ ToSet(Append(outbox, h)) = ToSet(outbox) \union {h}
      BY <1>0, <3>3, AppendIs
    <3>5. ToSet(inbox') \union ToSet(outbox') = ToSet(inbox) \union ToSet(outbox) \union {h}
      BY <3>2, <3>4
    <3>6. \A p \in PostIds : outcome'[p] = "routed" => outcome[p] = "routed" \/ p = h
      BY <3>1 DEF h
    <3> QED BY <1>1, <2>1, <3>5, <3>6
  <2>4. CASE UNCHANGED <<outcome, inbox, outbox>>
    BY <1>2, <2>1, <2>4
  <2> QED BY <1>7, <2>3, <2>4 DEF RoutePost
<1>8. CASE Reply
  <2>1. step # "poll" /\ (IF outcome[Head(batch)] = "unknown" THEN "unknown" ELSE "refused") \in How \ {"none", "routed"}
        /\ Ended(Head(batch), IF outcome[Head(batch)] = "unknown" THEN "unknown" ELSE "refused")
        /\ UNCHANGED <<channel, posts, confirmed>>
    BY <1>8 DEF Reply, How
  <2>2. \A p \in PostIds : outcome'[p] = "routed" => outcome[p] = "routed"
    BY <2>1, EndedDoes
  <2>3. UNCHANGED <<ran, archive, shaken, inbox, outbox, egress, log>>
    BY <1>8 DEF Reply
  <2> QED BY <1>1, <2>2, <2>3
<1>9. CASE TakeLetter
  <2>1. PICK n \in 1..Len(outbox) :
          /\ \A i \in 1..n - 1 : outbox[i] \in archive
          /\ outbox' = SubSeq(outbox, n + 1, Len(outbox))
          /\ IF outbox[n] \in archive THEN UNCHANGED egress ELSE egress'.id = outbox[n]
    BY <1>9 DEF TakeLetter
  <2>2. UNCHANGED <<ran, archive, shaken, outcome, inbox, log>> /\ egress = NoItem
    BY <1>9 DEF TakeLetter
  <2>3. \A x \in ToSet(outbox) : x \in ToSet(outbox') \/ \E i \in 1..n : x = outbox[i]
    BY <1>0, <2>1, RestIs
  <2>4. ASSUME NEW p \in PostIds, p \in ToSet(outbox)
        PROVE  p \in ToSet(outbox') \/ p \in archive \/ p = egress'.id
    <3>1. Len(outbox) \in Nat
      BY <1>0
    <3>2. \A i \in 1..n : i \in 1..n - 1 \/ i = n
      BY <3>1
    <3> QED BY <2>1, <2>3, <2>4, <3>2
  <2>5. ASSUME NEW p \in PostIds, Held(p) PROVE Held(p)' \/ ran[p] > 0
    <3>1. p # egress.id
      BY <2>2 DEF NoItem, PostIds
    <3>2. p \in archive => ran[p] > 0 \/ p \in ToSet(log)
      BY DEF RunFits
    <3> QED BY <2>2, <2>4, <2>5, <3>1, <3>2
  <2>6. \A p \in PostIds : outcome'[p] = "routed" => outcome[p] = "routed"
    BY <2>2
  <2> QED BY <2>2, <2>5, <2>6 DEF RunFits
<1>10. CASE AppendLog
  <2>1. egress.id \in Ids
    BY <1>10 DEF AppendLog, IdsExist
  <2>2. ToSet(Append(log, egress.id)) = ToSet(log) \union {egress.id}
    BY <1>0, <2>1, AppendIs
  <2>3. ToSet(log) \subseteq ToSet(log') /\ egress'.id = egress.id /\ UNCHANGED <<ran, archive, shaken, outcome, inbox, outbox>>
    BY <1>0, <1>10, <2>2 DEF AppendLog, Items
  <2> QED BY <1>1, <2>3
<1>11. CASE PushPart
  <2>1. egress'.id = egress.id /\ UNCHANGED <<ran, archive, shaken, outcome, inbox, outbox, log>>
    BY <1>0, <1>11 DEF PushPart, Items
  <2> QED BY <1>1, <2>1
<1>12. CASE Complete
  <2>1. /\ archive' = archive \union {egress.id} /\ UNCHANGED <<ran, shaken, outcome, inbox, outbox, log>>
        /\ egress.id \in PostIds => egress.id \in ToSet(log)
    BY <1>12 DEF Complete, IdsExist, Real
  <2> QED BY <1>1, <2>1
<1>13. CASE ChCrash
  <2>1. UNCHANGED <<ran, archive, outcome, inbox, outbox, log>> /\ shaken \subseteq shaken'
    BY <1>13 DEF ChCrash
  <2>2. egress'.id = egress.id
    <3>1. egress.at = "idle" => egress = NoItem
      BY DEF IdsExist
    <3> QED BY <1>0, <1>13, <3>1 DEF ChCrash, Items
  <2> QED BY <1>1, <2>1, <2>2
<1>14. CASE (\E kind \in PostKinds : Say(kind)) \/ Poll \/ FetchMedia
  BY <1>2, <1>14 DEF Say, Poll, FetchMedia
<1> QED BY <1>3, <1>4, <1>5, <1>6, <1>7, <1>8, <1>9, <1>10, <1>11, <1>12, <1>13, <1>14 DEF ChNext

\* Where the chat shows what, after one more part.
LEMMA PlacesGrow ==
  ASSUME ChTyped, NEW e \in Ids, NEW q \in 1..2, seen' = Append(seen, <<e, q>>)
  PROVE  /\ \A id, part : PlacesOf(id, part)' =
               PlacesOf(id, part) \union (IF id = e /\ part = q THEN {Len(seen) + 1} ELSE {})
         /\ \A id, part : \A i \in PlacesOf(id, part) : i \in 1..Len(seen)
         /\ Len(seen) \in Nat
<1>1. seen \in Seq(Ids \X (1..2)) /\ <<e, q>> \in Ids \X (1..2)
  BY DEF ChTyped
<1>2. /\ Len(seen') = Len(seen) + 1 /\ \A i \in 1..Len(seen) : seen'[i] = seen[i]
      /\ seen'[Len(seen) + 1] = <<e, q>> /\ seen' \in Seq(Ids \X (1..2)) /\ Len(seen) \in Nat
  BY <1>1, AppendIs
<1>3. DOMAIN seen' = DOMAIN seen \union {Len(seen) + 1} /\ DOMAIN seen = 1..Len(seen)
  BY <1>1, <1>2
<1>4. ASSUME NEW id, NEW part
      PROVE  PlacesOf(id, part)' = PlacesOf(id, part) \union (IF id = e /\ part = q THEN {Len(seen) + 1} ELSE {})
  <2>1. <<e, q>> = <<id, part>> <=> id = e /\ part = q
    OBVIOUS
  <2>2. Len(seen) + 1 \notin 1..Len(seen)
    BY <1>2
  <2> QED BY <1>2, <1>3, <2>1, <2>2 DEF PlacesOf
<1>5. \A id, part : \A i \in PlacesOf(id, part) : i \in 1..Len(seen)
  BY <1>3 DEF PlacesOf
<1> QED BY <1>2, <1>4, <1>5

\* What kind a letter is never changes.
LEMMA KindStays ==
  ASSUME ChTyped, letters' = letters \/ \E kind \in LetterKinds : letters' = Append(letters, kind)
  PROVE  \A id \in Ids : Real(id) => KindOf(id)' = KindOf(id) /\ Parts(id)' = Parts(id)
<1>1. letters \in Seq(LetterKinds)
  BY DEF ChTyped
<1>2. \A i \in 1..Len(letters) : letters'[i] = letters[i]
  BY <1>1, AppendIs
<1>3. ASSUME NEW id \in Ids, Real(id) PROVE KindOf(id)' = KindOf(id)
  BY <1>2, <1>3 DEF KindOf, Real
<1> QED BY <1>3 DEF Parts

\* A part is one of at most two.
LEMMA PartsAre == \A id : Parts(id) \in 1..2
BY DEF Parts

\* Every step keeps a letter of two parts, once its first was shown, one whose first was
\* shown.
LEMMA PartFitsStep ==
  ASSUME ChTyped, IdsExist, PartFits, ChNext
  PROVE  PartFits'
<1>0. egress \in Items /\ \A i \in 1..2 : i = 1 \/ i = 2
  BY DEF ChTyped
<1>1. UNCHANGED <<letters, egress, seen>> => PartFits'
  BY DEF PartFits, Parts, KindOf, PlacesOf
<1>2. ASSUME NEW kind \in LetterKinds, Write(kind) PROVE PartFits'
  <2>1. letters' = Append(letters, kind) /\ UNCHANGED <<egress, seen>>
    BY <1>2 DEF Write
  <2>2. egress.at = "push" => Parts(egress.id)' = Parts(egress.id)
    <3>1. egress.at = "push" => egress.id \in Ids /\ Real(egress.id)
      BY DEF IdsExist
    <3>2. \A id \in Ids : Real(id) => Parts(id)' = Parts(id)
      BY <2>1, KindStays
    <3>3. \A id : egress.id = id => (Parts(egress.id)' = Parts(id)')
      BY <2>1 DEF Parts, KindOf
    <3> QED BY <3>1, <3>2, <3>3
  <2>3. PlacesOf(egress.id, 1)' = PlacesOf(egress.id, 1)
    BY <2>1 DEF PlacesOf
  <2> QED BY <2>1, <2>2, <2>3 DEF PartFits
<1>3. CASE TakeLetter
  <2>1. UNCHANGED <<letters, seen>> /\ (egress' = egress \/ egress'.part = 1)
    BY <1>3 DEF TakeLetter
  <2>2. CASE egress'.part = 1
    BY <2>2 DEF PartFits
  <2> QED BY <1>1, <2>1, <2>2
<1>4. CASE AppendLog
  <2>1. egress'.part = 1
    BY <1>0, <1>4 DEF AppendLog, Items, PartFits
  <2>2. egress'.at # "append"
    BY <1>0, <1>4 DEF AppendLog, Items
  <2> QED BY <2>1, <2>2 DEF PartFits
<1>5. CASE PushPart
  <2>1. egress.at = "push" /\ egress.id \in Ids /\ Real(egress.id) /\ letters' = letters
    BY <1>5 DEF PushPart, IdsExist
  <2>2. CASE egress' = [egress EXCEPT !.at = "complete"]
    BY <1>0, <2>2 DEF PartFits, Items
  <2>3. CASE egress' = [egress EXCEPT !.part = 1]
    BY <1>0, <2>3 DEF PartFits, Items
  <2>4. CASE egress' = [egress EXCEPT !.part = 2] /\ seen' = Append(seen, <<egress.id, egress.part>>) /\ egress.part # Parts(egress.id)
    <3>1. egress'.id = egress.id /\ egress.part \in 1..2
      BY <1>0, <2>4 DEF Items
    <3>2. egress.part = 1 /\ Parts(egress.id) = 2
      BY <2>1, <2>4, <3>1, PartsAre DEF PartFits
    <3>3. Parts(egress.id)' = 2
      BY <2>1, <3>1, <3>2 DEF Parts, KindOf
    <3>4. PlacesOf(egress.id, 1)' # {}
      <4>1. PICK id \in Ids : id = egress.id
        BY <2>1
      <4>2. seen' = Append(seen, <<id, 1>>) /\ 1 \in 1..2
        BY <2>4, <3>2, <4>1
      <4>3. PlacesOf(id, 1)' = PlacesOf(id, 1) \union {Len(seen) + 1}
        BY <4>2, PlacesGrow
      <4> QED BY <3>1, <4>1, <4>3 DEF PlacesOf
    <3>5. egress'.at = "push"
      BY <1>0, <2>1, <2>4 DEF Items
    <3> QED BY <3>3, <3>4, <3>5 DEF PartFits
  <2> QED BY <1>5, <2>2, <2>3, <2>4 DEF PushPart
<1>6. CASE Complete
  BY <1>6 DEF Complete, NoItem, PartFits
<1>7. CASE ChCrash
  <2>1. egress'.part = 1
    BY <1>0, <1>7 DEF ChCrash, NoItem, Items
  <2> QED BY <2>1 DEF PartFits
<1>8. CASE (\E kind \in PostKinds : Say(kind)) \/ RunPost \/ ForgetId \/ Poll \/ FetchMedia
  BY <1>1, <1>8 DEF Say, RunPost, ForgetId, Poll, FetchMedia
<1>9. CASE TakePost \/ RoutePost \/ Reply
  BY <1>1, <1>9 DEF TakePost, RoutePost, Reply
<1> QED BY <1>2, <1>3, <1>4, <1>5, <1>6, <1>7, <1>8, <1>9 DEF ChNext

\* What was shown stays shown.
LEMMA ShownStays ==
  ASSUME ChTyped, letters' = letters \/ \E kind \in LetterKinds : letters' = Append(letters, kind),
         seen' = seen \/ \E e \in Ids, q \in 1..2 : seen' = Append(seen, <<e, q>>)
  PROVE  /\ \A id, part : PlacesOf(id, part) \subseteq PlacesOf(id, part)'
         /\ \A id \in Ids : Real(id) /\ Shown(id) => Shown(id)'
<1>1. \A id, part : PlacesOf(id, part) \subseteq PlacesOf(id, part)'
  <2>1. CASE seen' = seen
    BY <2>1 DEF PlacesOf
  <2>2. ASSUME NEW e \in Ids, NEW q \in 1..2, seen' = Append(seen, <<e, q>>)
        PROVE  \A id, part : PlacesOf(id, part) \subseteq PlacesOf(id, part)'
    BY <2>2, PlacesGrow
  <2> QED BY <2>1, <2>2
<1>2. ASSUME NEW id \in Ids, Real(id), Shown(id) PROVE Shown(id)'
  <2>1. KindOf(id)' = KindOf(id) /\ Parts(id)' = Parts(id)
    BY <1>2, KindStays
  <2> QED BY <1>1, <1>2, <2>1 DEF Shown, ShownWhole
<1> QED BY <1>1, <1>2

\* A letter that was written.
LEMMA WrittenIs ==
  ASSUME ChTyped
  PROVE  /\ \A a \in Written : a \in Ids /\ a \in LetterIds /\ a \in Nat /\ a > 0 /\ Real(a)
         /\ \A a \in Ids : Real(a) /\ ~channel.users => a \in Written
         /\ Ids \subseteq Nat \ {0}
<1>1. MaxPosts \in Nat /\ MaxLetters \in Nat /\ Len(letters) \in Nat /\ Len(letters) <= MaxLetters
  BY ChannelsAssumption DEF ChTyped
<1>2. Ids \subseteq Nat \ {0}
  BY <1>1 DEF Ids, PostIds, LetterIds
<1>3. ASSUME NEW a \in Written PROVE a \in Ids /\ a \in LetterIds /\ a \in Nat /\ a > 0 /\ Real(a)
  BY <1>1 DEF Written, Ids, LetterIds, PostIds, Real
<1>4. ASSUME NEW a \in Ids, Real(a), ~channel.users PROVE a \in Written
  BY <1>1, <1>2, <1>4 DEF Written, Real
<1> QED BY <1>2, <1>3, <1>4

\* The order survives a step that writes and shows nothing, and leaves the queue and the
\* item where they are.
LEMMA OrderStays ==
  ASSUME ChTyped, ShownInOrder, UNCHANGED <<channel, letters, seen, outbox>>, egress'.id = egress.id,
         archive' \cap LetterIds \subseteq archive,
         ~channel.users /\ egress'.at = "complete" => Shown(egress.id)
  PROVE  ShownInOrder'
<1>1. \A a, part : Shown(a)' = Shown(a) /\ PlacesOf(a, part)' = PlacesOf(a, part) /\ Parts(a)' = Parts(a) /\ KindOf(a)' = KindOf(a)
  BY DEF Shown, ShownWhole, PlacesOf, Parts, KindOf
<1>2. Written' = Written
  BY DEF Written
<1>3. CASE ~channel.users
  <2>1. /\ \A i, j \in 1..Len(outbox) : i < j => outbox[i] < outbox[j]
        /\ \A i \in 1..Len(outbox) : egress.id < outbox[i]
        /\ \A a \in archive \cap LetterIds : a \in Written /\ Shown(a)
        /\ \A a \in Written : a \notin ToSet(outbox) /\ a # egress.id => Shown(a)
        /\ \A a, b \in Written : a < b /\ KindOf(a) # "other" =>
             \A i \in PlacesOf(b, 1) : \E j \in PlacesOf(a, Parts(a)) : j < i
    BY <1>3 DEF ShownInOrder
  <2>2. egress'.at = "complete" => Shown(egress.id)
    BY <1>3
  <2>3. \A a : egress.id = a => Shown(egress.id)' = Shown(a)'
    BY DEF Shown, ShownWhole, PlacesOf, Parts, KindOf
  <2>4. egress'.at = "complete" => Shown(egress.id)'
    BY <1>1, <2>2, <2>3
  <2> QED BY <1>1, <1>2, <2>1, <2>4 DEF ShownInOrder
<1> QED BY <1>3 DEF ShownInOrder

\* The letter written next comes last.
LEMMA WriteKeepsOrder ==
  ASSUME ChTyped, IdsExist, ShownInOrder, ~channel.users, NEW kind \in LetterKinds, Write(kind)
  PROVE  ShownInOrder'
<1>1. /\ MaxPosts \in Nat /\ Len(letters) \in Nat /\ letters \in Seq(LetterKinds) /\ outbox \in Seq(Ids)
      /\ seen \in Seq(Ids \X (1..2)) /\ egress \in Items
  BY ChannelsAssumption DEF ChTyped
<1>2. PICK x \in Nat : x = MaxPosts + Len(letters) + 1
  BY <1>1
<1>3. /\ letters' = Append(letters, kind) /\ Len(letters') = Len(letters) + 1
      /\ outbox' = Append(outbox, x) /\ x \in LetterIds /\ x \in Ids
      /\ UNCHANGED <<channel, egress, archive, seen>>
  BY <1>1, <1>2, AppendIs, ChannelsAssumption DEF Write, LetterIds, Ids
<1>4. /\ Len(outbox') = Len(outbox) + 1 /\ Len(outbox) \in Nat /\ outbox'[Len(outbox) + 1] = x
      /\ \A i \in 1..Len(outbox) : outbox'[i] = outbox[i]
      /\ ToSet(outbox') = ToSet(outbox) \union {x}
  BY <1>1, <1>3, AppendIs
<1>5. \A a \in Written : a \in Ids /\ a \in LetterIds /\ a \in Nat /\ Real(a) /\ a < x
  BY <1>1, <1>2, WrittenIs DEF Written
<1>6. \A i \in 1..Len(outbox) : outbox[i] \in Written /\ outbox[i] \in ToSet(outbox)
  <2>1. \A i \in 1..Len(outbox) : outbox[i] \in Ids /\ outbox[i] \in ToSet(outbox)
    BY <1>1 DEF ToSet
  <2> QED BY <2>1, WrittenIs DEF IdsExist
<1>7. egress.id \in Nat /\ egress.id < x
  <2>1. CASE egress.at = "idle"
    BY <1>1, <1>2, <2>1 DEF IdsExist, NoItem
  <2>2. CASE egress.at # "idle"
    BY <1>5, <2>2, WrittenIs DEF IdsExist
  <2> QED BY <2>1, <2>2
<1>8. Written' = Written \union {x}
  BY <1>1, <1>2, <1>3 DEF Written
<1>9. \A a \in Written : KindOf(a)' = KindOf(a) /\ Parts(a)' = Parts(a) /\ (Shown(a) => Shown(a)')
  BY <1>3, <1>5, KindStays, ShownStays
<1>10. \A a, part : PlacesOf(a, part)' = PlacesOf(a, part)
  BY <1>3 DEF PlacesOf
<1>11. PlacesOf(x, 1) = {}
  <2>1. x \notin Written
    BY <1>5
  <2>2. \A i \in DOMAIN seen : seen[i][1] \in Ids
    BY <1>1
  <2> QED BY <2>1, <2>2, WrittenIs DEF PlacesOf, IdsExist
<1>12. \A i, j \in 1..Len(outbox') : i < j => outbox'[i] < outbox'[j]
  <2>1. ASSUME NEW i \in 1..Len(outbox'), NEW j \in 1..Len(outbox'), i < j PROVE outbox'[i] < outbox'[j]
    <3>1. i \in 1..Len(outbox) /\ (j \in 1..Len(outbox) \/ j = Len(outbox) + 1)
      BY <1>4, <2>1
    <3>2. CASE j \in 1..Len(outbox)
      BY <1>4, <2>1, <3>1, <3>2 DEF ShownInOrder
    <3>3. CASE j = Len(outbox) + 1
      BY <1>4, <1>5, <1>6, <3>1, <3>3
    <3> QED BY <3>1, <3>2, <3>3
  <2> QED BY <2>1
<1>13. \A i \in 1..Len(outbox') : egress'.id < outbox'[i]
  <2>1. \A i \in 1..Len(outbox') : i \in 1..Len(outbox) \/ i = Len(outbox) + 1
    BY <1>4
  <2> QED BY <1>3, <1>4, <1>7, <2>1 DEF ShownInOrder
<1>14. \A a \in archive' \cap LetterIds : a \in Written' /\ Shown(a)'
  BY <1>3, <1>8, <1>9 DEF ShownInOrder
<1>15. \A a \in Written' : a \notin ToSet(outbox') /\ a # egress'.id => Shown(a)'
  BY <1>3, <1>4, <1>8, <1>9 DEF ShownInOrder
<1>16. egress'.at = "complete" => Shown(egress.id)'
  <2>1. egress.at = "complete" => Shown(egress.id) /\ egress.id \in Ids /\ Real(egress.id)
    BY DEF ShownInOrder, IdsExist
  <2>2. ASSUME NEW a \in Ids, Real(a), Shown(a), a = egress.id PROVE Shown(egress.id)'
    <3>1. Shown(a)'
      BY <1>3, <2>2, ShownStays
    <3> QED BY <1>3, <2>2, <3>1 DEF Shown, ShownWhole, PlacesOf, Parts, KindOf
  <2> QED BY <1>3, <2>1, <2>2
<1>17. \A a, b \in Written' : a < b /\ KindOf(a)' # "other" =>
          \A i \in PlacesOf(b, 1)' : \E j \in PlacesOf(a, Parts(a))' : j < i
  <2>1. ASSUME NEW a \in Written', NEW b \in Written', a < b, KindOf(a)' # "other", NEW i \in PlacesOf(b, 1)'
        PROVE  \E j \in PlacesOf(a, Parts(a))' : j < i
    <3>1. b # x
      BY <1>10, <1>11, <2>1
    <3>2. a \in Written /\ b \in Written
      BY <1>5, <1>8, <2>1, <3>1
    <3>3. KindOf(a) # "other" /\ i \in PlacesOf(b, 1)
      BY <1>9, <1>10, <2>1, <3>2
    <3>4. PICK j \in PlacesOf(a, Parts(a)) : j < i
      BY <2>1, <3>2, <3>3 DEF ShownInOrder
    <3>5. PlacesOf(a, Parts(a))' = PlacesOf(a, Parts(a))
      BY <1>3, <1>9, <3>2 DEF PlacesOf
    <3> QED BY <3>4, <3>5
  <2> QED BY <2>1
<1> QED BY <1>12, <1>13, <1>14, <1>15, <1>16, <1>17 DEF ShownInOrder

\* The item taken next is the first that was not shown.
LEMMA TakeKeepsOrder ==
  ASSUME ChTyped, IdsExist, ShownInOrder, ~channel.users, TakeLetter
  PROVE  ShownInOrder'
<1>1. outbox \in Seq(Ids) /\ egress \in Items /\ Len(outbox) \in Nat
  BY DEF ChTyped
<1>2. PICK n \in 1..Len(outbox) :
        /\ \A i \in 1..n - 1 : outbox[i] \in archive
        /\ outbox' = SubSeq(outbox, n + 1, Len(outbox))
        /\ IF outbox[n] \in archive THEN n = Len(outbox) /\ UNCHANGED egress
           ELSE egress'.id = outbox[n] /\ egress'.at = "push"
  BY DEF TakeLetter
<1>3. UNCHANGED <<channel, letters, archive, seen>> /\ egress = NoItem
  BY DEF TakeLetter
<1>4. /\ Len(outbox') = Len(outbox) - n
      /\ \A i \in 1..Len(outbox) - n : outbox'[i] = outbox[n + i]
      /\ \A x \in ToSet(outbox) : x \in ToSet(outbox') \/ \E i \in 1..n : x = outbox[i]
  <2>1. PICK r : r = SubSeq(outbox, n + 1, Len(outbox))
    OBVIOUS
  <2>2. /\ Len(r) = Len(outbox) - n /\ \A i \in 1..Len(outbox) - n : r[i] = outbox[n + i]
        /\ \A x \in ToSet(outbox) : x \in ToSet(r) \/ \E i \in 1..n : x = outbox[i]
    BY <1>1, <2>1, RestIs
  <2>3. outbox' = r
    BY <1>2, <2>1
  <2> QED BY <2>2, <2>3
<1>5. \A a, part : Shown(a)' = Shown(a) /\ PlacesOf(a, part)' = PlacesOf(a, part) /\ Parts(a)' = Parts(a) /\ KindOf(a)' = KindOf(a)
  BY <1>3 DEF Shown, ShownWhole, PlacesOf, Parts, KindOf
<1>6. Written' = Written
  BY <1>3 DEF Written
<1>7. \A i \in 1..Len(outbox') : i \in Nat /\ n + i \in 1..Len(outbox) /\ n < n + i /\ n # Len(outbox)
  <2>1. PICK l \in Nat : l = Len(outbox)
    BY <1>1
  <2>2. \A i \in 1..l - n : i \in Nat /\ n + i \in 1..l /\ n < n + i /\ n # l
    BY <2>1
  <2>3. 1..Len(outbox') = 1..l - n
    BY <1>4, <2>1
  <2> QED BY <2>1, <2>2, <2>3
<1>8. \A i, j \in 1..Len(outbox') : i < j => outbox'[i] < outbox'[j]
  <2>1. ASSUME NEW i \in 1..Len(outbox'), NEW j \in 1..Len(outbox'), i < j PROVE outbox[n + i] < outbox[n + j]
    <3>1. n + i \in 1..Len(outbox) /\ n + j \in 1..Len(outbox) /\ n + i < n + j
      BY <1>7, <2>1
    <3> QED BY <3>1 DEF ShownInOrder
  <2> QED BY <1>4, <2>1
<1>9. \A i \in 1..Len(outbox') : egress'.id < outbox'[i]
  <2>1. ASSUME NEW i \in 1..Len(outbox') PROVE egress'.id < outbox[n + i]
    <3>1. n + i \in 1..Len(outbox) /\ n < n + i /\ n # Len(outbox)
      BY <1>7
    <3>2. egress'.id = outbox[n]
      BY <1>2, <3>1
    <3> QED BY <3>1, <3>2 DEF ShownInOrder
  <2> QED BY <1>4, <2>1
<1>10. \A a \in archive' \cap LetterIds : a \in Written' /\ Shown(a)'
  BY <1>3, <1>5, <1>6 DEF ShownInOrder
<1>11. ASSUME NEW a \in Written', a \notin ToSet(outbox'), a # egress'.id PROVE Shown(a)'
  <2>1. a \in Written /\ a \in LetterIds /\ a # egress.id
    BY <1>3, <1>6, WrittenIs DEF NoItem
  <2>2. CASE a \notin ToSet(outbox)
    BY <1>5, <2>1, <2>2 DEF ShownInOrder
  <2>3. CASE a \in ToSet(outbox)
    <3>1. PICK i \in 1..n : a = outbox[i]
      BY <1>4, <1>11, <2>3
    <3>2. i \in 1..n - 1 \/ i = n
      BY <1>1
    <3>3. a \in archive
      BY <1>2, <1>11, <3>1, <3>2
    <3> QED BY <1>5, <2>1, <3>3 DEF ShownInOrder
  <2> QED BY <2>2, <2>3
<1>12. egress'.at # "complete"
  BY <1>2, <1>3 DEF NoItem
<1>13. \A a, b \in Written' : a < b /\ KindOf(a)' # "other" =>
          \A i \in PlacesOf(b, 1)' : \E j \in PlacesOf(a, Parts(a))' : j < i
  <2>1. \A a : PlacesOf(a, Parts(a))' = PlacesOf(a, Parts(a))
    BY <1>3, <1>5 DEF PlacesOf
  <2> QED BY <1>5, <1>6, <2>1 DEF ShownInOrder
<1> QED BY <1>8, <1>9, <1>10, <1>11, <1>12, <1>13 DEF ShownInOrder

\* A part is shown after all that was written before it.
LEMMA PushKeepsOrder ==
  ASSUME ChTyped, IdsExist, PartFits, ShownInOrder, ~channel.users, PushPart
  PROVE  ShownInOrder'
<1>1. /\ outbox \in Seq(Ids) /\ egress \in Items /\ egress.part \in 1..2
      /\ egress.at = "push" /\ egress.id \in Ids /\ Real(egress.id)
      /\ UNCHANGED <<channel, outbox, archive, letters>>
  BY ItemsAre DEF ChTyped, IdsExist, PushPart
<1>2. PICK e \in Ids, q \in 1..2 : e = egress.id /\ q = egress.part
  BY <1>1
<1>3. e \in Written /\ Real(e)
  BY <1>1, <1>2, WrittenIs
<1>4. egress'.id = e
  BY <1>1, <1>2 DEF PushPart, Items
<1>5. CASE seen' = seen
  <2>1. egress'.at = "complete" => KindOf(e) = "other"
    BY <1>1, <1>2, <1>5 DEF PushPart, Items, Ignored
  <2> QED BY <1>1, <1>2, <1>4, <1>5, <2>1, OrderStays DEF Shown
<1>6. CASE seen' = Append(seen, <<e, q>>) /\ egress' = (IF q = Parts(e) THEN [egress EXCEPT !.at = "complete"] ELSE [egress EXCEPT !.part = 2])
  <2>1. /\ \A id, part : PlacesOf(id, part)' =
             PlacesOf(id, part) \union (IF id = e /\ part = q THEN {Len(seen) + 1} ELSE {})
        /\ \A id, part : \A i \in PlacesOf(id, part) : i \in 1..Len(seen)
        /\ Len(seen) \in Nat
    BY <1>6, PlacesGrow
  <2>2. Written' = Written /\ \A a : KindOf(a)' = KindOf(a) /\ Parts(a)' = Parts(a)
    BY <1>1 DEF Written, KindOf, Parts
  <2>3. \A a \in Written : a \in Ids /\ Real(a) /\ a \in Nat /\ (Shown(a) => Shown(a)')
    <3>1. letters' = letters /\ (seen' = seen \/ \E ee \in Ids, qq \in 1..2 : seen' = Append(seen, <<ee, qq>>))
      BY <1>1, <1>6
    <3> QED BY <3>1, WrittenIs, ShownStays
  <2>4. q = Parts(e) => Shown(e)'
    <3>1. ASSUME q = Parts(e), NEW part \in 1..Parts(e) PROVE PlacesOf(e, part)' # {}
      <4>1. CASE part = q
        BY <2>1, <4>1
      <4>2. CASE part # q
        <5>1. q = 2 /\ part = 1
          BY <3>1, <4>2, PartsAre
        <5>2. PlacesOf(e, 1) # {}
          BY <1>1, <1>2, <5>1 DEF PartFits
        <5> QED BY <2>1, <5>1, <5>2
      <4> QED BY <4>1, <4>2
    <3>2. ASSUME q = Parts(e) PROVE ShownWhole(e)'
      <4>1. Parts(e)' = Parts(e)
        BY <2>2
      <4> QED BY <3>1, <3>2, <4>1 DEF ShownWhole
    <3> QED BY <3>2 DEF Shown
  <2>5. egress'.at = "complete" => Shown(egress.id)'
    <3>1. egress'.at = "complete" => Shown(e)'
      BY <1>1, <1>6, <2>4 DEF Items
    <3>2. Shown(egress.id)' <=> Shown(e)'
      BY <1>4 DEF Shown, ShownWhole, PlacesOf, Parts, KindOf
    <3> QED BY <3>1, <3>2
  <2>6. ASSUME NEW a \in Written, NEW b \in Written, a < b, KindOf(a) # "other", NEW i \in PlacesOf(b, 1)'
        PROVE  \E j \in PlacesOf(a, Parts(a))' : j < i
    <3>1. PlacesOf(a, Parts(a)) \subseteq PlacesOf(a, Parts(a))'
      <4>1. Parts(a)' = Parts(a)
        BY <2>2
      <4> QED BY <2>1, <4>1
    <3>2. CASE i \in PlacesOf(b, 1)
      <4>1. PICK j \in PlacesOf(a, Parts(a)) : j < i
        BY <2>6, <3>2 DEF ShownInOrder
      <4> QED BY <3>1, <4>1
    <3>3. CASE i \notin PlacesOf(b, 1)
      <4>1. b = e /\ i = Len(seen) + 1
        BY <2>1, <2>6, <3>3
      <4>2. a \notin ToSet(outbox)
        <5>1. \A k \in 1..Len(outbox) : e < outbox[k] /\ outbox[k] \in Nat /\ e \in Nat /\ a \in Nat
          BY <1>1, <1>2, <2>3, WrittenIs DEF ShownInOrder
        <5>2. DOMAIN outbox = 1..Len(outbox)
          BY <1>1
        <5> QED BY <2>6, <4>1, <5>1, <5>2 DEF ToSet
      <4>3. ShownWhole(a)
        <5>1. a # egress.id
          BY <1>2, <2>3, <2>6, <4>1
        <5> QED BY <2>6, <4>2, <5>1 DEF ShownInOrder, Shown
      <4>4. Parts(a) \in 1..Parts(a)
        BY PartsAre
      <4>5. PICK j : j \in PlacesOf(a, Parts(a))
        BY <4>3, <4>4 DEF ShownWhole
      <4>6. j \in 1..Len(seen)
        BY <2>1, <4>5
      <4> QED BY <2>1, <3>1, <4>1, <4>5, <4>6
    <3> QED BY <3>2, <3>3
  <2>7. /\ \A i, j \in 1..Len(outbox) : i < j => outbox[i] < outbox[j]
        /\ \A i \in 1..Len(outbox) : egress.id < outbox[i]
        /\ \A a \in archive \cap LetterIds : a \in Written /\ Shown(a)
        /\ \A a \in Written : a \notin ToSet(outbox) /\ a # egress.id => Shown(a)
    BY DEF ShownInOrder
  <2> QED BY <1>1, <1>2, <1>4, <2>2, <2>3, <2>5, <2>6, <2>7 DEF ShownInOrder
<1>7. seen' = seen \/ (seen' = Append(seen, <<e, q>>) /\ egress' = (IF q = Parts(e) THEN [egress EXCEPT !.at = "complete"] ELSE [egress EXCEPT !.part = 2]))
  BY <1>2 DEF PushPart
<1> QED BY <1>5, <1>6, <1>7

\* Every step keeps the order in which an operator's letters are shown and archived
\* (dequeue and push in egress.ts, deliver of the connectors).
LEMMA ShownInOrderStep ==
  ASSUME ChTyped, BatchFits, IdsExist, PartFits, ShownInOrder, ChNext
  PROVE  ShownInOrder'
<1>0. egress \in Items /\ channel' = channel
  BY DEF ChTyped, ChNext, Say, Write, RunPost, ForgetId, Poll, TakePost, FetchMedia, RoutePost, Reply,
         TakeLetter, AppendLog, PushPart, Complete, ChCrash
<1>1. CASE channel.users
  BY <1>0, <1>1 DEF ShownInOrder
<1>2. CASE ~channel.users
  <2>1. UNCHANGED <<channel, letters, seen, outbox, egress, archive>> => ShownInOrder'
    <3>1. ~channel.users /\ egress.at = "complete" => Shown(egress.id)
      BY DEF ShownInOrder
    <3> QED BY <3>1, OrderStays
  <2>2. ASSUME NEW kind \in LetterKinds, Write(kind) PROVE ShownInOrder'
    BY <1>2, <2>2, WriteKeepsOrder
  <2>3. CASE RunPost
    <3>1. Head(inbox) \in PostIds
      BY <2>3, TailIs DEF RunPost, ChTyped
    <3>2. archive' \cap LetterIds \subseteq archive
      BY <2>3, <3>1, ChannelsAssumption DEF RunPost, PostIds, LetterIds
    <3>3. ~channel.users /\ egress.at = "complete" => Shown(egress.id)
      BY DEF ShownInOrder
    <3> QED BY <2>3, <3>2, <3>3, OrderStays DEF RunPost
  <2>4. CASE ForgetId
    <3>1. archive' \subseteq archive /\ UNCHANGED <<channel, letters, seen, outbox, egress>>
      BY <2>4 DEF ForgetId
    <3>2. ~channel.users /\ egress.at = "complete" => Shown(egress.id)
      BY DEF ShownInOrder
    <3> QED BY <3>1, <3>2, OrderStays
  <2>5. CASE RoutePost
    <3>1. Head(batch) \in 1..Len(posts)
      <4>1. /\ Head(batch) \in PostIds /\ Head(batch) <= Len(posts) /\ Len(posts) \in Nat
        BY <2>5, HeadOfBatch DEF RoutePost
      <4>2. PostIds \subseteq Nat \ {0}
        BY DEF PostIds
      <4>3. \A h \in Nat \ {0}, n \in Nat : h <= n => h \in 1..n
        OBVIOUS
      <4> QED BY <4>1, <4>2, <4>3
    <3>2. posts[Head(batch)] # "own"
      BY <1>2, <3>1 DEF IdsExist
    <3>3. UNCHANGED <<channel, letters, seen, outbox, egress, archive>>
      BY <2>5, <3>2 DEF RoutePost
    <3> QED BY <2>1, <3>3
  <2>6. CASE TakeLetter
    BY <1>2, <2>6, TakeKeepsOrder
  <2>7. CASE AppendLog
    BY <1>2, <2>7 DEF AppendLog, IdsExist
  <2>8. CASE PushPart
    BY <1>2, <2>8, PushKeepsOrder
  <2>9. CASE Complete
    <3>1. /\ egress.at = "complete" /\ egress' = NoItem /\ archive' = archive \union {egress.id}
          /\ UNCHANGED <<channel, letters, seen, outbox>> /\ egress.id \in Ids /\ Real(egress.id)
      BY <2>9 DEF Complete, IdsExist
    <3>2. \A a, part : Shown(a)' = Shown(a) /\ PlacesOf(a, part)' = PlacesOf(a, part) /\ Parts(a)' = Parts(a) /\ KindOf(a)' = KindOf(a)
      BY <3>1 DEF Shown, ShownWhole, PlacesOf, Parts, KindOf
    <3>3. Written' = Written
      BY <3>1 DEF Written
    <3>4. Shown(egress.id) /\ egress.id \in Written
      BY <1>2, <3>1, WrittenIs DEF ShownInOrder
    <3>5. \A i \in 1..Len(outbox) : 0 < outbox[i]
      <4>1. \A i \in 1..Len(outbox) : outbox[i] \in Ids
        BY DEF ChTyped
      <4>2. \A x \in Ids : 0 < x
        BY WrittenIs
      <4> QED BY <4>1, <4>2
    <3>6. egress'.id = 0 /\ egress'.at = "idle"
      BY <3>1 DEF NoItem
    <3>7. /\ \A i, j \in 1..Len(outbox) : i < j => outbox[i] < outbox[j]
          /\ \A a \in archive \cap LetterIds : a \in Written /\ Shown(a)
          /\ \A a \in Written : a \notin ToSet(outbox) /\ a # egress.id => Shown(a)
          /\ \A a, b \in Written : a < b /\ KindOf(a) # "other" =>
               \A i \in PlacesOf(b, 1) : \E j \in PlacesOf(a, Parts(a)) : j < i
      BY <1>2 DEF ShownInOrder
    <3>8. \A a : PlacesOf(a, Parts(a))' = PlacesOf(a, Parts(a))
      BY <3>1, <3>2 DEF PlacesOf
    <3> QED BY <3>1, <3>2, <3>3, <3>4, <3>5, <3>6, <3>7, <3>8 DEF ShownInOrder
  <2>10. CASE ChCrash
    <3>1. egress'.id = egress.id /\ egress'.at # "complete" /\ UNCHANGED <<channel, letters, seen, outbox, archive>>
      <4>1. egress.at = "idle" => egress = NoItem
        BY DEF IdsExist
      <4> QED BY <1>0, <2>10, <4>1 DEF ChCrash, Items, NoItem
    <3> QED BY <3>1, OrderStays
  <2>11. CASE (\E kind \in PostKinds : Say(kind)) \/ Poll \/ FetchMedia
    BY <2>1, <2>11 DEF Say, Poll, FetchMedia
  <2>12. CASE TakePost \/ Reply
    BY <2>1, <2>12 DEF TakePost, Reply
  <2> QED BY <2>2, <2>3, <2>4, <2>5, <2>6, <2>7, <2>8, <2>9, <2>10, <2>11, <2>12 DEF ChNext
<1> QED BY <1>1, <1>2

\* An item that was not there is another one.
LEMMA AppendInjective ==
  ASSUME NEW S, NEW s \in Seq(S), NEW x \in S, NEW t, t = Append(s, x),
         \A a, b \in DOMAIN s : s[a] = s[b] => a = b, \A i \in 1..Len(s) : s[i] # x
  PROVE  \A a, b \in DOMAIN t : t[a] = t[b] => a = b
<1>1. /\ t \in Seq(S) /\ Len(t) = Len(s) + 1 /\ Len(s) \in Nat
      /\ \A i \in 1..Len(s) : t[i] = s[i]
      /\ t[Len(s) + 1] = x
  BY AppendIs
<1>2. DOMAIN t = 1..Len(s) + 1 /\ DOMAIN s = 1..Len(s)
  BY <1>1
<1>3. \A i \in DOMAIN t : i \in DOMAIN s \/ i = Len(s) + 1
  BY <1>1, <1>2
<1>4. SUFFICES ASSUME NEW a \in DOMAIN t, NEW b \in DOMAIN t, t[a] = t[b] PROVE a = b
  OBVIOUS
<1>5. CASE a \in DOMAIN s /\ b \in DOMAIN s
  BY <1>1, <1>2, <1>4, <1>5
<1>6. CASE a = Len(s) + 1 /\ b = Len(s) + 1
  BY <1>6
<1>7. CASE a \in DOMAIN s /\ b = Len(s) + 1
  BY <1>1, <1>2, <1>4, <1>7
<1>8. CASE b \in DOMAIN s /\ a = Len(s) + 1
  BY <1>1, <1>2, <1>4, <1>8
<1> QED BY <1>3, <1>5, <1>6, <1>7, <1>8

\* A note may be waiting to be shown where it was written.
Waits(p) ==
  \/ p \in ToSet(outbox) /\ p \notin ToSet(log)
  \/ egress.id = p /\ egress.at = "append" /\ p \notin ToSet(log)
  \/ egress.id = p /\ egress.at = "push"

\* A user's chat is told no more than once survives a step that shows nothing.
LEMMA TellsNothing ==
  ASSUME ToldOnce, UNCHANGED <<channel, log, seen>>,
         egress'.at = "push" => egress.at = "push" /\ egress'.id = egress.id /\ egress'.part = egress.part,
         shaken \subseteq shaken',
         channel.users => \A p \in PostIds \ shaken' : Waits(p)' => p \in suppressed' \/ (Waits(p) /\ p \notin suppressed)
  PROVE  ToldOnce'
<1>1. \A id, part : PlacesOf(id, part)' = PlacesOf(id, part)
  BY DEF PlacesOf
<1>2. CASE channel.users
  <2>1. /\ IsInjective(log) /\ IsInjective(seen)
        /\ \A i \in DOMAIN seen : seen[i][1] \in ToSet(log)
        /\ egress.at = "push" => PlacesOf(egress.id, egress.part) = {} /\ PlacesOf(egress.id, 2) = {}
        /\ \A i \in DOMAIN seen : seen[i][1] \in PostIds => seen[i][1] \in shaken
        /\ \A p \in PostIds \ shaken : Waits(p) => p \in suppressed
    BY <1>2 DEF ToldOnce, Waits
  <2>2. \A p \in PostIds \ shaken' : Waits(p)' => p \in suppressed'
    BY <1>2, <2>1
  <2>3. egress'.at = "push" => PlacesOf(egress.id, egress.part)' = {} /\ PlacesOf(egress.id, 2)' = {}
    BY <2>1 DEF PlacesOf
  <2> QED BY <2>1, <2>2, <2>3 DEF ToldOnce, Waits
<1> QED BY <1>2 DEF ToldOnce

\* What is told is in the history, and was not told.
LEMMA PushTellsOnce ==
  ASSUME ChTyped, IdsExist, PartFits, ToldOnce, channel.users, PushPart
  PROVE  ToldOnce'
<1>1. /\ egress \in Items /\ egress.part \in 1..2 /\ seen \in Seq(Ids \X (1..2))
      /\ egress.at = "push" /\ egress.id \in Ids /\ egress.id \in ToSet(log)
      /\ UNCHANGED <<channel, outbox, log, letters, shaken>>
  BY ItemsAre DEF ChTyped, IdsExist, PushPart
<1>2. PICK e \in Ids, q \in 1..2 : e = egress.id /\ q = egress.part
  BY <1>1
<1>3. egress'.id = e
  BY <1>1, <1>2 DEF PushPart, Items
<1>4. CASE seen' = seen
  <2>1. egress'.at = "complete" /\ (suppressed' = suppressed \/ suppressed' = suppressed \ {e})
    <3>1. seen # Append(seen, <<egress.id, egress.part>>)
      <4>1. <<egress.id, egress.part>> \in Ids \X (1..2)
        BY <1>1
      <4>2. Len(Append(seen, <<egress.id, egress.part>>)) = Len(seen) + 1 /\ Len(seen) \in Nat
        BY <1>1, <4>1, AppendIs
      <4> QED BY <4>2
    <3> QED BY <1>1, <1>2, <1>4, <3>1 DEF PushPart, Items
  <2>2. \A p \in PostIds \ shaken' : Waits(p)' => p \in suppressed' \/ (Waits(p) /\ p \notin suppressed)
    BY <1>1, <1>2, <1>3, <2>1 DEF Waits
  <2> QED BY <1>1, <1>4, <2>1, <2>2, TellsNothing
<1>5. CASE /\ seen' = Append(seen, <<e, q>>) /\ suppressed' = suppressed /\ (q = 2 \/ ~Ignored(e))
           /\ egress' = (IF q = Parts(e) THEN [egress EXCEPT !.at = "complete"] ELSE [egress EXCEPT !.part = 2])
  <2>1. /\ \A id, part : PlacesOf(id, part)' =
             PlacesOf(id, part) \union (IF id = e /\ part = q THEN {Len(seen) + 1} ELSE {})
        /\ Len(seen) \in Nat
    BY <1>5, PlacesGrow
  <2>2. PlacesOf(e, q) = {} /\ PlacesOf(e, 2) = {}
    BY <1>1, <1>2 DEF ToldOnce
  <2>3. /\ Len(seen') = Len(seen) + 1 /\ \A i \in 1..Len(seen) : seen'[i] = seen[i]
        /\ seen'[Len(seen) + 1] = <<e, q>> /\ DOMAIN seen' = 1..Len(seen) + 1 /\ DOMAIN seen = 1..Len(seen)
    <3>1. <<e, q>> \in Ids \X (1..2)
      OBVIOUS
    <3>2. /\ Len(seen') = Len(seen) + 1 /\ \A i \in 1..Len(seen) : seen'[i] = seen[i]
          /\ seen'[Len(seen) + 1] = <<e, q>> /\ seen' \in Seq(Ids \X (1..2))
      BY <1>1, <1>5, <3>1, AppendIs
    <3> QED BY <1>1, <3>2
  <2>4. IsInjective(seen')
    <3>1. \A i \in 1..Len(seen) : seen[i] # <<e, q>>
      BY <2>2, <2>3 DEF PlacesOf
    <3>2. <<e, q>> \in Ids \X (1..2) /\ IsInjective(seen)
      BY DEF ToldOnce
    <3>3. IsInjective(seen')
      <4>1. PICK x \in Ids \X (1..2) : x = <<e, q>>
        BY <3>2
      <4>2. \A i \in 1..Len(seen) : seen[i] # x
        BY <3>1, <4>1
      <4>3. \A a, b \in DOMAIN seen : seen[a] = seen[b] => a = b
        BY <3>2 DEF IsInjective
      <4>4. \A a, b \in DOMAIN seen' : seen'[a] = seen'[b] => a = b
        <5>1. PICK t : t = Append(seen, x)
          OBVIOUS
        <5>2. \A a, b \in DOMAIN t : t[a] = t[b] => a = b
          BY <1>1, <4>2, <4>3, <5>1, AppendInjective
        <5>3. t = seen'
          BY <1>5, <4>1, <5>1
        <5> QED BY <5>2, <5>3
      <4> QED BY <4>4 DEF IsInjective
    <3> QED BY <3>3
  <2>5. \A i \in DOMAIN seen' : (i \in DOMAIN seen /\ seen'[i] = seen[i]) \/ seen'[i][1] = e
    BY <2>1, <2>3
  <2>6. \A i \in DOMAIN seen' : seen'[i][1] \in ToSet(log')
    BY <1>1, <1>2, <2>5 DEF ToldOnce
  <2>7. e \in PostIds => e \in shaken
    <3>1. ASSUME e \in PostIds PROVE q = 1
      <4>1. Parts(e) = 1
        BY <3>1 DEF Parts, KindOf
      <4> QED BY <1>1, <1>2, <4>1 DEF PartFits
    <3>2. ASSUME e \in PostIds, e \notin shaken PROVE FALSE
      <4>1. e \in suppressed
        BY <1>1, <1>2, <3>2 DEF ToldOnce
      <4> QED BY <1>5, <3>1, <3>2, <4>1 DEF Ignored
    <3> QED BY <3>2
  <2>8. \A i \in DOMAIN seen' : seen'[i][1] \in PostIds => seen'[i][1] \in shaken'
    BY <1>1, <2>5, <2>7 DEF ToldOnce
  <2>9. egress'.at = "push" => egress'.part = 2 /\ q = 1
    <3>1. egress'.at = "push" => q # Parts(e) /\ egress'.part = 2
      BY <1>1, <1>5 DEF Items
    <3>2. q = 2 => Parts(e) = 2
      BY <1>1, <1>2 DEF PartFits
    <3> QED BY <3>1, <3>2
  <2>10. egress'.at = "push" => PlacesOf(egress.id, egress.part)' = {} /\ PlacesOf(egress.id, 2)' = {}
    <3>1. egress'.at = "push" => PlacesOf(e, 2)' = {}
      BY <2>1, <2>2, <2>9
    <3> QED BY <1>3, <2>9, <3>1 DEF PlacesOf
  <2>11. \A p \in PostIds \ shaken' : Waits(p)' => p \in suppressed'
    <3>1. \A p \in PostIds \ shaken : Waits(p) => p \in suppressed
      BY DEF ToldOnce, Waits
    <3>2. \A p : Waits(p)' => Waits(p)
      BY <1>1, <1>2, <1>3, <1>5 DEF Waits
    <3> QED BY <1>1, <1>5, <3>1, <3>2
  <2> QED BY <1>1, <2>4, <2>6, <2>8, <2>10, <2>11 DEF ToldOnce, Waits
<1>6. \/ seen' = seen
      \/ /\ seen' = Append(seen, <<e, q>>) /\ suppressed' = suppressed /\ (q = 2 \/ ~Ignored(e))
         /\ egress' = (IF q = Parts(e) THEN [egress EXCEPT !.at = "complete"] ELSE [egress EXCEPT !.part = 2])
  BY <1>2 DEF PushPart
<1> QED BY <1>4, <1>5, <1>6

\* What a user's history takes is new to it, and was not told.
LEMMA AppendTellsOnce ==
  ASSUME ChTyped, IdsExist, PartFits, ToldOnce, channel.users, AppendLog
  PROVE  ToldOnce'
<1>1. /\ egress \in Items /\ log \in Seq(Ids) /\ egress.at = "append" /\ egress.part = 1 /\ egress.id \in Ids
      /\ UNCHANGED <<channel, outbox, seen, suppressed, letters, shaken>>
  BY DEF ChTyped, IdsExist, PartFits, AppendLog
<1>2. PICK e \in Ids : e = egress.id
  BY <1>1
<1>3. egress'.id = e /\ egress'.part = 1 /\ egress'.at = (IF e \in ToSet(log) THEN "complete" ELSE "push")
  BY <1>1, <1>2 DEF AppendLog, Items
<1>4. CASE e \in ToSet(log)
  <2>1. log' = log /\ egress'.at = "complete"
    BY <1>2, <1>3, <1>4 DEF AppendLog
  <2>2. \A p \in PostIds \ shaken' : Waits(p)' => p \in suppressed' \/ (Waits(p) /\ p \notin suppressed)
    BY <1>1, <2>1 DEF Waits
  <2> QED BY <1>1, <2>1, <2>2, TellsNothing
<1>5. CASE e \notin ToSet(log)
  <2>1. PICK t : t = Append(log, e)
    OBVIOUS
  <2>2. log' = t
    BY <1>2, <1>5, <2>1 DEF AppendLog
  <2>3. t \in Seq(Ids) /\ ToSet(t) = ToSet(log) \union {e}
    BY <1>1, <2>1, AppendIs
  <2>4. IsInjective(t)
    <3>1. \A i \in 1..Len(log) : log[i] # e
      BY <1>1, <1>5 DEF ToSet
    <3>2. \A a, b \in DOMAIN log : log[a] = log[b] => a = b
      BY DEF ToldOnce, IsInjective
    <3>3. \A a, b \in DOMAIN t : t[a] = t[b] => a = b
      BY <1>1, <2>1, <3>1, <3>2, AppendInjective
    <3> QED BY <3>3 DEF IsInjective
  <2>5. \A part : PlacesOf(e, part) = {}
    <3>1. \A i \in DOMAIN seen : seen[i][1] \in ToSet(log)
      BY DEF ToldOnce
    <3>2. \A i \in DOMAIN seen : \A part : seen[i] = <<e, part>> => seen[i][1] = e
      OBVIOUS
    <3> QED BY <1>5, <3>1, <3>2 DEF PlacesOf
  <2>6. PlacesOf(egress.id, egress.part)' = {} /\ PlacesOf(egress.id, 2)' = {}
    BY <1>1, <1>3, <2>5 DEF PlacesOf
  <2>7. \A p \in PostIds \ shaken' : Waits(p)' => p \in suppressed'
    <3>1. \A p \in PostIds \ shaken : Waits(p) => p \in suppressed
      BY DEF ToldOnce, Waits
    <3>2. \A p : Waits(p)' => Waits(p)
      BY <1>1, <1>2, <1>3, <1>5, <2>2, <2>3 DEF Waits
    <3> QED BY <1>1, <3>1, <3>2
  <2>8. /\ \A i \in DOMAIN seen : seen[i][1] \in ToSet(log)
        /\ \A i \in DOMAIN seen : seen[i][1] \in PostIds => seen[i][1] \in shaken
        /\ IsInjective(seen)
    BY DEF ToldOnce
  <2> QED BY <1>1, <2>2, <2>3, <2>4, <2>6, <2>7, <2>8 DEF ToldOnce, Waits
<1> QED BY <1>4, <1>5

\* Every step keeps a user told of a record at most once, and of a note of theirs only
\* after a crash or when its id was forgotten.
LEMMA ToldOnceStep ==
  ASSUME ChTyped, BatchFits, IdsExist, PartFits, ToldOnce, ChNext
  PROVE  ToldOnce'
<1>0. /\ egress \in Items /\ channel' = channel /\ outbox \in Seq(Ids) /\ PostIds \subseteq Ids
      /\ Len(posts) \in Nat /\ Len(letters) \in Nat /\ MaxPosts \in Nat /\ PostIds \subseteq Nat \ {0}
  <2>1. channel' = channel
    BY DEF ChNext, Say, Write, RunPost, ForgetId, Poll, TakePost, FetchMedia, RoutePost, Reply,
           TakeLetter, AppendLog, PushPart, Complete, ChCrash
  <2>2. MaxPosts \in Nat /\ PostIds \subseteq Ids /\ PostIds \subseteq Nat \ {0}
    BY ChannelsAssumption DEF Ids, PostIds
  <2>3. egress \in Items /\ outbox \in Seq(Ids) /\ Len(posts) \in Nat /\ Len(letters) \in Nat
    BY DEF ChTyped
  <2> QED BY <2>1, <2>2, <2>3
<1>1. CASE ~channel.users
  BY <1>0, <1>1 DEF ToldOnce
<1>2. CASE channel.users
  <2>1. ASSUME UNCHANGED <<channel, log, seen, egress, outbox, suppressed>>, shaken \subseteq shaken'
        PROVE  ToldOnce'
    <3>1. \A p : Waits(p)' => Waits(p)
      BY <2>1 DEF Waits
    <3> QED BY <2>1, <3>1, TellsNothing
  <2>2. CASE RunPost \/ (\E kind \in PostKinds : Say(kind)) \/ Poll \/ FetchMedia
    BY <2>1, <2>2 DEF RunPost, Say, Poll, FetchMedia
  <2>3. CASE TakePost \/ Reply
    BY <2>1, <2>3 DEF TakePost, Reply
  <2>4. CASE ForgetId
    <3>1. UNCHANGED <<channel, log, seen, egress, outbox, suppressed>> /\ shaken \subseteq shaken'
      BY <2>4 DEF ForgetId
    <3> QED BY <2>1, <3>1
  <2>5. ASSUME NEW kind \in LetterKinds, Write(kind) PROVE ToldOnce'
    <3>1. PICK id \in Nat : id = MaxPosts + Len(letters) + 1
      BY <1>0
    <3>2. id \in Ids /\ id \notin PostIds
      BY <1>0, <2>5, <3>1, ChannelsAssumption DEF Write, Ids, LetterIds, PostIds
    <3>3. ToSet(outbox') = ToSet(outbox) \union {id}
      BY <1>0, <2>5, <3>1, <3>2, AppendIs DEF Write
    <3>4. UNCHANGED <<channel, log, seen, egress, suppressed, shaken>>
      BY <2>5 DEF Write
    <3>5. \A p \in PostIds : Waits(p)' => Waits(p)
      BY <3>2, <3>3, <3>4 DEF Waits
    <3> QED BY <3>4, <3>5, TellsNothing
  <2>6. CASE RoutePost
    <3>1. PICK p : p = Head(batch)
      OBVIOUS
    <3>2. p \in PostIds
      BY <2>6, <3>1, HeadOfBatch DEF RoutePost
    <3>3. UNCHANGED <<channel, log, seen, egress, shaken>>
      BY <2>6 DEF RoutePost
    <3>4. CASE UNCHANGED <<outbox, suppressed>>
      BY <2>1, <3>3, <3>4
    <3>5. CASE outbox' = Append(outbox, p) /\ suppressed' = suppressed \union {p}
      <4>1. ToSet(outbox') = ToSet(outbox) \union {p}
        BY <1>0, <3>2, <3>5, AppendIs
      <4>2. \A q \in PostIds : Waits(q)' => Waits(q) \/ q = p
        BY <3>3, <4>1 DEF Waits
      <4>3. \A q \in PostIds \ shaken' : Waits(q)' => q \in suppressed' \/ (Waits(q) /\ q \notin suppressed)
        BY <3>5, <4>2
      <4> QED BY <3>3, <4>3, TellsNothing
    <3> QED BY <2>6, <3>1, <3>4, <3>5 DEF RoutePost
  <2>7. CASE TakeLetter
    <3>1. PICK n \in 1..Len(outbox) :
            /\ outbox' = SubSeq(outbox, n + 1, Len(outbox))
            /\ IF outbox[n] \in archive THEN UNCHANGED egress
               ELSE egress' = [id |-> outbox[n], at |-> IF channel.users THEN "append" ELSE "push", part |-> 1]
      BY <2>7 DEF TakeLetter
    <3>2. outbox[n] \in ToSet(outbox) /\ ToSet(outbox') \subseteq ToSet(outbox)
      BY <1>0, <3>1, RestIs DEF ToSet
    <3>3. UNCHANGED <<channel, log, seen, suppressed, shaken>> /\ egress.at = "idle"
      BY <2>7 DEF TakeLetter, NoItem
    <3>4. egress' = egress \/ (egress'.at = "append" /\ egress'.id = outbox[n])
      BY <1>2, <3>1
    <3>5. egress'.at # "push"
      BY <3>3, <3>4
    <3>6. \A p \in PostIds : Waits(p)' => Waits(p)
      BY <3>2, <3>3, <3>4, <3>5 DEF Waits
    <3> QED BY <3>3, <3>5, <3>6, TellsNothing
  <2>8. CASE AppendLog
    BY <1>2, <2>8, AppendTellsOnce
  <2>9. CASE PushPart
    BY <1>2, <2>9, PushTellsOnce
  <2>10. CASE Complete
    <3>1. UNCHANGED <<channel, log, seen, outbox, suppressed, shaken>> /\ egress'.at = "idle"
      BY <2>10 DEF Complete, NoItem
    <3>2. \A p \in PostIds : Waits(p)' => Waits(p)
      BY <3>1 DEF Waits
    <3> QED BY <3>1, <3>2, TellsNothing
  <2>11. CASE ChCrash
    <3>1. /\ UNCHANGED <<channel, log, seen, outbox>>
          /\ shaken' = shaken \union {p \in PostIds : p <= Len(posts)}
      BY <2>11 DEF ChCrash
    <3>2. egress' = NoItem \/ (egress'.id = egress.id /\ egress'.at = "append" /\ egress.at # "idle")
      BY <1>0, <1>2, <2>11 DEF ChCrash, Items
    <3>3. egress'.at # "push"
      BY <3>2 DEF NoItem
    <3>4. \A p \in PostIds \ shaken' : ~Real(p)
      BY <1>0, <3>1 DEF Real
    <3>5. \A p \in PostIds \ shaken' : p \notin ToSet(outbox) /\ (egress.at # "idle" => egress.id # p)
      BY <3>4 DEF IdsExist
    <3>6. \A p \in PostIds : egress' = NoItem => egress'.id # p
      BY <1>0 DEF NoItem
    <3>7. \A p \in PostIds \ shaken' : ~Waits(p)'
      BY <3>1, <3>2, <3>3, <3>5, <3>6 DEF Waits
    <3> QED BY <3>1, <3>3, <3>7, TellsNothing
  <2> QED BY <2>2, <2>3, <2>4, <2>5, <2>6, <2>7, <2>8, <2>9, <2>10, <2>11 DEF ChNext
<1> QED BY <1>1, <1>2

\* The books of a channel hold at its start.
LEMMA ChStarts == ChStart => ChInv
<1> SUFFICES ASSUME ChStart PROVE ChInv
  OBVIOUS
<1>1. \A S : <<>> \in Seq(S) /\ Len(<<>>) = 0 /\ ToSet(<<>>) = {} /\ DOMAIN <<>> = {}
  BY DEF ToSet
<1>2. MaxPosts \in Nat /\ MaxLetters \in Nat /\ 1..0 = {} /\ \A i \in 1..0 : FALSE
  BY ChannelsAssumption
<1>3. ChTyped
  <2>1. /\ posts \in Seq(PostKinds) /\ Len(posts) <= MaxPosts /\ letters \in Seq(LetterKinds) /\ Len(letters) <= MaxLetters
        /\ batch \in Seq(PostIds) /\ inbox \in Seq(PostIds)
    BY <1>1, <1>2 DEF ChStart
  <2>2. outbox \in Seq(Ids) /\ log \in Seq(Ids) /\ seen \in Seq(Ids \X (1..2)) /\ archive = {} /\ shaken = {} /\ suppressed = {}
    BY <1>1 DEF ChStart
  <2>3. /\ outcome \in [PostIds -> {"none", "routed", "nothing", "refused", "unknown"}]
        /\ ran \in [PostIds -> Nat]
    BY DEF ChStart
  <2>4. egress \in Items /\ confirmed \in Nat /\ cursor \in Nat /\ step = "poll"
    BY ItemsAre DEF ChStart
  <2>5. channel \in [type : {"telegram", "slack"}, users : BOOLEAN, shipped : BOOLEAN]
    BY DEF ChStart
  <2> QED BY <2>1, <2>2, <2>3, <2>4, <2>5 DEF ChTyped
<1>4. BatchFits
  BY <1>1, <1>2 DEF ChStart, BatchFits, Offset
<1>5. IdsExist
  BY <1>1, <1>2 DEF ChStart, IdsExist, NoItem
<1>6. RunFits
  BY <1>1, <1>2 DEF ChStart, RunFits
<1>7. PartFits
  BY DEF ChStart, PartFits, NoItem
<1>8. ShownInOrder
  <2>1. Written = {}
    BY <1>1, <1>2 DEF ChStart, Written
  <2> QED BY <1>1, <1>2, <2>1 DEF ChStart, ShownInOrder, NoItem
<1>9. ToldOnce
  BY <1>1, <1>2 DEF ChStart, ToldOnce, NoItem, IsInjective
<1> QED BY <1>3, <1>4, <1>5, <1>6, <1>7, <1>8, <1>9 DEF ChInv

\* What the books amount to.
LEMMA ChInvHolds == ChInv => ChannelsDeliver
<1> SUFFICES ASSUME ChInv PROVE ChannelsDeliver
  OBVIOUS
<1>0. ChTyped /\ BatchFits /\ IdsExist /\ RunFits /\ ShownInOrder /\ ToldOnce
  BY DEF ChInv
<1>1. \A p \in Passed : outcome[p] # "none" \/ p \in ToSet(batch)
  BY <1>0 DEF BatchFits, Passed, Offset
<1>2. \A p \in PostIds \ shaken : ran[p] <= 1
  BY <1>0 DEF RunFits
<1>3. \A p \in PostIds : outcome[p] = "routed" =>
        \/ p \in ToSet(inbox) \union ToSet(outbox) \union ToSet(log) \union {egress.id}
        \/ ran[p] > 0
  BY <1>0 DEF RunFits
<1>4. ASSUME ~channel.users, NEW a \in LetterIds, NEW b \in LetterIds, a < b
      PROVE  /\ a \in archive /\ KindOf(a) # "other" => ShownWhole(a)
             /\ \A i \in PlacesOf(b, 1) : KindOf(a) # "other" => \E j \in PlacesOf(a, Parts(a)) : j < i
  <2>1. a \in archive /\ KindOf(a) # "other" => ShownWhole(a)
    BY <1>0, <1>4 DEF ShownInOrder, Shown
  <2>2. ASSUME NEW i \in PlacesOf(b, 1), KindOf(a) # "other" PROVE \E j \in PlacesOf(a, Parts(a)) : j < i
    <3>1. i \in DOMAIN seen /\ seen[i][1] = b
      BY DEF PlacesOf
    <3>2. Real(b) /\ b \in Ids
      BY <1>0, <3>1 DEF IdsExist, Ids
    <3>3. b \in Written
      BY <1>0, <1>4, <3>2, WrittenIs
    <3>4. a \in Written
      <4>1. Len(letters) \in Nat /\ MaxPosts \in Nat /\ MaxLetters \in Nat
        BY <1>0, ChannelsAssumption DEF ChTyped
      <4> QED BY <1>4, <3>3, <4>1 DEF Written, LetterIds
    <3> QED BY <1>0, <1>4, <2>2, <3>3, <3>4 DEF ShownInOrder
  <2> QED BY <2>1, <2>2
<1>5. channel.users =>
        /\ IsInjective(log) /\ IsInjective(seen)
        /\ \A i \in DOMAIN seen : seen[i][1] \in PostIds => seen[i][1] \in shaken
  BY <1>0 DEF ToldOnce
<1> QED BY <1>1, <1>2, <1>3, <1>4, <1>5 DEF ChannelsDeliver

\* Whatever is posted and written, whichever request fails, and wherever the server
\* falls over: no post is passed over, each runs once while its id is remembered, an
\* operator's letters are shown whole and in order before they are archived, and a user's
\* history has a record once and the chat is told of it at most once (the loops of
\* telegram.ts and slack.ts, egress.ts, the sink of wire-users.ts).
THEOREM ChannelsAreDelivered == ChSpec => []ChannelsDeliver
<1>1. ChInv /\ [ChNext]_chVars => ChInv'
  <2> SUFFICES ASSUME ChInv, [ChNext]_chVars PROVE ChInv'
    OBVIOUS
  <2>0. ChTyped /\ BatchFits /\ IdsExist /\ RunFits /\ PartFits /\ ShownInOrder /\ ToldOnce
    BY DEF ChInv
  <2>1. CASE ChNext
    BY <2>0, <2>1, ChTypedStep, BatchFitsStep, IdsExistStep, RunFitsStep, PartFitsStep, ShownInOrderStep,
       ToldOnceStep DEF ChInv
  <2>2. CASE UNCHANGED chVars
    <3>1. ChTyped'
      BY <2>0, <2>2 DEF chVars, ChTyped
    <3>2. BatchFits'
      BY <2>0, <2>2 DEF chVars, BatchFits, Offset
    <3>3. IdsExist'
      BY <2>0, <2>2 DEF chVars, IdsExist, Real
    <3>4. RunFits'
      BY <2>0, <2>2 DEF chVars, RunFits
    <3>5. PartFits'
      BY <2>0, <2>2 DEF chVars, PartFits, Parts, KindOf, PlacesOf
    <3>6. ShownInOrder'
      <4>1. ~channel.users /\ egress.at = "complete" => Shown(egress.id)
        BY <2>0 DEF ShownInOrder
      <4> QED BY <2>0, <2>2, <4>1, OrderStays DEF chVars
    <3>7. ToldOnce'
      <4>1. \A p : Waits(p)' => Waits(p)
        BY <2>2 DEF chVars, Waits
      <4> QED BY <2>0, <2>2, <4>1, TellsNothing DEF chVars
    <3> QED BY <3>1, <3>2, <3>3, <3>4, <3>5, <3>6, <3>7 DEF ChInv
  <2> QED BY <2>1, <2>2
<1> QED BY <1>1, ChStarts, ChInvHolds, PTL DEF ChSpec
=============================================================================
