--------------------------- MODULE DispatcherProofs ---------------------------
(***************************************************************************)
(* Proofs about the dispatcher and the driver of its session, for every    *)
(* set of ids, every bound and every kind of disruption.                   *)
(*                                                                         *)
(* Most actions touch neither the queue nor the item in hand.  QuietOrNot  *)
(* says so once, so that each proof about the queue has one case for all   *)
(* of them and one for each action that moves a record.                    *)
(***************************************************************************)
EXTENDS Dispatcher, Driver, TLAPS

-----------------------------------------------------------------------------
(* Type correctness. *)

\* An operation of the lane is one: what drain takes and what it leaves.
LEMMA LaneTypes ==
  ASSUME TypeOK, lane # <<>>
  PROVE  /\ Head(lane) \in LaneOp
         /\ Tail(lane) \in Seq(LaneOp)
         /\ Head(lane).ids \subseteq Ids
<1>1. \A s \in Seq(LaneOp) : s # <<>> => Head(s) \in LaneOp /\ Tail(s) \in Seq(LaneOp)
  OBVIOUS
<1>2. Head(lane) \in LaneOp /\ Tail(lane) \in Seq(LaneOp)
  BY <1>1 DEF TypeOK
<1> QED
  BY <1>2 DEF LaneOp

\* The steps a lifecycle operation may be given.
LEMMA OperationTypes ==
  /\ Kill \in Seq(Steps) /\ Raise \in Seq(Steps)
  /\ ProvisionOp \in Seq(Steps) /\ RestartOp \in Seq(Steps)
  /\ ReloadOp \in Seq(Steps) /\ IdleTeardownOp \in Seq(Steps)
  /\ ReconcileOp \in Seq(Steps) /\ ReviveOp \in Seq(Steps)
  /\ Kill \o <<"submit">> \in Seq(Steps)
  /\ <<>> \in Seq(Steps)
<1>1. Kill \in Seq(Steps) /\ Raise \in Seq(Steps)
  BY DEF Kill, Raise, Steps
<1>2. <<>> \in Seq(Steps) /\ <<"onUp">> \in Seq(Steps) /\ <<"reset">> \in Seq(Steps)
      /\ <<"submit">> \in Seq(Steps)
  BY DEF Steps
<1>3. ProvisionOp \in Seq(Steps)
  BY <1>1, <1>2 DEF ProvisionOp
<1>4. ReconcileOp \in Seq(Steps) /\ ReviveOp \in Seq(Steps)
  BY DEF ReconcileOp, ReviveOp, Steps
<1> QED
  BY <1>1, <1>2, <1>3, <1>4 DEF RestartOp, ReloadOp, IdleTeardownOp

\* Every step of a lifecycle operation (packages/lifecycle) keeps the types of
\* the session's state.
LEMMA StepTypes ==
  ASSUME SessTypeOK, NEW o \in Owners, Step(o)
  PROVE  SessTypeOK'
<1> USE DEF SessTypeOK, Statuses
<1>1. \A s \in Seq(Steps) : s # <<>> => Head(s) \in Steps /\ Tail(s) \in Seq(Steps)
  OBVIOUS
<1>2. Rest(o) \in [Owners -> Seq(Steps)] \/ todo[o] = <<>>
  BY <1>1 DEF Rest
<1>3. <<>> \in Seq(Steps) /\ Raise \in Seq(Steps)
  BY OperationTypes
<1>4. NoAnswer \in [live : BOOLEAN, status : Statuses]
  BY DEF NoAnswer
<1>5. CASE KillSession(o) BY <1>2, <1>5 DEF KillSession, Running
<1>5a. CASE KillSessionFails(o) BY <1>3, <1>5a DEF KillSessionFails
<1>6. CASE ToDown(o) BY <1>2, <1>6 DEF ToDown, Running
<1>7. CASE NewSession(o) BY <1>2, <1>7 DEF NewSession, Running
<1>8. CASE NewSessionFails(o) BY <1>3, <1>8 DEF NewSessionFails
<1>9. CASE ToIdle(o) BY <1>2, <1>9 DEF ToIdle, Running
<1>10. CASE ResetBudget(o) BY <1>2, <1>10 DEF ResetBudget, Running
<1>11. CASE Probe(o) BY <1>2, <1>3, <1>4, <1>11 DEF Probe, Running
<1>12. CASE Settle(o) BY <1>2, <1>4, <1>12 DEF Settle, Running
<1>13. CASE AttachOrRaise(o) BY <1>2, <1>3, <1>4, <1>13 DEF AttachOrRaise, Running
<1> QED
  BY <1>5, <1>5a, <1>6, <1>7, <1>8, <1>9, <1>10, <1>11, <1>12, <1>13 DEF Step

\* What a queue edit does to the directories: nothing, or one record.
LEMMA CancelCases ==
  ASSUME NEW id, CancelPending(id)
  PROVE  \/ UNCHANGED mailVars
         \/ \E r \in pending :
              /\ r.id = id /\ id \notin IdsOf(cur)
              /\ pending' = pending \ {r}
              /\ UNCHANGED <<tmp, cur, done, failed, doneIds, nextSeq>>
  BY DEF CancelPending, mailVars

\* RequeueFailed: a no-op, or one failed record that returns under a fresh stamp.
LEMMA RequeueCases ==
  ASSUME NEW id, RequeueFailed(id)
  PROVE  \/ UNCHANGED mailVars
         \/ \E r \in failed :
              /\ r.id = id /\ id \notin doneIds
              /\ nextSeq <= MaxSeq /\ nextSeq' = nextSeq + 1
              /\ failed' = failed \ {r}
              /\ pending' = pending \union {[seq |-> nextSeq, id |-> id]}
              /\ UNCHANGED <<tmp, cur, done, doneIds>>
  BY DEF RequeueFailed, mailVars

\* An edit that drain takes names an id of Ids.
LEMMA EditCases ==
  ASSUME TypeOK, TakeEdit
  PROVE  /\ UNCHANGED <<loop, hold, snap, pruning>> /\ Draining /\ lane # <<>>
         /\ \E id \in Ids :
              \/ Head(lane).kind = "cancel" /\ id \in Head(lane).ids /\ CancelPending(id)
              \/ RequeueFailed(id)
<1>1. PICK id \in Head(lane).ids :
        \/ Head(lane).kind = "cancel" /\ CancelPending(id)
        \/ RequeueFailed(id)
  BY DEF TakeEdit
<1>2. id \in Ids
  BY LaneTypes DEF TakeEdit
<1> QED
  BY <1>1, <1>2 DEF TakeEdit, loopVars

\* Every action keeps the types of the directories and of the window.
LEMMA MailTypes ==
  ASSUME TypeOK, Next
  PROVE  MailTypeOK'
<1> USE MaxSeqAssumption DEF MailTypeOK, TypeOK, Record, IdsOf, mailVars
<1>1. CASE Top
  BY <1>1 DEF Top
<1>2. CASE TakeEdit
  <2>1. PICK id \in Ids : CancelPending(id) \/ RequeueFailed(id)
    BY <1>2, EditCases
  <2>2. CASE CancelPending(id)
    BY <2>2, CancelCases
  <2>3. CASE RequeueFailed(id)
    <3>1. nextSeq <= MaxSeq => [seq |-> nextSeq, id |-> id] \in Record
      OBVIOUS
    <3> QED
      BY <2>3, <3>1, RequeueCases
  <2> QED
    BY <2>1, <2>2, <2>3
<1>3. CASE TakeLifecycle
  BY <1>3 DEF TakeLifecycle
<1>4. CASE Drained
  BY <1>4 DEF Drained
<1>5. CASE LoopStep
  BY <1>5 DEF LoopStep
<1>6. CASE MaybeRevive
  BY <1>6 DEF MaybeRevive
<1>7. CASE Revived
  BY <1>7 DEF Revived
<1>8. CASE Recover
  BY <1>8 DEF Recover
<1>9. CASE RecoverHeld
  BY <1>9 DEF RecoverHeld
<1>10. CASE Pump
  BY <1>10 DEF Pump
<1>11. CASE Dequeue
  BY <1>11 DEF Dequeue
<1>12. CASE ScanEmpty
  BY <1>12 DEF ScanEmpty
<1>13. CASE \E r \in snap : ScanDrop(r)
  BY <1>13 DEF ScanDrop, DropDuplicate
<1>14. CASE \E r \in snap : ScanHold(r)
  BY <1>14 DEF ScanHold
<1>15. CASE \E r \in snap : ScanClaim(r)
  BY <1>15 DEF ScanClaim, Claim
<1>16. CASE StartAborted
  BY <1>16 DEF StartAborted
<1>17. CASE StartTurn
  BY <1>17 DEF StartTurn
<1>18. CASE StartThrows
  BY <1>18 DEF StartThrows
<1>19. CASE Materialize
  BY <1>19 DEF Materialize
<1>20. CASE Inject
  BY <1>20 DEF Inject
<1>21. CASE InjectFails
  BY <1>21 DEF InjectFails
<1>22. CASE \E r \in hold : FailTurn(r)
  BY <1>22 DEF FailTurn, CompleteFailed
<1>23. CASE \E r \in hold : TurnDone(r)
  BY <1>23 DEF TurnDone, CompleteDone
<1>24. CASE \E r \in hold : TurnNoted(r)
  BY <1>24 DEF TurnNoted, NoteDone
<1>25. CASE FailSettled
  BY <1>25 DEF FailSettled, Idle
<1>26. CASE SessionLost
  BY <1>26 DEF SessionLost
<1>27. CASE TurnAborted
  BY <1>27 DEF TurnAborted, Idle
<1>28. CASE TurnSettled
  BY <1>28 DEF TurnSettled, Idle
<1>29. CASE \E id \in Ids : Send(id)
  BY <1>29 DEF Send, Stamp
<1>30. CASE \E r \in tmp : Deliver(r)
  BY <1>30 DEF Deliver, Land
<1>31. CASE AdminKill
  BY <1>31 DEF AdminKill
<1>32. CASE AdminStep
  BY <1>32 DEF AdminStep
<1>33. CASE RestartSubmits
  BY <1>33 DEF RestartSubmits
<1>34. CASE SubmitLifecycle
  BY <1>34 DEF SubmitLifecycle, Submit
<1>35. CASE SubmitEdit
  BY <1>35 DEF SubmitEdit, Submit
<1>36. CASE SweepIdle
  BY <1>36 DEF SweepIdle, Submit
<1>37. CASE SweepLiveness
  BY <1>37 DEF SweepLiveness
<1>38. CASE TogglePause
  BY <1>38 DEF TogglePause
<1>39. CASE PersistPause
  BY <1>39 DEF PersistPause
<1>40. CASE \E S \in SUBSET done : SweepDone(S)
  BY <1>40 DEF SweepDone, PruneDone
<1>41. CASE SweepForget
  BY <1>41 DEF SweepForget, ForgetDone
<1>42. CASE \E S \in SUBSET failed : SweepFailed(S)
  BY <1>42 DEF SweepFailed, PruneFailed
<1>43. CASE OutOfBand
  BY <1>43 DEF OutOfBand
<1>44. CASE Stop
  BY <1>44 DEF Stop
<1>45. CASE Crash
  BY <1>45 DEF Crash, ReloadMail
<1>46. CASE AgentEnds
  BY <1>46 DEF AgentEnds
<1> QED
  BY <1>1, <1>2, <1>3, <1>4, <1>5, <1>6, <1>7, <1>8, <1>9, <1>10, <1>11, <1>12,
     <1>13, <1>14, <1>15, <1>16, <1>17, <1>18, <1>19, <1>20, <1>21, <1>22, <1>23,
     <1>24, <1>25, <1>26, <1>27, <1>28, <1>29, <1>30, <1>31, <1>32, <1>33, <1>34,
     <1>35, <1>36, <1>37, <1>38, <1>39, <1>40, <1>41, <1>42, <1>43, <1>44, <1>45,
     <1>46
  DEF Next, LoopNext, SideNext, AgentNext

\* Every action keeps the types of the session's state.
LEMMA SessionTypes ==
  ASSUME TypeOK, Next
  PROVE  SessTypeOK'
<1> USE DEF TypeOK, SessTypeOK, Statuses, Owners, sessVars
<1>0. todo["admin"] # <<>> => Tail(todo["admin"]) \in Seq(Steps)
  OBVIOUS
<1>1. CASE Top
  BY <1>1 DEF Top
<1>2. CASE TakeEdit
  BY <1>2 DEF TakeEdit
<1>3. CASE TakeLifecycle
  <2>1. PICK steps \in StepsOf(Head(lane).kind) : todo' = [todo EXCEPT !["lane"] = steps]
    BY <1>3 DEF TakeLifecycle
  <2>2. StepsOf(Head(lane).kind) \subseteq Seq(Steps)
    BY OperationTypes DEF StepsOf
  <2> QED
    BY <1>3, <2>1, <2>2 DEF TakeLifecycle
<1>4. CASE Drained
  BY <1>4 DEF Drained
<1>5. CASE LoopStep
  BY <1>5, StepTypes DEF LoopStep
<1>6. CASE MaybeRevive
  BY <1>6, OperationTypes DEF MaybeRevive, BeginRevive, CanRevive
<1>7. CASE Revived
  BY <1>7 DEF Revived
<1>8. CASE Recover
  BY <1>8 DEF Recover
<1>9. CASE RecoverHeld
  BY <1>9 DEF RecoverHeld
<1>10. CASE Pump
  BY <1>10 DEF Pump
<1>11. CASE Dequeue
  BY <1>11 DEF Dequeue
<1>12. CASE ScanEmpty
  BY <1>12 DEF ScanEmpty
<1>13. CASE \E r \in snap : ScanDrop(r)
  BY <1>13 DEF ScanDrop
<1>14. CASE \E r \in snap : ScanHold(r)
  BY <1>14 DEF ScanHold
<1>15. CASE \E r \in snap : ScanClaim(r)
  BY <1>15 DEF ScanClaim
<1>16. CASE StartAborted
  BY <1>16 DEF StartAborted
<1>17. CASE StartTurn
  BY <1>17 DEF StartTurn
<1>18. CASE StartThrows
  BY <1>18 DEF StartThrows
<1>19. CASE Materialize
  BY <1>19 DEF Materialize
<1>20. CASE Inject
  BY <1>20 DEF Inject
<1>21. CASE InjectFails
  BY <1>21 DEF InjectFails
<1>22. CASE \E r \in hold : FailTurn(r)
  BY <1>22 DEF FailTurn
<1>23. CASE \E r \in hold : TurnDone(r)
  BY <1>23 DEF TurnDone
<1>24. CASE \E r \in hold : TurnNoted(r)
  BY <1>24 DEF TurnNoted
<1>25. CASE FailSettled
  BY <1>25 DEF FailSettled, Idle
<1>26. CASE SessionLost
  BY <1>26 DEF SessionLost
<1>27. CASE TurnAborted
  BY <1>27 DEF TurnAborted, Idle
<1>28. CASE TurnSettled
  BY <1>28 DEF TurnSettled, Idle
<1>29. CASE \E id \in Ids : Send(id)
  BY <1>29 DEF Send
<1>30. CASE \E r \in tmp : Deliver(r)
  BY <1>30 DEF Deliver
<1>31. CASE AdminKill
  <2>1. PICK steps \in {Kill, Kill \o <<"submit">>} : todo' = [todo EXCEPT !["admin"] = steps]
    BY <1>31 DEF AdminKill
  <2>2. steps \in Seq(Steps)
    BY OperationTypes
  <2> QED
    BY <1>31, <2>1, <2>2 DEF AdminKill
<1>32. CASE AdminStep
  BY <1>32, StepTypes DEF AdminStep
<1>33. CASE RestartSubmits
  BY <1>33, <1>0 DEF RestartSubmits, Rest, Running
<1>34. CASE SubmitLifecycle
  BY <1>34 DEF SubmitLifecycle, Submit
<1>35. CASE SubmitEdit
  BY <1>35 DEF SubmitEdit, Submit
<1>36. CASE SweepIdle
  BY <1>36 DEF SweepIdle, Submit
<1>37. CASE SweepLiveness
  BY <1>37 DEF SweepLiveness
<1>38. CASE TogglePause
  BY <1>38 DEF TogglePause
<1>39. CASE PersistPause
  BY <1>39 DEF PersistPause
<1>40. CASE \E S \in SUBSET done : SweepDone(S)
  BY <1>40 DEF SweepDone
<1>41. CASE SweepForget
  BY <1>41 DEF SweepForget
<1>42. CASE \E S \in SUBSET failed : SweepFailed(S)
  BY <1>42 DEF SweepFailed
<1>43. CASE OutOfBand
  BY <1>43 DEF OutOfBand, SessionDies, StartedByHand
<1>44. CASE Stop
  BY <1>44 DEF Stop
<1>45. CASE Crash
  BY <1>45, OperationTypes DEF Crash, Boot, NoWork, NoProbe, NoAnswer
<1>46. CASE AgentEnds
  BY <1>46 DEF AgentEnds
<1> QED
  BY <1>1, <1>2, <1>3, <1>4, <1>5, <1>6, <1>7, <1>8, <1>9, <1>10, <1>11, <1>12,
     <1>13, <1>14, <1>15, <1>16, <1>17, <1>18, <1>19, <1>20, <1>21, <1>22, <1>23,
     <1>24, <1>25, <1>26, <1>27, <1>28, <1>29, <1>30, <1>31, <1>32, <1>33, <1>34,
     <1>35, <1>36, <1>37, <1>38, <1>39, <1>40, <1>41, <1>42, <1>43, <1>44, <1>45,
     <1>46
  DEF Next, LoopNext, SideNext, AgentNext

\* Every action keeps the types of the loop's state and of what runs beside it.
LEMMA LoopTypes ==
  ASSUME TypeOK, Next
  PROVE  /\ loop' \in LoopPoints /\ via' \in {"pump", "recover"}
         /\ (hold \subseteq Record)' /\ (snap \subseteq Record)'
         /\ filtered' \in BOOLEAN /\ ending' \in {"none", "seen"}
         /\ lane' \in Seq(LaneOp)
         /\ paused' \in BOOLEAN /\ saved' \in BOOLEAN /\ aborted' \in BOOLEAN
         /\ (pruning \subseteq Ids)'
         /\ faults' \in 0..MaxFaults /\ leaked' \in 0..2
<1> USE MaxFaultsAssumption
    DEF TypeOK, MailTypeOK, Record, IdsOf, LoopPoints, loopVars, sideVars, Goto, Disrupt
<1>0. <<>> \in Seq(LaneOp)
  OBVIOUS
<1>1. CASE Top
  BY <1>1 DEF Top
<1>2. CASE TakeEdit
  BY <1>2, LaneTypes DEF TakeEdit
<1>3. CASE TakeLifecycle
  BY <1>3, LaneTypes DEF TakeLifecycle
<1>4. CASE Drained
  BY <1>4 DEF Drained
<1>5. CASE LoopStep
  BY <1>5 DEF LoopStep
<1>6. CASE MaybeRevive
  BY <1>6 DEF MaybeRevive, BeginRevive
<1>7. CASE Revived
  BY <1>7 DEF Revived
<1>8. CASE Recover
  BY <1>8 DEF Recover
<1>9. CASE RecoverHeld
  BY <1>9 DEF RecoverHeld
<1>10. CASE Pump
  BY <1>10 DEF Pump
<1>11. CASE Dequeue
  BY <1>11 DEF Dequeue
<1>12. CASE ScanEmpty
  BY <1>12 DEF ScanEmpty
<1>13. CASE \E r \in snap : ScanDrop(r)
  BY <1>13 DEF ScanDrop
<1>14. CASE \E r \in snap : ScanHold(r)
  BY <1>14 DEF ScanHold
<1>15. CASE \E r \in snap : ScanClaim(r)
  BY <1>15 DEF ScanClaim
<1>16. CASE StartAborted
  BY <1>16 DEF StartAborted, AfterAbort
<1>17. CASE StartTurn
  BY <1>17 DEF StartTurn, Caller
<1>18. CASE StartThrows
  BY <1>18 DEF StartThrows
<1>19. CASE Materialize
  BY <1>19 DEF Materialize
<1>20. CASE Inject
  BY <1>20 DEF Inject
<1>21. CASE InjectFails
  BY <1>21 DEF InjectFails
<1>22. CASE \E r \in hold : FailTurn(r)
  BY <1>22 DEF FailTurn
<1>23. CASE \E r \in hold : TurnDone(r)
  BY <1>23 DEF TurnDone
<1>24. CASE \E r \in hold : TurnNoted(r)
  BY <1>24 DEF TurnNoted
<1>25. CASE FailSettled
  BY <1>25 DEF FailSettled, Idle
<1>26. CASE SessionLost
  BY <1>26 DEF SessionLost
<1>27. CASE TurnAborted
  BY <1>27 DEF TurnAborted, Idle, AfterAbort
<1>28. CASE TurnSettled
  BY <1>28 DEF TurnSettled, Idle
<1>29. CASE \E id \in Ids : Send(id)
  BY <1>29 DEF Send
<1>30. CASE \E r \in tmp : Deliver(r)
  BY <1>30 DEF Deliver
<1>31. CASE AdminKill
  BY <1>31 DEF AdminKill
<1>32. CASE AdminStep
  BY <1>32 DEF AdminStep
<1>33. CASE RestartSubmits
  BY <1>33 DEF RestartSubmits, SessionOp, LaneOp, LaneKinds
<1>34. CASE SubmitLifecycle
  BY <1>34 DEF SubmitLifecycle, Submit, SessionOp, LaneOp, LaneKinds
<1>35. CASE SubmitEdit
  BY <1>35 DEF SubmitEdit, Submit, LaneOp, LaneKinds
<1>36. CASE SweepIdle
  BY <1>36 DEF SweepIdle, Submit, SessionOp, LaneOp, LaneKinds
<1>37. CASE SweepLiveness
  BY <1>37 DEF SweepLiveness, SessionOp, LaneOp, LaneKinds
<1>38. CASE TogglePause
  BY <1>38 DEF TogglePause
<1>39. CASE PersistPause
  BY <1>39 DEF PersistPause
<1>40. CASE \E S \in SUBSET done : SweepDone(S)
  BY <1>40 DEF SweepDone
<1>41. CASE SweepForget
  BY <1>41 DEF SweepForget
<1>42. CASE \E S \in SUBSET failed : SweepFailed(S)
  BY <1>42 DEF SweepFailed
<1>43. CASE OutOfBand
  BY <1>43 DEF OutOfBand
<1>44. CASE Stop
  BY <1>44 DEF Stop
<1>45. CASE Crash
  <2>1. /\ loop' = "top" /\ via' = "pump" /\ hold' = {} /\ snap' = {}
        /\ filtered' = FALSE /\ ending' = "none"
        /\ lane' = <<>> /\ paused' = saved /\ aborted' = FALSE /\ pruning' = {}
        /\ saved' = saved /\ leaked' = leaked
        /\ faults < MaxFaults /\ faults' = faults + 1
    BY <1>45 DEF Crash
  <2>2. paused' \in BOOLEAN /\ saved' \in BOOLEAN /\ aborted' \in BOOLEAN /\ filtered' \in BOOLEAN
    BY <2>1, Zenon
  <2>3. faults' \in 0..MaxFaults /\ leaked' \in 0..2
    BY <2>1
  <2>4. lane' \in Seq(LaneOp)
    BY <1>0, <2>1
  <2> QED
    BY <2>1, <2>2, <2>3, <2>4
<1>46. CASE AgentEnds
  BY <1>46 DEF AgentEnds
<1> QED
  BY <1>1, <1>2, <1>3, <1>4, <1>5, <1>6, <1>7, <1>8, <1>9, <1>10, <1>11, <1>12,
     <1>13, <1>14, <1>15, <1>16, <1>17, <1>18, <1>19, <1>20, <1>21, <1>22, <1>23,
     <1>24, <1>25, <1>26, <1>27, <1>28, <1>29, <1>30, <1>31, <1>32, <1>33, <1>34,
     <1>35, <1>36, <1>37, <1>38, <1>39, <1>40, <1>41, <1>42, <1>43, <1>44, <1>45,
     <1>46
  DEF Next, LoopNext, SideNext, AgentNext

\* Every reachable state has the types the modules declare.
THEOREM TypeCorrect == Spec => []TypeOK
<1>1. Init => TypeOK
  <2> SUFFICES ASSUME Init PROVE TypeOK
    OBVIOUS
  <2>1. SessTypeOK
    <3>1. spent \in BOOLEAN /\ live \in BOOLEAN
      BY Zenon DEF Init, SessInit
    <3> QED
      BY <3>1, OperationTypes
      DEF Init, SessInit, SessTypeOK, Statuses, NoWork, NoProbe, NoAnswer
  <2>2. MailTypeOK
    BY MaxSeqAssumption DEF Init, MailInit, MailTypeOK
  <2>3. lane \in Seq(LaneOp)
    BY DEF Init
  <2>4. /\ filtered \in BOOLEAN /\ paused \in BOOLEAN
        /\ saved \in BOOLEAN /\ aborted \in BOOLEAN
    BY Zenon DEF Init
  <2>5. /\ faults \in 0..MaxFaults /\ leaked \in 0..2
        /\ hold = {} /\ snap = {} /\ pruning = {}
        /\ loop \in LoopPoints /\ via \in {"pump", "recover"}
        /\ ending \in {"none", "seen"}
    BY MaxFaultsAssumption DEF Init, LoopPoints
  <2> QED
    BY <2>1, <2>2, <2>3, <2>4, <2>5 DEF TypeOK
<1>2. TypeOK /\ [Next]_vars => TypeOK'
  <2>1. CASE Next
    BY <2>1, MailTypes, SessionTypes, LoopTypes DEF TypeOK
  <2>2. CASE UNCHANGED vars
    BY <2>2 DEF vars, mailVars, sessVars, loopVars, sideVars,
                TypeOK, MailTypeOK, SessTypeOK
  <2> QED
    BY <2>1, <2>2
<1> QED
  BY <1>1, <1>2, PTL DEF Spec

-----------------------------------------------------------------------------
(* The queue. *)

Calm == LoopPoints \ (InFlight \union InTail \union {"scan"})

\* A step that moves no record and leaves the hand and the listing alone.
Quiet ==
  /\ UNCHANGED <<mailVars, hold, snap, pruning>>
  /\ \/ loop' = loop
     \/ loop \in InFlight /\ loop' \in InFlight
     \/ loop \in Calm /\ loop' \in Calm

\* The case split of the safety proofs: a step is quiet (it touches neither the
\* directories nor the item in hand, and stays in its phase of the turn), or it is
\* one of the named actions of the queue and of the turn.
LEMMA QuietOrNot ==
  ASSUME TypeOK, Next
  PROVE  \/ Quiet
         \/ TakeEdit
         \/ Recover
         \/ RecoverHeld
         \/ Dequeue
         \/ ScanEmpty
         \/ \E r \in snap : ScanDrop(r)
         \/ \E r \in snap : ScanHold(r)
         \/ \E r \in snap : ScanClaim(r)
         \/ StartAborted
         \/ StartThrows
         \/ \E r \in hold : FailTurn(r)
         \/ \E r \in hold : TurnDone(r)
         \/ \E r \in hold : TurnNoted(r)
         \/ FailSettled
         \/ SessionLost
         \/ TurnAborted
         \/ TurnSettled
         \/ \E id \in Ids : Send(id)
         \/ \E r \in tmp : Deliver(r)
         \/ \E S \in SUBSET done : SweepDone(S)
         \/ SweepForget
         \/ \E S \in SUBSET failed : SweepFailed(S)
         \/ Crash
<1> USE DEF Quiet, Calm, LoopPoints, InFlight, InTail, loopVars, sideVars, Goto
<1>1. CASE Top
  BY <1>1 DEF Top
<1>2. CASE TakeLifecycle
  BY <1>2 DEF TakeLifecycle
<1>3. CASE Drained
  BY <1>3 DEF Drained
<1>4. CASE LoopStep
  BY <1>4 DEF LoopStep
<1>5. CASE MaybeRevive
  BY <1>5 DEF MaybeRevive
<1>6. CASE Revived
  BY <1>6 DEF Revived
<1>7. CASE Pump
  BY <1>7 DEF Pump
<1>8. CASE StartTurn
  BY <1>8 DEF StartTurn, CanStart
<1>9. CASE Materialize
  BY <1>9 DEF Materialize
<1>10. CASE Inject
  BY <1>10 DEF Inject
<1>11. CASE InjectFails
  BY <1>11 DEF InjectFails
<1>12. CASE AdminKill
  BY <1>12 DEF AdminKill
<1>13. CASE AdminStep
  BY <1>13 DEF AdminStep
<1>14. CASE RestartSubmits
  BY <1>14 DEF RestartSubmits
<1>15. CASE SubmitLifecycle
  BY <1>15 DEF SubmitLifecycle, Submit
<1>16. CASE SubmitEdit
  BY <1>16 DEF SubmitEdit, Submit
<1>17. CASE SweepIdle
  BY <1>17 DEF SweepIdle, Submit
<1>18. CASE SweepLiveness
  BY <1>18 DEF SweepLiveness
<1>19. CASE TogglePause
  BY <1>19 DEF TogglePause
<1>20. CASE PersistPause
  BY <1>20 DEF PersistPause
<1>21. CASE OutOfBand
  BY <1>21 DEF OutOfBand
<1>22. CASE Stop
  BY <1>22 DEF Stop
<1>23. CASE AgentEnds
  BY <1>23 DEF AgentEnds
<1> QED
  BY SMTT(20), <1>1, <1>2, <1>3, <1>4, <1>5, <1>6, <1>7, <1>8, <1>9, <1>10, <1>11, <1>12, <1>13,
     <1>14, <1>15, <1>16, <1>17, <1>18, <1>19, <1>20, <1>21, <1>22, <1>23
  DEF Next, LoopNext, SideNext, AgentNext

\* The slot and the item in hand (SingleFlight, OneInHand, ScanListing) survive
\* every step.
LEMMA HandStep ==
  ASSUME TypeOK, QueueInv, Next
  PROVE  (SingleFlight /\ ScanListing /\ OneInHand)'
<1> USE DEF QueueInv, SingleFlight, ScanListing, OneInHand, InFlight, InTail, LoopPoints,
        TypeOK, mailVars, loopVars, Goto
<1>1. CASE Quiet
  BY <1>1 DEF Quiet, Calm
<1>2. CASE TakeEdit
  BY <1>2, EditCases, CancelCases, RequeueCases DEF TakeEdit, Draining
<1>3. CASE Recover
  BY <1>3 DEF Recover
<1>4. CASE RecoverHeld
  BY <1>4 DEF RecoverHeld
<1>5. CASE Dequeue
  BY <1>5 DEF Dequeue
<1>6. CASE ScanEmpty
  BY <1>6 DEF ScanEmpty
<1>7. CASE \E r \in snap : ScanDrop(r)
  BY <1>7 DEF ScanDrop, DropDuplicate
<1>8. CASE \E r \in snap : ScanHold(r)
  BY <1>8 DEF ScanHold
<1>9. CASE \E r \in snap : ScanClaim(r)
  BY <1>9 DEF ScanClaim, Claim
<1>10. CASE StartAborted
  BY <1>10 DEF StartAborted, AfterAbort, Caller, CanStart
<1>11. CASE StartThrows
  BY <1>11 DEF StartThrows, CanStart
<1>12. CASE \E r \in hold : FailTurn(r)
  BY <1>12 DEF FailTurn, CompleteFailed
<1>13. CASE \E r \in hold : TurnDone(r)
  BY <1>13 DEF TurnDone, CompleteDone
<1>14. CASE \E r \in hold : TurnNoted(r)
  BY <1>14 DEF TurnNoted, NoteDone
<1>15. CASE FailSettled
  BY <1>15 DEF FailSettled, Idle
<1>16. CASE SessionLost
  BY <1>16 DEF SessionLost
<1>17. CASE TurnAborted
  BY <1>17 DEF TurnAborted, Idle, AfterAbort
<1>18. CASE TurnSettled
  BY <1>18 DEF TurnSettled, Idle
<1>19. CASE \E id \in Ids : Send(id)
  BY <1>19 DEF Send, Stamp
<1>20. CASE \E r \in tmp : Deliver(r)
  BY <1>20 DEF Deliver, Land
<1>21. CASE \E S \in SUBSET done : SweepDone(S)
  BY <1>21 DEF SweepDone, PruneDone
<1>22. CASE SweepForget
  BY <1>22 DEF SweepForget, ForgetDone
<1>23. CASE \E S \in SUBSET failed : SweepFailed(S)
  BY <1>23 DEF SweepFailed, PruneFailed
<1>24. CASE Crash
  BY <1>24 DEF Crash, ReloadMail
<1> QED
  BY QuietOrNot, <1>1, <1>2, <1>3, <1>4, <1>5, <1>6, <1>7, <1>8, <1>9, <1>10, <1>11,
     <1>12, <1>13, <1>14, <1>15, <1>16, <1>17, <1>18, <1>19, <1>20, <1>21, <1>22, <1>23, <1>24

\* One file, one stamp (OnePlace, StampsUsed) survives every step.
LEMMA PlaceStep ==
  ASSUME TypeOK, QueueInv, Next
  PROVE  (OnePlace /\ StampsUsed)'
<1> USE DEF QueueInv, OnePlace, StampsUsed, SingleFlight, ScanListing, InFlight, InTail,
        TypeOK, MailTypeOK, Record, mailVars, loopVars, Goto
<1>1. CASE Quiet
  BY <1>1 DEF Quiet, Calm
<1>2. CASE TakeEdit
  <2>1. PICK id \in Ids : CancelPending(id) \/ RequeueFailed(id)
    BY <1>2, EditCases
  <2>2. CASE CancelPending(id)
    BY <2>2, CancelCases
  <2>3. CASE RequeueFailed(id)
    <3>1. CASE UNCHANGED mailVars
      BY <3>1
    <3>2. ASSUME NEW r \in failed, r.id = id, nextSeq <= MaxSeq, nextSeq' = nextSeq + 1,
                 failed' = failed \ {r},
                 pending' = pending \union {[seq |-> nextSeq, id |-> id]},
                 UNCHANGED <<tmp, cur, done, doneIds>>
          PROVE  (OnePlace /\ StampsUsed)'
      <4>1. nextSeq \in Nat
        OBVIOUS
      <4>2. StampsUsed'
        BY <3>2, <4>1
      <4>3. OnePlace'
        BY <3>2, <4>1
      <4> QED
        BY <4>2, <4>3
    <3> QED
      BY <2>3, <3>1, <3>2, RequeueCases
  <2> QED
    BY <2>1, <2>2, <2>3
<1>3. CASE Recover
  BY <1>3 DEF Recover
<1>4. CASE RecoverHeld
  BY <1>4 DEF RecoverHeld
<1>5. CASE Dequeue
  BY <1>5 DEF Dequeue
<1>6. CASE ScanEmpty
  BY <1>6 DEF ScanEmpty
<1>7. CASE \E r \in snap : ScanDrop(r)
  BY <1>7 DEF ScanDrop, DropDuplicate
<1>8. CASE \E r \in snap : ScanHold(r)
  BY <1>8 DEF ScanHold
<1>9. CASE \E r \in snap : ScanClaim(r)
  BY <1>9 DEF ScanClaim, Claim
<1>10. CASE StartAborted
  BY <1>10 DEF StartAborted, AfterAbort, Caller, CanStart
<1>11. CASE StartThrows
  BY <1>11 DEF StartThrows, CanStart
<1>12. CASE \E r \in hold : FailTurn(r)
  BY <1>12 DEF FailTurn, CompleteFailed
<1>13. CASE \E r \in hold : TurnDone(r)
  BY <1>13 DEF TurnDone, CompleteDone
<1>14. CASE \E r \in hold : TurnNoted(r)
  BY <1>14 DEF TurnNoted, NoteDone
<1>15. CASE FailSettled
  BY <1>15 DEF FailSettled, Idle
<1>16. CASE SessionLost
  BY <1>16 DEF SessionLost
<1>17. CASE TurnAborted
  BY <1>17 DEF TurnAborted, Idle, AfterAbort
<1>18. CASE TurnSettled
  BY <1>18 DEF TurnSettled, Idle
<1>19. CASE \E id \in Ids : Send(id)
  BY <1>19 DEF Send, Stamp
<1>20. CASE \E r \in tmp : Deliver(r)
  BY <1>20 DEF Deliver, Land
<1>21. CASE \E S \in SUBSET done : SweepDone(S)
  BY <1>21 DEF SweepDone, PruneDone
<1>22. CASE SweepForget
  BY <1>22 DEF SweepForget, ForgetDone
<1>23. CASE \E S \in SUBSET failed : SweepFailed(S)
  BY <1>23 DEF SweepFailed, PruneFailed
<1>24. CASE Crash
  BY <1>24 DEF Crash, ReloadMail
<1> QED
  BY QuietOrNot, <1>1, <1>2, <1>3, <1>4, <1>5, <1>6, <1>7, <1>8, <1>9, <1>10, <1>11,
     <1>12, <1>13, <1>14, <1>15, <1>16, <1>17, <1>18, <1>19, <1>20, <1>21, <1>22, <1>23, <1>24

\* Fewer records have fewer ids.
LEMMA IdsMonotone ==
  ASSUME NEW S, NEW R, S \subseteq R
  PROVE  IdsOf(S) \subseteq IdsOf(R)
  BY DEF IdsOf

\* Steps that change neither the archive nor the window, and claim nothing.
WindowKept ==
  /\ UNCHANGED <<done, doneIds, pruning>>
  /\ cur' \subseteq cur
  /\ \/ loop # "noting" /\ loop' # "noting"
     \/ loop' = loop /\ hold' = hold

\* The case split of the window's proof: done/, cur/, the window and the ids still
\* to be forgotten are left alone, or the step is one of the named actions.
LEMMA KeptOrNot ==
  ASSUME TypeOK, Next
  PROVE  \/ WindowKept
         \/ \E r \in snap : ScanClaim(r)
         \/ \E r \in hold : TurnDone(r) \/ TurnNoted(r)
         \/ \E S \in SUBSET done : SweepDone(S)
         \/ SweepForget \/ Crash
<1> USE DEF WindowKept, mailVars, loopVars, sideVars, Goto
<1>1. ASSUME Quiet PROVE WindowKept
  BY <1>1 DEF Quiet, Calm, InFlight, InTail
<1>2. ASSUME TakeEdit PROVE WindowKept
  BY <1>2, EditCases, CancelCases, RequeueCases DEF TakeEdit, Draining
<1>3. ASSUME Recover PROVE WindowKept
  BY <1>3 DEF Recover
<1>4. ASSUME RecoverHeld PROVE WindowKept
  BY <1>4 DEF RecoverHeld
<1>5. ASSUME Dequeue PROVE WindowKept
  BY <1>5 DEF Dequeue
<1>6. ASSUME ScanEmpty PROVE WindowKept
  BY <1>6 DEF ScanEmpty
<1>7. ASSUME \E r \in snap : ScanDrop(r) PROVE WindowKept
  BY <1>7 DEF ScanDrop, DropDuplicate
<1>8. ASSUME \E r \in snap : ScanHold(r) PROVE WindowKept
  BY <1>8 DEF ScanHold
<1>9. ASSUME StartAborted PROVE WindowKept
  BY <1>9 DEF StartAborted, AfterAbort, Caller, CanStart
<1>10. ASSUME StartThrows PROVE WindowKept
  BY <1>10 DEF StartThrows, CanStart
<1>11. ASSUME \E r \in hold : FailTurn(r) PROVE WindowKept
  BY <1>11 DEF FailTurn, CompleteFailed
<1>12. ASSUME FailSettled PROVE WindowKept
  BY <1>12 DEF FailSettled, Idle
<1>13. ASSUME SessionLost PROVE WindowKept
  BY <1>13 DEF SessionLost
<1>14. ASSUME TurnAborted PROVE WindowKept
  BY <1>14 DEF TurnAborted, Idle, AfterAbort
<1>15. ASSUME TurnSettled PROVE WindowKept
  BY <1>15 DEF TurnSettled, Idle
<1>16. ASSUME \E id \in Ids : Send(id) PROVE WindowKept
  BY <1>16 DEF Send, Stamp
<1>17. ASSUME \E r \in tmp : Deliver(r) PROVE WindowKept
  BY <1>17 DEF Deliver, Land
<1>18. ASSUME \E S \in SUBSET failed : SweepFailed(S) PROVE WindowKept
  BY <1>18 DEF SweepFailed, PruneFailed
<1> QED
  BY QuietOrNot, <1>1, <1>2, <1>3, <1>4, <1>5, <1>6, <1>7, <1>8, <1>9, <1>10, <1>11,
     <1>12, <1>13, <1>14, <1>15, <1>16, <1>17, <1>18

\* The dedup window (ServedOnce, WindowCovers) survives every step.
LEMMA WindowStep ==
  ASSUME TypeOK, QueueInv, Next
  PROVE  (WindowCovers /\ ServedOnce)'
<1> USE DEF QueueInv
<1> USE DEF WindowCovers, ServedOnce
<1>1. CASE WindowKept
  <2>1. Remembered' = Remembered
    BY <1>1 DEF WindowKept, Remembered
  <2>2. IdsOf(cur') \subseteq IdsOf(cur) /\ IdsOf(done)' = IdsOf(done)
    BY <1>1, IdsMonotone DEF WindowKept
  <2> QED
    BY <1>1, <2>1, <2>2 DEF WindowKept
<1>2. ASSUME NEW r \in snap, ScanClaim(r)
      PROVE  (WindowCovers /\ ServedOnce)'
  <2>1. /\ cur = {} /\ cur' = {r} /\ r.id \notin doneIds
        /\ UNCHANGED <<done, doneIds, pruning>>
        /\ Remembered = doneIds /\ Remembered' = doneIds
    BY <1>2 DEF ScanClaim, Claim, ScanListing, Remembered, sideVars, Goto
  <2>2. IdsOf(cur') = {r.id}
    BY <2>1 DEF IdsOf
  <2> QED
    BY <2>1, <2>2
<1>3. ASSUME NEW r \in hold, TurnDone(r)
      PROVE  (WindowCovers /\ ServedOnce)'
  <2>1. /\ cur = {r} /\ hold = {r}
        /\ cur' = {} /\ done' = done \union {r} /\ hold' = hold
        /\ UNCHANGED <<doneIds, pruning>>
        /\ loop = "await" /\ loop' = "noting"
    BY <1>3 DEF TurnDone, CompleteDone, SingleFlight, InFlight, OneInHand, sideVars, Goto
  <2>2. /\ IdsOf(cur) = {r.id} /\ IdsOf(hold') = {r.id} /\ IdsOf(cur') = {}
        /\ IdsOf(done') = IdsOf(done) \union {r.id}
    BY <2>1 DEF IdsOf
  <2>3. Remembered = doneIds /\ Remembered' = doneIds \union {r.id}
    BY <2>1, <2>2 DEF Remembered
  <2>4. r.id \notin IdsOf(done) /\ r.id \notin doneIds
    BY <2>2
  <2>5. WindowCovers'
    BY <2>1, <2>2, <2>3, <2>4
  <2>6. \A p \in done : p.id # r.id
    BY <2>4 DEF IdsOf
  <2> QED
    BY <2>1, <2>2, <2>5, <2>6
<1>4. ASSUME NEW r \in hold, TurnNoted(r)
      PROVE  (WindowCovers /\ ServedOnce)'
  <2>1. /\ hold = {r} /\ cur = {} /\ cur' = {}
        /\ doneIds' = doneIds \union {r.id}
        /\ UNCHANGED <<done, pruning>>
        /\ loop = "noting" /\ loop' = "settling"
    BY <1>4 DEF TurnNoted, NoteDone, SingleFlight, InTail, OneInHand, sideVars, Goto
  <2>2. IdsOf(hold) = {r.id} /\ IdsOf(cur') = {}
    BY <2>1 DEF IdsOf
  <2>3. Remembered' = doneIds' /\ Remembered = doneIds'
    BY <2>1, <2>2 DEF Remembered
  <2> QED
    BY <2>1, <2>2, <2>3
<1>5. ASSUME NEW S \in SUBSET done, SweepDone(S)
      PROVE  (WindowCovers /\ ServedOnce)'
  <2>1. /\ done' = done \ S /\ pruning' = IdsOf(S)
        /\ UNCHANGED <<cur, doneIds, loop, hold>>
    BY <1>5 DEF SweepDone, PruneDone, loopVars
  <2>2. Remembered' = Remembered
    BY <2>1 DEF Remembered
  <2>3. IdsOf(done') \subseteq IdsOf(done) /\ IdsOf(S) \subseteq IdsOf(done)
    BY <2>1, IdsMonotone
  <2>4. IdsOf(S) \intersect IdsOf(done') = {}
    BY <2>1 DEF IdsOf
  <2> QED
    BY <2>1, <2>2, <2>3, <2>4
<1>6. CASE SweepForget
  <2>1. /\ doneIds' = doneIds \ pruning /\ pruning' = {}
        /\ UNCHANGED <<done, cur, loop, hold>>
    BY <1>6 DEF SweepForget, ForgetDone, loopVars
  <2>2. Remembered \ pruning \subseteq Remembered'
    BY <2>1 DEF Remembered
  <2> QED
    BY <2>1, <2>2
<1>7. CASE Crash
  <2>1. /\ doneIds' = IdsOf(done) /\ pruning' = {}
        /\ UNCHANGED <<done, cur>> /\ loop' = "top"
    BY <1>7 DEF Crash, ReloadMail, Goto
  <2>2. Remembered' = IdsOf(done)
    BY <2>1 DEF Remembered
  <2> QED
    BY <2>1, <2>2
<1> QED
  BY KeptOrNot, <1>1, <1>2, <1>3, <1>4, <1>5, <1>6, <1>7

\* Along every run, the whole inductive invariant of the queue (dispatcher, run,
\* pump and processOne over queue/dequeue, complete, edit and retain).
THEOREM QueueCorrect == Spec => []QueueInv
<1>1. Init => QueueInv
  BY DEF Init, MailInit, QueueInv, SingleFlight, ServedOnce, OnePlace, WindowCovers,
         StampsUsed, ScanListing, OneInHand, Remembered, IdsOf, InFlight, InTail
<1>2. TypeOK /\ QueueInv /\ [Next]_vars => QueueInv'
  <2>1. CASE Next
    BY <2>1, HandStep, PlaceStep, WindowStep DEF QueueInv
  <2>2. CASE UNCHANGED vars
    BY <2>2 DEF vars, mailVars, loopVars, sideVars, QueueInv, SingleFlight, ServedOnce,
                OnePlace, WindowCovers, StampsUsed, ScanListing, OneInHand, Remembered, IdsOf
  <2> QED
    BY <2>1, <2>2
<1> QED
  BY <1>1, <1>2, TypeCorrect, PTL DEF Spec

\* The slot holds exactly the item in hand from the claim to the completion
\* (dispatcher: the loop is the single owner of pending/ and cur/).
THEOREM OneTurnAtATime == Spec => []SingleFlight
  BY QueueCorrect, PTL DEF QueueInv

\* What done/ keeps is never served twice (queue/dequeue, queue/dedup).
THEOREM ServedIsServedOnce == Spec => []ServedOnce
  BY QueueCorrect, PTL DEF QueueInv

\* A record is one file in one directory (queue/edit, requeueFailedById).
THEOREM RecordsNeverFork == Spec => []OnePlace
  BY QueueCorrect, PTL DEF QueueInv

\* The dedup window covers done/ (orchestrator/retention, dispatcher forgetDone).
THEOREM WindowCoversDone == Spec => []WindowCovers
  BY QueueCorrect, PTL DEF QueueInv

-----------------------------------------------------------------------------
(* The turn: that "busy" means one is under way, and that the pause lets at most
   one through. *)

\* What is left of the operator's request outside the loop: a suffix of the kill
\* with which restart begins, so no step of it makes the session idle.
AdminLeft ==
  {<<>>, <<"killSession", "toDown">>, <<"toDown">>,
   <<"killSession", "toDown", "submit">>, <<"toDown", "submit">>, <<"submit">>}

\* Why BusyIsATurn is preserved: each owner's steps run only at its own place of
\* the loop, and the one owner that runs beside a turn can only take it down.
OwnersInPlace ==
  /\ todo["loop"] # <<>> => loop = "reviving"
  /\ todo["admin"] \in AdminLeft
StatusInv ==
  /\ BusyIsATurn
  /\ OwnersInPlace

\* Why PauseHolds is preserved: once a turn of somebody else has begun under a
\* pause, every dequeue under way had read the flag, and what it claims is exempt.
LeakSpent ==
  leaked >= 1 /\ paused =>
    /\ loop \in {"dequeue", "scan"} => filtered
    /\ loop = "claimed" => IsSelf(hold)
PauseInv ==
  /\ PauseHolds
  /\ LeakSpent

\* A step of neither: it moves the loop nowhere, and leaves the status, the
\* operations, the item in hand and the pause alone.
Aside == UNCHANGED <<loop, status, todo, hold, filtered, paused, leaked>>

-----------------------------------------------------------------------------
\* The case split of both proofs: a step is aside, or one of the named actions of
\* the loop, of the lifecycle operations and of the pause.
LEMMA AsideOrNot ==
  ASSUME Next
  PROVE  \/ Aside
         \/ Top \/ TakeLifecycle \/ Drained \/ LoopStep \/ MaybeRevive \/ Revived
         \/ Recover \/ RecoverHeld \/ Pump \/ Dequeue \/ ScanEmpty
         \/ \E r \in snap : ScanClaim(r)
         \/ StartAborted \/ StartTurn \/ StartThrows \/ Materialize \/ Inject \/ InjectFails
         \/ \E r \in hold : FailTurn(r) \/ TurnDone(r) \/ TurnNoted(r)
         \/ FailSettled \/ SessionLost \/ TurnAborted \/ TurnSettled
         \/ AdminKill \/ AdminStep \/ RestartSubmits \/ TogglePause \/ Crash
<1> USE DEF Aside, sessVars, loopVars, sideVars
<1>1. ASSUME TakeEdit PROVE Aside
  BY <1>1 DEF TakeEdit
<1>2. ASSUME \E r \in snap : ScanDrop(r) PROVE Aside
  BY <1>2 DEF ScanDrop
<1>3. ASSUME \E r \in snap : ScanHold(r) PROVE Aside
  BY <1>3 DEF ScanHold
<1>4. ASSUME \E id \in Ids : Send(id) PROVE Aside
  BY <1>4 DEF Send
<1>5. ASSUME \E r \in tmp : Deliver(r) PROVE Aside
  BY <1>5 DEF Deliver
<1>6. ASSUME SubmitLifecycle PROVE Aside
  BY <1>6 DEF SubmitLifecycle, Submit
<1>7. ASSUME SubmitEdit PROVE Aside
  BY <1>7 DEF SubmitEdit, Submit
<1>8. ASSUME SweepIdle PROVE Aside
  BY <1>8 DEF SweepIdle, Submit
<1>9. ASSUME SweepLiveness PROVE Aside
  BY <1>9 DEF SweepLiveness
<1>10. ASSUME PersistPause PROVE Aside
  BY <1>10 DEF PersistPause
<1>11. ASSUME \E S \in SUBSET done : SweepDone(S) PROVE Aside
  BY <1>11 DEF SweepDone
<1>12. ASSUME SweepForget PROVE Aside
  BY <1>12 DEF SweepForget
<1>13. ASSUME \E S \in SUBSET failed : SweepFailed(S) PROVE Aside
  BY <1>13 DEF SweepFailed
<1>14. ASSUME OutOfBand PROVE Aside
  BY <1>14 DEF OutOfBand, SessionDies, StartedByHand
<1>15. ASSUME Stop PROVE Aside
  BY <1>15 DEF Stop
<1>16. ASSUME AgentEnds PROVE Aside
  BY <1>16 DEF AgentEnds
<1> QED
  BY <1>1, <1>2, <1>3, <1>4, <1>5, <1>6, <1>7, <1>8, <1>9, <1>10, <1>11, <1>12, <1>13,
     <1>14, <1>15, <1>16
  DEF Next, LoopNext, SideNext, AgentNext

-----------------------------------------------------------------------------
(* The status. *)

\* What one step of an owner's operation does to the status and to the others:
\* never "busy" where it was not, and no other owner's steps change.
LEMMA StepStatus ==
  ASSUME TypeOK, NEW o \in Owners, Step(o)
  PROVE  /\ todo[o] # <<>>
         /\ \A p \in Owners \ {o} : todo'[p] = todo[p]
         /\ status' \in {status, "idle", "down"}
<1> USE DEF TypeOK, SessTypeOK, Rest, Running
<1>1. CASE KillSession(o) BY <1>1 DEF KillSession
<1>2. CASE KillSessionFails(o) BY <1>2 DEF KillSessionFails
<1>3. CASE ToDown(o) BY <1>3 DEF ToDown
<1>4. CASE NewSession(o) BY <1>4 DEF NewSession
<1>5. CASE NewSessionFails(o) BY <1>5 DEF NewSessionFails
<1>6. CASE ToIdle(o) BY <1>6 DEF ToIdle
<1>7. CASE ResetBudget(o) BY <1>7 DEF ResetBudget
<1>8. CASE Probe(o) BY <1>8 DEF Probe
<1>9. CASE Settle(o) BY <1>9 DEF Settle
<1>10. CASE AttachOrRaise(o) BY <1>10 DEF AttachOrRaise
<1> QED
  BY <1>1, <1>2, <1>3, <1>4, <1>5, <1>6, <1>7, <1>8, <1>9, <1>10 DEF Step

\* What is left of the kill, one step on; and restart's, written out.
LEMMA AdminTails ==
  /\ Kill \o <<"submit">> = <<"killSession", "toDown", "submit">>
  /\ \A s \in AdminLeft : s # <<>> =>
       Head(s) \in {"killSession", "toDown", "submit"} /\ Tail(s) \in AdminLeft
<1> DEFINE restart == Kill \o <<"submit">>
           left == <<"killSession", "toDown", "submit">>
<1>1. restart = left
  <2>1. Kill \in Seq(Steps) /\ <<"submit">> \in Seq(Steps)
        /\ Len(Kill) = 2 /\ Len(<<"submit">>) = 1
    BY DEF Kill, Steps
  <2>2. restart \in Seq(Steps) /\ Len(restart) = 3
    <3>1. \A p, q \in Seq(Steps) : p \o q \in Seq(Steps) /\ Len(p \o q) = Len(p) + Len(q)
      OBVIOUS
    <3>2. restart \in Seq(Steps) /\ Len(restart) = Len(Kill) + Len(<<"submit">>)
      BY <2>1, <3>1
    <3> QED
      BY <2>1, <3>2
  <2>3. restart[1] = left[1] /\ restart[2] = left[2] /\ restart[3] = left[3]
    BY <2>1 DEF Kill
  <2>4. left \in Seq(Steps) /\ Len(left) = 3
    BY DEF Steps
  <2> HIDE DEF restart
  <2> QED
    BY <2>2, <2>3, <2>4
<1>2. Head(left) = "killSession" /\ Tail(left) = <<"toDown", "submit">>
  OBVIOUS
<1>3. Head(<<"killSession", "toDown">>) = "killSession"
      /\ Tail(<<"killSession", "toDown">>) = <<"toDown">>
  OBVIOUS
<1>4. Head(<<"toDown", "submit">>) = "toDown" /\ Tail(<<"toDown", "submit">>) = <<"submit">>
  OBVIOUS
<1>5. Head(<<"toDown">>) = "toDown" /\ Tail(<<"toDown">>) = <<>>
  OBVIOUS
<1>6. Head(<<"submit">>) = "submit" /\ Tail(<<"submit">>) = <<>>
  OBVIOUS
<1>7. \A s \in AdminLeft : s # <<>> =>
        Head(s) \in {"killSession", "toDown", "submit"} /\ Tail(s) \in AdminLeft
  <2> SUFFICES ASSUME NEW s \in AdminLeft, s # <<>>
               PROVE  Head(s) \in {"killSession", "toDown", "submit"} /\ Tail(s) \in AdminLeft
    OBVIOUS
  <2>1. CASE s = left
    BY <2>1, <1>2 DEF AdminLeft
  <2>2. CASE s = <<"killSession", "toDown">>
    BY <2>2, <1>3 DEF AdminLeft
  <2>3. CASE s = <<"toDown", "submit">>
    BY <2>3, <1>4 DEF AdminLeft
  <2>4. CASE s = <<"toDown">>
    BY <2>4, <1>5 DEF AdminLeft
  <2>5. CASE s = <<"submit">>
    BY <2>5, <1>6 DEF AdminLeft
  <2> QED
    BY <2>1, <2>2, <2>3, <2>4, <2>5 DEF AdminLeft
<1> QED
  BY <1>1, <1>7

\* A step of the operator's request outside the loop only takes the session down,
\* and leaves a shorter rest of the kill.
LEMMA AdminStepStatus ==
  ASSUME TypeOK, OwnersInPlace, Step("admin")
  PROVE  /\ status' \in {status, "down"}
         /\ todo'["admin"] \in AdminLeft
<1> USE DEF TypeOK, SessTypeOK, Rest, Running, Owners
<1>1. todo["admin"] \in AdminLeft
  BY DEF OwnersInPlace
<1>2. \A s \in AdminLeft : s # <<>> =>
        Head(s) \in {"killSession", "toDown", "submit"} /\ Tail(s) \in AdminLeft
  BY AdminTails
<1>3. <<>> \in AdminLeft
  BY DEF AdminLeft
<1>4. CASE KillSession("admin") BY <1>1, <1>2, <1>4 DEF KillSession
<1>5. CASE KillSessionFails("admin") BY <1>3, <1>5 DEF KillSessionFails
<1>6. CASE ToDown("admin") BY <1>1, <1>2, <1>6 DEF ToDown
<1>7. ~NewSession("admin") /\ ~NewSessionFails("admin") /\ ~ToIdle("admin")
  BY <1>1, <1>2 DEF NewSession, NewSessionFails, ToIdle
<1>8. ~ResetBudget("admin") /\ ~Probe("admin") /\ ~Settle("admin") /\ ~AttachOrRaise("admin")
  BY <1>1, <1>2 DEF ResetBudget, Probe, Settle, AttachOrRaise
<1> QED
  BY <1>4, <1>5, <1>6, <1>7, <1>8 DEF Step

\* A step of an operation the loop runs, in the drain or in its revive.
LEMMA LoopStepStatus ==
  ASSUME TypeOK, StatusInv, LoopStep
  PROVE  StatusInv'
<1>1. PICK o \in {"lane", "loop"} : Step(o) /\ UNCHANGED loop
  BY DEF LoopStep, loopVars
<1>2. /\ todo[o] # <<>>
      /\ \A p \in Owners \ {o} : todo'[p] = todo[p]
      /\ status' \in {status, "idle", "down"}
  BY <1>1, StepStatus DEF Owners
<1>3. /\ o = "lane" => loop \in {"drainRun", "drainPump"}
      /\ o = "loop" => loop = "reviving"
  BY <1>2 DEF StatusInv, BusyIsATurn, OwnersInPlace
<1>4. loop \notin InTurn
  BY <1>1, <1>3 DEF InTurn, InTail
<1>5. status' # "busy"
  BY <1>2, <1>4 DEF StatusInv, BusyIsATurn
<1>6. BusyIsATurn'
  BY <1>1, <1>2, <1>3, <1>4, <1>5 DEF StatusInv, BusyIsATurn, Owners, InTurn
<1>7. OwnersInPlace'
  BY <1>1, <1>2, <1>3 DEF StatusInv, OwnersInPlace, Owners
<1> QED
  BY <1>6, <1>7 DEF StatusInv

\* "busy" keeps meaning that a turn is under way through every step.
LEMMA StatusStep ==
  ASSUME TypeOK, StatusInv, Next
  PROVE  StatusInv'
<1> USE DEF StatusInv, BusyIsATurn, OwnersInPlace, InTurn, InTail, Goto
<1>1. CASE Aside
  BY <1>1 DEF Aside
<1>2. CASE Top
  BY <1>2 DEF Top, sessVars
<1>3. CASE TakeLifecycle
  <2>1. PICK steps \in StepsOf(Head(lane).kind) : todo' = [todo EXCEPT !["lane"] = steps]
    BY <1>3 DEF TakeLifecycle
  <2>2. todo'["admin"] = todo["admin"] /\ todo'["loop"] = todo["loop"]
    BY <2>1 DEF TypeOK, SessTypeOK, Owners
  <2> QED
    BY <1>3, <2>2 DEF TakeLifecycle, Draining, loopVars
<1>4. CASE Drained
  BY <1>4 DEF Drained, Draining, sessVars
<1>5. CASE LoopStep
  BY <1>5, LoopStepStatus
<1>6. CASE MaybeRevive
  BY <1>6 DEF MaybeRevive, BeginRevive, sessVars, TypeOK, SessTypeOK, Owners
<1>7. CASE Revived
  BY <1>7 DEF Revived, sessVars
<1>8. CASE Recover
  BY <1>8 DEF Recover, sessVars
<1>9. CASE RecoverHeld
  BY <1>9 DEF RecoverHeld, sessVars
<1>10. CASE Pump
  BY <1>10 DEF Pump, sessVars
<1>11. CASE Dequeue
  BY <1>11 DEF Dequeue, sessVars
<1>12. CASE ScanEmpty
  BY <1>12 DEF ScanEmpty, sessVars
<1>13. CASE \E r \in snap : ScanClaim(r)
  BY <1>13 DEF ScanClaim, sessVars
<1>14. CASE StartAborted
  BY <1>14 DEF StartAborted, CanStart, AfterAbort, sessVars
<1>15. CASE StartTurn
  BY <1>15 DEF StartTurn, CanStart
<1>16. CASE StartThrows
  BY <1>16 DEF StartThrows, CanStart, sessVars
<1>17. CASE Materialize
  BY <1>17 DEF Materialize, sessVars
<1>18. CASE Inject
  BY <1>18 DEF Inject, sessVars
<1>19. CASE InjectFails
  BY <1>19 DEF InjectFails, sessVars
<1>20. CASE \E r \in hold : FailTurn(r)
  BY <1>20 DEF FailTurn, sessVars
<1>21. CASE \E r \in hold : TurnDone(r)
  BY <1>21 DEF TurnDone, sessVars
<1>22. CASE \E r \in hold : TurnNoted(r)
  BY <1>22 DEF TurnNoted
<1>23. CASE FailSettled
  BY <1>23 DEF FailSettled, Idle
<1>24. CASE SessionLost
  BY <1>24 DEF SessionLost
<1>25. CASE TurnAborted
  BY <1>25 DEF TurnAborted, Idle, AfterAbort
<1>26. CASE TurnSettled
  BY <1>26 DEF TurnSettled, Idle
<1>27. CASE AdminKill
  <2>1. PICK steps \in {Kill, Kill \o <<"submit">>} : todo' = [todo EXCEPT !["admin"] = steps]
    BY <1>27 DEF AdminKill
  <2>2. steps \in AdminLeft
    BY AdminTails DEF Kill, AdminLeft
  <2>3. /\ todo'["admin"] = steps
        /\ todo'["lane"] = todo["lane"] /\ todo'["loop"] = todo["loop"]
    BY <2>1 DEF TypeOK, SessTypeOK, Owners
  <2> QED
    BY <1>27, <2>2, <2>3 DEF AdminKill, loopVars
<1>28. CASE AdminStep
  <2>1. Step("admin") /\ UNCHANGED loop
    BY <1>28 DEF AdminStep, loopVars
  <2>2. status' \in {status, "down"} /\ todo'["admin"] \in AdminLeft
    BY <2>1, AdminStepStatus
  <2>3. todo'["lane"] = todo["lane"] /\ todo'["loop"] = todo["loop"]
    BY <2>1, StepStatus DEF Owners
  <2> QED
    BY <2>1, <2>2, <2>3
<1>29. CASE RestartSubmits
  <2>1. todo["admin"] # <<>> /\ todo' = [todo EXCEPT !["admin"] = Tail(@)]
    BY <1>29 DEF RestartSubmits, Running, Rest
  <2>2. /\ todo'["admin"] = Tail(todo["admin"])
        /\ todo'["lane"] = todo["lane"] /\ todo'["loop"] = todo["loop"]
    BY <2>1 DEF TypeOK, SessTypeOK, Owners
  <2>3. \A s \in AdminLeft : s # <<>> => Tail(s) \in AdminLeft
    BY AdminTails
  <2> QED
    BY <1>29, <2>1, <2>2, <2>3 DEF RestartSubmits, loopVars
<1>30. CASE TogglePause
  BY <1>30 DEF TogglePause, sessVars, loopVars
<1>31. CASE Crash
  BY <1>31 DEF Crash, Boot, NoWork, Owners, AdminLeft
<1> QED
  BY AsideOrNot, <1>1, <1>2, <1>3, <1>4, <1>5, <1>6, <1>7, <1>8, <1>9, <1>10, <1>11,
     <1>12, <1>13, <1>14, <1>15, <1>16, <1>17, <1>18, <1>19, <1>20, <1>21, <1>22, <1>23,
     <1>24, <1>25, <1>26, <1>27, <1>28, <1>29, <1>30, <1>31

\* A session looks busy exactly while a turn holds it, and no lifecycle operation
\* of the lane runs in a turn (server/bootstrap: "status is idle or down here,
\* never busy"; dispatcher, run and processOne; lifecycle/kill).
THEOREM BusyMeansTurn == Spec => []BusyIsATurn
<1>1. Init => StatusInv
  BY DEF Init, SessInit, StatusInv, BusyIsATurn, OwnersInPlace, InTurn, InTail, NoWork, Owners,
         AdminLeft
<1>2. TypeOK /\ StatusInv /\ [Next]_vars => StatusInv'
  <2>1. CASE Next
    BY <2>1, StatusStep
  <2>2. CASE UNCHANGED vars
    BY <2>2 DEF vars, sessVars, loopVars, StatusInv, BusyIsATurn, OwnersInPlace
  <2> QED
    BY <2>1, <2>2
<1>3. StatusInv => BusyIsATurn
  BY DEF StatusInv
<1> QED
  BY <1>1, <1>2, <1>3, TypeCorrect, PTL DEF Spec

-----------------------------------------------------------------------------
(* The pause. *)

\* The pause keeps letting at most one turn through.
LEMMA PauseStep ==
  ASSUME TypeOK, PauseInv, Next
  PROVE  PauseInv'
<1> USE DEF PauseInv, PauseHolds, LeakSpent, TypeOK, Goto
<1>1. CASE Aside
  BY <1>1 DEF Aside
<1>2. CASE Top
  BY <1>2 DEF Top, sideVars
<1>3. CASE TakeLifecycle
  BY <1>3 DEF TakeLifecycle, loopVars
<1>4. CASE Drained
  BY <1>4 DEF Drained, sideVars
<1>5. CASE LoopStep
  BY <1>5 DEF LoopStep, loopVars, sideVars
<1>6. CASE MaybeRevive
  BY <1>6 DEF MaybeRevive, sideVars
<1>7. CASE Revived
  BY <1>7 DEF Revived, sideVars
<1>8. CASE Recover
  BY <1>8 DEF Recover, sideVars
<1>9. CASE RecoverHeld
  BY <1>9 DEF RecoverHeld, sideVars
<1>10. CASE Pump
  BY <1>10 DEF Pump, sideVars
<1>11. CASE Dequeue
  BY <1>11 DEF Dequeue, sideVars
<1>12. CASE ScanEmpty
  BY <1>12 DEF ScanEmpty, sideVars
<1>13. ASSUME NEW r \in snap, ScanClaim(r)
       PROVE  PauseInv'
  <2>1. /\ loop = "scan" /\ loop' = "claimed" /\ hold' = {r}
        /\ filtered => r.id \in SelfIds
        /\ UNCHANGED <<paused, leaked>>
    BY <1>13 DEF ScanClaim, Held, sideVars
  <2>2. filtered => IsSelf(hold')
    BY <2>1 DEF IsSelf, IdsOf
  <2>3. IsSelf(hold)' = IsSelf(hold')
    BY DEF IsSelf, IdsOf
  <2> QED
    BY <2>1, <2>2, <2>3
<1>14. CASE StartAborted
  BY <1>14 DEF StartAborted, AfterAbort, sideVars
<1>15. CASE StartTurn
  <2>1. loop' = "prepare" /\ paused' = paused
    BY <1>15 DEF StartTurn
  <2>2. ASSUME paused, ~IsSelf(hold) PROVE leaked = 0
    <3>1. loop = "claimed"
      BY <1>15, <2>2 DEF StartTurn, CanStart
    <3> QED
      BY <2>2, <3>1
  <2>3. leaked' <= 1
    BY <1>15, <2>2 DEF StartTurn
  <2> QED
    BY <2>1, <2>3
<1>16. CASE StartThrows
  BY <1>16 DEF StartThrows, sideVars
<1>17. CASE Materialize
  BY <1>17 DEF Materialize, sideVars
<1>18. CASE Inject
  BY <1>18 DEF Inject, sideVars
<1>19. CASE InjectFails
  BY <1>19 DEF InjectFails
<1>20. CASE \E r \in hold : FailTurn(r)
  BY <1>20 DEF FailTurn, sideVars
<1>21. CASE \E r \in hold : TurnDone(r)
  BY <1>21 DEF TurnDone, sideVars
<1>22. CASE \E r \in hold : TurnNoted(r)
  BY <1>22 DEF TurnNoted, sideVars
<1>23. CASE FailSettled
  BY <1>23 DEF FailSettled, Idle, sideVars
<1>24. CASE SessionLost
  BY <1>24 DEF SessionLost, sideVars
<1>25. CASE TurnAborted
  BY <1>25 DEF TurnAborted, Idle, AfterAbort, sideVars
<1>26. CASE TurnSettled
  BY <1>26 DEF TurnSettled, Idle, sideVars
<1>27. CASE AdminKill
  BY <1>27 DEF AdminKill, loopVars
<1>28. CASE AdminStep
  BY <1>28 DEF AdminStep, loopVars, sideVars
<1>29. CASE RestartSubmits
  BY <1>29 DEF RestartSubmits, loopVars
<1>30. CASE TogglePause
  BY <1>30 DEF TogglePause, loopVars
<1>31. CASE Crash
  BY <1>31 DEF Crash
<1> QED
  BY AsideOrNot, <1>1, <1>2, <1>3, <1>4, <1>5, <1>6, <1>7, <1>8, <1>9, <1>10, <1>11,
     <1>12, <1>13, <1>14, <1>15, <1>16, <1>17, <1>18, <1>19, <1>20, <1>21, <1>22, <1>23,
     <1>24, <1>25, <1>26, <1>27, <1>28, <1>29, <1>30, <1>31

\* Under one pause at most one turn of somebody else begins: the one whose dequeue
\* was under way (dispatcher, pump and recover: "a pause set mid-drain stops the
\* NEXT turn"), also when the server crashes and the flag comes back from its file.
THEOREM PauseHoldsAlways == Spec => []PauseHolds
<1>1. Init => PauseInv
  BY DEF Init, PauseInv, PauseHolds, LeakSpent
<1>2. TypeOK /\ PauseInv /\ [Next]_vars => PauseInv'
  <2>1. CASE Next
    BY <2>1, PauseStep
  <2>2. CASE UNCHANGED vars
    BY <2>2 DEF vars, loopVars, sideVars, PauseInv, PauseHolds, LeakSpent, IsSelf, IdsOf
  <2> QED
    BY <2>1, <2>2
<1>3. PauseInv => PauseHolds
  BY DEF PauseInv
<1> QED
  BY <1>1, <1>2, <1>3, TypeCorrect, PTL DEF Spec

-----------------------------------------------------------------------------
(* The dispatcher and its directories implement the abstract mailbox: each *)
(* step of Next is a step of Mailbox or a stutter, under the mapping that  *)
(* Box states.  The inductive invariant of the queue gives the facts that  *)
(* the abstract guards ask for.                                            *)


\* What the subscript of the abstract specification maps to.
boxState == <<pending, cur, done, failed, Served>>

\* The ids that are remembered as served stay so while the archive, the window and
\* the item of a turn that has just been completed are left alone.
LEMMA ServedKept ==
  ASSUME UNCHANGED <<done, doneIds>>,
         \/ loop # "noting" /\ loop' # "noting"
         \/ loop' = loop /\ hold' = hold
  PROVE  Served' = Served
  BY DEF Served, Remembered, IdsOf

\* What has just been completed is in done/ too, so the window and done/ say all.
LEMMA ServedIs ==
  ASSUME WindowCovers
  PROVE  Served = Remembered
  BY DEF WindowCovers, Served

\* The cancellations asked for after drain has taken the head of the lane.
LEMMA AskedOfTail ==
  ASSUME TypeOK, lane # <<>>, lane' = Tail(lane)
  PROVE  /\ Asked' \subseteq Asked
         /\ Head(lane).kind = "cancel" => Head(lane).ids \subseteq Asked
         /\ Head(lane).kind # "cancel" => Asked' = Asked
<1>1. /\ lane \in Seq(LaneOp) /\ Len(lane) \in Nat /\ Len(lane) >= 1
      /\ Head(lane) = lane[1] /\ Len(lane') = Len(lane) - 1
      /\ \A i \in 1..Len(lane') : lane'[i] = lane[i + 1]
  BY DEF TypeOK
<1>2. \A id : id \in Asked <=> \E i \in 1..Len(lane) : lane[i].kind = "cancel" /\ id \in lane[i].ids
  BY DEF Asked
<1>3. \A id : id \in Asked' <=> \E i \in 1..Len(lane') : lane'[i].kind = "cancel" /\ id \in lane'[i].ids
  BY DEF Asked
<1>4. \A i \in 1..Len(lane') : i + 1 \in 1..Len(lane) /\ lane'[i] = lane[i + 1]
  BY <1>1
<1>5. Asked' \subseteq Asked
  BY <1>2, <1>3, <1>4
<1>6. Head(lane).kind = "cancel" => Head(lane).ids \subseteq Asked
  BY <1>1, <1>2
<1>7. ASSUME Head(lane).kind # "cancel" PROVE Asked \subseteq Asked'
  <2> SUFFICES ASSUME NEW id \in Asked PROVE id \in Asked'
    OBVIOUS
  <2>1. PICK i \in 1..Len(lane) : lane[i].kind = "cancel" /\ id \in lane[i].ids
    BY <1>2
  <2>2. i # 1
    BY <1>1, <1>7, <2>1
  <2>3. i - 1 \in 1..Len(lane') /\ lane'[i - 1] = lane[i]
    BY <1>1, <2>1, <2>2
  <2> QED
    BY <1>3, <2>1, <2>3
<1> QED
  BY <1>5, <1>6, <1>7

\* A stamp that the counter has not given out is nobody's.
LEMMA NextStampIsFresh ==
  ASSUME TypeOK, StampsUsed, NEW q, q.seq = nextSeq
  PROVE  Box!Fresh(q)
  BY DEF TypeOK, MailTypeOK, Record, StampsUsed, Box!Fresh

\* An edit that drain takes is the cancellation of one waiting record, the return of
\* one failed record, or nothing.
LEMMA EditImplements ==
  ASSUME TypeOK, QueueInv, TakeEdit
  PROVE  Box!BoxNext \/ UNCHANGED boxState
<1> USE DEF QueueInv
<1>1. /\ UNCHANGED <<loop, hold>> /\ loop # "noting" /\ lane # <<>> /\ lane' = Tail(lane)
  BY DEF TakeEdit, Draining, loopVars
<1>2. PICK id \in Head(lane).ids :
        \/ Head(lane).kind = "cancel" /\ CancelPending(id)
        \/ Head(lane).kind = "requeue" /\ RequeueFailed(id)
  BY DEF TakeEdit
<1>3. Served' = Served
  BY <1>1, <1>2, ServedKept, CancelCases, RequeueCases DEF mailVars
<1>4. CASE UNCHANGED mailVars
  BY <1>3, <1>4 DEF mailVars, boxState
<1>5. ASSUME Head(lane).kind = "cancel",
             NEW r \in pending, r.id = id, id \notin IdsOf(cur), pending' = pending \ {r},
             UNCHANGED <<tmp, cur, done, failed, doneIds, nextSeq>>
      PROVE  Box!BoxNext
  <2>1. Asked' \subseteq Asked /\ id \in Asked
    BY <1>1, <1>2, <1>5, AskedOfTail
  <2>2. id \notin Box!IdsIn(cur)
    BY <1>5 DEF IdsOf, Box!IdsIn
  <2>3. Box!Withdraw(r)
    BY <1>3, <1>5, <2>1, <2>2 DEF Box!Withdraw
  <2>4. r \in Record
    BY DEF TypeOK, MailTypeOK
  <2> QED
    BY <2>3, <2>4 DEF Box!BoxNext
<1>6. ASSUME Head(lane).kind = "requeue",
             NEW r \in failed, r.id = id, id \notin doneIds,
             nextSeq <= MaxSeq, nextSeq' = nextSeq + 1, failed' = failed \ {r},
             pending' = pending \union {[seq |-> nextSeq, id |-> id]},
             UNCHANGED <<tmp, cur, done, doneIds>>
      PROVE  Box!BoxNext
  <2> DEFINE q == [seq |-> nextSeq, id |-> id]
  <2>1. q \in Record /\ r \in Record /\ q.id = r.id
    BY <1>6, MaxSeqAssumption DEF TypeOK, MailTypeOK, Record
  <2>2. Box!Fresh(q)
    BY NextStampIsFresh
  <2>3. r.id \notin Served
    BY <1>1, <1>6, ServedIs DEF Remembered
  <2>4. Asked' = Asked
    BY <1>1, <1>6, AskedOfTail
  <2>5. Box!Retry(r, q)
    BY <1>3, <1>6, <2>1, <2>2, <2>3, <2>4 DEF Box!Retry
  <2> QED
    BY <2>1, <2>5 DEF Box!BoxNext
<1> QED
  BY <1>2, <1>4, <1>5, <1>6, CancelCases, RequeueCases

\* A step that forgets: what remains in the archives was there, what remains
\* remembered was remembered, and that covers done/.
LEMMA ForgettingIsPruning ==
  ASSUME UNCHANGED <<pending, cur>>, done' \subseteq done, failed' \subseteq failed,
         Served' \subseteq Served
  PROVE  Box!BoxNext
<1>1. Box!IdsIn(done') \subseteq Served'
  BY DEF Box!IdsIn, Served, IdsOf
<1> QED
  BY <1>1 DEF Box!Prune, Box!BoxNext

\* Every step of the dispatcher is a step of the mailbox or leaves it alone.
LEMMA StepImplements ==
  ASSUME TypeOK, QueueInv, Next
  PROVE  Box!BoxNext \/ UNCHANGED boxState
<1> USE DEF QueueInv, mailVars, loopVars, sideVars, Goto
<1>1. ASSUME UNCHANGED mailVars,
             \/ loop # "noting" /\ loop' # "noting"
             \/ loop' = loop /\ hold' = hold
      PROVE  UNCHANGED boxState
  BY <1>1, ServedKept DEF boxState
<1>2. CASE Quiet
  BY <1>1, <1>2 DEF Quiet, Calm, InFlight, InTail
<1>3. CASE TakeEdit
  BY <1>3, EditImplements
<1>4. CASE Recover
  BY <1>1, <1>4 DEF Recover
<1>5. CASE RecoverHeld
  BY <1>1, <1>5 DEF RecoverHeld
<1>6. CASE Dequeue
  BY <1>1, <1>6 DEF Dequeue
<1>7. CASE ScanEmpty
  BY <1>1, <1>7 DEF ScanEmpty
<1>8. ASSUME NEW r \in snap, ScanDrop(r) PROVE Box!BoxNext
  <2>1. /\ r \in pending /\ r.id \in doneIds /\ pending' = pending \ {r}
        /\ UNCHANGED <<tmp, cur, done, failed, doneIds, lane, loop, hold>>
    BY <1>8 DEF ScanDrop, DropDuplicate, ScanListing
  <2>2. Served' = Served /\ r.id \in Served
    BY <2>1, ServedKept DEF Served, Remembered
  <2>3. Asked' = Asked
    BY <2>1 DEF Asked
  <2>4. Box!Discard(r) /\ r \in Record
    BY <2>1, <2>2, <2>3 DEF Box!Discard, TypeOK, MailTypeOK
  <2> QED
    BY <2>4 DEF Box!BoxNext
<1>9. CASE \E r \in snap : ScanHold(r)
  BY <1>1, <1>9 DEF ScanHold
<1>10. ASSUME NEW r \in snap, ScanClaim(r) PROVE Box!BoxNext
  <2>1. /\ r \in pending /\ r.id \notin doneIds /\ cur = {}
        /\ pending' = pending \ {r} /\ cur' = {r}
        /\ UNCHANGED <<done, failed, doneIds, lane>>
        /\ loop = "scan" /\ loop' = "claimed"
    BY <1>10 DEF ScanClaim, Claim, ScanListing
  <2>2. Served' = Served /\ r.id \notin Served
    BY <2>1, ServedKept, ServedIs DEF Remembered
  <2>3. Asked' = Asked
    BY <2>1 DEF Asked
  <2>4. Box!Take(r) /\ r \in Record
    BY <2>1, <2>2, <2>3 DEF Box!Take, TypeOK, MailTypeOK
  <2> QED
    BY <2>4 DEF Box!BoxNext
<1>11. CASE StartAborted
  BY <1>1, <1>11 DEF StartAborted, AfterAbort, Caller, CanStart
<1>12. CASE StartThrows
  BY <1>1, <1>12 DEF StartThrows, CanStart
<1>13. ASSUME NEW r \in hold, FailTurn(r) PROVE Box!BoxNext
  <2>1. /\ cur = {r} /\ cur' = {} /\ failed' = failed \union {r}
        /\ UNCHANGED <<pending, done, doneIds, lane>>
        /\ loop = "failing" /\ loop' = "failed"
    BY <1>13 DEF FailTurn, CompleteFailed, SingleFlight, OneInHand, InFlight
  <2>2. Served' = Served
    BY <2>1, ServedKept
  <2>3. Asked' = Asked
    BY <2>1 DEF Asked
  <2>4. Box!Fail(r) /\ r \in Record
    BY <2>1, <2>2, <2>3 DEF Box!Fail, TypeOK, MailTypeOK
  <2> QED
    BY <2>4 DEF Box!BoxNext
<1>14. ASSUME NEW r \in hold, TurnDone(r) PROVE Box!BoxNext
  <2>1. /\ cur = {r} /\ hold = {r} /\ hold' = hold /\ cur' = {} /\ done' = done \union {r}
        /\ UNCHANGED <<pending, failed, doneIds, lane>>
        /\ loop = "await" /\ loop' = "noting"
    BY <1>14 DEF TurnDone, CompleteDone, SingleFlight, OneInHand, InFlight
  <2>2. /\ IdsOf(hold') = {r.id} /\ IdsOf(cur) = {r.id}
        /\ IdsOf(done') = IdsOf(done) \union {r.id}
    BY <2>1 DEF IdsOf
  <2>3. Served' = Served \union {r.id}
    BY <2>1, <2>2 DEF Served, Remembered
  <2>4. r.id \notin Box!IdsIn(done)
    BY <2>2 DEF ServedOnce, IdsOf, Box!IdsIn
  <2>5. Asked' = Asked
    BY <2>1 DEF Asked
  <2>6. Box!Finish(r) /\ r \in Record
    BY <2>1, <2>3, <2>4, <2>5 DEF Box!Finish, TypeOK, MailTypeOK
  <2> QED
    BY <2>6 DEF Box!BoxNext
<1>15. ASSUME NEW r \in hold, TurnNoted(r) PROVE UNCHANGED boxState
  <2>1. /\ hold = {r} /\ doneIds' = doneIds \union {r.id}
        /\ UNCHANGED <<pending, cur, done, failed>>
        /\ loop = "noting" /\ loop' = "settling"
    BY <1>15 DEF TurnNoted, NoteDone, SingleFlight, InTail, OneInHand
  <2>2. IdsOf(hold) = {r.id} /\ IdsOf(done') = IdsOf(done)
    BY <2>1 DEF IdsOf
  <2>3. Served' = Served
    BY <2>1, <2>2 DEF Served, Remembered
  <2> QED
    BY <2>1, <2>3 DEF boxState
<1>16. CASE FailSettled
  BY <1>1, <1>16 DEF FailSettled, Idle
<1>17. CASE SessionLost
  BY <1>1, <1>17 DEF SessionLost
<1>18. CASE TurnAborted
  BY <1>1, <1>18 DEF TurnAborted, Idle, AfterAbort
<1>19. CASE TurnSettled
  BY <1>1, <1>19 DEF TurnSettled, Idle
<1>20. ASSUME NEW id \in Ids, Send(id) PROVE UNCHANGED boxState
  BY <1>20, ServedKept DEF Send, Stamp, boxState
<1>21. ASSUME NEW r \in tmp, Deliver(r) PROVE Box!BoxNext
  <2>1. /\ pending' = pending \union {r}
        /\ UNCHANGED <<cur, done, failed, doneIds, lane, loop, hold>>
    BY <1>21 DEF Deliver, Land
  <2>2. Served' = Served
    BY <2>1, ServedKept
  <2>3. Asked' = Asked
    BY <2>1 DEF Asked
  <2>4. Box!Fresh(r)
    BY DEF OnePlace, Box!Fresh
  <2>5. Box!Accept(r) /\ r \in Record
    BY <2>1, <2>2, <2>3, <2>4 DEF Box!Accept, TypeOK, MailTypeOK
  <2> QED
    BY <2>5 DEF Box!BoxNext
<1>22. ASSUME NEW S \in SUBSET done, SweepDone(S) PROVE Box!BoxNext
  <2>1. /\ done' = done \ S /\ UNCHANGED <<pending, cur, failed, doneIds, loop, hold>>
    BY <1>22 DEF SweepDone, PruneDone
  <2>2. Served' \subseteq Served
    BY <2>1 DEF Served, Remembered, IdsOf
  <2> QED
    BY <2>1, <2>2, ForgettingIsPruning
<1>23. ASSUME SweepForget PROVE Box!BoxNext
  <2>1. /\ doneIds' = doneIds \ pruning
        /\ UNCHANGED <<pending, cur, done, failed, loop, hold>>
    BY <1>23 DEF SweepForget, ForgetDone
  <2>2. Served' \subseteq Served
    BY <2>1 DEF Served, Remembered, IdsOf
  <2> QED
    BY <2>1, <2>2, ForgettingIsPruning
<1>24. ASSUME NEW S \in SUBSET failed, SweepFailed(S) PROVE Box!BoxNext
  <2>1. /\ failed' = failed \ S
        /\ UNCHANGED <<pending, cur, done, doneIds, loop, hold>>
    BY <1>24 DEF SweepFailed, PruneFailed
  <2>2. Served' = Served
    BY <2>1, ServedKept
  <2> QED
    BY <2>1, <2>2, ForgettingIsPruning
<1>25. ASSUME Crash PROVE Box!BoxNext
  <2>1. /\ doneIds' = IdsOf(done) /\ loop' = "top"
        /\ UNCHANGED <<pending, cur, done, failed>>
    BY <1>25 DEF Crash, ReloadMail
  <2>2. Served' = IdsOf(done)
    BY <2>1 DEF Served, Remembered, IdsOf
  <2>3. Served' \subseteq Served
    BY <2>2 DEF Served
  <2> QED
    BY <2>1, <2>3, ForgettingIsPruning
<1> QED
  BY QuietOrNot, <1>2, <1>3, <1>4, <1>5, <1>6, <1>7, <1>8, <1>9, <1>10, <1>11, <1>12,
     <1>13, <1>14, <1>15, <1>16, <1>17, <1>18, <1>19, <1>20, <1>21, <1>22, <1>23, <1>24, <1>25

\* The queue keeps the promises of the abstract mailbox (dispatcher, run, pump and
\* processOne over queue/enqueue, dequeue, complete, edit and retain).
THEOREM QueueImplementsMailbox == Spec => MailboxSpec
<1>1. Init => Box!BoxInit
  BY DEF Init, MailInit, Box!BoxInit, Served, Remembered, IdsOf, Asked
<1>2. TypeOK /\ QueueInv /\ [Next]_vars => [Box!BoxNext]_boxState
  <2>1. CASE Next
    BY <2>1, StepImplements
  <2>2. CASE UNCHANGED vars
    BY <2>2, ServedKept DEF vars, mailVars, loopVars, boxState
  <2> QED
    BY <2>1, <2>2
<1> QED
  BY <1>1, <1>2, TypeCorrect, QueueCorrect, PTL DEF Spec, MailboxSpec, Box!BoxSpec, boxState


-----------------------------------------------------------------------------
(* The session driver. *)

\* A session that went away holds nothing of a message but the end of its turn.
Gone == ~cli.up => msg \in {"away", "over"}
\* Between the first piece and the answer there is a message in the pane.
Typed ==
  /\ step \in {"typing", "typed"} => msg \in {"away", "parked"}
  /\ step \in {"typed", "confirm", "again", "await", "wait", "press"} /\ cli.up => msg # "away"
  /\ step = "typing" /\ untyped < Bursts /\ cli.up => msg # "away"
\* The status file has the token of this turn only once the turn is over.
TokenTells == native = "now" => msg = "over"
\* What is parked after Enter was refused; only what shows its marker is entered once more
\* while the driver waits.
ParkedRefused ==
  /\ msg = "parked" /\ step \in {"confirm", "again", "await", "wait", "press"} => refused
  /\ msg = "parked" /\ step = "press" => cli.paste
\* What claude parks shows no marker.
ClaudePlain == cli.runtime = "claude" => ~cli.paste
\* What stays parked was overlooked.
NotLeft == Read /\ step \in {"idle", "done"} /\ msg = "parked" => Overlooked
\* A turn taken for over during the confirmations had taken the message.
SeenTaken == observed => step = "await" /\ (Read /\ msg = "parked" => Overlooked)
\* A composer whose state shows has been hidden by repaints only.
HiddenBriefly ==
  /\ Read /\ step \in {"confirm", "again"} /\ msg = "parked" /\ cli.paste => wait.unknown < torn
  /\ Read /\ Waiting /\ cli.up /\ (msg = "parked" => cli.paste) => wait.unknown < torn
NoFrontYet == Waiting /\ ~wait.sawBusy => wait.unknown = Never /\ wait.cleared = 0
\* The empty composer was seen once: the turn runs or is over.
ClearedOnce == Read /\ Waiting /\ cli.up /\ wait.cleared = 1 => msg \in {"running", "over"}

\* A confirmation that presses again is one of those allowed.
Counted == step = "again" => tries < Retries

DrInv ==
  /\ DrTypeOK /\ Counted
  /\ Gone /\ Typed /\ TokenTells /\ ParkedRefused /\ ClaudePlain /\ NotLeft /\ SeenTaken
  /\ HiddenBriefly /\ NoFrontYet /\ ClearedOnce /\ TypedIsTaken

\* The bounds are numbers.
LEMMA DriverNumbers ==
  /\ Bursts \in Nat /\ Bursts > 0 /\ Retries \in Nat /\ Retries > 0 /\ Grace \in Nat /\ Grace > 0
  /\ Repress \in Nat /\ Repress > 0 /\ TornRun \in Nat /\ TornRun < Grace
  /\ MaxMessages \in Nat /\ MaxOwn \in Nat /\ MaxHot \in Nat /\ MaxDeaths \in Nat
BY DriverAssumption DEF DriverAssumption

\* The looks that are counted stay below what they are counted for.
LEMMA LooksCounted ==
  /\ \A looks \in Never..Grace : Since(looks) \in 0..Grace
  /\ \A looks \in Never..Grace : Later(looks, Grace) \in Never..Grace
  /\ \A looks \in 0..Repress : Later(looks, Repress) \in 0..Repress
BY DriverNumbers DEF Since, Later, Never

\* The types survive every step.
LEMMA DriverTypes == DrTypeOK /\ (step = "again" => tries < Retries) /\ [DrNext]_drVars => DrTypeOK'
<1> SUFFICES ASSUME DrTypeOK, step = "again" => tries < Retries, [DrNext]_drVars PROVE DrTypeOK'
  OBVIOUS
<1> USE DriverNumbers
<1> DEFINE CliType == cli \in [runtime : Runtimes, up : BOOLEAN, boots : BOOLEAN, own : BOOLEAN, hook : BOOLEAN,
                          paste : BOOLEAN]
           BoundsType == bounds \in [messages : 0..MaxMessages, own : 0..MaxOwn, hot : 0..MaxHot,
                                     deaths : 0..MaxDeaths]
           WaitType == wait \in [sawBusy : BOOLEAN, cleared : 0..1, unknown : Never..Grace, press : 0..Repress]
           PlainType == /\ step \in DrSteps /\ untyped \in 0..Bursts /\ tries \in 0..Retries
                        /\ baseline \in BOOLEAN /\ observed \in BOOLEAN
                        /\ by \in {"nothing", "inject", "front", "grace", "edge"}
                        /\ msg \in {"away", "parked", "queued", "running", "over"}
                        /\ torn \in 0..TornRun /\ native \in {"none", "stale", "now"}
                        /\ refused \in BOOLEAN
<1>0. CliType /\ BoundsType /\ WaitType /\ PlainType
  BY DEF DrTypeOK
<1>000. Fresh \in [sawBusy : BOOLEAN, cleared : 0..1, unknown : Never..Grace, press : 0..Repress]
  BY DEF Fresh, Never
<1>00. CliType' /\ BoundsType' /\ WaitType' /\ PlainType' => DrTypeOK'
  BY DEF DrTypeOK
<1>1. CASE StartTyping
  <2>1. CliType'
    BY <1>0, <1>1 DEF StartTyping
  <2>2. BoundsType'
    BY <1>0, <1>1 DEF StartTyping
  <2>3. WaitType'
    BY <1>0, <1>1 DEF StartTyping, Never
  <2>4. PlainType'
    <3>1. baseline' \in BOOLEAN /\ observed' \in BOOLEAN /\ refused' \in BOOLEAN
      BY <1>0, <1>1 DEF StartTyping
    <3>2. /\ step' \in DrSteps /\ untyped' \in 0..Bursts /\ tries' \in 0..Retries
          /\ by' \in {"nothing", "inject", "front", "grace", "edge"}
          /\ msg' \in {"away", "parked", "queued", "running", "over"}
          /\ torn' \in 0..TornRun /\ native' \in {"none", "stale", "now"}
      BY <1>0, <1>1 DEF StartTyping, DrSteps
    <3> QED BY <3>1, <3>2
  <2> QED BY <1>00, <2>1, <2>2, <2>3, <2>4
<1>2. CASE TypePiece
  <2>1. CliType'
    BY <1>0, <1>2 DEF TypePiece
  <2>2. BoundsType'
    BY <1>0, <1>2 DEF TypePiece
  <2>3. WaitType'
    BY <1>0, <1>2 DEF TypePiece, Never
  <2>4. PlainType'
    BY <1>0, <1>2 DEF TypePiece, DrSteps
  <2> QED BY <1>00, <2>1, <2>2, <2>3, <2>4
<1>3. CASE InjectThrows
  <2>1. CliType'
    BY <1>0, <1>3 DEF InjectThrows
  <2>2. BoundsType'
    BY <1>0, <1>3 DEF InjectThrows
  <2>3. WaitType'
    BY <1>0, <1>3 DEF InjectThrows, Never
  <2>4. PlainType'
    BY <1>0, <1>3 DEF InjectThrows, DrSteps
  <2> QED BY <1>00, <2>1, <2>2, <2>3, <2>4
<1>4. CASE TakeBaseline
  <2>1. CliType'
    BY <1>0, <1>4 DEF TakeBaseline
  <2>2. BoundsType'
    BY <1>0, <1>4 DEF TakeBaseline
  <2>3. WaitType'
    BY <1>0, <1>4 DEF TakeBaseline, Never
  <2>4. PlainType'
    BY <1>0, <1>4 DEF TakeBaseline, DrSteps
  <2> QED BY <1>00, <2>1, <2>2, <2>3, <2>4
<1>5. CASE PressEnter
  <2>1. CliType'
    BY <1>0, <1>5 DEF PressEnter, Enter, Ignores, Fresh
  <2>2. BoundsType'
    BY <1>0, <1>5 DEF PressEnter, Enter, Ignores, Fresh
  <2>3. WaitType'
    BY <1>0, <1>000, <1>5 DEF PressEnter, Enter, Ignores
  <2>4. PlainType'
    <3>1. baseline' \in BOOLEAN /\ observed' \in BOOLEAN
      BY <1>0, <1>5 DEF PressEnter
    <3>2. refused' \in BOOLEAN
      BY <1>0, <1>5 DEF PressEnter, Enter
    <3>3. /\ step' \in DrSteps /\ untyped' \in 0..Bursts /\ tries' \in 0..Retries
          /\ by' \in {"nothing", "inject", "front", "grace", "edge"}
          /\ msg' \in {"away", "parked", "queued", "running", "over"}
          /\ torn' \in 0..TornRun /\ native' \in {"none", "stale", "now"}
      BY <1>0, <1>5 DEF PressEnter, Enter, DrSteps
    <3> QED BY <3>1, <3>2, <3>3
  <2> QED BY <1>00, <2>1, <2>2, <2>3, <2>4
<1>6. CASE Confirm
  <2>1. PICK pane \in {Clear, Spoilt}, changed \in Changed : Look(pane) /\ ConfirmBy(pane, changed)
    BY <1>6 DEF Confirm
  <2>2. CliType' /\ BoundsType'
    BY <1>0, <1>6 DEF Confirm
  <2>3. torn' \in 0..TornRun /\ msg' \in {"away", "parked", "queued", "running", "over"}
    BY <1>0, <2>1 DEF Look
  <2>4. tries' \in 0..Retries /\ baseline' \in BOOLEAN /\ observed' \in BOOLEAN /\ step' \in DrSteps
    <3>1. \/ tries' = 0 /\ step' = "await"
          \/ tries' = tries /\ step' = "again"
      BY <2>1 DEF ConfirmBy, Confirmed
    <3>2. baseline' = FALSE \/ baseline' = baseline
      BY <2>1 DEF ConfirmBy, Confirmed
    <3>3. observed' = TRUE \/ observed' = observed
      BY <2>1 DEF ConfirmBy
    <3>4. tries' \in 0..Retries /\ step' \in DrSteps
      BY <1>0, <3>1 DEF DrSteps
    <3>5. baseline' \in BOOLEAN /\ observed' \in BOOLEAN
      BY <1>0, <3>2, <3>3
    <3> QED BY <3>4, <3>5
  <2>5. PlainType'
    BY <1>0, <1>6, <2>3, <2>4 DEF Confirm
  <2>6. WaitType'
    <3>1. CASE wait' = Fresh
      BY <3>1, <1>000
    <3>2. CASE \E looks \in Never..Grace : wait' = [wait EXCEPT !.unknown = looks]
      BY <1>0, <3>2
    <3>3. wait.unknown \in Never..Grace /\ Never \in Never..Grace /\ 0..Grace \subseteq Never..Grace
      BY <1>0 DEF Never
    <3> QED BY <2>1, <3>1, <3>2, <3>3, LooksCounted DEF ConfirmBy, Confirmed
  <2> QED BY <1>00, <2>2, <2>5, <2>6
<1>7. CASE PressAgain
  <2>1. CliType'
    BY <1>0, <1>7 DEF PressAgain, Enter, Ignores
  <2>2. BoundsType'
    BY <1>0, <1>7 DEF PressAgain, Enter, Ignores
  <2>3. WaitType'
    BY <1>0, <1>7 DEF PressAgain, Enter, Ignores, Never
  <2>4. PlainType'
    <3>1. baseline' \in BOOLEAN /\ observed' \in BOOLEAN
      BY <1>0, <1>7 DEF PressAgain
    <3>2. refused' \in BOOLEAN
      BY <1>0, <1>7 DEF PressAgain, Enter
    <3>3. /\ step' \in DrSteps /\ untyped' \in 0..Bursts /\ tries' \in 0..Retries
          /\ by' \in {"nothing", "inject", "front", "grace", "edge"}
          /\ msg' \in {"away", "parked", "queued", "running", "over"}
          /\ torn' \in 0..TornRun /\ native' \in {"none", "stale", "now"}
      BY <1>0, <1>7 DEF PressAgain, Enter, DrSteps
    <3> QED BY <3>1, <3>2, <3>3
  <2> QED BY <1>00, <2>1, <2>2, <2>3, <2>4
<1>8. CASE ConfirmEnds
  <2>1. CliType'
    BY <1>0, <1>8 DEF ConfirmEnds, Confirmed, Fresh
  <2>2. BoundsType'
    BY <1>0, <1>8 DEF ConfirmEnds, Confirmed, Fresh
  <2>3. WaitType'
    BY <1>0, <1>000, <1>8 DEF ConfirmEnds, Confirmed
  <2>4. PlainType'
    <3>1. baseline' \in BOOLEAN /\ observed' \in BOOLEAN /\ refused' \in BOOLEAN
      BY <1>0, <1>8 DEF ConfirmEnds, Confirmed
    <3>2. /\ step' \in DrSteps /\ untyped' \in 0..Bursts /\ tries' \in 0..Retries
          /\ by' \in {"nothing", "inject", "front", "grace", "edge"}
          /\ msg' \in {"away", "parked", "queued", "running", "over"}
          /\ torn' \in 0..TornRun /\ native' \in {"none", "stale", "now"}
      BY <1>0, <1>8 DEF ConfirmEnds, Confirmed, DrSteps
    <3> QED BY <3>1, <3>2
  <2> QED BY <1>00, <2>1, <2>2, <2>3, <2>4
<1>9. CASE AwaitTurn
  <2>1. CliType'
    BY <1>0, <1>9 DEF AwaitTurn, Finished, Fresh
  <2>2. BoundsType'
    BY <1>0, <1>9 DEF AwaitTurn, Finished, Fresh
  <2>3. WaitType'
    BY <1>0, <1>000, <1>9 DEF AwaitTurn, Finished
  <2>4. PlainType'
    BY <1>0, <1>9 DEF AwaitTurn, Finished, Fresh, DrSteps
  <2> QED BY <1>00, <2>1, <2>2, <2>3, <2>4
<1>10. CASE Poll
  <2>1. PICK pane \in {Clear, Spoilt} : Look(pane) /\ PollBy(pane)
    BY <1>10 DEF Poll
  <2>2. CliType' /\ BoundsType'
    BY <1>0, <1>10 DEF Poll
  <2>3. torn' \in 0..TornRun /\ msg' \in {"away", "parked", "queued", "running", "over"}
    BY <1>0, <2>1 DEF Look
  <2>4. step' \in DrSteps /\ by' \in {"nothing", "inject", "front", "grace", "edge"}
    BY <1>0, <2>1 DEF PollBy, Finished, DrSteps
  <2>5. PlainType'
    BY <1>0, <1>10, <2>3, <2>4 DEF Poll
  <2>6. WaitType'
    <3>1. CASE wait' = Fresh
      BY <3>1, <1>000
    <3>2. CASE wait' # Fresh
      <4> DEFINE front == pane.ready /\ wait.sawBusy
                 unclear == front /\ Declared /\ pane.composer = "unknown"
                 cleared == IF front /\ pane.composer = "empty" THEN wait.cleared + 1 ELSE 0
                 unknown == CASE unclear -> Since(wait.unknown)
                              [] pane.ready /\ ~wait.sawBusy -> wait.unknown
                              [] OTHER -> Never
                 press == IF pane.ready /\ pane.composer = "pending" /\ wait.press = Repress THEN 1
                          ELSE Later(wait.press, Repress)
      <4>1. ~(IF Declared THEN cleared = ClearedPolls ELSE front)
        BY <2>1, <3>2 DEF PollBy, Finished
      <4>2. wait' = [sawBusy |-> wait.sawBusy \/ ~pane.ready, cleared |-> cleared, unknown |-> unknown,
                     press |-> press]
        BY <2>1, <3>2 DEF PollBy, Finished
      <4>3. cleared \in 0..1
        BY <1>0, <4>1 DEF ClearedPolls
      <4>4. unknown \in Never..Grace
        BY <1>0, LooksCounted DEF Never
      <4>5. press \in 0..Repress
        BY <1>0, LooksCounted
      <4>6. (wait.sawBusy \/ ~pane.ready) \in BOOLEAN
        OBVIOUS
      <4> HIDE DEF front, unclear, cleared, unknown, press
      <4> QED BY <4>2, <4>3, <4>4, <4>5, <4>6
    <3> QED BY <3>1, <3>2
  <2> QED BY <1>00, <2>2, <2>5, <2>6
<1>11. CASE PressParked
  <2>1. CliType'
    BY <1>0, <1>11 DEF PressParked, Enter, Ignores
  <2>2. BoundsType'
    BY <1>0, <1>11 DEF PressParked, Enter, Ignores
  <2>3. WaitType'
    BY <1>0, <1>11 DEF PressParked, Enter, Ignores, Never
  <2>4. PlainType'
    BY <1>0, <1>11 DEF PressParked, Enter, Ignores, DrSteps
  <2> QED BY <1>00, <2>1, <2>2, <2>3, <2>4
<1>12. CASE PollStatus
  <2>1. CliType'
    BY <1>0, <1>12 DEF PollStatus, Finished, Fresh
  <2>2. BoundsType'
    BY <1>0, <1>12 DEF PollStatus, Finished, Fresh
  <2>3. WaitType'
    BY <1>0, <1>000, <1>12 DEF PollStatus, Finished
  <2>4. PlainType'
    BY <1>0, <1>12 DEF PollStatus, Finished, Fresh, DrSteps
  <2> QED BY <1>00, <2>1, <2>2, <2>3, <2>4
<1>13. CASE Abort
  <2>1. CliType'
    BY <1>0, <1>13 DEF Abort, Fresh
  <2>2. BoundsType'
    BY <1>0, <1>13 DEF Abort, Fresh
  <2>3. WaitType'
    BY <1>0, <1>000, <1>13 DEF Abort
  <2>4. PlainType'
    BY <1>0, <1>13 DEF Abort, Fresh, DrSteps
  <2> QED BY <1>00, <2>1, <2>2, <2>3, <2>4
<1>14. CASE BootEnds
  <2>1. CliType'
    BY <1>0, <1>14 DEF BootEnds, Unwatched
  <2>2. BoundsType'
    BY <1>0, <1>14 DEF BootEnds, Unwatched
  <2>3. WaitType'
    BY <1>0, <1>14 DEF BootEnds, Unwatched, Never
  <2>4. PlainType'
    BY <1>0, <1>14 DEF BootEnds, Unwatched, DrSteps
  <2> QED BY <1>00, <2>1, <2>2, <2>3, <2>4
<1>15. CASE TurnBegins
  <2>1. CliType'
    BY <1>0, <1>15 DEF TurnBegins, Unwatched
  <2>2. BoundsType'
    BY <1>0, <1>15 DEF TurnBegins, Unwatched
  <2>3. WaitType'
    BY <1>0, <1>15 DEF TurnBegins, Unwatched, Never
  <2>4. PlainType'
    BY <1>0, <1>15 DEF TurnBegins, Unwatched, DrSteps
  <2> QED BY <1>00, <2>1, <2>2, <2>3, <2>4
<1>16. CASE TurnEnds
  <2>1. CliType'
    BY <1>0, <1>16 DEF TurnEnds, Unwatched
  <2>2. BoundsType'
    BY <1>0, <1>16 DEF TurnEnds, Unwatched
  <2>3. WaitType'
    BY <1>0, <1>16 DEF TurnEnds, Unwatched, Never
  <2>4. PlainType'
    BY <1>0, <1>16 DEF TurnEnds, Unwatched, DrSteps
  <2> QED BY <1>00, <2>1, <2>2, <2>3, <2>4
<1>17. CASE OwnBegins
  <2>1. CliType'
    BY <1>0, <1>17 DEF OwnBegins, Unwatched
  <2>2. BoundsType'
    BY <1>0, <1>17 DEF OwnBegins, Unwatched
  <2>3. WaitType'
    BY <1>0, <1>17 DEF OwnBegins, Unwatched, Never
  <2>4. PlainType'
    BY <1>0, <1>17 DEF OwnBegins, Unwatched, DrSteps
  <2> QED BY <1>00, <2>1, <2>2, <2>3, <2>4
<1>18. CASE OwnEnds
  <2>1. CliType'
    BY <1>0, <1>18 DEF OwnEnds, Unwatched
  <2>2. BoundsType'
    BY <1>0, <1>18 DEF OwnEnds, Unwatched
  <2>3. WaitType'
    BY <1>0, <1>18 DEF OwnEnds, Unwatched, Never
  <2>4. PlainType'
    BY <1>0, <1>18 DEF OwnEnds, Unwatched, DrSteps
  <2> QED BY <1>00, <2>1, <2>2, <2>3, <2>4
<1>19. CASE SessionGoes
  <2>1. CliType'
    BY <1>0, <1>19 DEF SessionGoes, Unwatched
  <2>2. BoundsType'
    BY <1>0, <1>19 DEF SessionGoes, Unwatched
  <2>3. WaitType'
    BY <1>0, <1>19 DEF SessionGoes, Unwatched, Never
  <2>4. PlainType'
    BY <1>0, <1>19 DEF SessionGoes, Unwatched, DrSteps
  <2> QED BY <1>00, <2>1, <2>2, <2>3, <2>4
<1>20. CASE SessionComes
  <2>1. CliType'
    BY <1>0, <1>20 DEF SessionComes, Unwatched
  <2>2. BoundsType'
    BY <1>0, <1>20 DEF SessionComes, Unwatched
  <2>3. WaitType'
    BY <1>0, <1>20 DEF SessionComes, Unwatched, Never
  <2>4. PlainType'
    BY <1>0, <1>20 DEF SessionComes, Unwatched, DrSteps
  <2> QED BY <1>00, <2>1, <2>2, <2>3, <2>4
<1>21. CASE UNCHANGED drVars
  BY <1>0, <1>00, <1>21 DEF drVars
<1> QED BY <1>1, <1>2, <1>3, <1>4, <1>5, <1>6, <1>7, <1>8, <1>9, <1>10, <1>11, <1>12, <1>13, <1>14, <1>15, <1>16, <1>17, <1>18, <1>19, <1>20, <1>21 DEF DrNext, DriverNext, CliNext

\* Nothing that the driver and the agent do breaks the invariant.
LEMMA DriverStep == DrInv /\ [DrNext]_drVars => DrInv'
<1> SUFFICES ASSUME DrInv, [DrNext]_drVars PROVE DrInv'
  OBVIOUS
<1> USE DriverNumbers
<1>t. DrTypeOK /\ DrTypeOK'
  BY DriverTypes DEF DrInv, Counted
<1>k. cli.runtime' = cli.runtime
  <2>1. CASE DriverNext /\ ~StartTyping
    BY <2>1 DEF DriverNext, TypePiece, InjectThrows, TakeBaseline, PressEnter, Confirm, PressAgain, ConfirmEnds,
       AwaitTurn, Poll, PressParked, PollStatus, Abort
  <2>2. CASE StartTyping
    BY <1>t, <2>2 DEF StartTyping, DrTypeOK
  <2>3. CASE TurnEnds
    BY <2>3 DEF TurnEnds
  <2>4. CASE BootEnds
    BY <1>t, <2>4 DEF BootEnds, DrTypeOK
  <2>5. CASE TurnBegins \/ OwnBegins \/ OwnEnds
    BY <1>t, <2>5 DEF TurnBegins, OwnBegins, OwnEnds, DrTypeOK
  <2>0. cli \in [runtime : Runtimes, up : BOOLEAN, boots : BOOLEAN, own : BOOLEAN, hook : BOOLEAN,
                 paste : BOOLEAN]
    BY <1>t DEF DrTypeOK
  <2>6. CASE SessionGoes
    BY <2>0, <2>6 DEF SessionGoes
  <2>8. CASE SessionComes
    BY <2>0, <2>8 DEF SessionComes
  <2>7. CASE UNCHANGED drVars
    BY <2>7 DEF drVars
  <2> QED BY <2>1, <2>2, <2>3, <2>4, <2>5, <2>6, <2>7, <2>8 DEF DrNext, CliNext
<1>1. CASE StartTyping
  <2>1. cli \in [runtime : Runtimes, up : BOOLEAN, boots : BOOLEAN, own : BOOLEAN, hook : BOOLEAN,
                 paste : BOOLEAN]
    BY <1>t DEF DrTypeOK
  <2>2. PICK paste \in BOOLEAN :
          /\ paste => ~Queues
          /\ cli' = [cli EXCEPT !.own = IF msg \in {"queued", "running"} THEN TRUE ELSE @, !.paste = paste]
    BY <1>1, Zenon DEF StartTyping
  <2>3. cli'.up = cli.up /\ (cli'.paste => ~Queues)
    <3>1. cli'.up = cli.up
      BY <2>1, <2>2
    <3>2. cli'.paste = paste
      BY <2>1, <2>2
    <3> QED BY <2>2, <3>1, <3>2
  <2>4. /\ cli.up /\ step' = "typing" /\ untyped' = Bursts /\ observed' = FALSE
        /\ msg' = (IF msg = "parked" THEN "parked" ELSE "away")
        /\ native' = (IF native = "now" THEN "stale" ELSE native)
    BY <1>1 DEF StartTyping
  <2>5. ClaudePlain'
    BY <1>k, <2>3 DEF ClaudePlain, Queues
  <2> QED
    BY <1>t, <1>k, <2>3, <2>4, <2>5 DEF DrInv, Counted, Gone, Typed, TokenTells, ParkedRefused, NotLeft,
       SeenTaken, HiddenBriefly, NoFrontYet, ClearedOnce, TypedIsTaken, Waiting
<1>2. CASE TypePiece
  BY <1>2, <1>t, <1>k DEF DrInv, Counted, Gone, Typed, TokenTells,
     ParkedRefused, ClaudePlain, NotLeft, SeenTaken, HiddenBriefly, NoFrontYet, ClearedOnce, TypedIsTaken, Overlooked,
     TypePiece, Never, Waiting, Read, DrTypeOK
<1>3. CASE InjectThrows
  BY <1>3, <1>t, <1>k DEF DrInv, Counted, Gone, Typed, TokenTells,
     ParkedRefused, ClaudePlain, NotLeft, SeenTaken, HiddenBriefly, NoFrontYet, ClearedOnce, TypedIsTaken, Overlooked,
     InjectThrows, Never, Waiting, Read, DrTypeOK
<1>4. CASE TakeBaseline
  BY <1>4, <1>t, <1>k DEF DrInv, Counted, Gone, Typed, TokenTells,
     ParkedRefused, ClaudePlain, NotLeft, SeenTaken, HiddenBriefly, NoFrontYet, ClearedOnce, TypedIsTaken, Overlooked,
     TakeBaseline, Never, Waiting, Read, DrTypeOK
<1>5. CASE PressEnter
  BY <1>5, <1>t, <1>k DEF DrInv, Counted, Gone, Typed, TokenTells,
     ParkedRefused, ClaudePlain, NotLeft, SeenTaken, HiddenBriefly, NoFrontYet, ClearedOnce, TypedIsTaken, Overlooked,
     PressEnter, Enter, Ignores, Queues, Fresh, Never, Waiting, Read, DrTypeOK
<1>6. CASE Confirm
  <2>1. PICK pane \in {Clear, Spoilt}, changed \in Changed : Look(pane) /\ ConfirmBy(pane, changed)
    BY <1>6 DEF Confirm
  <2>2. /\ step = "confirm" /\ tries < Retries /\ cli.up
        /\ UNCHANGED <<untyped, by, refused, cli, native, bounds>>
    BY <1>6 DEF Confirm
  <2>3. msg' = "parked" <=> msg = "parked"
    BY <2>1 DEF Look
  <2>4. (msg = "over" => msg' = "over") /\ (msg # "away" => msg' # "away")
    BY <2>1 DEF Look
  <2>5. step' \in {"await", "again"} /\ (step' = "again" => UNCHANGED <<tries, baseline, observed>>)
    BY <2>1 DEF ConfirmBy, Confirmed
  <2>6. ~observed
    BY <2>2 DEF DrInv, SeenTaken
  <2>7. Read /\ msg = "parked" => pane.composer # "empty"
    BY <2>1 DEF Read, Clear, Spoilt, Composer
  <2>8. ASSUME Read, msg = "parked", cli.paste, pane.ready, pane.composer = "unknown"
        PROVE  Since(wait.unknown) < torn' /\ Since(wait.unknown) < Grace
    <3>1. cli.runtime = "codex"
      BY <2>2, <2>8 DEF DrInv, ClaudePlain, Read
    <3>2. pane = Spoilt /\ torn' = torn + 1
      BY <2>1, <2>8, <3>1 DEF Look, Clear, Composer
    <3>3. wait.unknown < torn /\ wait.unknown \in Never..Grace /\ torn \in Nat /\ torn' \in 0..TornRun
      BY <1>t, <2>2, <2>8 DEF DrInv, HiddenBriefly, DrTypeOK
    <3> QED BY <3>2, <3>3 DEF Since, Later, Never
  <2>9. Read => Declared
    BY DEF Read, Declared
  <2>10. SeenTaken'
    <3>1. observed' => step' = "await"
      BY <2>1, <2>5, <2>6 DEF ConfirmBy, Confirmed
    <3>2. ASSUME observed', Read, msg = "parked", cli.paste PROVE FALSE
      <4>1. /\ pane.ready /\ pane.composer # "pending"
            /\ pane.composer = "empty" \/ (pane.composer = "unknown" /\ Since(wait.unknown) = Grace)
        BY <2>1, <2>6, <2>9, <3>2 DEF ConfirmBy
      <4> QED BY <2>7, <2>8, <3>2, <4>1
    <3>3. msg = "parked" => refused
      BY <2>2 DEF DrInv, ParkedRefused
    <3> QED BY <1>k, <2>2, <2>3, <3>1, <3>2, <3>3 DEF SeenTaken, Overlooked, Read
  <2>11. HiddenBriefly'
    <3>1. ASSUME Read, step' = "again", msg = "parked", cli.paste PROVE wait'.unknown < torn'
      <4>1. torn' \in Nat
        BY <1>t DEF DrTypeOK
      <4>2. CASE pane.composer = "pending"
        BY <1>t, <2>1, <3>1, <4>1, <4>2 DEF ConfirmBy, Confirmed, Never, DrTypeOK
      <4>3. CASE pane.composer = "unknown"
        <5>1. pane.ready /\ wait' = [wait EXCEPT !.unknown = Since(wait.unknown)]
          BY <2>1, <2>9, <3>1, <4>3 DEF ConfirmBy, Confirmed
        <5> QED BY <1>t, <2>8, <3>1, <4>3, <5>1 DEF DrTypeOK
      <4>4. pane.composer \in {"pending", "unknown"}
        BY <2>1, <2>7, <3>1 DEF Clear, Spoilt, Composer, Read
      <4> QED BY <4>2, <4>3, <4>4
    <3> QED BY <1>k, <2>2, <2>3, <2>5, <3>1 DEF HiddenBriefly, Read, Waiting
  <2> QED
    BY <1>t, <1>k, <2>2, <2>3, <2>4, <2>5, <2>10, <2>11 DEF DrInv, Counted, Gone, Typed, TokenTells,
       ParkedRefused, ClaudePlain, NotLeft, NoFrontYet, ClearedOnce, TypedIsTaken, Waiting, Read
<1>7. CASE PressAgain
  BY <1>7, <1>t, <1>k DEF DrInv, Counted, Gone, Typed, TokenTells,
     ParkedRefused, ClaudePlain, NotLeft, SeenTaken, HiddenBriefly, NoFrontYet, ClearedOnce, TypedIsTaken, Overlooked,
     PressAgain, Enter, Ignores, Queues, Never, Waiting, Read, DrTypeOK
<1>8. CASE ConfirmEnds
  BY <1>8, <1>t, <1>k DEF DrInv, Counted, Gone, Typed, TokenTells,
     ParkedRefused, ClaudePlain, NotLeft, SeenTaken, HiddenBriefly, NoFrontYet, ClearedOnce, TypedIsTaken, Overlooked,
     ConfirmEnds, Confirmed, Fresh, Never, Waiting, Read, DrTypeOK
<1>9. CASE AwaitTurn
  BY <1>9, <1>t, <1>k DEF DrInv, Counted, Gone, Typed, TokenTells,
     ParkedRefused, ClaudePlain, NotLeft, SeenTaken, HiddenBriefly, NoFrontYet, ClearedOnce, TypedIsTaken, Overlooked,
     AwaitTurn, Finished, Fresh, Never, Waiting, Read, DrTypeOK
<1>10. CASE Poll
  <2>1. PICK pane \in {Clear, Spoilt} : Look(pane) /\ PollBy(pane)
    BY <1>10 DEF Poll
  <2>2. step = "wait" /\ cli.up /\ UNCHANGED <<untyped, tries, baseline, observed, refused, cli, native, bounds>>
    BY <1>10 DEF Poll
  <2>3. msg' = "parked" <=> msg = "parked"
    BY <2>1 DEF Look
  <2>4. (msg = "over" => msg' = "over") /\ (msg # "away" => msg' # "away")
    BY <2>1 DEF Look
  <2>5. ~observed /\ msg # "away"
    BY <2>2 DEF DrInv, SeenTaken, Typed
  <2>6. Read => Declared
    BY DEF Read, Declared
  <2> DEFINE front == pane.ready /\ wait.sawBusy
             unclear == front /\ Declared /\ pane.composer = "unknown"
             cleared == IF front /\ pane.composer = "empty" THEN wait.cleared + 1 ELSE 0
             over == IF Declared THEN cleared = ClearedPolls ELSE front
             unknown == CASE unclear -> Since(wait.unknown)
                          [] pane.ready /\ ~wait.sawBusy -> wait.unknown
                          [] OTHER -> Never
  \* The three ways a look ends.
  <2>7. \/ over /\ Finished("front")
        \/ ~over /\ unclear /\ Since(wait.unknown) = Grace /\ Finished("grace")
        \/ /\ ~over
           /\ wait'.sawBusy = (wait.sawBusy \/ ~pane.ready)
           /\ wait'.cleared = cleared /\ wait'.unknown = unknown
           /\ step' \in {"press", "wait"} /\ UNCHANGED by
    BY <2>1 DEF PollBy
  \* What an empty composer tells of a pane that is read.
  <2>8. ASSUME Read, front, pane.composer = "empty"
        PROVE  msg' \in {"running", "over"} /\ (msg \in {"running", "over"} => msg' = "over")
    <3>1. pane = Clear /\ ~Busy /\ msg # "parked"
      <4>1. pane = Clear
        BY <2>1, <2>8 DEF Spoilt
      <4>2. Clear.ready /\ Clear.composer = "empty"
        BY <2>8, <4>1
      <4>3. Composer = "empty" /\ ~Busy
        BY <4>2 DEF Clear
      <4> QED BY <2>8, <4>1, <4>3 DEF Composer, Read
    <3> QED BY <1>t, <2>1, <2>5, <3>1 DEF Look, Busy, DrTypeOK
  <2>9. ASSUME Read, unclear, msg = "parked" => cli.paste PROVE Since(wait.unknown) < torn' /\ Since(wait.unknown) < Grace
    <3>1. wait.unknown < torn /\ wait.unknown \in Never..Grace /\ torn \in Nat /\ torn' \in 0..TornRun
      BY <1>t, <2>2, <2>9 DEF DrInv, HiddenBriefly, DrTypeOK, Waiting
    <3>2. pane = Spoilt \/ (cli.runtime = "claude" /\ msg = "parked")
      BY <2>1, <2>9 DEF Clear, Composer, Read
    <3>3. ~(cli.runtime = "claude" /\ msg = "parked")
      BY <2>9 DEF DrInv, ClaudePlain
    <3>4. torn' = torn + 1 \/ pane = Clear
      BY <2>1 DEF Look
    <3>5. torn' = torn + 1
      BY <2>1, <2>9, <3>2, <3>3, <3>4 DEF Clear, Spoilt, Composer, Look, Read
    <3> QED BY <3>1, <3>5 DEF Since, Later, Never
  <2>10. TypedIsTaken'
    <3>0. msg = "parked" => refused /\ refused'
      BY <2>2 DEF DrInv, ParkedRefused
    <3>1. CASE Read /\ step' = "done" /\ (msg = "parked" => cli.paste)
      <4>1. over /\ by' = "front"
        BY <2>7, <2>9, <3>1 DEF Finished
      <4>2. front /\ pane.composer = "empty" /\ wait.cleared = 1
        BY <1>t, <2>6, <3>1, <4>1 DEF ClearedPolls, DrTypeOK
      <4>3. msg' = "over"
        BY <2>2, <2>8, <3>1, <4>2 DEF DrInv, ClearedOnce, Waiting
      <4> QED BY <4>1, <4>3 DEF TypedIsTaken
    <3> QED BY <1>k, <2>2, <2>3, <3>0, <3>1 DEF TypedIsTaken, Overlooked, Read
  <2>11. HiddenBriefly'
    <3>1. ASSUME Read, step' \in {"press", "wait"}, msg = "parked" => cli.paste
          PROVE  wait'.unknown < torn'
      <4>1. wait'.unknown = unknown /\ torn' \in Nat
        BY <1>t, <2>7, <3>1 DEF Finished, DrTypeOK
      <4>2. CASE unclear
        BY <2>9, <3>1, <4>1, <4>2
      <4>3. CASE ~unclear /\ pane.ready /\ ~wait.sawBusy
        BY <2>2, <4>1, <4>3 DEF DrInv, NoFrontYet, Waiting, Never
      <4>4. CASE ~unclear /\ ~(pane.ready /\ ~wait.sawBusy)
        BY <4>1, <4>4 DEF Never
      <4> QED BY <4>2, <4>3, <4>4
    <3>2. step' \in {"press", "wait", "done"}
      BY <2>7 DEF Finished
    <3> QED BY <1>k, <2>2, <2>3, <3>1, <3>2 DEF HiddenBriefly, Read, Waiting
  <2>12. NoFrontYet'
    <3>1. ASSUME step' \in {"press", "wait"}, ~wait'.sawBusy PROVE wait'.unknown = Never /\ wait'.cleared = 0
      <4>1. wait'.sawBusy = (wait.sawBusy \/ ~pane.ready) /\ wait'.cleared = cleared /\ wait'.unknown = unknown
        BY <2>7, <3>1 DEF Finished
      <4>2. pane.ready /\ ~wait.sawBusy
        BY <3>1, <4>1
      <4> QED BY <2>2, <4>1, <4>2 DEF DrInv, NoFrontYet, Waiting
    <3> QED BY <3>1 DEF NoFrontYet, Waiting
  <2>13. ClearedOnce'
    <3>1. ASSUME Read, step' \in {"press", "wait"}, wait'.cleared = 1 PROVE msg' \in {"running", "over"}
      <4>1. cleared = 1
        BY <2>7, <3>1 DEF Finished
      <4>2. front /\ pane.composer = "empty"
        BY <4>1
      <4> QED BY <2>8, <3>1, <4>2
    <3> QED BY <1>k, <3>1 DEF ClearedOnce, Read, Waiting
  <2>14. step' \in {"press", "wait", "done"}
    BY <2>7 DEF Finished
  <2>15. ClaudePlain' /\ NotLeft'
    BY <1>t, <1>k, <2>2, <2>3, <2>10, <2>14 DEF DrInv, ClaudePlain, NotLeft, TypedIsTaken, Read
  <2>16. ParkedRefused'
    <3>1. step' = "press" => pane.composer = "pending"
      BY <2>1 DEF PollBy, Finished
    <3>2. pane.composer = "pending" => cli.paste
      BY <2>1 DEF Clear, Spoilt, Composer
    <3> QED BY <2>2, <2>3, <2>14, <3>1, <3>2 DEF DrInv, ParkedRefused
  <2> HIDE DEF front, unclear, cleared, over, unknown
  <2> QED
    BY <1>t, <1>k, <2>2, <2>3, <2>4, <2>5, <2>10, <2>11, <2>12, <2>13, <2>14, <2>15, <2>16
       DEF DrInv, Counted, Gone, Typed, TokenTells, SeenTaken
<1>11. CASE PressParked
  BY <1>11, <1>t, <1>k DEF DrInv, Counted, Gone, Typed, TokenTells,
     ParkedRefused, ClaudePlain, NotLeft, SeenTaken, HiddenBriefly, NoFrontYet, ClearedOnce, TypedIsTaken, Overlooked,
     PressParked, Enter, Ignores, Queues, Never, Waiting, Read, DrTypeOK
<1>12. CASE PollStatus
  BY <1>12, <1>t, <1>k DEF DrInv, Counted, Gone, Typed, TokenTells,
     ParkedRefused, ClaudePlain, NotLeft, SeenTaken, HiddenBriefly, NoFrontYet, ClearedOnce, TypedIsTaken, Overlooked,
     PollStatus, Finished, Fresh, Never, Waiting, Read, DrTypeOK
<1>13. CASE Abort
  BY <1>13, <1>t, <1>k DEF DrInv, Counted, Gone, Typed, TokenTells,
     ParkedRefused, ClaudePlain, NotLeft, SeenTaken, HiddenBriefly, NoFrontYet, ClearedOnce, TypedIsTaken, Overlooked,
     Abort, Fresh, Never, Waiting, Read, DrTypeOK
<1>14. CASE BootEnds
  BY <1>14, <1>t, <1>k DEF DrInv, Counted, Gone, Typed, TokenTells,
     ParkedRefused, ClaudePlain, NotLeft, SeenTaken, HiddenBriefly, NoFrontYet, ClearedOnce, TypedIsTaken, Overlooked,
     BootEnds, Unwatched, Never, Waiting, Read, DrTypeOK
<1>15. CASE TurnBegins
  BY <1>15, <1>t, <1>k DEF DrInv, Counted, Gone, Typed, TokenTells,
     ParkedRefused, ClaudePlain, NotLeft, SeenTaken, HiddenBriefly, NoFrontYet, ClearedOnce, TypedIsTaken, Overlooked,
     TurnBegins, Unwatched, Never, Waiting, Read, DrTypeOK
<1>16. CASE TurnEnds
  BY <1>16, <1>t, <1>k DEF DrInv, Counted, Gone, Typed, TokenTells,
     ParkedRefused, ClaudePlain, NotLeft, SeenTaken, HiddenBriefly, NoFrontYet, ClearedOnce, TypedIsTaken, Overlooked,
     TurnEnds, Unwatched, Never, Waiting, Read, DrTypeOK
<1>17. CASE OwnBegins
  BY <1>17, <1>t, <1>k DEF DrInv, Counted, Gone, Typed, TokenTells,
     ParkedRefused, ClaudePlain, NotLeft, SeenTaken, HiddenBriefly, NoFrontYet, ClearedOnce, TypedIsTaken, Overlooked,
     OwnBegins, Unwatched, Never, Waiting, Read, DrTypeOK
<1>18. CASE OwnEnds
  BY <1>18, <1>t, <1>k DEF DrInv, Counted, Gone, Typed, TokenTells,
     ParkedRefused, ClaudePlain, NotLeft, SeenTaken, HiddenBriefly, NoFrontYet, ClearedOnce, TypedIsTaken, Overlooked,
     OwnEnds, Unwatched, Never, Waiting, Read, DrTypeOK
<1>19. CASE SessionGoes
  BY <1>19, <1>t, <1>k DEF DrInv, Counted, Gone, Typed, TokenTells,
     ParkedRefused, ClaudePlain, NotLeft, SeenTaken, HiddenBriefly, NoFrontYet, ClearedOnce, TypedIsTaken, Overlooked,
     SessionGoes, Unwatched, Never, Waiting, Read, DrTypeOK
<1>20. CASE SessionComes
  BY <1>20, <1>t, <1>k DEF DrInv, Counted, Gone, Typed, TokenTells,
     ParkedRefused, ClaudePlain, NotLeft, SeenTaken, HiddenBriefly, NoFrontYet, ClearedOnce, TypedIsTaken, Overlooked,
     SessionComes, Unwatched, Never, Waiting, Read, DrTypeOK
<1>21. CASE UNCHANGED drVars
  BY <1>21, <1>t DEF DrInv, Counted, Gone, Typed, TokenTells,
     ParkedRefused, ClaudePlain, NotLeft, SeenTaken, HiddenBriefly, NoFrontYet, ClearedOnce, TypedIsTaken, Overlooked,
     Waiting, Read, drVars
<1> QED BY <1>1, <1>2, <1>3, <1>4, <1>5, <1>6, <1>7, <1>8, <1>9, <1>10, <1>11, <1>12, <1>13, <1>14, <1>15, <1>16, <1>17, <1>18, <1>19, <1>20, <1>21 DEF DrNext, DriverNext, CliNext

\* In its initial states the driver has no message in hand.
LEMMA DriverStarts == DrStart => DrInv
<1> SUFFICES ASSUME DrStart PROVE DrInv
  OBVIOUS
<1> USE DriverNumbers
<1>1. DrTypeOK
  <2>1. wait \in [sawBusy : BOOLEAN, cleared : 0..1, unknown : Never..Grace, press : 0..Repress]
    BY DEF DrStart, Fresh, Never
  <2>2. bounds \in [messages : 0..MaxMessages, own : 0..MaxOwn, hot : 0..MaxHot, deaths : 0..MaxDeaths]
    BY DEF DrStart
  <2>3. cli \in [runtime : Runtimes, up : BOOLEAN, boots : BOOLEAN, own : BOOLEAN, hook : BOOLEAN,
                          paste : BOOLEAN]
    BY DEF DrStart
  <2>4. baseline \in BOOLEAN /\ observed \in BOOLEAN /\ refused \in BOOLEAN
    BY DEF DrStart
  <2>5. /\ step \in DrSteps /\ untyped \in 0..Bursts /\ tries \in 0..Retries /\ torn \in 0..TornRun
        /\ by \in {"nothing", "inject", "front", "grace", "edge"}
        /\ msg \in {"away", "parked", "queued", "running", "over"}
        /\ native \in {"none", "stale", "now"}
    BY DEF DrStart, DrSteps
  <2> QED BY <2>1, <2>2, <2>3, <2>4, <2>5 DEF DrTypeOK
<1> QED
  BY <1>1 DEF DrStart, DrInv, Counted, Gone, Typed, TokenTells, ParkedRefused, ClaudePlain, NotLeft, SeenTaken,
     HiddenBriefly, NoFrontYet, ClearedOnce, TypedIsTaken, Waiting, Read

\* A message reported done has left the composer and, but for an answer within the
\* confirmations, its turn is over, unless Enter was ignored, none was taken since and the
\* text shows no marker: for any number of looks, keys, repaints, turns and deaths, and
\* whatever may still boot (inject, awaitTurn).
THEOREM DoneIsTaken == DrSpec => []TypedIsTaken
<1>1. DrStart => DrInv
  BY DriverStarts
<1>2. DrInv /\ [DrNext]_drVars => DrInv'
  BY DriverStep
<1>3. DrInv => TypedIsTaken
  BY DEF DrInv
<1> QED BY <1>1, <1>2, <1>3, PTL DEF DrSpec
===============================================================================
