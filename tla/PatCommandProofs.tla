---------------------------- MODULE PatCommandProofs ----------------------------
(* Theorems about PatCommand, for every set of calls and values, every    *)
(* delay and every bound.                                                 *)
EXTENDS PatCommand, TLAPS

USE CoordinatorAssumption, CommandAssumption DEF CoordinatorAssumption, CommandAssumption

(* What a call's stage says about the cloud's last answer to it. *)
StageMatchesAnswer ==
    \A c \in Commands :
        /\ pc[c] = "accepted" => answer[c] = "ok"
        /\ pc[c] \in {"sleeping", "checking"} => answer[c] = "busy"
        /\ pc[c] = "checking" => c \in Verified

(* A call without `verify` that sleeps has an attempt left. *)
RetriesLeft ==
    \A c \in Commands :
        pc[c] = "sleeping" /\ c \notin Verified => attempt[c] < MaxAttempt(c)

TypeInv == TypeOK /\ RetriesLeft

IInv == TypeOK /\ RetriesLeft /\ VerdictIsFinal /\ RefreshHasOneOwner /\ StageMatchesAnswer

-----------------------------------------------------------------------------
(* Type correctness. *)

(* The states of a poll, and what EXCEPT makes of them *)
LEMMA PollType ==
    ASSUME poll \in [Refreshers -> PollStates], NEW r \in Refreshers
    PROVE  /\ [poll EXCEPT ![r] = Idle] \in [Refreshers -> PollStates]
           /\ [poll EXCEPT ![r] = Asked] \in [Refreshers -> PollStates]
           /\ [poll EXCEPT ![r] = Applied] \in [Refreshers -> PollStates]
           /\ \A b \in Values \cup {NoStatus} :
                 [poll EXCEPT ![r] = Answered(b)] \in [Refreshers -> PollStates]
           /\ poll[r].body \in Values \cup {NoStatus}
  <1>1. \A b \in Values \cup {NoStatus} : Answered(b) \in PollStates
    BY DEF PollStates
  <1>2. Idle \in PollStates /\ Asked \in PollStates /\ Applied \in PollStates
    BY DEF PollStates
  <1>3. \A s \in PollStates : s.body \in Values \cup {NoStatus}
    BY DEF PollStates, Idle, Asked, Applied, Answered
  <1> QED
    BY <1>1, <1>2, <1>3

(* Reporting a value over MQTT keeps the types of the cloud's variables. *)
LEMMA TakeType ==
    ASSUME CoordTypeOK, NEW v \in Values, Take(v)
    PROVE  value' \in Values /\ reported' \in Values /\ pushes' \in Seq(Values)
  BY DEF CoordTypeOK, Take

(* Asking for a refresh keeps the types of the poll and of the timer. *)
LEMMA RequestType ==
    ASSUME CoordTypeOK, async_request_refresh
    PROVE  /\ poll' \in [Refreshers -> PollStates]
           /\ cooldown' \in NoTimer..Cooldown
           /\ executeAtEnd' \in BOOLEAN
  <1>1. "debounced" \in Refreshers
    BY DEF Refreshers
  <1>2. NoTimer \in NoTimer..Cooldown
    BY DEF NoTimer
  <1> QED
    BY <1>1, <1>2, PollType
    DEF async_request_refresh, CoordTypeOK, CancelDebounce, timerVars

(* Releasing the Debouncer's lock does too. *)
LEMMA ReleaseType ==
    ASSUME CoordTypeOK, ReleaseDebouncer
    PROVE  /\ poll' \in [Refreshers -> PollStates]
           /\ cooldown' \in NoTimer..Cooldown
           /\ executeAtEnd' \in BOOLEAN
  <1>1. "debounced" \in Refreshers
    BY DEF Refreshers
  <1>2. Cooldown \in NoTimer..Cooldown
    BY DEF NoTimer
  <1> QED
    BY <1>1, <1>2, PollType DEF ReleaseDebouncer, CoordTypeOK

(* Every step of the coordinator and of the cloud keeps the coordinator's  *)
(* types.                                                                  *)
LEMMA CoordTypeStep ==
    ASSUME CoordTypeOK, CloudStep \/ CoordStep
    PROVE  CoordTypeOK'
  <1> USE DEF coordVars, cloudVars, deviceVars, dataVars, timerVars
  <1>0. /\ "hourly" \in Refreshers /\ "debounced" \in Refreshers
        /\ NoTimer \in NoTimer..Cooldown
    BY DEF Refreshers, NoTimer
  <1>1. CASE RemoteChange
    <2>1. PICK v \in Values \ {value} : Take(v)
      BY <1>1 DEF RemoteChange
    <2>2. value' \in Values /\ reported' \in Values /\ pushes' \in Seq(Values)
      BY <2>1, TakeType
    <2> QED
      BY <1>1, <2>2 DEF RemoteChange, CoordTypeOK, Upset
  <1>2. CASE Disconnect
    <2>1. upsets' \in 0..MaxUpsets
      BY <1>2 DEF Disconnect, CoordTypeOK, Upset
    <2>2. online' \in BOOLEAN
      BY <1>2 DEF Disconnect
    <2> QED
      BY <1>2, <2>1, <2>2 DEF Disconnect, CoordTypeOK
  <1>8. CASE Reconnect
    BY <1>8 DEF Reconnect, CoordTypeOK
  <1>3. CASE handle_mqtt_status
    <2>1. Head(pushes) \in Values /\ Tail(pushes) \in Seq(Values)
      BY <1>3 DEF handle_mqtt_status, CoordTypeOK
    <2> QED
      BY <1>0, <1>3, <2>1
      DEF handle_mqtt_status, CoordTypeOK, UpdateStatus, mark_reachable, CancelDebounce
  <1>4. CASE HourlyRefresh
    BY <1>0, <1>4, PollType DEF HourlyRefresh, CoordTypeOK, CancelDebounce
  <1>5. CASE CooldownEnds
    BY <1>0, <1>5, PollType DEF CooldownEnds, CoordTypeOK, CancelDebounce
  <1>6. ASSUME NEW r \in Refreshers, AnswerPoll(r)
        PROVE  CoordTypeOK'
    <2>1. reported \in Values \cup {NoStatus} /\ NoStatus \in Values \cup {NoStatus}
      BY DEF CoordTypeOK
    <2>2. poll' \in [Refreshers -> PollStates]
      BY <1>6, <2>1, PollType DEF AnswerPoll, CoordTypeOK
    <2> QED
      BY <1>6, <2>2 DEF AnswerPoll, CoordTypeOK, Upset
  <1>7. ASSUME NEW r \in Refreshers, ApplyPoll(r)
        PROVE  CoordTypeOK'
    <2>1. poll[r].body \in Values \cup {NoStatus}
      BY PollType DEF CoordTypeOK
    <2>2. poll' \in [Refreshers -> PollStates]
      BY <1>7, PollType DEF ApplyPoll, CoordTypeOK
    <2> QED
      BY <1>7, <2>1, <2>2 DEF ApplyPoll, CoordTypeOK, UpdateStatus, mark_reachable
  <1> QED
    BY <1>1, <1>2, <1>3, <1>4, <1>5, <1>6, <1>7, <1>8 DEF CloudStep, CoordStep

(* A call changes nothing but its own stage, count, answer and sleep. *)
LEMMA CallTypeStep ==
    ASSUME TypeInv, NEW c \in Commands,
           Call(c) \/ AnswerCall(c) \/ ApplyLate(c) \/ CallStep(c)
    PROVE  TypeInv'
  <1> USE DEF TypeInv, RetriesLeft, MaxAttempt, TypeOK, coordVars, cloudVars, deviceVars, dataVars, timerVars, callVars, lgVars, Goto,
              Stages, Awaiting, Ended, Answers
  <1>1. Target[c] \in Values
    OBVIOUS
  <1>2. CASE Call(c)
    BY <1>2 DEF Call, CoordTypeOK
  <1>3. CASE AnswerCall(c)
    <2>1. value' \in Values /\ reported' \in Values /\ pushes' \in Seq(Values)
      BY <1>1, <1>3, TakeType DEF AnswerCall, CoordTypeOK
    <2>2. CoordTypeOK'
      BY <1>3, <2>1 DEF AnswerCall, CoordTypeOK
    <2> QED
      BY <1>3, <2>2 DEF AnswerCall
  <1>4. CASE ApplyLate(c)
    <2>1. value' \in Values /\ reported' \in Values /\ pushes' \in Seq(Values)
      BY <1>1, <1>4, TakeType DEF ApplyLate
    <2> QED
      BY <1>4, <2>1 DEF ApplyLate, CoordTypeOK
  <1>5. CASE Offline(c)
    BY <1>5 DEF Offline, CoordTypeOK, mark_unreachable
  <1>6. CASE Fail(c)
    BY <1>6 DEF Fail, CoordTypeOK
  <1>7. CASE Succeed(c)
    <2>1. CoordTypeOK'
      BY <1>7, RequestType DEF Succeed, CoordTypeOK, mark_reachable
    <2> QED
      BY <1>7, <2>1 DEF Succeed
  <1>8. CASE Sleep(c)
    BY <1>8 DEF Sleep, CoordTypeOK
  <1>9. CASE Retry(c)
    BY <1>9 DEF Retry, Resend, CoordTypeOK
  <1>10. ASSUME Verify(c)
         PROVE  /\ pc' \in [Commands -> Stages]
                /\ attempt' \in [Commands -> Nat]
                /\ RetriesLeft'
                /\ \A d \in Commands : attempt'[d] <= MaxAttempt(d)
                /\ deviceReachable' \in BOOLEAN
    <2>1. CASE status = Target[c]
      BY <1>10, <2>1 DEF Verify, mark_reachable
    <2>2. CASE status # Target[c] /\ Resend(c)
      BY <1>10, <2>2 DEF Verify, Resend, CoordTypeOK
    <2>3. CASE status # Target[c] /\ ~Resend(c)
      BY <1>10, <2>3 DEF Verify, CoordTypeOK
    <2> QED
      BY <2>1, <2>2, <2>3
  <1>11. CASE RefreshAndVerify(c)
    <2>1. /\ pc' \in [Commands -> Stages]
          /\ attempt' \in [Commands -> Nat]
          /\ \A d \in Commands : attempt'[d] <= MaxAttempt(d)
          /\ RetriesLeft'
          /\ deviceReachable' \in BOOLEAN
      BY <1>10, <1>11 DEF RefreshAndVerify, CoordTypeOK
    <2>2. CoordTypeOK'
      BY <1>11, <2>1, RequestType DEF RefreshAndVerify, CoordTypeOK
    <2> QED
      BY <1>11, <2>1, <2>2 DEF RefreshAndVerify
  <1>12. CASE Refreshed(c)
    <2>1. /\ pc' \in [Commands -> Stages]
          /\ attempt' \in [Commands -> Nat]
          /\ \A d \in Commands : attempt'[d] <= MaxAttempt(d)
          /\ RetriesLeft'
          /\ deviceReachable' \in BOOLEAN
      BY <1>10, <1>12 DEF Refreshed, CoordTypeOK
    <2>2. CoordTypeOK'
      BY <1>12, <2>1, ReleaseType DEF Refreshed, CoordTypeOK
    <2> QED
      BY <1>12, <2>1, <2>2 DEF Refreshed
  <1> QED
    BY <1>2, <1>3, <1>4, <1>5, <1>6, <1>7, <1>8, <1>9, <1>11, <1>12 DEF CallStep

(* Every step of the specification keeps the types. *)
LEMMA TypeStep == TypeInv /\ [Next]_vars => TypeInv'
  <1> SUFFICES ASSUME TypeInv, [Next]_vars PROVE TypeInv'
    OBVIOUS
  <1> USE DEF vars, coordVars, cloudVars, deviceVars, dataVars, timerVars, callVars, lgVars
  <1>1. ASSUME NEW c \in Commands, Call(c) \/ AnswerCall(c) \/ ApplyLate(c) \/ CallStep(c)
        PROVE  TypeInv'
    BY <1>1, CallTypeStep
  <1>2. CASE CloudStep \/ CoordStep
    <2>1. CoordTypeOK'
      BY <1>2, CoordTypeStep DEF TypeInv, TypeOK, RetriesLeft
    <2>2. UNCHANGED <<callVars, lgVars>>
      BY <1>2 DEF CloudStep, CoordStep, NoCall
    <2> QED
      BY <2>1, <2>2 DEF TypeInv, TypeOK, RetriesLeft
  <1>3. CASE TimerRefreshed
    <2>1. CoordTypeOK'
      BY <1>3, ReleaseType DEF TimerRefreshed, TypeInv, TypeOK, RetriesLeft, CoordTypeOK
    <2> QED
      BY <1>3, <2>1 DEF TimerRefreshed, TypeInv, TypeOK, RetriesLeft
  <1>4. CASE Tick
    BY <1>4 DEF Tick, TypeInv, TypeOK, RetriesLeft, CoordTypeOK, CooldownTick, NoTimer
  <1>5. CASE UNCHANGED vars
    BY <1>5 DEF TypeInv, TypeOK, RetriesLeft, CoordTypeOK
  <1> QED
    BY <1>1, <1>2, <1>3, <1>4, <1>5 DEF Next

(* The initial state is well typed. *)
LEMMA TypeInit == Init => TypeInv
  <1> SUFFICES ASSUME Init PROVE TypeInv
    OBVIOUS
  <1>1. Idle \in PollStates /\ NoTimer \in NoTimer..Cooldown
    BY DEF PollStates, NoTimer
  <1>2. CoordTypeOK
    <2>1. pushes \in Seq(Values) /\ upsets \in 0..MaxUpsets
      BY DEF Init, CoordInit
    <2>2. /\ value \in Values /\ reported \in Values /\ online \in BOOLEAN /\ deviceReachable \in BOOLEAN
          /\ status \in Values \cup {NoStatus} /\ lastUpdateSuccess \in BOOLEAN
      BY DEF Init, CoordInit
    <2>3. /\ poll \in [Refreshers -> PollStates] /\ executeAtEnd \in BOOLEAN
          /\ cooldown \in NoTimer..Cooldown
      BY <1>1 DEF Init, CoordInit
    <2> QED
      BY <2>1, <2>2, <2>3 DEF CoordTypeOK
  <1> QED
    BY <1>2 DEF Init, TypeInv, TypeOK, RetriesLeft, MaxAttempt, Stages, Answers

(* Every reachable state is well typed, and no call is sent more often     *)
(* than its attempts allow.                                                *)
THEOREM TypeCorrect == Spec => []TypeOK
  <1>1. TypeInv => TypeOK
    BY DEF TypeInv
  <1> QED
    BY <1>1, TypeInit, TypeStep, PTL DEF Spec

-----------------------------------------------------------------------------
(* The verdict of the cloud, the owner of a refresh, and the answer that   *)
(* belongs to each stage: none of the three is inductive without the       *)
(* others.                                                                 *)

(* The steps of a call other than the refresh it awaits *)
LEMMA VerdictStep ==
    ASSUME IInv, NEW c \in Commands,
           Call(c) \/ AnswerCall(c) \/ ApplyLate(c) \/ CallStep(c)
    PROVE  VerdictIsFinal' /\ StageMatchesAnswer'
  <1> USE DEF IInv, TypeOK, VerdictIsFinal, StageMatchesAnswer, callVars, lgVars, Goto,
              Awaiting, Answers
  <1>1. CASE Call(c)
    BY <1>1 DEF Call
  <1>2. CASE AnswerCall(c)
    <2>1. CASE answer'[c] = "ok"
      BY <1>2, <2>1 DEF AnswerCall
    <2>2. CASE answer'[c] # "ok"
      BY <1>2, <2>2 DEF AnswerCall
    <2> QED
      BY <2>1, <2>2
  <1>3. CASE ApplyLate(c)
    BY <1>3 DEF ApplyLate
  <1>4. CASE Offline(c)
    BY <1>4 DEF Offline
  <1>5. CASE Fail(c)
    BY <1>5 DEF Fail
  <1>6. CASE Succeed(c)
    BY <1>6 DEF Succeed
  <1>7. CASE Sleep(c)
    BY <1>7 DEF Sleep
  <1>8. CASE Retry(c)
    BY <1>8 DEF Retry, Resend
  <1>9. ASSUME Verify(c), answer[c] = "busy", UNCHANGED <<answer, lgVars>>
        PROVE  VerdictIsFinal' /\ StageMatchesAnswer'
    BY <1>9 DEF Verify, Resend
  <1>10. CASE RefreshAndVerify(c)
    <2>1. CASE Verify(c)
      BY <1>9, <1>10, <2>1 DEF RefreshAndVerify
    <2>2. CASE ~Verify(c)
      BY <1>10, <2>2 DEF RefreshAndVerify
    <2> QED
      BY <2>1, <2>2
  <1>11. CASE Refreshed(c)
    <2>1. CASE Verify(c) /\ pc[c] = "checking"
      BY <1>9, <1>11, <2>1 DEF Refreshed
    <2>2. CASE pc[c] = "accepted"
      BY <1>11, <2>2 DEF Refreshed
    <2> QED
      BY <1>11, <2>1, <2>2 DEF Refreshed
  <1> QED
    BY <1>1, <1>2, <1>3, <1>4, <1>5, <1>6, <1>7, <1>8, <1>10, <1>11 DEF CallStep

(* The steps that touch the refresh a call awaits: the Debouncer's lock    *)
(* passes from one call to the next only when it is free.                  *)
LEMMA OwnerStep ==
    ASSUME IInv, NEW c \in Commands,
           Call(c) \/ AnswerCall(c) \/ ApplyLate(c) \/ CallStep(c)
    PROVE  RefreshHasOneOwner'
  <1> USE DEF IInv, TypeOK, CoordTypeOK, RefreshHasOneOwner, Awaiting, Goto, coordVars,
              callVars
  <1>0. /\ "debounced" \in Refreshers
        /\ Asked # Idle /\ Applied # Idle
    BY DEF Refreshers, Asked, Applied, Idle
  <1>1. CASE Call(c)
    BY <1>1 DEF Call
  <1>2. CASE AnswerCall(c)
    BY <1>2 DEF AnswerCall
  <1>3. CASE ApplyLate(c)
    BY <1>3 DEF ApplyLate
  <1>4. CASE Offline(c)
    BY <1>4 DEF Offline
  <1>5. CASE Fail(c)
    BY <1>5 DEF Fail
  <1>6. ASSUME async_request_refresh
        PROVE  /\ RunsRefresh => /\ poll'["debounced"] = Asked
                                 /\ \A d \in Commands : pc[d] \notin Awaiting
               /\ ~RunsRefresh => UNCHANGED poll
    BY <1>0, <1>6 DEF async_request_refresh, RunsRefresh
  <1>7. CASE Succeed(c)
    BY <1>0, <1>6, <1>7 DEF Succeed
  <1>8. CASE Sleep(c)
    BY <1>8 DEF Sleep
  <1>9. CASE Retry(c)
    BY <1>9 DEF Retry, Resend
  <1>10. ASSUME Verify(c)
         PROVE  pc' \in [Commands -> Stages] /\ pc'[c] \notin Awaiting
                /\ \A d \in Commands \ {c} : pc'[d] = pc[d]
    BY <1>10 DEF Verify, Resend, Stages, Ended
  <1>11. CASE RefreshAndVerify(c)
    <2>1. CASE RunsRefresh
      BY <1>0, <1>6, <1>11, <2>1 DEF RefreshAndVerify
    <2>2. CASE ~RunsRefresh
      BY <1>6, <1>10, <1>11, <2>2 DEF RefreshAndVerify
    <2> QED
      BY <2>1, <2>2
  <1>12. CASE Refreshed(c)
    <2>1. \A d \in Commands \ {c} : pc[d] \notin Awaiting
      BY <1>12 DEF Refreshed
    <2>2. \A d \in Commands : pc'[d] \notin Awaiting
      BY <1>10, <1>12, <2>1 DEF Refreshed
    <2> QED
      BY <2>2
  <1> QED
    BY <1>1, <1>2, <1>3, <1>4, <1>5, <1>7, <1>8, <1>9, <1>11, <1>12 DEF CallStep

(* Every step of the specification keeps the inductive invariant. *)
LEMMA InvStep == IInv /\ [Next]_vars => IInv'
  <1> SUFFICES ASSUME IInv, [Next]_vars PROVE IInv'
    OBVIOUS
  <1>1. TypeOK' /\ RetriesLeft'
    BY TypeStep DEF IInv, TypeInv
  <1>2. ASSUME NEW c \in Commands, Call(c) \/ AnswerCall(c) \/ ApplyLate(c) \/ CallStep(c)
        PROVE  IInv'
    BY <1>1, <1>2, VerdictStep, OwnerStep DEF IInv
  <1>3. ASSUME UNCHANGED <<pc, attempt, answer, accepted>>
        PROVE  VerdictIsFinal' /\ StageMatchesAnswer'
    BY <1>3 DEF IInv, VerdictIsFinal, StageMatchesAnswer
  <1>4. CASE CloudStep \/ CoordStep
    <2>1. UNCHANGED <<pc, attempt, answer, accepted>>
      BY <1>4 DEF CloudStep, CoordStep, NoCall, callVars, lgVars
    <2>2. poll["debounced"] # Idle => poll'["debounced"] # Idle
      <3>1. /\ "debounced" \in Refreshers /\ "hourly" # "debounced"
            /\ \A b : Answered(b) # Idle
            /\ Asked # Idle /\ Applied # Idle
        BY DEF Refreshers, Answered, Asked, Applied, Idle
      <3>2. poll \in [Refreshers -> PollStates]
        BY DEF IInv, TypeOK, CoordTypeOK
      <3> QED
        BY <1>4, <3>1, <3>2
        DEF CloudStep, CoordStep, RemoteChange, Disconnect, Reconnect, handle_mqtt_status,
            HourlyRefresh, CooldownEnds, AnswerPoll, ApplyPoll
    <2> QED
      BY <1>1, <1>3, <2>1, <2>2 DEF IInv, RefreshHasOneOwner
  <1>5. CASE TimerRefreshed
    BY <1>1, <1>3, <1>5 DEF TimerRefreshed, IInv, RefreshHasOneOwner, callVars, lgVars
  <1>6. CASE Tick
    BY <1>1, <1>3, <1>6 DEF Tick, IInv, RefreshHasOneOwner, lgVars
  <1>7. CASE UNCHANGED vars
    BY <1>1, <1>3, <1>7 DEF vars, coordVars, callVars, lgVars, IInv, RefreshHasOneOwner
  <1> QED
    BY <1>2, <1>4, <1>5, <1>6, <1>7 DEF Next

(* The inductive invariant holds at the start. *)
LEMMA InvInit == Init => IInv
  BY TypeInit DEF Init, IInv, TypeInv, VerdictIsFinal, RefreshHasOneOwner, StageMatchesAnswer, Awaiting

(* The inductive invariant holds throughout. *)
LEMMA Invariant == Spec => []IInv
  BY InvInit, InvStep, PTL DEF Spec

(* A call that the cloud acknowledged, or found offline, is never sent     *)
(* again and never raises, whatever other calls do meanwhile.              *)
THEOREM VerdictFinal == Spec => []VerdictIsFinal
  <1>1. IInv => VerdictIsFinal
    BY DEF IInv
  <1> QED
    BY <1>1, Invariant, PTL

(* A call that awaits a refresh awaits the one it started: the Debouncer's *)
(* lock is held, and by that call alone.                                   *)
THEOREM OneOwner == Spec => []RefreshHasOneOwner
  <1>1. IInv => RefreshHasOneOwner
    BY DEF IInv
  <1> QED
    BY <1>1, Invariant, PTL

-----------------------------------------------------------------------------
(* How a call ends. *)

(* The stages a step can take a call to, and on which condition *)
LEMMA StageStep ==
    ASSUME IInv, [Next]_vars, NEW c \in Commands, pc'[c] # pc[c]
    PROVE  \/ pc[c] = "idle" /\ pc'[c] = "calling" /\ UNCHANGED <<answer, accepted>>
           \/ pc[c] = "calling" /\ AnswerCall(c)
           \/ /\ pc[c] = "answered" /\ answer[c] = "ok" /\ pc'[c] \in {"accepted", "done"}
              /\ UNCHANGED <<answer, accepted>>
           \/ /\ pc[c] = "answered" /\ answer[c] = "offline" /\ pc'[c] = "done"
              /\ UNCHANGED <<answer, accepted>>
           \/ /\ pc[c] = "answered" /\ answer[c] \in {"busy", "error"}
              /\ pc'[c] \in {"raised", "sleeping"}
              /\ UNCHANGED <<answer, accepted>>
           \/ pc[c] = "accepted" /\ pc'[c] = "done" /\ UNCHANGED <<answer, accepted>>
           \/ /\ pc[c] \in {"sleeping", "checking"}
              /\ pc'[c] \in {"calling", "checking", "raised"}
              /\ UNCHANGED <<answer, accepted>>
           \/ /\ pc[c] \in {"sleeping", "checking"} /\ pc'[c] = "done"
              /\ c \in Verified /\ status = Target[c]
              /\ UNCHANGED <<answer, accepted>>
  <1> USE DEF IInv, TypeOK, Goto, vars, callVars, lgVars
  <1>1. PICK d \in Commands : Call(d) \/ AnswerCall(d) \/ ApplyLate(d) \/ CallStep(d)
    BY DEF Next, CloudStep, CoordStep, NoCall, TimerRefreshed, Tick
  <1>2. ASSUME Verify(d) PROVE \A e \in Commands \ {d} : pc'[e] = pc[e]
    BY <1>2 DEF Verify, Resend
  <1>3. d = c
    BY <1>1, <1>2 DEF Call, AnswerCall, ApplyLate, CallStep, Offline, Fail, Succeed, Sleep,
                      Retry, Resend, RefreshAndVerify, Refreshed
  <1>4. CASE Call(c)
    BY <1>4 DEF Call
  <1>5. CASE AnswerCall(c)
    BY <1>5 DEF AnswerCall
  <1>6. CASE ApplyLate(c)
    BY <1>6 DEF ApplyLate
  <1>7. CASE Offline(c)
    BY <1>7 DEF Offline
  <1>8. CASE Fail(c)
    BY <1>8 DEF Fail
  <1>9. CASE Succeed(c)
    BY <1>9 DEF Succeed
  <1>10. CASE Sleep(c)
    BY <1>10 DEF Sleep
  <1>11. CASE Retry(c)
    BY <1>11 DEF Retry, Resend
  <1>12. ASSUME Verify(c)
         PROVE  \/ pc'[c] \in {"calling", "raised"}
                \/ pc'[c] = "done" /\ status = Target[c]
    BY <1>12 DEF Verify, Resend
  <1>13. CASE RefreshAndVerify(c)
    <2>1. CASE Verify(c)
      BY <1>12, <1>13, <2>1 DEF RefreshAndVerify
    <2>2. CASE ~Verify(c)
      BY <1>13, <2>2 DEF RefreshAndVerify
    <2> QED
      BY <2>1, <2>2
  <1>14. CASE Refreshed(c)
    <2>1. CASE pc[c] = "checking" /\ Verify(c)
      BY <1>12, <1>14, <2>1 DEF Refreshed, StageMatchesAnswer
    <2>2. CASE pc[c] = "accepted"
      BY <1>14, <2>2 DEF Refreshed
    <2> QED
      BY <1>14, <2>1, <2>2 DEF Refreshed
  <1> QED
    BY <1>1, <1>3, <1>4, <1>5, <1>6, <1>7, <1>8, <1>9, <1>10, <1>11, <1>13, <1>14
    DEF CallStep

(* No call returns quietly unless the cloud acknowledged it, the device is *)
(* offline, or verify() saw the value.                                     *)
THEOREM QuietSettled == Spec => QuietOnlyIfSettled
  <1>1. ASSUME IInv, [Next]_vars
        PROVE  \A c \in Commands : pc[c] # "done" /\ pc'[c] = "done" =>
                   c \in accepted \/ answer[c] = "offline"
                   \/ (c \in Verified /\ status = Target[c])
    <2> SUFFICES ASSUME NEW c \in Commands, pc[c] # "done", pc'[c] = "done"
                 PROVE  c \in accepted \/ answer[c] = "offline"
                        \/ (c \in Verified /\ status = Target[c])
      OBVIOUS
    <2>1. pc[c] = "accepted" => answer[c] = "ok"
      BY <1>1 DEF IInv, StageMatchesAnswer
    <2>2. answer[c] = "ok" => c \in accepted
      BY <1>1 DEF IInv, VerdictIsFinal
    <2>3. ~AnswerCall(c)
      BY <1>1 DEF AnswerCall, Goto, IInv, TypeOK
    <2> QED
      BY <1>1, <2>1, <2>2, <2>3, StageStep
  <1> QED
    BY <1>1, Invariant, PTL DEF Spec, QuietOnlyIfSettled

(* A step of one call leaves the stages and answers of the others alone. *)
LEMMA OneCallMoves ==
    ASSUME IInv, NEW c \in Commands,
           Call(c) \/ AnswerCall(c) \/ ApplyLate(c) \/ CallStep(c)
    PROVE  /\ \A d \in Commands \ {c} : pc'[d] = pc[d] /\ answer'[d] = answer[d]
           /\ AnswerCall(c) \/ UNCHANGED <<answer, accepted>>
  <1> USE DEF IInv, TypeOK, Goto, callVars, lgVars
  <1>1. ASSUME Verify(c) PROVE \A e \in Commands \ {c} : pc'[e] = pc[e]
    BY <1>1 DEF Verify, Resend
  <1> QED
    BY <1>1 DEF Call, AnswerCall, ApplyLate, CallStep, Offline, Fail, Succeed, Sleep,
                Retry, Resend, RefreshAndVerify, Refreshed

stageOf == [c \in Commands |-> IF pc[c] \in {"idle"} \cup Ended THEN pc[c] ELSE "open"]
offlineOf == {c \in Commands : answer[c] = "offline"}

(* Every behaviour of the command engine is one that the contract allows: *)
(* acknowledged and offline calls return quietly, other calls without      *)
(* `verify` raise, and there is one verdict per call.                      *)
THEOREM Refinement == Spec => KeepsContract
  <1> USE DEF Ended
  <1>1. Init => Contract!Init
    <2> SUFFICES ASSUME Init PROVE Contract!Init
      OBVIOUS
    <2>1. offlineOf = {} /\ accepted = {}
      BY DEF Init, offlineOf
    <2>2. stageOf = [c \in Commands |-> "idle"]
      BY DEF Init, stageOf
    <2> QED
      BY <2>1, <2>2 DEF Contract!Init, stageOf, offlineOf
  <1>2. IInv /\ [Next]_vars => [Contract!Next]_Contract!vars
    <2> SUFFICES ASSUME IInv, [Next]_vars PROVE [Contract!Next]_Contract!vars
      OBVIOUS
    <2>1. CASE \A c \in Commands : ~(Call(c) \/ AnswerCall(c) \/ ApplyLate(c) \/ CallStep(c))
      <3>1. UNCHANGED <<pc, answer, accepted>>
        BY <2>1 DEF Next, CloudStep, CoordStep, NoCall, TimerRefreshed, Tick, vars,
                    callVars, lgVars
      <3> QED
        BY <3>1 DEF Contract!vars
    <2>2. ASSUME NEW c \in Commands, Call(c) \/ AnswerCall(c) \/ ApplyLate(c) \/ CallStep(c)
          PROVE  [Contract!Next]_Contract!vars
      <3>1. /\ \A d \in Commands \ {c} : pc'[d] = pc[d] /\ answer'[d] = answer[d]
            /\ AnswerCall(c) \/ UNCHANGED <<answer, accepted>>
        BY <2>2, OneCallMoves
      <3>2. /\ pc \in [Commands -> Stages] /\ pc' \in [Commands -> Stages]
            /\ answer \in [Commands -> Answers] /\ answer' \in [Commands -> Answers]
        BY TypeStep DEF IInv, TypeInv, TypeOK
      <3>3. /\ pc[c] = "accepted" => answer[c] = "ok"
            /\ pc[c] \in {"sleeping", "checking"} => answer[c] = "busy"
            /\ answer[c] = "ok" <=> c \in accepted
            /\ answer[c] \in {"ok", "offline"} => pc[c] \in {"answered", "accepted", "done"}
        BY DEF IInv, StageMatchesAnswer, VerdictIsFinal
      <3>4. CASE AnswerCall(c)
        <4>1. pc[c] = "calling" /\ pc' = [pc EXCEPT ![c] = "answered"]
          BY <3>4 DEF AnswerCall, Goto
        <4>2. stageOf' = stageOf /\ stageOf[c] = "open"
          BY <3>2, <4>1 DEF stageOf
        <4>3. c \notin accepted \cup offlineOf
          BY <3>3, <4>1 DEF offlineOf
        <4>4. \/ accepted' = accepted \cup {c} /\ offlineOf' = offlineOf
              \/ accepted' = accepted /\ offlineOf' \in {offlineOf, offlineOf \cup {c}}
          BY <3>1, <3>2, <3>4, <4>3 DEF AnswerCall, offlineOf, lgVars
        <4> QED
          BY <4>2, <4>3, <4>4
          DEF stageOf, offlineOf, Contract!vars, Contract!Next, Contract!Settle, Contract!Settled
      <3>5. CASE UNCHANGED <<answer, accepted>> /\ pc'[c] = pc[c]
        <4>1. pc' = pc
          BY <3>1, <3>2, <3>5
        <4> QED
          BY <3>5, <4>1 DEF Contract!vars
      <3>6. CASE UNCHANGED <<answer, accepted>> /\ pc'[c] # pc[c] /\ ~AnswerCall(c)
        <4>1. stageOf' = [stageOf EXCEPT ![c] = stageOf'[c]]
          BY <3>1, <3>2 DEF stageOf
        <4>2. offlineOf' = offlineOf
          BY <3>6 DEF offlineOf
        <4>3. \/ stageOf'[c] = stageOf[c]
              \/ stageOf[c] = "idle" /\ stageOf'[c] = "open"
              \/ /\ stageOf[c] = "open" /\ stageOf'[c] = "done"
                 /\ c \in accepted \cup offlineOf \cup Verified
              \/ /\ stageOf[c] = "open" /\ stageOf'[c] = "raised"
                 /\ c \notin accepted \cup offlineOf
          BY <3>2, <3>3, <3>6, StageStep DEF stageOf, offlineOf
        <4>4. CASE stageOf'[c] = stageOf[c]
          <5>1. stageOf' = stageOf
            BY <4>1, <4>4, <3>2 DEF stageOf
          <5> QED
            BY <5>1, <4>2, <3>6 DEF stageOf, offlineOf, Contract!vars
        <4>5. CASE stageOf'[c] # stageOf[c]
          BY <3>6, <4>1, <4>2, <4>3, <4>5
          DEF stageOf, offlineOf, Contract!Next, Contract!Issue, Contract!ReturnQuietly,
              Contract!Raise, Contract!Settled
        <4> QED
          BY <4>4, <4>5
      <3> QED
        BY <3>1, <3>4, <3>5, <3>6
    <2> QED
      BY <2>1, <2>2
  <1> QED
    BY <1>1, <1>2, Invariant, PTL DEF Spec, KeepsContract, Contract!Spec

=============================================================================
