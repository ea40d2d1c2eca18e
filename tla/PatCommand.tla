------------------------------- MODULE PatCommand -------------------------------
(***************************************************************************)
(* PatCoordinatorEntity.async_send_pat_command (coordinator_pat.py):       *)
(* service calls that set the coordinator's property through the PAT API.  *)
(* Calls of several entities, or of one, run concurrently.                 *)
(*                                                                         *)
(* A call without `verify` is sent once more, after RetryDelay seconds, if *)
(* the cloud answers that the device is busy.  A call with `verify` is     *)
(* sent up to VerifyAttempts times: after a busy answer it waits, asks the *)
(* coordinator for a refresh and looks whether the property has the value. *)
(***************************************************************************)
EXTENDS PatCoordinator

CONSTANTS
    Commands,       \* the service calls
    Target,         \* the value each of them sets
    Verified,       \* those that pass `verify`
    RetryDelay,     \* _PAT_RETRY_DELAY_SECONDS, verify_delay_seconds
    VerifyAttempts  \* max_verify_attempts + 1

ASSUME CommandAssumption ==
    /\ Target \in [Commands -> Values]
    /\ Verified \subseteq Commands
    /\ RetryDelay \in Nat \ {0}
    /\ VerifyAttempts \in Nat \ {0}

VARIABLES
    pc,         \* where each call is
    attempt,    \* how many times it was sent again
    answer,     \* the cloud's last answer to it
    sleep,      \* seconds left of its asyncio.sleep
    accepted,   \* calls the cloud acknowledged
    late        \* calls answered "busy" that the device will still apply

callVars == <<pc, attempt, answer, sleep>>
lgVars   == <<accepted, late>>
vars     == <<coordVars, callVars, lgVars>>

(* "accepted" and "checking" await the refresh they started themselves. *)
Awaiting == {"accepted", "checking"}
Ended    == {"done", "raised"}
Stages   == {"idle", "calling", "answered", "sleeping"} \cup Awaiting \cup Ended

(* "busy": a code of _PAT_TRANSIENT_RESULT_CODES.  "offline":              *)
(* NOT_CONNECTED_DEVICE.  "error": any other exception.                    *)
Answers == {"none", "ok", "busy", "offline", "error"}

MaxAttempt(c) == IF c \in Verified THEN VerifyAttempts - 1 ELSE 1

TypeOK ==
    /\ CoordTypeOK
    /\ pc \in [Commands -> Stages]
    /\ attempt \in [Commands -> Nat]
    /\ \A c \in Commands : attempt[c] <= MaxAttempt(c)
    /\ answer \in [Commands -> Answers]
    /\ sleep \in [Commands -> 0..RetryDelay]
    /\ accepted \subseteq Commands
    /\ late \subseteq Commands

Init ==
    /\ CoordInit
    /\ pc = [c \in Commands |-> "idle"]
    /\ attempt = [c \in Commands |-> 0]
    /\ answer = [c \in Commands |-> "none"]
    /\ sleep = [c \in Commands |-> 0]
    /\ accepted = {}
    /\ late = {}

Goto(c, stage) == pc' = [pc EXCEPT ![c] = stage]

-----------------------------------------------------------------------------
(* await call(): the request, and what the cloud makes of it. *)

Call(c) ==
    /\ pc[c] = "idle"
    /\ Goto(c, "calling")
    /\ UNCHANGED <<coordVars, attempt, answer, sleep, lgVars>>

(* A busy device may apply the command later all the same, and a call that *)
(* failed (a timeout, say) may have been applied.                          *)
AnswerCall(c) ==
    /\ pc[c] = "calling"
    /\ Goto(c, "answered")
    /\ \/ /\ online
          /\ Take(Target[c])
          /\ answer' = [answer EXCEPT ![c] = "ok"]
          /\ accepted' = accepted \cup {c}
          /\ UNCHANGED late
       \/ /\ online
          /\ answer' = [answer EXCEPT ![c] = "busy"]
          /\ late' \in {late, late \cup {c}}
          /\ UNCHANGED <<deviceVars, accepted>>
       \/ /\ ~online
          /\ answer' = [answer EXCEPT ![c] = "offline"]
          /\ UNCHANGED <<deviceVars, lgVars>>
       \/ /\ answer' = [answer EXCEPT ![c] = "error"]
          /\ \/ online /\ Take(Target[c])
             \/ UNCHANGED deviceVars
          /\ UNCHANGED lgVars
    /\ UNCHANGED <<online, upsets, dataVars, poll, timerVars, attempt, sleep>>

ApplyLate(c) ==
    /\ c \in late
    /\ late' = late \ {c}
    /\ Take(Target[c])
    /\ UNCHANGED <<online, upsets, dataVars, poll, timerVars, callVars, accepted>>

-----------------------------------------------------------------------------
(* The call runs again. *)

Offline(c) ==
    /\ pc[c] = "answered" /\ answer[c] = "offline"
    /\ mark_unreachable
    /\ Goto(c, "done")
    /\ UNCHANGED <<cloudVars, status, lastUpdateSuccess, poll, timerVars,
                   attempt, answer, sleep, lgVars>>

(* mutant: the second answer is not looked at *)
MutFailQuiet(c) ==
    /\ pc[c] = "answered"
    /\ \/ answer[c] = "error" /\ Goto(c, "raised")
       \/ answer[c] = "busy" /\ c \notin Verified /\ attempt[c] = 1 /\ Goto(c, "done")
    /\ UNCHANGED <<coordVars, attempt, answer, sleep, lgVars>>

(* mutant: the retry does not tell an offline device from a failure *)
MutFailOffline(c) ==
    /\ pc[c] = "answered"
    /\ \/ answer[c] = "error"
       \/ answer[c] \in {"busy", "offline"} /\ c \notin Verified /\ attempt[c] = 1
    /\ Goto(c, "raised")
    /\ UNCHANGED <<coordVars, attempt, answer, sleep, lgVars>>

Fail(c) ==
    /\ pc[c] = "answered"
    /\ \/ answer[c] = "error"
       \/ answer[c] = "busy" /\ c \notin Verified /\ attempt[c] = MaxAttempt(c)
    /\ Goto(c, "raised")
    /\ UNCHANGED <<coordVars, attempt, answer, sleep, lgVars>>

(* mutant: the call waits for a refresh that it need not have started *)
MutSucceed(c) ==
    /\ pc[c] = "answered" /\ answer[c] = "ok"
    /\ mark_reachable
    /\ async_request_refresh
    /\ Goto(c, "accepted")
    /\ UNCHANGED <<cloudVars, status, lastUpdateSuccess, attempt, answer, sleep, lgVars>>

Succeed(c) ==
    /\ pc[c] = "answered" /\ answer[c] = "ok"
    /\ mark_reachable
    /\ async_request_refresh
    /\ Goto(c, IF RunsRefresh THEN "accepted" ELSE "done")
    /\ UNCHANGED <<cloudVars, status, lastUpdateSuccess, attempt, answer, sleep, lgVars>>

(* mutant: an acknowledged call is retried as well *)
MutSleep(c) ==
    /\ pc[c] = "answered" /\ answer[c] \in {"busy", "ok"}
    /\ sleep' = [sleep EXCEPT ![c] = RetryDelay]
    /\ Goto(c, "sleeping")
    /\ UNCHANGED <<coordVars, attempt, answer, lgVars>>

Sleep(c) ==
    /\ pc[c] = "answered" /\ answer[c] = "busy"
    /\ c \in Verified \/ attempt[c] < MaxAttempt(c)
    /\ sleep' = [sleep EXCEPT ![c] = RetryDelay]
    /\ Goto(c, "sleeping")
    /\ UNCHANGED <<coordVars, attempt, answer, lgVars>>

Resend(c) ==
    /\ attempt' = [attempt EXCEPT ![c] = @ + 1]
    /\ Goto(c, "calling")

Retry(c) ==
    /\ pc[c] = "sleeping" /\ sleep[c] = 0
    /\ c \notin Verified
    /\ Resend(c)
    /\ UNCHANGED <<coordVars, answer, sleep, lgVars>>

(* mutant: range(max_verify_attempts + 2) *)
MutVerify(c) ==
    \/ status = Target[c] /\ mark_reachable /\ Goto(c, "done") /\ UNCHANGED attempt
    \/ /\ status # Target[c]
       /\ UNCHANGED deviceReachable
       /\ \/ attempt[c] <= MaxAttempt(c) /\ Resend(c)
          \/ attempt[c] > MaxAttempt(c) /\ Goto(c, "raised") /\ UNCHANGED attempt

(* verify(), and what the loop does with its answer *)
Verify(c) ==
    \/ /\ status = Target[c]
       /\ mark_reachable
       /\ Goto(c, "done")
       /\ UNCHANGED attempt
    \/ /\ status # Target[c]
       /\ UNCHANGED deviceReachable
       /\ \/ attempt[c] < MaxAttempt(c) /\ Resend(c)
          \/ attempt[c] = MaxAttempt(c) /\ Goto(c, "raised") /\ UNCHANGED attempt

RefreshAndVerify(c) ==
    /\ pc[c] = "sleeping" /\ sleep[c] = 0
    /\ c \in Verified
    /\ async_request_refresh
    /\ IF RunsRefresh
       THEN Goto(c, "checking") /\ UNCHANGED <<deviceReachable, attempt>>
       ELSE Verify(c)
    /\ UNCHANGED <<cloudVars, status, lastUpdateSuccess, answer, sleep, lgVars>>

Refreshed(c) ==
    /\ pc[c] \in Awaiting
    /\ ReleaseDebouncer
    /\ \/ /\ pc[c] = "accepted"
          /\ Goto(c, "done")
          /\ UNCHANGED <<deviceReachable, attempt>>
       \/ pc[c] = "checking" /\ Verify(c)
    /\ UNCHANGED <<cloudVars, status, lastUpdateSuccess, answer, sleep, lgVars>>

(* The refresh that the Debouncer's own timer started ends. *)
TimerRefreshed ==
    /\ \A c \in Commands : pc[c] \notin Awaiting
    /\ ReleaseDebouncer
    /\ UNCHANGED <<cloudVars, dataVars, callVars, lgVars>>

(* One second.  A timer that is due fires before time goes on. *)
Tick ==
    /\ cooldown # 0
    /\ \A c \in Commands : pc[c] = "sleeping" => sleep[c] > 0
    /\ cooldown > 0 \/ \E c \in Commands : sleep[c] > 0
    /\ sleep' = [c \in Commands |-> IF sleep[c] > 0 THEN sleep[c] - 1 ELSE 0]
    /\ CooldownTick
    /\ UNCHANGED <<cloudVars, dataVars, poll, executeAtEnd, pc, attempt, answer, lgVars>>

-----------------------------------------------------------------------------
CallStep(c) ==
    \/ Offline(c) \/ Fail(c) \/ Succeed(c) \/ Sleep(c) \/ Retry(c)
    \/ RefreshAndVerify(c) \/ Refreshed(c)

NoCall == UNCHANGED <<callVars, lgVars>>

CloudStep == (RemoteChange \/ Disconnect \/ Reconnect) /\ NoCall

CoordStep ==
    /\ \/ handle_mqtt_status
       \/ HourlyRefresh
       \/ CooldownEnds
       \/ \E r \in Refreshers : AnswerPoll(r) \/ ApplyPoll(r)
    /\ NoCall

Next ==
    \/ \E c \in Commands : Call(c) \/ AnswerCall(c) \/ ApplyLate(c) \/ CallStep(c)
    \/ CloudStep
    \/ CoordStep
    \/ TimerRefreshed
    \/ Tick

Spec == Init /\ [][Next]_vars

(* The hourly refresh, and the Debouncer: one thing at a time each *)
HourlyStep    == HourlyRefresh \/ AnswerPoll("hourly") \/ ApplyPoll("hourly")
DebouncerStep == CooldownEnds \/ AnswerPoll("debounced") \/ ApplyPoll("debounced")

(* The event loop runs what is ready, requests are answered or time out,   *)
(* timers fire, and a message that is on its way arrives.  Nothing makes   *)
(* anyone issue a call, change the device or reconnect it.                 *)
Fairness ==
    /\ \A c \in Commands : WF_vars(AnswerCall(c) \/ CallStep(c))
    /\ WF_vars(handle_mqtt_status /\ NoCall)
    /\ WF_vars(HourlyStep /\ NoCall)
    /\ WF_vars((DebouncerStep /\ NoCall) \/ TimerRefreshed)
    /\ WF_vars(Tick)

FairSpec == Spec /\ Fairness

-----------------------------------------------------------------------------
(* The cloud's verdict is final: a call that it acknowledged, or refused   *)
(* because the device is offline, is never sent again and never raises.    *)
VerdictIsFinal ==
    /\ accepted = {c \in Commands : answer[c] = "ok"}
    /\ \A c \in Commands :
          answer[c] \in {"ok", "offline"} => pc[c] \in {"answered", "accepted", "done"}

(* A call that awaits a refresh awaits its own: the Debouncer's lock is    *)
(* held for it and for nobody else.  Otherwise a call would be resumed by  *)
(* another one's refresh, or never.                                        *)
RefreshHasOneOwner ==
    /\ \A c \in Commands : pc[c] \in Awaiting => poll["debounced"] # Idle
    /\ \A c, d \in Commands : pc[c] \in Awaiting /\ pc[d] \in Awaiting => c = d

(* A call returns quietly only when the cloud acknowledged it, or the      *)
(* device is known to be offline, or verify() saw the value.               *)
QuietOnlyIfSettled ==
    [][\A c \in Commands : pc[c] # "done" /\ pc'[c] = "done" =>
          c \in accepted \/ answer[c] = "offline" \/ (c \in Verified /\ status = Target[c])]_vars

(* Every call returns or raises: neither the Debouncer's lock, which other *)
(* calls and the timer hold, nor a lost answer keeps it waiting.           *)
CallsEnd == \A c \in Commands : []<>(pc[c] \in {"idle"} \cup Ended)

(* Whatever pushes were lost, however polls and pushes overtook each other *)
(* and whatever a command found in between: once the device stays          *)
(* connected, and undisturbed, the coordinator's copy settles on its value *)
(* and the device is shown as available.  Nothing of the kind holds for a  *)
(* device that stays offline: polls that succeed make it available again.  *)
EventuallyTrue == <>[]online => <>[](available /\ status = value)

(* The caller sees what CommandContract promises. *)
Contract == INSTANCE CommandContract WITH
    Calls <- Commands,
    Verifiable <- Verified,
    stage <- [c \in Commands |-> IF pc[c] \in {"idle"} \cup Ended THEN pc[c] ELSE "open"],
    acknowledged <- accepted,
    foundOffline <- {c \in Commands : answer[c] = "offline"}

KeepsContract == Contract!Spec

(* _async_set_power_save: "only actually report failure if the device      *)
(* truly never reached it".  Here: not while the device has the value.     *)
FailureOnlyIfNotReached ==
    [][\A c \in Verified :
          pc[c] # "raised" /\ pc'[c] = "raised" /\ answer[c] = "busy" =>
              value # Target[c]]_vars
=============================================================================
