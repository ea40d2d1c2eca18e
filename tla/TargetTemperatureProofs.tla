------------------------ MODULE TargetTemperatureProofs ------------------------
(***************************************************************************)
(* TargetTemperature for any number of calls, overlapping or not: a value  *)
(* that a newer call superseded is never started, and transmitted again    *)
(* once at most; bursts that do not overlap leave on the display what the  *)
(* cloud acknowledged last.                                                *)
(***************************************************************************)
EXTENDS TargetTemperature, TLAPS

(* The pending task waits and no other does, and it is the latest call's;  *)
(* nothing is pending once the entity is gone.                             *)
OneTaskWaits ==
    /\ waiting = IF pending = NoSend THEN {} ELSE {pending}
    /\ pending # NoSend => pending = issued
    /\ removed => pending = NoSend

(* A send has a result when it has ended, and not before.                  *)
EndedHasResult == \A s \in Sends : result[s] # "none" => pc[s] = "ended"

(* What the display should come to. *)
Applied == IF lastAcked = NoSend THEN Restored ELSE Wanted[lastAcked]

Acked(s) == pc[s] = "replied" /\ reply[s] = "ok"

(* While no burst has overlapped with a sending: one send runs at most,    *)
(* and nothing is pending meanwhile; what is shown is what the pending or  *)
(* the running call asked for; and what is rolled back to is what was      *)
(* applied last, until the running send is acknowledged.                   *)
OneSendRuns ==
    \A s, t \in Sends : Running(s) /\ Running(t) => s = t

ShownIsAskedFor ==
    /\ pending # NoSend => shown = Wanted[pending]
    /\ \A s \in Sends : Running(s) => shown = Wanted[s] /\ pending = NoSend

RollbackIsApplied ==
    /\ pending # NoSend => rollback = Applied
    /\ \A s \in Sends : Running(s) =>
           IF Acked(s) THEN lastAcked = s ELSE rollback = Applied

RestIsApplied == Quiet /\ pending = NoSend => shown = Applied

BurstInv ==
    ~overlapped /\ ~removed =>
        OneSendRuns /\ ShownIsAskedFor /\ RollbackIsApplied /\ RestIsApplied

IInv == TypeOK /\ OneTaskWaits /\ EndedHasResult /\ BurstInv

(***************************************************************************)
(* What a step of WideqCommand does to the types, and to the sends.        *)
(***************************************************************************)
LEMMA WideqTypes ==
    ASSUME WideqTypeOK,
           SessionChanges \/ \E s \in Sends : Serve(s) \/ Start(s) \/ SendStep(s)
    PROVE  WideqTypeOK'
  <1> USE WideqAssumption
      DEF WideqTypeOK, Stages, Tries, Results, cloudVars, flagVars, sendVars, End, Transmit
  <1>1. CASE SessionChanges
    BY <1>1 DEF SessionChanges
  <1>2. ASSUME NEW s \in Sends, Serve(s) PROVE WideqTypeOK'
    BY <1>2 DEF Serve
  <1>3. ASSUME NEW s \in Sends, Start(s) PROVE WideqTypeOK'
    BY <1>3 DEF Start
  <1>4. ASSUME NEW s \in Sends, Accepted(s) \/ Refused(s) \/ Offline(s) \/ Fail(s)
        PROVE  WideqTypeOK'
    BY <1>4 DEF Accepted, Refused, Offline, Fail
  <1>5. ASSUME NEW s \in Sends, Login(s) \/ RefreshAuth(s) \/ Delay(s) \/ Resend(s)
        PROVE  WideqTypeOK'
    BY <1>5 DEF Login, RefreshAuth, Delay, Resend
  <1> QED BY <1>1, <1>2, <1>3, <1>4, <1>5 DEF SendStep

(* A send that goes on has no result yet; one that ends has the result     *)
(* "sent" just if it was acknowledged.                                     *)
LEMMA SendOutcome ==
    ASSUME WideqTypeOK, EndedHasResult, NEW s \in Sends, SendStep(s)
    PROVE  /\ Running(s) /\ UNCHANGED <<lastAcked, reply>>
           /\ pc' = [pc EXCEPT ![s] = pc'[s]]
           /\ result' = [result EXCEPT ![s] = result'[s]]
           /\ \/ Running(s)' /\ ~Acked(s)' /\ result'[s] = "none" /\ ~Acked(s)
              \/ pc'[s] = "ended" /\ result'[s] = "sent" /\ Acked(s)
              \/ pc'[s] = "ended" /\ result'[s] \in {"skipped", "error"} /\ ~Acked(s)
  <1> USE DEF WideqTypeOK, EndedHasResult, Running, Acked, Replied, cloudVars, End, Transmit
  <1>1. CASE Accepted(s)
    BY <1>1 DEF Accepted
  <1>2. CASE Refused(s) \/ Offline(s) \/ Fail(s)
    BY <1>2 DEF Refused, Offline, Fail
  <1>3. CASE Login(s) \/ Delay(s) \/ Resend(s)
    BY <1>3 DEF Login, Delay, Resend
  <1>4. CASE RefreshAuth(s)
    BY <1>4 DEF RefreshAuth
  <1> QED BY <1>1, <1>2, <1>3, <1>4 DEF SendStep

(* What leaves a send idle. *)
LEMMA OnlyStartStarts ==
    ASSUME WideqTypeOK, EndedHasResult, NEW s \in Sends, pc[s] = "idle", NEW t \in Sends,
           \/ SessionChanges \/ Serve(t) \/ SendStep(t)
           \/ Start(t) /\ t # s
    PROVE  pc'[s] = "idle"
  <1>1. CASE SessionChanges \/ Serve(t)
    BY <1>1 DEF SessionChanges, Serve, sendVars, WideqTypeOK
  <1>2. CASE SendStep(t)
    BY <1>2, SendOutcome DEF Running, WideqTypeOK
  <1>3. CASE Start(t) /\ t # s
    BY <1>3 DEF Start, End, Transmit, WideqTypeOK
  <1> QED BY <1>1, <1>2, <1>3

(***************************************************************************)
(* The inductive invariant.                                                *)
(***************************************************************************)
LEMMA InvInit == Init => IInv
  <1> SUFFICES ASSUME Init
               PROVE  IInv
    OBVIOUS
  <1>1. WideqTypeOK
    <2>1. upsets \in 0..MaxUpsets
      BY WideqAssumption DEF Init, WideqInit
    <2>2. pc \in [Sends -> Stages] /\ try \in [Sends -> Tries]
      BY DEF Init, WideqInit, Stages, Tries
    <2>3. reply \in [Sends -> Replies] /\ result \in [Sends -> Results]
      BY DEF Init, WideqInit, Replies, Results
    <2>4. reauthNeeded \in BOOLEAN /\ acReachable \in BOOLEAN
      BY DEF Init, WideqInit
    <2> QED BY <2>1, <2>2, <2>3, <2>4 DEF Init, WideqInit, WideqTypeOK
  <1>2. TypeOK /\ OneTaskWaits /\ EndedHasResult
    BY <1>1 DEF Init, WideqInit, TypeOK, Temps, OneTaskWaits, EndedHasResult
  <1>3. BurstInv
    BY DEF Init, WideqInit, BurstInv, OneSendRuns, ShownIsAskedFor, RollbackIsApplied,
           RestIsApplied, Running, Applied
  <1> QED BY <1>2, <1>3 DEF IInv

(* A call: it starts a burst, or goes on with the one that is pending.     *)
LEMMA SetTemperatureKeeps ==
    ASSUME IInv, NEW s \in Sends, SetTemperature(s)
    PROVE  IInv'
  <1> USE WideqAssumption, TemperatureAssumption DEF IInv, SetTemperature
  <1>1. UNCHANGED <<session, upsets, lastAcked, reauthNeeded, acReachable, pc, try, reply, result>>
    BY DEF wideqVars, cloudVars, flagVars, sendVars
  <1>2. TypeOK' /\ OneTaskWaits' /\ EndedHasResult'
    BY <1>1 DEF TypeOK, WideqTypeOK, Temps, OneTaskWaits, EndedHasResult
  <1>3. ASSUME ~overlapped', ~removed'
        PROVE  (OneSendRuns /\ ShownIsAskedFor /\ RollbackIsApplied /\ RestIsApplied)'
    <2>1. Quiet /\ ~overlapped /\ ~removed
      BY <1>3
    <2>2. \A t \in Sends : ~Running(t)'
      BY <1>1, <2>1 DEF Quiet, Running
    <2>3. rollback' = Applied'
      BY <1>1, <2>1 DEF BurstInv, RollbackIsApplied, RestIsApplied, Applied
    <2> QED BY <2>2, <2>3 DEF OneSendRuns, ShownIsAskedFor, RollbackIsApplied, RestIsApplied
  <1> QED BY <1>2, <1>3 DEF BurstInv

(* The burst ends: its task sends, unless the flag is set.                 *)
LEMMA DebounceKeeps ==
    ASSUME IInv, NEW s \in Sends, DebounceEnds(s)
    PROVE  IInv'
  <1> USE DEF IInv
  <1>1. pc[s] = "idle" /\ s = pending /\ s # NoSend /\ pending' = NoSend
    BY WideqAssumption DEF DebounceEnds, Start, OneTaskWaits
  <1>2. lastAcked' = lastAcked /\ reply' = reply /\ result[s] = "none"
    BY <1>1 DEF DebounceEnds, Start, cloudVars, EndedHasResult
  <1>3. /\ \A t \in Sends \ {s} : pc'[t] = pc[t] /\ result'[t] = result[t]
        /\ \/ pc'[s] = "ended" /\ result'[s] = "skipped"
           \/ pc'[s] = "sending" /\ result'[s] = "none"
    BY <1>2 DEF DebounceEnds, Start, End, Transmit, TypeOK, WideqTypeOK
  <1>4. TypeOK' /\ OneTaskWaits'
    <2>1. WideqTypeOK'
      BY WideqTypes DEF DebounceEnds, TypeOK
    <2> QED BY <2>1 DEF DebounceEnds, Cancel, RollBackUnlessSent, TypeOK, OneTaskWaits
  <1>5. EndedHasResult'
    BY <1>3 DEF EndedHasResult
  <1>6. ASSUME ~overlapped', ~removed'
        PROVE  (OneSendRuns /\ ShownIsAskedFor /\ RollbackIsApplied /\ RestIsApplied)'
    <2>1. ~overlapped /\ ~removed
      BY <1>6 DEF DebounceEnds
    <2>2. /\ \A t \in Sends : ~Running(t)
          /\ shown = Wanted[s] /\ rollback = Applied
      BY <1>1, <2>1 DEF BurstInv, ShownIsAskedFor, RollbackIsApplied
    <2>3. \A t \in Sends \ {s} : ~Running(t)'
      BY <1>3, <2>2 DEF Running
    <2>4. rollback' = Applied' /\ ~Acked(s)'
      BY <1>2, <1>3, <2>2 DEF DebounceEnds, Applied, Acked
    <2>5. CASE pc'[s] = "ended" /\ result'[s] = "skipped"
      <3>1. ~Running(s)' /\ shown' = Applied'
        BY <2>5, <2>4 DEF DebounceEnds, RollBackUnlessSent, Running
      <3> QED BY <1>1, <2>3, <3>1
              DEF OneSendRuns, ShownIsAskedFor, RollbackIsApplied, RestIsApplied
    <2>6. CASE pc'[s] = "sending" /\ result'[s] = "none"
      <3>1. Running(s)' /\ shown' = Wanted[s]
        BY <2>2, <2>6 DEF DebounceEnds, RollBackUnlessSent, Running
      <3>2. ~Quiet'
        BY <3>1 DEF Quiet
      <3> QED BY <1>1, <2>3, <2>4, <3>1, <3>2
              DEF OneSendRuns, ShownIsAskedFor, RollbackIsApplied, RestIsApplied
    <2> QED BY <1>3, <2>5, <2>6
  <1> QED BY <1>4, <1>5, <1>6 DEF BurstInv

(* A step of a send: it goes on, or it ends and the display rolls back or  *)
(* not.                                                                    *)
LEMMA SendKeeps ==
    ASSUME IInv, NEW s \in Sends, Send(s)
    PROVE  IInv'
  <1> USE DEF IInv
  <1>1. /\ WideqTypeOK /\ WideqTypeOK'
        /\ UNCHANGED <<rollback, pending, waiting, issued, removed, overlapped>>
    BY WideqTypes DEF Send, TypeOK, burstVars
  <1>2. /\ Running(s) /\ UNCHANGED <<lastAcked, reply>>
        /\ pc' = [pc EXCEPT ![s] = pc'[s]]
        /\ result' = [result EXCEPT ![s] = result'[s]]
        /\ \/ Running(s)' /\ ~Acked(s)' /\ result'[s] = "none" /\ ~Acked(s)
           \/ pc'[s] = "ended" /\ result'[s] = "sent" /\ Acked(s)
           \/ pc'[s] = "ended" /\ result'[s] \in {"skipped", "error"} /\ ~Acked(s)
    BY <1>1, SendOutcome DEF Send
  <1>3. \A t \in Sends \ {s} : pc'[t] = pc[t] /\ result'[t] = result[t]
    BY <1>1, <1>2 DEF WideqTypeOK
  <1>4. TypeOK' /\ OneTaskWaits' /\ EndedHasResult'
    BY <1>1, <1>2, <1>3 DEF Send, RollBackUnlessSent, TypeOK, OneTaskWaits, EndedHasResult
  <1>5. ASSUME ~overlapped', ~removed'
        PROVE  (OneSendRuns /\ ShownIsAskedFor /\ RollbackIsApplied /\ RestIsApplied)'
    <2>1. /\ pending = NoSend /\ shown = Wanted[s]
          /\ IF Acked(s) THEN lastAcked = s ELSE rollback = Applied
          /\ \A t \in Sends \ {s} : ~Running(t)
      BY <1>1, <1>2, <1>5
         DEF BurstInv, OneSendRuns, ShownIsAskedFor, RollbackIsApplied
    <2>2. \A t \in Sends \ {s} : ~Running(t)'
      BY <1>3, <2>1 DEF Running
    <2>3. Applied' = Applied
      BY <1>2 DEF Applied
    <2>4. CASE Running(s)' /\ ~Acked(s)' /\ result'[s] = "none" /\ ~Acked(s)
      <3>1. shown' = Wanted[s] /\ rollback' = Applied' /\ ~Quiet'
        BY <1>1, <2>1, <2>3, <2>4 DEF Send, RollBackUnlessSent, Quiet
      <3> QED BY <1>1, <2>1, <2>2, <2>4, <3>1
              DEF OneSendRuns, ShownIsAskedFor, RollbackIsApplied, RestIsApplied
    <2>5. CASE pc'[s] = "ended"
      <3>1. ~Running(s)'
        BY <2>5 DEF Running
      <3>2. shown' = Applied'
        <4>1. CASE Acked(s) /\ result'[s] = "sent"
          <5>1. shown' = Wanted[s] /\ lastAcked = s
            BY <2>1, <4>1 DEF Send, RollBackUnlessSent
          <5> QED BY <2>3, <5>1, WideqAssumption DEF Applied
        <4>2. CASE ~Acked(s) /\ result'[s] \in {"skipped", "error"}
          BY <2>1, <2>3, <4>2 DEF Send, RollBackUnlessSent
        <4> QED BY <1>2, <2>5, <3>1, <4>1, <4>2
      <3> QED BY <1>1, <2>1, <2>2, <3>1, <3>2
              DEF OneSendRuns, ShownIsAskedFor, RollbackIsApplied, RestIsApplied
    <2> QED BY <1>2, <2>4, <2>5
  <1> QED BY <1>4, <1>5 DEF BurstInv

(* The cloud answers, or the session changes.                              *)
LEMMA CloudKeeps ==
    ASSUME IInv, Cloud
    PROVE  IInv'
  <1> USE DEF IInv
  <1>1. UNCHANGED <<shown, rollback, pending, waiting, issued, removed, overlapped>>
    BY DEF Cloud, burstVars
  <1>2. CASE SessionChanges
    <2>1. UNCHANGED <<lastAcked, reauthNeeded, acReachable, pc, try, reply, result>>
      BY <1>2 DEF SessionChanges, flagVars, sendVars
    <2>2. WideqTypeOK'
      BY <1>2, <2>1, WideqAssumption DEF SessionChanges, TypeOK, WideqTypeOK
    <2> QED BY <1>1, <2>1, <2>2
            DEF TypeOK, OneTaskWaits, EndedHasResult, BurstInv, OneSendRuns, ShownIsAskedFor,
                RollbackIsApplied, RestIsApplied, Running, Quiet, Applied, Acked
  <1>3. ASSUME NEW s \in Sends, Serve(s)
        PROVE  IInv'
    <2>1. WideqTypeOK /\ WideqTypeOK'
      BY <1>3, WideqTypes DEF TypeOK
    <2>2. /\ pc[s] = "sending" /\ pc'[s] = "replied" /\ result' = result
          /\ \A t \in Sends \ {s} : pc'[t] = pc[t] /\ reply'[t] = reply[t]
          /\ IF reply'[s] = "ok" THEN lastAcked' = s ELSE lastAcked' = lastAcked
      BY <1>3, <2>1 DEF Serve, WideqTypeOK
    <2>3. \A t \in Sends : Running(t)' <=> Running(t)
      BY <2>2 DEF Running
    <2>4. TypeOK' /\ OneTaskWaits' /\ EndedHasResult'
      BY <1>1, <2>1, <2>2 DEF TypeOK, OneTaskWaits, EndedHasResult
    <2>5. ASSUME ~overlapped', ~removed'
          PROVE  (OneSendRuns /\ ShownIsAskedFor /\ RollbackIsApplied /\ RestIsApplied)'
      <3>1. /\ OneSendRuns /\ ShownIsAskedFor
            /\ Running(s) /\ ~Acked(s) /\ rollback = Applied /\ pending = NoSend
        BY <1>1, <2>2, <2>5 DEF BurstInv, ShownIsAskedFor, RollbackIsApplied, Running, Acked
      <3>2. OneSendRuns' /\ ShownIsAskedFor' /\ ~Quiet'
        BY <1>1, <2>3, <3>1 DEF OneSendRuns, ShownIsAskedFor, Quiet
      <3>3. \A t \in Sends : Running(t)' => t = s
        BY <2>3, <3>1 DEF OneSendRuns
      <3>4. IF Acked(s)' THEN lastAcked' = s ELSE rollback' = Applied'
        BY <1>1, <2>2, <3>1 DEF Acked, Applied
      <3> QED BY <1>1, <3>1, <3>2, <3>3, <3>4 DEF RollbackIsApplied, RestIsApplied
    <2> QED BY <2>4, <2>5 DEF BurstInv
  <1> QED BY <1>2, <1>3 DEF Cloud

LEMMA InvStep == IInv /\ [Next]_vars => IInv'
  <1> SUFFICES ASSUME IInv, [Next]_vars
               PROVE  IInv'
    OBVIOUS
  <1>1. CASE Remove
    <2>1. /\ UNCHANGED <<session, upsets, lastAcked, reauthNeeded, acReachable, pc, try, reply, result>>
          /\ UNCHANGED <<shown, rollback, issued, overlapped>>
          /\ removed' = TRUE /\ pending' = NoSend /\ waiting' = waiting \ {pending}
      BY <1>1 DEF Remove, Cancel, wideqVars, cloudVars, flagVars, sendVars
    <2> QED BY <2>1 DEF IInv, TypeOK, WideqTypeOK, OneTaskWaits, EndedHasResult, BurstInv
  <1>2. CASE UNCHANGED vars
    BY <1>2 DEF vars, wideqVars, cloudVars, flagVars, sendVars, burstVars,
                IInv, TypeOK, WideqTypeOK, OneTaskWaits, EndedHasResult, BurstInv, OneSendRuns,
                ShownIsAskedFor, RollbackIsApplied, RestIsApplied, Running, Quiet, Applied, Acked
  <1> QED BY <1>1, <1>2, SetTemperatureKeeps, DebounceKeeps, SendKeeps, CloudKeeps DEF Next

(* The inductive invariant holds throughout. *)
THEOREM Invariant == Spec => []IInv
  BY InvInit, InvStep, PTL DEF Spec

(* Types: in particular the display is the restored temperature or one     *)
(* that somebody asked for.                                                *)
THEOREM TypeCorrect == Spec => []TypeOK
  BY Invariant, PTL DEF IInv

(* However many bursts there were, cancelled, sent, retried, refused or    *)
(* failing: when nothing waits or runs, the display shows what the cloud   *)
(* acknowledged last, unless a burst overlapped with an earlier sending.   *)
THEOREM DisplayIsApplied == Spec => []ShowsLastAcknowledged
  <1>1. IInv => ShowsLastAcknowledged
    <2> SUFFICES ASSUME IInv, Quiet, waiting = {}, ~removed, ~overlapped
                 PROVE  shown = Applied
      BY DEF ShowsLastAcknowledged, Settled, Applied
    <2>1. pending = NoSend
      BY DEF IInv, OneTaskWaits
    <2> QED BY <2>1 DEF IInv, BurstInv, RestIsApplied
  <1> QED BY <1>1, Invariant, PTL

(* A send that awaits a login or a delay was transmitted once, and         *)
(* answered accordingly.                                                   *)
RetryIsSecond ==
    \A s \in Sends : pc[s] \in {"refreshing", "sleeping"} =>
        try[s] = "first" /\ reply[s] \in {"notLoggedIn", "busy"}

(* What a step of WideqCommand does to it, and which transmissions it      *)
(* makes.                                                                  *)
LEMMA RetryStep ==
    ASSUME WideqTypeOK, RetryIsSecond, NEW t \in Sends,
           SessionChanges \/ Serve(t) \/ Start(t) \/ SendStep(t),
           NEW s \in Sends
    PROVE  /\ pc'[s] \in {"refreshing", "sleeping"} =>
                  try'[s] = "first" /\ reply'[s] \in {"notLoggedIn", "busy"}
           /\ Retransmits(s) => /\ try[s] = "first" /\ try'[s] # "first"
                                /\ reply[s] \in {"notLoggedIn", "busy"}
  <1> USE DEF WideqTypeOK, RetryIsSecond, Retransmits, Replied, cloudVars, flagVars,
              sendVars, End, Transmit
  <1>1. CASE SessionChanges
    BY <1>1 DEF SessionChanges
  <1>2. CASE Serve(t)
    BY <1>2 DEF Serve
  <1>3. CASE Start(t)
    BY <1>3 DEF Start
  <1>4. CASE Accepted(t) \/ Refused(t) \/ Offline(t) \/ Fail(t)
    BY <1>4 DEF Accepted, Refused, Offline, Fail
  <1>5. CASE Login(t) \/ Delay(t)
    BY <1>5 DEF Login, Delay
  <1>6. CASE RefreshAuth(t)
    BY <1>6 DEF RefreshAuth
  <1>7. CASE Resend(t)
    BY <1>7 DEF Resend
  <1> QED BY <1>1, <1>2, <1>3, <1>4, <1>5, <1>6, <1>7 DEF SendStep

(* The same of every step of TargetTemperature. *)
LEMMA RetryNext ==
    ASSUME WideqTypeOK, RetryIsSecond, [Next]_vars
    PROVE  /\ RetryIsSecond'
           /\ \A s \in Sends :
                 Retransmits(s) => /\ try[s] = "first" /\ try'[s] # "first"
                                   /\ reply[s] \in {"notLoggedIn", "busy"}
  <1>1. CASE UNCHANGED <<pc, try, reply>>
    BY <1>1 DEF RetryIsSecond, Retransmits
  <1>2. ASSUME NEW t \in Sends, SessionChanges \/ Serve(t) \/ Start(t) \/ SendStep(t)
        PROVE  /\ RetryIsSecond'
               /\ \A s \in Sends :
                     Retransmits(s) => /\ try[s] = "first" /\ try'[s] # "first"
                                       /\ reply[s] \in {"notLoggedIn", "busy"}
    BY <1>2, RetryStep DEF RetryIsSecond
  <1>3. CASE SessionChanges
    BY <1>3 DEF SessionChanges, sendVars, RetryIsSecond, Retransmits
  <1> QED
    BY <1>1, <1>2, <1>3
    DEF Next, SetTemperature, DebounceEnds, Send, Cloud, Remove, vars, wideqVars, sendVars

(* The retries' invariant holds throughout. *)
LEMMA RetryInvariant == Spec => []RetryIsSecond
  <1>1. Init => RetryIsSecond
    BY DEF Init, WideqInit, RetryIsSecond
  <1>2. IInv => WideqTypeOK
    BY DEF IInv, TypeOK
  <1>3. IInv /\ RetryIsSecond /\ [Next]_vars => RetryIsSecond'
    BY <1>2, RetryNext
  <1> QED BY <1>1, <1>3, Invariant, PTL DEF Spec

(* Whatever calls, cancellations, sends and the removal of the entity do   *)
(* in between: only the latest value of a burst starts to be sent, none    *)
(* does after the removal, and what was started is transmitted again only  *)
(* as its one retry.                                                       *)
THEOREM LatestStarts == Spec => OnlyLatestIsStarted
  <1> DEFINE A == \A s \in Sends :
                     /\ pc[s] = "idle" /\ pc'[s] # "idle" =>
                            s = issued /\ s = pending /\ ~removed
                     /\ Retransmits(s) => /\ try[s] = "first" /\ try'[s] # "first"
                                          /\ reply[s] \in {"notLoggedIn", "busy"}
  <1>1. ASSUME IInv, Next, NEW s \in Sends, pc[s] = "idle", pc'[s] # "idle"
        PROVE  s = issued /\ s = pending /\ ~removed
    <2> USE <1>1 DEF IInv
    <2>1. WideqTypeOK
      BY DEF TypeOK
    <2>2. ASSUME NEW t \in Sends, SetTemperature(t) \/ Remove
          PROVE  FALSE
      BY <2>2 DEF SetTemperature, Remove, wideqVars, sendVars
    <2>3. ASSUME NEW t \in Sends, DebounceEnds(t)
          PROVE  s = issued /\ s = pending /\ ~removed
      <3>1. t = s
        BY <2>1, <2>3, OnlyStartStarts DEF DebounceEnds
      <3>2. s = pending /\ pending # NoSend
        BY <2>3, <3>1, WideqAssumption DEF DebounceEnds, OneTaskWaits
      <3> QED BY <3>2 DEF OneTaskWaits
    <2>4. ASSUME NEW t \in Sends, Send(t)
          PROVE  FALSE
      BY <2>1, <2>4, OnlyStartStarts DEF Send
    <2>5. CASE Cloud
      BY <2>1, <2>5, OnlyStartStarts DEF Cloud
    <2> QED BY <2>2, <2>3, <2>4, <2>5 DEF Next
  <1>2. IInv /\ RetryIsSecond /\ [Next]_vars => [A]_vars
    <2>1. IInv => WideqTypeOK
      BY DEF IInv, TypeOK
    <2> QED BY <1>1, <2>1, RetryNext
  <1> QED BY <1>2, Invariant, RetryInvariant, PTL DEF Spec, OnlyLatestIsStarted
=============================================================================
