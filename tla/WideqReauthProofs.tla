---------------------------- MODULE WideqReauthProofs ----------------------------
(***************************************************************************)
(* WideqReauth for any set of commands running beside the polls: a mode    *)
(* that the cloud did not acknowledge is never shown.                      *)
(***************************************************************************)
EXTENDS WideqReauth, TLAPS

(* A send that returned True was answered "ok", and a send that ended      *)
(* keeps its answer.                                                       *)
SentWasAcknowledged == \A s \in Sends : result[s] = "sent" => pc[s] = "ended" /\ reply[s] = "ok"

(* The mode shown was acknowledged, and its send has ended. *)
ShownHasEnded ==
    shownMode \in {NoMode} \cup
        {Wanted[s] : s \in {r \in Sends : pc[r] = "ended" /\ reply[r] = "ok"}}

PollTypeOK ==
    /\ poll \in [Pollers -> PollStates]
    /\ invalidCount \in 0..MaxInvalidCredential

IInv == TypeOK /\ SentWasAcknowledged /\ ShownHasEnded

(* The steps of WideqCommand keep its types.                               *)
LEMMA WideqTypes ==
    ASSUME WideqTypeOK,
           SessionChanges \/ \E s \in Sends : Serve(s) \/ Start(s) \/ SendStep(s)
    PROVE  WideqTypeOK'
  <1> USE WideqAssumption
      DEF WideqTypeOK, Stages, Tries, Results, cloudVars, flagVars, sendVars, End, Transmit
  <1>1. CASE SessionChanges
    BY <1>1 DEF SessionChanges
  <1>2. ASSUME NEW s \in Sends, Serve(s) PROVE WideqTypeOK'
    BY <1>2 DEF Serve
  <1>3. ASSUME NEW s \in Sends, Start(s) PROVE WideqTypeOK'
    BY <1>3 DEF Start
  <1>4. ASSUME NEW s \in Sends, Accepted(s) \/ Refused(s) \/ Offline(s) \/ Fail(s)
        PROVE  WideqTypeOK'
    BY <1>4 DEF Accepted, Refused, Offline, Fail
  <1>5. ASSUME NEW s \in Sends, Login(s) \/ RefreshAuth(s) \/ Delay(s) \/ Resend(s)
        PROVE  WideqTypeOK'
    BY <1>5 DEF Login, RefreshAuth, Delay, Resend
  <1> QED BY <1>1, <1>2, <1>3, <1>4, <1>5 DEF SendStep

(* The initial state. *)
LEMMA InvInit == Init => IInv
  <1> SUFFICES ASSUME Init
               PROVE  IInv
    OBVIOUS
  <1>1. WideqTypeOK
    <2>1. upsets \in 0..MaxUpsets
      BY WideqAssumption DEF Init, WideqInit
    <2>2. pc \in [Sends -> Stages] /\ try \in [Sends -> Tries]
      BY DEF Init, WideqInit, Stages, Tries
    <2>3. reply \in [Sends -> Replies] /\ result \in [Sends -> Results]
      BY DEF Init, WideqInit, Replies, Results
    <2>4. reauthNeeded \in BOOLEAN /\ acReachable \in BOOLEAN
      BY DEF Init, WideqInit
    <2> QED BY <2>1, <2>2, <2>3, <2>4 DEF Init, WideqInit, WideqTypeOK
  <1>2. PollTypeOK
    BY ReauthAssumption DEF Init, PollStates, PollTypeOK
  <1>3. SentWasAcknowledged
    BY DEF Init, WideqInit, SentWasAcknowledged
  <1> QED BY <1>1, <1>2, <1>3 DEF Init, IInv, TypeOK, PollTypeOK, ShownHasEnded

(* A step that moves one send and shows its mode if that was sent. *)
LEMMA ShowStep ==
    ASSUME IInv, NEW s \in Sends, pc[s] # "ended", WideqTypeOK', ShowIfSent(s),
           pc' = [pc EXCEPT ![s] = pc'[s]],
           result' = [result EXCEPT ![s] = result'[s]],
           reply' = reply,
           result'[s] = result[s] \/ pc'[s] = "ended",
           result'[s] = "sent" => result[s] = "sent" \/ reply[s] = "ok",
           PollTypeOK'
    PROVE  IInv'
  <1> USE DEF IInv, TypeOK, PollTypeOK
  <1>1. SentWasAcknowledged'
    BY DEF SentWasAcknowledged, WideqTypeOK
  <1>2. ShownHasEnded' /\ shownMode' \in Values \cup {NoMode}
    <2>1. CASE pc'[s] = "ended" /\ result'[s] = "sent"
      <3>1. shownMode' = Wanted[s] /\ Wanted[s] \in Values
        BY <2>1, WideqAssumption DEF ShowIfSent
      <3>2. reply'[s] = "ok"
        BY <1>1, <2>1 DEF SentWasAcknowledged
      <3> QED BY <2>1, <3>1, <3>2 DEF ShownHasEnded
    <2>2. CASE ~(pc'[s] = "ended" /\ result'[s] = "sent")
      <3>1. shownMode' = shownMode
        BY <2>2 DEF ShowIfSent
      <3>2. \A r \in Sends : pc[r] = "ended" => pc'[r] = "ended"
        BY DEF WideqTypeOK
      <3> QED BY <3>1, <3>2 DEF ShownHasEnded
    <2> QED BY <2>1, <2>2
  <1> QED BY <1>1, <1>2

(* A step that leaves the sends that ended, and what is shown, alone. *)
LEMMA QuietStep ==
    ASSUME IInv, WideqTypeOK', shownMode' = shownMode, result' = result,
           \A r \in Sends : pc[r] = "ended" => pc'[r] = "ended" /\ reply'[r] = reply[r],
           PollTypeOK'
    PROVE  IInv'
  <1> USE DEF IInv, TypeOK, PollTypeOK
  <1>1. SentWasAcknowledged'
    BY DEF SentWasAcknowledged
  <1>2. ShownHasEnded'
    BY DEF ShownHasEnded
  <1> QED BY <1>1, <1>2

(* A flag step: only the flag changes. *)
LEMMA FlagType ==
    ASSUME WideqTypeOK, UNCHANGED <<session, lastAcked, acReachable, sendVars>>,
           upsets' \in 0..MaxUpsets, reauthNeeded' \in BOOLEAN
    PROVE  WideqTypeOK'
  BY DEF WideqTypeOK, sendVars

(* Every step keeps the invariant. *)
LEMMA InvStep == IInv /\ [Next]_vars => IInv'
  <1> SUFFICES ASSUME IInv, [Next]_vars
               PROVE  IInv'
    OBVIOUS
  <1>0. WideqTypeOK /\ PollTypeOK
    BY DEF IInv, TypeOK, PollTypeOK
  <1>1. ASSUME NEW s \in Sends, SetMode(s)
        PROVE  IInv'
    <2>1. WideqTypeOK'
      BY <1>0, <1>1, WideqTypes DEF SetMode
    <2> QED BY <1>0, <1>1, <2>1, ShowStep
            DEF SetMode, pollVars, PollTypeOK, Start, End, Transmit, WideqTypeOK
  <1>2. ASSUME NEW s \in Sends, Send(s)
        PROVE  IInv'
    <2>1. WideqTypeOK'
      BY <1>0, <1>2, WideqTypes DEF Send
    <2>2. /\ pc[s] # "ended"
          /\ pc' = [pc EXCEPT ![s] = pc'[s]]
          /\ result' = [result EXCEPT ![s] = result'[s]]
          /\ reply' = reply
          /\ result'[s] = result[s] \/ pc'[s] = "ended"
          /\ result'[s] = "sent" => result[s] = "sent" \/ reply[s] = "ok"
      <3> USE <1>0 DEF WideqTypeOK, End, Transmit, Replied
      <3>1. CASE Accepted(s) \/ Refused(s) \/ Offline(s) \/ Fail(s)
        BY <3>1 DEF Accepted, Refused, Offline, Fail
      <3>2. CASE Login(s) \/ Delay(s) \/ Resend(s)
        BY <3>2 DEF Login, Delay, Resend
      <3>3. CASE RefreshAuth(s)
        BY <3>3 DEF RefreshAuth
      <3> QED BY <1>2, <3>1, <3>2, <3>3 DEF Send, SendStep
    <2> QED BY <1>0, <1>2, <2>1, <2>2, ShowStep DEF Send, pollVars, PollTypeOK
  <1>3. ASSUME NEW p \in Pollers, StartPoll(p)
        PROVE  IInv'
    <2>1. PollTypeOK'
      BY <1>0, <1>3 DEF StartPoll, PollStates, PollTypeOK
    <2>2. WideqTypeOK'
      BY <1>0, <1>3, FlagType DEF StartPoll, wideqVars, cloudVars, flagVars, sendVars, WideqTypeOK
    <2> QED BY <1>3, <2>1, <2>2, QuietStep DEF StartPoll, wideqVars, sendVars
  <1>4. ASSUME NEW p \in Pollers, ServePoll(p)
        PROVE  IInv'
    <2>1. PollTypeOK' /\ upsets' \in 0..MaxUpsets
      <3> USE <1>0, WideqAssumption, ReauthAssumption
          DEF PollTypeOK, PollStates, Answer, Upset, WideqTypeOK
      <3>1. CASE ServeFilter
        BY <3>1 DEF ServeFilter
      <3>2. CASE session = "revoked" /\ InvalidCredential /\ UNCHANGED upsets
        BY <3>2 DEF InvalidCredential
      <3>3. CASE OtherEnding
        BY <3>3 DEF OtherEnding
      <3> QED BY <1>4, <3>1, <3>2, <3>3 DEF ServePoll, ServeCourse
    <2>2. WideqTypeOK'
      <3>1. upsets' \in 0..MaxUpsets
        BY <2>1
      <3> QED BY <1>0, <1>4, <3>1, FlagType DEF ServePoll, flagVars, sendVars, WideqTypeOK
    <2> QED BY <1>4, <2>1, <2>2, QuietStep DEF ServePoll, sendVars
  <1>5. ASSUME NEW p \in Pollers, EndPoll(p)
        PROVE  IInv'
    <2>1. PollTypeOK'
      BY <1>0, <1>5 DEF EndPoll, Answer, PollStates, PollTypeOK
    <2>2. reauthNeeded' \in BOOLEAN
      BY <1>0, <1>5 DEF EndPoll, WideqTypeOK, PollStates, PollTypeOK
    <2>3. WideqTypeOK'
      BY <1>0, <1>5, <2>2, FlagType DEF EndPoll, cloudVars, sendVars, WideqTypeOK
    <2> QED BY <1>5, <2>1, <2>3, QuietStep DEF EndPoll, sendVars
  <1>6. CASE HourlyRefreshAuth
    <2>1. WideqTypeOK'
      BY <1>0, <1>6 DEF HourlyRefreshAuth, flagVars, sendVars, WideqTypeOK
    <2> QED BY <1>0, <1>6, <2>1, QuietStep DEF HourlyRefreshAuth, sendVars, pollVars, PollTypeOK
  <1>7. CASE Cloud
    <2>1. WideqTypeOK'
      BY <1>0, <1>7, WideqTypes DEF Cloud
    <2>2. /\ result' = result
          /\ \A r \in Sends : pc[r] = "ended" => pc'[r] = "ended" /\ reply'[r] = reply[r]
      BY <1>0, <1>7 DEF Cloud, SessionChanges, Serve, sendVars, WideqTypeOK
    <2> QED BY <1>0, <1>7, <2>1, <2>2, QuietStep DEF Cloud, pollVars, PollTypeOK
  <1>8. CASE UNCHANGED vars
    <2>1. WideqTypeOK'
      BY <1>0, <1>8 DEF vars, wideqVars, cloudVars, flagVars, sendVars, WideqTypeOK
    <2> QED BY <1>0, <1>8, <2>1, QuietStep DEF vars, wideqVars, sendVars, pollVars, PollTypeOK
  <1> QED BY <1>1, <1>2, <1>3, <1>4, <1>5, <1>6, <1>7, <1>8 DEF Next

(* The inductive invariant holds throughout. *)
THEOREM Invariant == Spec => []IInv
  BY InvInit, InvStep, PTL DEF Spec

(* Types: only a mode that somebody asked for is ever shown. *)
THEOREM TypeCorrect == Spec => []TypeOK
  BY Invariant, PTL DEF IInv

(* The mode shown was acknowledged by the cloud, whichever commands, polls *)
(* and logins ran beside the command.                                      *)
THEOREM Acknowledged == Spec => []ShowsAcknowledgedMode
  <1>1. IInv => ShowsAcknowledgedMode
    BY DEF IInv, ShownHasEnded, ShowsAcknowledgedMode
  <1> QED BY <1>1, Invariant, PTL

(***************************************************************************)
(* The contract.                                                           *)
(***************************************************************************)
(* What the place of a send says of its answer: it has none before it was  *)
(* sent, and one that is to be sent again was told to be.                  *)
PlaceMatchesReply ==
    \A s \in Sends :
        /\ pc[s] = "idle" => try[s] = "first" /\ reply[s] = "none"
        /\ pc[s] = "replied" => reply[s] # "none"
        /\ pc[s] = "refreshing" => try[s] = "first" /\ reply[s] = "notLoggedIn"
        /\ pc[s] = "sleeping" => try[s] = "first" /\ reply[s] = "busy"

CInv == WideqTypeOK /\ PlaceMatchesReply

(* A step of one send leaves the others alone.                             *)
LEMMA OneSendMoves ==
    ASSUME WideqTypeOK, NEW s \in Sends, Serve(s) \/ Start(s) \/ SendStep(s)
    PROVE  \A r \in Sends \ {s} :
               pc'[r] = pc[r] /\ try'[r] = try[r] /\ reply'[r] = reply[r] /\ result'[r] = result[r]
  <1> USE DEF WideqTypeOK, End, Transmit, cloudVars, flagVars, sendVars
  <1>1. CASE Serve(s)
    BY <1>1 DEF Serve
  <1>2. CASE Start(s)
    BY <1>2 DEF Start
  <1>3. CASE Accepted(s) \/ Refused(s) \/ Offline(s) \/ Fail(s)
    BY <1>3 DEF Accepted, Refused, Offline, Fail
  <1>4. CASE Login(s) \/ RefreshAuth(s) \/ Delay(s) \/ Resend(s)
    BY <1>4 DEF Login, RefreshAuth, Delay, Resend
  <1> QED BY <1>1, <1>2, <1>3, <1>4 DEF SendStep

(* Where a step takes the send that makes it: one line for each way on.    *)
LEMMA SendMoves ==
    ASSUME CInv, NEW s \in Sends, Start(s) \/ SendStep(s)
    PROVE  /\ reply' = reply
           /\ \/ /\ pc[s] = "idle" /\ reauthNeeded /\ pc'[s] = "ended" /\ result'[s] = "skipped"
                 /\ try' = try /\ reauthNeeded' = reauthNeeded
              \/ /\ pc[s] = "idle" /\ ~reauthNeeded /\ pc'[s] = "sending" /\ try'[s] = "first"
                 /\ reauthNeeded' = reauthNeeded
              \/ /\ pc[s] \in {"refreshing", "sleeping"} /\ pc'[s] = "sending"
                 /\ try'[s] \in {"afterLogin", "afterDelay"} /\ reauthNeeded' = reauthNeeded
              \/ /\ pc[s] = "replied" /\ pc'[s] \in {"refreshing", "sleeping"} /\ try' = try
                 /\ reauthNeeded' = reauthNeeded
              \/ /\ pc[s] = "replied" /\ reply[s] = "ok" /\ pc'[s] = "ended" /\ result'[s] = "sent"
                 /\ try' = try /\ (reauthNeeded' => reauthNeeded)
              \/ /\ pc[s] = "replied" /\ reply[s] = "invalid" /\ pc'[s] = "ended"
                 /\ result'[s] = "skipped" /\ try' = try /\ reauthNeeded'
              \/ /\ pc[s] = "replied" /\ reply[s] = "offline" /\ pc'[s] = "ended"
                 /\ result'[s] = "skipped" /\ try' = try /\ reauthNeeded' = reauthNeeded
              \/ /\ pc[s] \in {"replied", "refreshing"} /\ reply[s] \in {"busy", "notLoggedIn", "error"}
                 /\ pc'[s] = "ended" /\ result'[s] = "error"
                 /\ try' = try /\ reauthNeeded' = reauthNeeded
              \/ /\ pc[s] = "replied" /\ reply[s] = "offline" /\ try[s] = "afterLogin" /\ pc'[s] = "ended"
                 /\ result'[s] = "error" /\ try' = try /\ reauthNeeded' = reauthNeeded
  <1> USE DEF CInv, WideqTypeOK, PlaceMatchesReply, End, Transmit, Replied, cloudVars, flagVars
  <1>1. CASE Start(s)
    BY <1>1 DEF Start
  <1>2. CASE Accepted(s)
    BY <1>2 DEF Accepted
  <1>3. CASE Refused(s)
    BY <1>3 DEF Refused
  <1>4. CASE Offline(s)
    BY <1>4 DEF Offline
  <1>5. CASE Fail(s)
    BY <1>5 DEF Fail
  <1>6. CASE Login(s) \/ Delay(s)
    BY <1>6 DEF Login, Delay
  <1>7. CASE RefreshAuth(s)
    BY <1>7 DEF RefreshAuth
  <1>8. CASE Resend(s)
    BY <1>8 DEF Resend
  <1> QED BY <1>1, <1>2, <1>3, <1>4, <1>5, <1>6, <1>7, <1>8 DEF SendStep

(* Steps of LG and of the polls leave the places of the sends alone.       *)
LEMMA OthersStand ==
    ASSUME SessionChanges \/ HourlyRefreshAuth \/ UNCHANGED vars
           \/ \E p \in Pollers : StartPoll(p) \/ ServePoll(p) \/ EndPoll(p)
    PROVE  UNCHANGED sendVars
  BY DEF SessionChanges, HourlyRefreshAuth, StartPoll, ServePoll, EndPoll, vars, wideqVars

LEMMA ContractInv == Spec => []CInv
  <1>1. Init => PlaceMatchesReply
    BY DEF Init, WideqInit, PlaceMatchesReply
  <1>2. CInv /\ [Next]_vars => PlaceMatchesReply'
    <2> SUFFICES ASSUME CInv, [Next]_vars
                 PROVE  PlaceMatchesReply'
      OBVIOUS
    <2>1. CASE UNCHANGED sendVars
      BY <2>1 DEF CInv, PlaceMatchesReply, sendVars
    <2>2. ASSUME NEW s \in Sends, Serve(s)
          PROVE  PlaceMatchesReply'
      <3>1. pc'[s] = "replied" /\ reply'[s] # "none"
        BY <2>2 DEF Serve, CInv, WideqTypeOK
      <3> QED BY <2>2, <3>1, OneSendMoves DEF CInv, PlaceMatchesReply
    <2>3. ASSUME NEW s \in Sends, Start(s) \/ SendStep(s)
          PROVE  PlaceMatchesReply'
      <3>1. \/ pc'[s] \in {"sending", "ended"}
            \/ /\ pc'[s] = "refreshing" /\ try'[s] = "first" /\ reply'[s] = "notLoggedIn"
            \/ /\ pc'[s] = "sleeping" /\ try'[s] = "first" /\ reply'[s] = "busy"
        <4> USE DEF CInv, WideqTypeOK, End, Transmit, Replied
        <4>1. CASE Start(s) \/ Accepted(s) \/ Refused(s) \/ Offline(s) \/ Fail(s)
          BY <4>1 DEF Start, Accepted, Refused, Offline, Fail
        <4>2. CASE Login(s) \/ RefreshAuth(s) \/ Delay(s) \/ Resend(s)
          BY <4>2 DEF Login, RefreshAuth, Delay, Resend
        <4> QED BY <2>3, <4>1, <4>2 DEF SendStep
      <3> QED BY <2>3, <3>1, OneSendMoves DEF CInv, PlaceMatchesReply
    <2> QED BY <2>1, <2>2, <2>3, OthersStand DEF Next, SetMode, Send, Cloud
  <1>3. IInv => WideqTypeOK
    BY DEF IInv, TypeOK
  <1> QED BY <1>1, <1>2, <1>3, Invariant, PTL DEF Spec, CInv

stageOf         == [s \in Sends |-> StageOf(s)]
sentOf  == [s \in Sends |-> SentOf(s)]
verdictOf       == [s \in Sends |-> VerdictOf(s)]

(* A step that leaves the other sends alone changes the contract's view of *)
(* this one only.                                                          *)
LEMMA OneViewMoves ==
    ASSUME NEW s \in Sends,
           \A r \in Sends \ {s} :
               pc'[r] = pc[r] /\ try'[r] = try[r] /\ reply'[r] = reply[r] /\ result'[r] = result[r]
    PROVE  /\ stageOf' = [stageOf EXCEPT ![s] = stageOf'[s]]
           /\ sentOf' = [sentOf EXCEPT ![s] = sentOf'[s]]
           /\ verdictOf' = [verdictOf EXCEPT ![s] = verdictOf'[s]]
  <1>1. \A r \in Sends \ {s} : /\ stageOf'[r] = stageOf[r]
                               /\ sentOf'[r] = sentOf[r]
                               /\ verdictOf'[r] = verdictOf[r]
    BY DEF stageOf, sentOf, verdictOf, StageOf, SentOf, VerdictOf
  <1> QED BY <1>1 DEF stageOf, sentOf, verdictOf

(* A step that does not change that view is a stutter, or one of others.   *)
LEMMA NothingSeen ==
    ASSUME UNCHANGED <<stageOf, sentOf, verdictOf>>
    PROVE  Contract!Next
  BY DEF Contract!Next, Contract!Others, stageOf, sentOf, verdictOf

(* The answer of the cloud.                                                *)
LEMMA ServeMaps ==
    ASSUME CInv, NEW s \in Sends, Serve(s)
    PROVE  Contract!Next
  <1>1. /\ stageOf' = [stageOf EXCEPT ![s] = stageOf'[s]]
        /\ sentOf' = [sentOf EXCEPT ![s] = sentOf'[s]]
        /\ verdictOf' = [verdictOf EXCEPT ![s] = verdictOf'[s]]
    BY OneSendMoves, OneViewMoves DEF CInv
  <1>2. /\ pc[s] = "sending" /\ pc'[s] = "replied" /\ try' = try
        /\ reply'[s] \in Replies \ {"none"} /\ reauthNeeded' = reauthNeeded
    BY DEF Serve, CInv, WideqTypeOK, flagVars
  <1>3. stageOf[s] = "sent" /\ stageOf'[s] = "answered"
    BY <1>2 DEF stageOf, StageOf
  <1>4. sentOf' = sentOf
    <2>1. sentOf'[s] = sentOf[s]
      BY <1>2 DEF sentOf, SentOf
    <2> QED BY <1>1, <2>1 DEF sentOf
  <1>5. verdictOf'[s] \in {"acknowledged", "refused", "offline", "unclear"}
    BY <1>2 DEF verdictOf, VerdictOf
  <1>6. Contract!Answer(s)
    BY <1>1, <1>2, <1>3, <1>4, <1>5
       DEF Contract!Answer, Contract!Verdicts, stageOf, sentOf, verdictOf
  <1> QED BY <1>6 DEF Contract!Next

(* The ways on of SendMoves, each of which is a step of the contract.      *)
LEMMA SendMaps ==
    ASSUME CInv, NEW s \in Sends, Start(s) \/ SendStep(s)
    PROVE  Contract!Next
  <1>1. /\ stageOf' = [stageOf EXCEPT ![s] = stageOf'[s]]
        /\ sentOf' = [sentOf EXCEPT ![s] = sentOf'[s]]
        /\ verdictOf' = [verdictOf EXCEPT ![s] = verdictOf'[s]]
    BY OneSendMoves, OneViewMoves DEF CInv
  <1>2. reply' = reply
    BY SendMoves
  <1>3. verdictOf' = verdictOf
    BY <1>2 DEF verdictOf, VerdictOf
  <1>4. ASSUME pc[s] # "sending", pc'[s] # "sending", try' = try
        PROVE  sentOf' = sentOf
    <2>1. sentOf'[s] = sentOf[s]
      BY <1>2, <1>4 DEF sentOf, SentOf
    <2> QED BY <1>1, <2>1 DEF sentOf
  <1>5. CASE /\ pc[s] = "idle" /\ reauthNeeded /\ pc'[s] = "ended" /\ result'[s] = "skipped"
             /\ try' = try /\ reauthNeeded' = reauthNeeded
    <2>1. stageOf[s] = "idle" /\ stageOf'[s] = "skipped"
      BY <1>5 DEF stageOf, StageOf
    <2>2. Contract!HoldBack(s)
      BY <1>1, <1>3, <1>4, <1>5, <2>1
         DEF Contract!HoldBack, stageOf, sentOf, verdictOf
    <2> QED BY <2>2 DEF Contract!Next
  <1>6. CASE /\ pc[s] = "idle" /\ ~reauthNeeded /\ pc'[s] = "sending" /\ try'[s] = "first"
             /\ reauthNeeded' = reauthNeeded
    <2>1. stageOf[s] = "idle" /\ stageOf'[s] = "sent"
      BY <1>6 DEF stageOf, StageOf
    <2>2. sentOf'[s] = "first"
      BY <1>6 DEF CInv, PlaceMatchesReply, sentOf, SentOf
    <2>3. Contract!Transmit(s)
      BY <1>1, <1>3, <1>6, <2>1, <2>2
         DEF Contract!Transmit, stageOf, sentOf, verdictOf
    <2> QED BY <2>3 DEF Contract!Next
  <1>7. CASE /\ pc[s] \in {"refreshing", "sleeping"} /\ pc'[s] = "sending"
             /\ try'[s] \in {"afterLogin", "afterDelay"} /\ reauthNeeded' = reauthNeeded
    <2>1. stageOf[s] = "answered" /\ stageOf'[s] = "sent"
      BY <1>7 DEF stageOf, StageOf
    <2>2. sentOf[s] = "first" /\ sentOf'[s] \in {"afterLogin", "afterDelay"}
      BY <1>7 DEF CInv, PlaceMatchesReply, sentOf, SentOf
    <2>3. verdictOf[s] = "unclear"
      BY <1>7 DEF CInv, PlaceMatchesReply, verdictOf, VerdictOf
    <2>4. Contract!Retransmit(s)
      BY <1>1, <1>3, <1>7, <2>1, <2>2, <2>3
         DEF Contract!Retransmit, stageOf, sentOf, verdictOf
    <2> QED BY <2>4 DEF Contract!Next
  <1>8. CASE /\ pc[s] = "replied" /\ pc'[s] \in {"refreshing", "sleeping"} /\ try' = try
             /\ reauthNeeded' = reauthNeeded
    <2>1. stageOf'[s] = stageOf[s]
      BY <1>8 DEF stageOf, StageOf
    <2>2. stageOf' = stageOf
      BY <1>1, <2>1 DEF stageOf
    <2> QED BY <1>3, <1>4, <1>8, <2>2, NothingSeen
  <1>9. CASE /\ pc[s] = "replied" /\ reply[s] = "ok" /\ pc'[s] = "ended" /\ result'[s] = "sent"
             /\ try' = try /\ (reauthNeeded' => reauthNeeded)
    <2>1. stageOf[s] = "answered" /\ stageOf'[s] = "true" /\ verdictOf[s] = "acknowledged"
      BY <1>9 DEF stageOf, StageOf, verdictOf, VerdictOf
    <2>2. Contract!ReturnTrue(s)
      BY <1>1, <1>3, <1>4, <1>9, <2>1
         DEF Contract!ReturnTrue, Contract!Return, stageOf, sentOf, verdictOf
    <2> QED BY <2>2 DEF Contract!Next
  <1>10. CASE /\ pc[s] = "replied" /\ reply[s] = "invalid" /\ pc'[s] = "ended"
              /\ result'[s] = "skipped" /\ try' = try /\ reauthNeeded'
    <2>1. stageOf[s] = "answered" /\ stageOf'[s] = "skipped" /\ verdictOf[s] = "refused"
      BY <1>10 DEF stageOf, StageOf, verdictOf, VerdictOf
    <2>2. Contract!ReturnFalse(s)
      BY <1>1, <1>3, <1>4, <1>10, <2>1
         DEF Contract!ReturnFalse, Contract!Return, stageOf, sentOf, verdictOf
    <2> QED BY <2>2 DEF Contract!Next
  <1>11. CASE /\ pc[s] = "replied" /\ reply[s] = "offline" /\ pc'[s] = "ended"
              /\ result'[s] = "skipped" /\ try' = try /\ reauthNeeded' = reauthNeeded
    <2>1. stageOf[s] = "answered" /\ stageOf'[s] = "skipped" /\ verdictOf[s] = "offline"
      BY <1>11 DEF stageOf, StageOf, verdictOf, VerdictOf
    <2>2. Contract!ReturnFalse(s)
      BY <1>1, <1>3, <1>4, <1>11, <2>1
         DEF Contract!ReturnFalse, Contract!Return, stageOf, sentOf, verdictOf
    <2> QED BY <2>2 DEF Contract!Next
  <1>12. CASE /\ pc[s] \in {"replied", "refreshing"} /\ reply[s] \in {"busy", "notLoggedIn", "error"}
              /\ pc'[s] = "ended" /\ result'[s] = "error"
              /\ try' = try /\ reauthNeeded' = reauthNeeded
    <2>1. stageOf[s] = "answered" /\ stageOf'[s] = "raised" /\ verdictOf[s] = "unclear"
      BY <1>12 DEF stageOf, StageOf, verdictOf, VerdictOf
    <2>2. Contract!Raise(s)
      BY <1>1, <1>3, <1>4, <1>12, <2>1
         DEF Contract!Raise, Contract!Return, stageOf, sentOf, verdictOf
    <2> QED BY <2>2 DEF Contract!Next
  <1>13. CASE /\ pc[s] = "replied" /\ reply[s] = "offline" /\ try[s] = "afterLogin" /\ pc'[s] = "ended"
              /\ result'[s] = "error" /\ try' = try /\ reauthNeeded' = reauthNeeded
    <2>1. stageOf[s] = "answered" /\ stageOf'[s] = "raised" /\ verdictOf[s] = "offline"
      BY <1>13 DEF stageOf, StageOf, verdictOf, VerdictOf
    <2>2. sentOf[s] = "afterLogin"
      BY <1>13 DEF sentOf, SentOf
    <2>3. Contract!Raise(s)
      BY <1>1, <1>3, <1>4, <1>13, <2>1, <2>2
         DEF Contract!Raise, Contract!Return, stageOf, sentOf, verdictOf
    <2> QED BY <2>3 DEF Contract!Next
  <1> QED BY <1>5, <1>6, <1>7, <1>8, <1>9, <1>10, <1>11, <1>12, <1>13, SendMoves

(* However commands, polls and logins overlap, the callers of each command *)
(* see what the contract promises: two transmissions at most, none after a *)
(* verdict, True only if acknowledged, and never a silent skip without the *)
(* flag.                                                                   *)
THEOREM Refinement == Spec => KeepsContract
  <1>1. Init => Contract!Init
    <2> SUFFICES ASSUME Init
                 PROVE  Contract!Init
      OBVIOUS
    <2>1. /\ stageOf = [s \in Sends |-> "idle"]
          /\ sentOf = [s \in Sends |-> "never"]
          /\ verdictOf = [s \in Sends |-> "none"]
      BY DEF Init, WideqInit, stageOf, sentOf, verdictOf, StageOf, SentOf, VerdictOf
    <2>2. reauthNeeded = FALSE
      BY DEF Init, WideqInit
    <2> QED BY <2>1, <2>2 DEF Contract!Init, stageOf, sentOf, verdictOf
  <1>2. CInv /\ [Next]_vars => [Contract!Next]_Contract!vars
    <2> SUFFICES ASSUME CInv, [Next]_vars
                 PROVE  Contract!Next
      OBVIOUS
    <2>1. CASE UNCHANGED sendVars
      <3>1. UNCHANGED <<stageOf, sentOf, verdictOf>>
        BY <2>1 DEF sendVars, stageOf, sentOf, verdictOf, StageOf, SentOf, VerdictOf
      <3> QED BY <3>1, NothingSeen
    <2> QED BY <2>1, ServeMaps, SendMaps, OthersStand DEF Next, SetMode, Send, Cloud
  <1> QED BY <1>1, <1>2, ContractInv, PTL DEF Spec, KeepsContract, Contract!Spec
=============================================================================
