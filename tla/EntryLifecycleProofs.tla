-------------------------- MODULE EntryLifecycleProofs --------------------------
(***************************************************************************)
(* EntryLifecycle for any number of outages, failures, reloads, restarts.  *)
(***************************************************************************)
EXTENDS EntryLifecycle, TLAPS

Down == {"out", "retry", "unloaded"}

(* An entry that is down has no open client (unless a failed set-up was    *)
(* disabled, which nothing undoes), and any other has no closed one.       *)
ClientFitsStage ==
    /\ stage \in Down /\ disabledBy = "nobody" => client # "open"
    /\ stage \notin Down => client # "closed"

IInv == TypeOK /\ ClientFitsStage /\ LinkIsHeld

(* The initial states. *)
LEMMA InvInit == Init => IInv
  BY EntryAssumption DEF Init, IInv, TypeOK, ClientFitsStage, LinkIsHeld, Down, Stages, SetupStages,
     TimersRun, Links, Services, Subscriptions

(* What lies outside the integration leaves entry and connection alone, or *)
(* starts anew.                                                            *)
LEMMA OutsideKeeps == IInv /\ Outside => IInv'
  <1> SUFFICES ASSUME IInv, Outside
               PROVE  IInv'
    OBVIOUS
  <1> USE EntryAssumption DEF IInv, TypeOK, ClientFitsStage, LinkIsHeld, Down, Stages, SetupStages,
          TimersRun, Links, Services, Subscriptions, Upset, lgVars, entryVars, mqttVars, taskVars
  <1>1. CASE OutageBegins
    BY <1>1 DEF OutageBegins
  <1>2. CASE OutageEnds
    BY <1>2 DEF OutageEnds
  <1>3. CASE SubscriptionsExpire
    BY <1>3 DEF SubscriptionsExpire
  <1>4. CASE UserReloads
    BY <1>4 DEF UserReloads, RequestReload
  <1>5. CASE UserDisables
    BY <1>5 DEF UserDisables, RequestReload
  <1>6. CASE Restart
    <2>1. subscribed' \subseteq Subscriptions
      BY <1>6 DEF Restart
    <2> HIDE DEF Subscriptions
    <2> QED BY <1>6, <2>1 DEF Restart
  <1> QED BY <1>1, <1>2, <1>3, <1>4, <1>5, <1>6 DEF Outside

(* The steps of a set-up. *)
LEMMA SetupKeeps == IInv /\ SetupStep => IInv'
  <1> SUFFICES ASSUME IInv, SetupStep
               PROVE  IInv'
    OBVIOUS
  <1> USE EntryAssumption DEF IInv, TypeOK, ClientFitsStage, LinkIsHeld, Down, Stages, SetupStages,
          TimersRun, Links, Services, Subscriptions, Upset, Outcome, lgVars, entryVars, mqttVars, taskVars
  <1>1. CASE ConnectWideq
    BY <1>1 DEF ConnectWideq
  <1>2. CASE Discover
    BY <1>2 DEF Discover, NotReady, CloseClient
  <1>3. CASE BuildDevices
    BY <1>3 DEF BuildDevices
  <1>4. CASE async_connect
    BY <1>4 DEF async_connect
  <1>5. CASE Subscribe
    <2>1. subscribed' \subseteq Subscriptions
      BY <1>5 DEF Subscribe
    <2> HIDE DEF Subscriptions
    <2> QED BY <1>5, <2>1 DEF Subscribe
  <1>6. CASE ConnectMqtt
    BY <1>6 DEF ConnectMqtt, OpenLink
  <1>7. CASE FinishSetup
    BY <1>7 DEF FinishSetup
  <1>8. CASE HomeAssistantRetries
    BY <1>8 DEF HomeAssistantRetries, BeginSetup
  <1> QED BY <1>1, <1>2, <1>3, <1>4, <1>5, <1>6, <1>7, <1>8 DEF SetupStep

(* The steps of a reload. *)
LEMMA UnloadKeeps == IInv /\ UnloadStep => IInv'
  <1> SUFFICES ASSUME IInv, UnloadStep
               PROVE  IInv'
    OBVIOUS
  <1> USE EntryAssumption DEF IInv, TypeOK, ClientFitsStage, LinkIsHeld, Down, Stages, SetupStages,
          TimersRun, Links, Services, Subscriptions, Upset, Outcome, lgVars, entryVars, mqttVars, taskVars
  <1>1. CASE StartReload
    BY <1>1 DEF StartReload, BeginSetup
  <1>2. CASE UnloadPlatforms
    BY <1>2 DEF UnloadPlatforms
  <1>3. CASE async_end_subscribes
    <2>1. subscribed' \subseteq Subscriptions
      BY <1>3 DEF async_end_subscribes
    <2> HIDE DEF Subscriptions
    <2> QED BY <1>3, <2>1 DEF async_end_subscribes
  <1>4. CASE EndUnload
    BY <1>4 DEF EndUnload, CloseClient
  <1>5. CASE SetUpAgain
    BY <1>5 DEF SetUpAgain, BeginSetup
  <1> QED BY <1>1, <1>2, <1>3, <1>4, <1>5 DEF UnloadStep

(* Every step keeps the invariant. *)
LEMMA InvStep == IInv /\ [Next]_vars => IInv'
  <1> SUFFICES ASSUME IInv, [Next]_vars
               PROVE  IInv'
    OBVIOUS
  <1>1. ASSUME Tick \/ EndTick \/ StartRenewal \/ EndRenewal \/ UNCHANGED vars
        PROVE  IInv'
    <2> USE EntryAssumption DEF IInv, TypeOK, ClientFitsStage, LinkIsHeld, Upset, Outcome,
            lgVars, entryVars, mqttVars, taskVars
    <2>1. CASE Tick
      BY <2>1 DEF Tick
    <2>2. CASE EndTick
      BY <2>2 DEF EndTick, Reconnected, RequestReload
    <2>3. CASE StartRenewal
      BY <2>3 DEF StartRenewal
    <2>4. CASE EndRenewal
      <3>1. subscribed' \subseteq Subscriptions
        BY <2>4 DEF EndRenewal, Renew, Subscriptions
      <3> QED BY <2>4, <3>1 DEF EndRenewal, Renew
    <2>5. CASE UNCHANGED vars
      BY <2>5 DEF vars
    <2> QED BY <1>1, <2>1, <2>2, <2>3, <2>4, <2>5
  <1> QED BY <1>1, OutsideKeeps, SetupKeeps, UnloadKeeps DEF Next

(* The inductive invariant holds throughout. *)
THEOREM Invariant == Spec => []IInv
  BY InvInit, InvStep, PTL DEF Spec

(* Every reachable state is well typed. *)
THEOREM TypeCorrect == Spec => []TypeOK
  BY Invariant, PTL DEF IInv

(* An open MQTT connection is known to the entry that must close it.       *)
THEOREM LinkHeld == Spec => []LinkIsHeld
  BY Invariant, PTL DEF IInv

(* No entity of a loaded entry, or of one that failed to unload, is left   *)
(* with a closed wideq client.                                             *)
THEOREM ClientOpen == Spec => []UsedClientIsOpen
  <1>1. IInv => UsedClientIsOpen
    BY DEF IInv, ClientFitsStage, UsedClientIsOpen, Down
  <1> QED BY <1>1, Invariant, PTL

(* Only a set-up that ended with an unexpected exception drops a client    *)
(* that nobody closed.                                                     *)
THEOREM ClientsClosed == Spec => NoClientIsLost
  <1>1. IInv /\ [Next]_vars => [lost' > lost => stage = "error"]_vars
    <2> SUFFICES ASSUME IInv, Next, lost' > lost
                 PROVE  stage = "error"
      OBVIOUS
    <2> USE DEF IInv, TypeOK, ClientFitsStage, Down, lgVars, entryVars, mqttVars, taskVars
    <2>1. CASE Outside
      BY <2>1 DEF Outside, OutageBegins, OutageEnds, SubscriptionsExpire, UserReloads, UserDisables,
         Restart
    <2>2. CASE SetupStep
      <3>1. ASSUME HomeAssistantRetries
            PROVE  stage = "error"
        BY <3>1 DEF HomeAssistantRetries, BeginSetup
      <3>2. ASSUME \/ ConnectWideq \/ Discover \/ BuildDevices \/ async_connect
                   \/ Subscribe \/ ConnectMqtt \/ FinishSetup
            PROVE  lost' = lost
        BY <3>2 DEF ConnectWideq, Discover, BuildDevices, async_connect, Subscribe, ConnectMqtt,
           FinishSetup
      <3> QED BY <2>2, <3>1, <3>2 DEF SetupStep
    <2>3. CASE UnloadStep
      <3>1. CASE StartReload
        BY <3>1 DEF StartReload, BeginSetup
      <3>2. CASE SetUpAgain
        BY <3>2 DEF SetUpAgain, BeginSetup
      <3>3. ASSUME UnloadPlatforms \/ async_end_subscribes \/ EndUnload
            PROVE  lost' = lost
        BY <3>3 DEF UnloadPlatforms, async_end_subscribes, EndUnload
      <3> QED BY <2>3, <3>1, <3>2, <3>3 DEF UnloadStep
    <2>4. CASE Tick \/ EndTick \/ StartRenewal \/ EndRenewal
      BY <2>4 DEF Tick, EndTick, StartRenewal, EndRenewal
    <2> QED BY <2>1, <2>2, <2>3, <2>4 DEF Next
  <1> QED BY <1>1, Invariant, PTL DEF Spec, NoClientIsLost
=============================================================================
