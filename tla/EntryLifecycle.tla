----------------------------- MODULE EntryLifecycle -----------------------------
(***************************************************************************)
(* async_setup_entry and async_unload_entry (__init__.py) with the MQTT    *)
(* manager they start (mqtt.py): what is opened, in which order, what a    *)
(* failure half way leaves behind, and the timers that go on beside it:    *)
(* the hourly one that reconnects wideq and reloads the entry, and the     *)
(* daily one that renews the event subscriptions.                          *)
(*                                                                         *)
(* Home Assistant's config entries are external: set-up, unload and reload *)
(* of the entry exclude each other, a set-up that is not ready is retried, *)
(* timers end when an unload has succeeded (async_on_unload), and a task   *)
(* that a timer has started is not ended with it.                          *)
(***************************************************************************)
EXTENDS Naturals

CONSTANTS
    MaxUpsets,   \* bound: outages, failures, restarts and what users do
    MaxReloads   \* bound: the reloads that wait for their turn

ASSUME EntryAssumption == MaxUpsets \in Nat /\ MaxReloads \in Nat \ {0}

VARIABLES
    outages,    \* what cannot be reached: the login, the PAT device list
    upsets,     \* how many upsets happened so far
    disabledBy, \* nobody, or the user
    stage,      \* where the entry is
    client,     \* wideq_client of the latest set-up
    lost,       \* how many clients were dropped that nobody closed
    manager,    \* runtime_data.mqtt_client: None, or the one connected
    link,       \* the MQTT connection
    subscribed, \* the push and event subscriptions at LG, for all devices
    tick,       \* the hourly task
    renewal,    \* the daily task
    reloads     \* async_reload tasks that wait

lgVars    == <<outages, upsets>>
mqttVars  == <<manager, link, subscribed>>
taskVars  == <<tick, renewal, reloads>>
entryVars == <<disabledBy, stage, client, lost>>
vars == <<lgVars, entryVars, mqttVars, taskVars>>

(* retry: ConfigEntryNotReady.  error: any other exception.  unloaded: a   *)
(* reload is between the two.  failedUnload: a platform refused, or an     *)
(* exception, and Home Assistant gives the entry up.                       *)
SetupStages  == {"connecting", "discovering", "building", "mqtt", "subscribing", "opening"}
TimersRun    == {"finishing", "loaded", "platforms", "unsubscribing", "disconnecting", "failedUnload"}
AtRest       == {"out", "retry", "error", "loaded", "failedUnload"}
Stages       == {"out", "retry", "error", "unloaded"} \cup SetupStages \cup TimersRun

Services      == {"wideq", "pat"}
Subscriptions == {"push", "event"}

(* stray: a connection that failed to close when its entry was unloaded *)
Links == {"closed", "open", "stray"}

TypeOK ==
    /\ outages \subseteq Services
    /\ disabledBy \in {"nobody", "user"}
    /\ lost \in Nat
    /\ manager \in {"None", "set"}
    /\ subscribed \subseteq Subscriptions
    /\ upsets \in 0..MaxUpsets
    /\ stage \in Stages
    /\ client \in {"none", "open", "closed"}
    /\ link \in Links
    /\ tick \in {"idle", "connecting"}
    /\ renewal \in {"idle", "renewing"}
    /\ reloads \in 0..MaxReloads

(* Home Assistant starts.  LG may remember the subscriptions of old. *)
Init ==
    /\ outages \in SUBSET Services
    /\ upsets = 0
    /\ disabledBy = "nobody"
    /\ stage = "connecting"
    /\ client = "none" /\ lost = 0
    /\ manager = "None" /\ link = "closed"
    /\ subscribed \in SUBSET Subscriptions
    /\ tick = "idle" /\ renewal = "idle" /\ reloads = 0

Upset == upsets < MaxUpsets /\ upsets' = upsets + 1

(* Something goes well, or it fails, which counts. *)
Outcome(succeeds, fails) == (succeeds /\ UNCHANGED upsets) \/ (fails /\ Upset)

-----------------------------------------------------------------------------
(* Outside. *)

OutageBegins ==
    /\ Upset
    /\ \E x \in Services \ outages : outages' = outages \cup {x}
    /\ UNCHANGED <<entryVars, mqttVars, taskVars>>

OutageEnds ==
    /\ \E x \in outages : outages' = outages \ {x}
    /\ UNCHANGED <<upsets, entryVars, mqttVars, taskVars>>

(* A day passes, and LG forgets the event subscriptions. *)
SubscriptionsExpire ==
    /\ Upset
    /\ subscribed' = subscribed \ {"event"}
    /\ UNCHANGED <<outages, entryVars, manager, link, taskVars>>

RequestReload == reloads < MaxReloads /\ reloads' = reloads + 1

UserReloads ==
    /\ Upset /\ RequestReload
    /\ UNCHANGED <<outages, entryVars, mqttVars, tick, renewal>>

(* Home Assistant unloads the entry by a reload that stops half way. *)
UserDisables ==
    /\ Upset /\ RequestReload
    /\ disabledBy = "nobody" /\ disabledBy' = "user"
    /\ UNCHANGED <<outages, stage, client, lost, mqttVars, tick, renewal>>

(* Home Assistant starts again: only LG remembers anything.  If it was     *)
(* stopped, and did not die, async_disconnect was called.                  *)
Restart ==
    /\ Upset
    /\ stage' = IF disabledBy = "user" THEN "out" ELSE "connecting"
    /\ client' = "none" /\ lost' = 0
    /\ manager' = "None" /\ link' = "closed"
    /\ tick' = "idle" /\ renewal' = "idle" /\ reloads' = 0
    /\ \/ UNCHANGED subscribed
       \/ manager = "set" /\ subscribed' = {}
    /\ UNCHANGED <<outages, disabledBy>>

-----------------------------------------------------------------------------
(* async_setup_entry. *)

(* Each set-up has a runtime_data of its own. *)
BeginSetup ==
    /\ stage' = "connecting"
    /\ client' = "none"
    /\ lost' = IF client = "open" THEN lost + 1 ELSE lost
    /\ manager' = "None"

ConnectWideq ==
    /\ stage = "connecting" /\ stage' = "discovering"
    /\ \/ "wideq" \notin outages /\ Outcome(client' = "open", client' = "none")
       \/ "wideq" \in outages /\ client' = "none" /\ UNCHANGED upsets
    /\ UNCHANGED <<outages, disabledBy, lost, mqttVars, taskVars>>

(* mutant: the client is left to the garbage collector *)
MutCloseClient == UNCHANGED client

CloseClient == client' = IF client = "open" THEN "closed" ELSE client

NotReady == stage' = "retry" /\ CloseClient

Discover ==
    /\ stage = "discovering"
    /\ \/ "pat" \notin outages /\ Outcome(stage' = "building" /\ UNCHANGED client, NotReady)
       \/ "pat" \in outages /\ NotReady /\ UNCHANGED upsets
    /\ UNCHANGED <<outages, disabledBy, lost, mqttVars, taskVars>>

(* A profile that LG refuses costs its device; if it was the only one, no  *)
(* MQTT is started.  Any other exception, a timeout say, ends the set-up.  *)
BuildDevices ==
    /\ stage = "building"
    /\ Outcome(stage' = "mqtt", stage' \in {"finishing", "error"})
    /\ UNCHANGED <<outages, disabledBy, client, lost, mqttVars, taskVars>>

async_connect ==
    /\ stage = "mqtt"
    /\ Outcome(stage' = "subscribing", stage' = "finishing")
    /\ UNCHANGED <<outages, disabledBy, client, lost, mqttVars, taskVars>>

(* async_start_subscribes: what fails is only logged. *)
Subscribe ==
    /\ stage = "subscribing" /\ stage' = "opening"
    /\ Outcome(subscribed' = Subscriptions,
               \E posted \in SUBSET Subscriptions : subscribed' = subscribed \cup posted)
    /\ UNCHANGED <<outages, disabledBy, client, lost, manager, link, taskVars>>

(* mutant: the manager is not handed to the runtime data *)
MutOpenLink == link' = "open" /\ UNCHANGED manager

OpenLink == link' = "open" /\ manager' = "set"

(* async_connect_mqtt.  If it raises, the subscriptions stay behind. *)
ConnectMqtt ==
    /\ stage = "opening" /\ stage' = "finishing"
    /\ Outcome(OpenLink, UNCHANGED <<manager, link>>)
    /\ UNCHANGED <<outages, disabledBy, client, lost, subscribed, taskVars>>

(* The wideq air conditioners are matched and the platforms set up: what   *)
(* fails there costs an entity its fan control, and no more.               *)
FinishSetup ==
    /\ stage = "finishing" /\ stage' = "loaded"
    /\ UNCHANGED <<lgVars, disabledBy, client, lost, mqttVars, taskVars>>

HomeAssistantRetries ==
    /\ stage = "retry" /\ disabledBy = "nobody"
    /\ BeginSetup
    /\ UNCHANGED <<lgVars, disabledBy, link, subscribed, taskVars>>

-----------------------------------------------------------------------------
(* async_reload, and async_unload_entry. *)

(* An entry that is not loaded needs no unloading.  Home Assistant raises  *)
(* for one that failed to unload.                                          *)
StartReload ==
    /\ reloads > 0 /\ reloads' = reloads - 1
    /\ stage \in AtRest
    /\ \/ stage = "loaded" /\ stage' = "platforms" /\ UNCHANGED <<client, lost, manager>>
       \/ stage \in {"out", "retry", "error"} /\ disabledBy = "nobody" /\ BeginSetup
       \/ stage \in {"out", "retry", "error"} /\ disabledBy = "user"
          /\ stage' = "out" /\ UNCHANGED <<client, lost, manager>>
       \/ stage = "failedUnload" /\ UNCHANGED <<stage, client, lost, manager>>
    /\ UNCHANGED <<lgVars, disabledBy, link, subscribed, tick, renewal>>

(* mutant: the client is closed whatever the platforms say *)
MutUnloadPlatforms ==
    /\ stage = "platforms"
    /\ Outcome(stage' = IF manager = "set" THEN "unsubscribing" ELSE "disconnecting", stage' = "failedUnload")
    /\ CloseClient
    /\ UNCHANGED <<outages, disabledBy, lost, mqttVars, taskVars>>

UnloadPlatforms ==
    /\ stage = "platforms"
    /\ Outcome(stage' = IF manager = "set" THEN "unsubscribing" ELSE "disconnecting", stage' = "failedUnload")
    /\ UNCHANGED <<outages, disabledBy, client, lost, mqttVars, taskVars>>

async_end_subscribes ==
    /\ stage = "unsubscribing" /\ stage' = "disconnecting"
    /\ Outcome(subscribed' = {},
               \E deleted \in SUBSET Subscriptions : subscribed' = subscribed \ deleted)
    /\ UNCHANGED <<outages, disabledBy, client, lost, manager, link, taskVars>>

(* The connection and the client are closed, and the timers end.  An       *)
(* exception that async_disconnect does not expect ends the unload.        *)
EndUnload ==
    /\ stage = "disconnecting"
    /\ \/ /\ \/ manager = "set" /\ Outcome(link' = "closed", link' = "stray")
             \/ manager = "None" /\ UNCHANGED <<link, upsets>>
          /\ stage' = "unloaded"
          /\ CloseClient
          /\ manager' = "None"
       \/ /\ manager = "set" /\ Upset
          /\ stage' = "failedUnload" /\ link' = "stray"
          /\ UNCHANGED <<client, manager>>
    /\ UNCHANGED <<outages, disabledBy, lost, subscribed, taskVars>>

(* The reload goes on. *)
SetUpAgain ==
    /\ stage = "unloaded"
    /\ \/ disabledBy = "nobody" /\ BeginSetup
       \/ disabledBy = "user" /\ stage' = "out" /\ UNCHANGED <<client, lost, manager>>
    /\ UNCHANGED <<lgVars, disabledBy, link, subscribed, taskVars>>

-----------------------------------------------------------------------------
(* _async_refresh_wideq_auth, without a client.  (With one it renews the   *)
(* session: WideqReauth.)  It reads wideq_client of the set-up that made   *)
(* it, and goes on when that entry is gone.                                *)
Tick ==
    /\ stage \in TimersRun /\ client = "none"
    /\ tick = "idle" /\ tick' = "connecting"
    /\ UNCHANGED <<lgVars, entryVars, mqttVars, renewal, reloads>>

(* mutant: it connects and leaves it at that *)
MutReconnected == UNCHANGED reloads

(* mutant: each reconnection asks for two reloads *)
MutReconnectedTwice == reloads < MaxReloads /\ reloads' = reloads + 2

(* Its own client is closed at once; the reload will open another. *)
Reconnected == RequestReload

EndTick ==
    /\ tick = "connecting" /\ tick' = "idle"
    /\ \/ "wideq" \notin outages /\ Outcome(Reconnected, UNCHANGED reloads)
       \/ "wideq" \in outages /\ UNCHANGED <<upsets, reloads>>
    /\ UNCHANGED <<outages, entryVars, mqttVars, renewal>>

(* async_refresh_subscribe: the event subscriptions only *)
StartRenewal ==
    /\ stage \in TimersRun /\ manager = "set"
    /\ renewal = "idle" /\ renewal' = "renewing"
    /\ UNCHANGED <<lgVars, entryVars, mqttVars, tick, reloads>>

(* mutant: the push subscriptions are renewed, not the events *)
MutRenew == subscribed' = subscribed \cup {"push"}

Renew == subscribed' = subscribed \cup {"event"}

EndRenewal ==
    /\ renewal = "renewing" /\ renewal' = "idle"
    /\ Outcome(Renew, UNCHANGED subscribed)
    /\ UNCHANGED <<outages, entryVars, manager, link, tick, reloads>>

-----------------------------------------------------------------------------
SetupStep ==
    \/ ConnectWideq \/ Discover \/ BuildDevices \/ async_connect \/ Subscribe
    \/ ConnectMqtt \/ FinishSetup \/ HomeAssistantRetries

UnloadStep == StartReload \/ UnloadPlatforms \/ async_end_subscribes \/ EndUnload \/ SetUpAgain

Outside ==
    OutageBegins \/ OutageEnds \/ SubscriptionsExpire \/ UserReloads \/ UserDisables \/ Restart

Next ==
    \/ Outside \/ SetupStep \/ UnloadStep
    \/ Tick \/ EndTick \/ StartRenewal \/ EndRenewal

Spec == Init /\ [][Next]_vars

(* Requests end, tasks run, the timers fire, Home Assistant retries.  No   *)
(* outage needs to end, and no user to do anything.                        *)
FairSpec ==
    /\ Spec
    /\ WF_vars(SetupStep) /\ WF_vars(UnloadStep)
    /\ WF_vars(Tick) /\ WF_vars(EndTick)
    /\ WF_vars(StartRenewal) /\ WF_vars(EndRenewal)

-----------------------------------------------------------------------------
(* The entities of an entry that is loaded, or that failed to unload, are  *)
(* never left with a client that is closed, whatever reloads, retries and  *)
(* reconnections overlap.                                                  *)
UsedClientIsOpen == stage \in {"finishing", "loaded", "platforms", "failedUnload"} => client # "closed"

(* Every client is closed by the set-up or the unload that ends its use,   *)
(* unless the set-up itself was ended by an exception.                     *)
NoClientIsLost == [][lost' > lost => stage = "error"]_vars

(* An open connection is known to the runtime data of the entry that uses  *)
(* it, so that the next unload closes it.                                  *)
LinkIsHeld == link = "open" => manager = "set" /\ stage \in TimersRun

(* "this integration will keep retrying automatically": if LG's services   *)
(* stay up, the entry ends up loaded with a working client, unless it is   *)
(* disabled or was given up.                                               *)
WideqComesBack ==
    <>[](outages = {} /\ disabledBy = "nobody" /\ stage \notin {"error", "failedUnload"})
        => <>[](stage = "loaded" /\ client = "open")

(* While the entry stays loaded with its connection, the event             *)
(* subscriptions that expired or could not be made are there in the end.   *)
EventsAreRenewed == <>[](stage = "loaded" /\ manager = "set") => <>[]("event" \in subscribed)
=============================================================================
