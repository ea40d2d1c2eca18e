----------------------------- MODULE PatCoordinator -----------------------------
(***************************************************************************)
(* PatDeviceCoordinator (coordinator_pat.py): Home Assistant's copy of one *)
(* property of one PAT device.  The copy is fed by MQTT pushes and by REST *)
(* polls that overlap with them; a command that the cloud refuses with     *)
(* NOT_CONNECTED_DEVICE marks the device unreachable.  Neither a push nor  *)
(* a poll notices a disconnection: a poll of a device that is offline may  *)
(* well succeed, with the last value the cloud was told.                   *)
(*                                                                         *)
(* One event loop runs every handler, so a handler is atomic between two   *)
(* awaits.  A poll is therefore three steps: asked, answered by the cloud, *)
(* applied.  The cloud's side (a value, whether the device is connected)   *)
(* and Home Assistant's DataUpdateCoordinator and Debouncer are external.  *)
(***************************************************************************)
EXTENDS Integers, Sequences

CONSTANTS
    Values,      \* the values of the property
    NoStatus,    \* no status: nothing known yet, or an answer without one
    Cooldown,    \* Debouncer cooldown after a requested refresh, in seconds
    MaxPushes,   \* bound: MQTT messages on their way
    MaxUpsets    \* bound: remote-control changes, disconnections, failing polls

ASSUME CoordinatorAssumption ==
    /\ NoStatus \notin Values
    /\ Cooldown \in Nat \ {0}
    /\ MaxPushes \in Nat
    /\ MaxUpsets \in Nat

VARIABLES
    value,              \* the property in the device
    reported,           \* what the cloud was last told of it
    online,             \* is the device connected to LG's cloud?
    upsets,             \* how many upsets happened so far
    pushes,             \* MQTT messages on their way, oldest first
    status,             \* what device.get_status() returns here
    lastUpdateSuccess,
    deviceReachable,    \* _device_reachable
    poll,               \* the REST refreshes, by who started them
    cooldown,           \* seconds left on the Debouncer's timer, or NoTimer
    executeAtEnd        \* the Debouncer refreshes when its timer fires

deviceVars == <<value, reported, pushes>>
cloudVars == <<deviceVars, online, upsets>>
dataVars  == <<status, lastUpdateSuccess, deviceReachable>>
timerVars == <<cooldown, executeAtEnd>>
coordVars == <<cloudVars, dataVars, poll, timerVars>>

NoTimer == -1

(* The hourly refresh and the Debouncer's.  The Debouncer's is "applied"   *)
(* from the moment its answer is in until its caller runs again: all that  *)
(* time its lock is held.  Nobody waits for the hourly one.                *)
Refreshers == {"hourly", "debounced"}
Idle       == [phase |-> "idle", body |-> NoStatus]
Asked      == [phase |-> "asked", body |-> NoStatus]
Applied    == [phase |-> "applied", body |-> NoStatus]
Answered(b) == [phase |-> "answered", body |-> b]
PollStates == {Idle, Asked, Applied} \cup {Answered(b) : b \in Values \cup {NoStatus}}

CoordTypeOK ==
    /\ value \in Values
    /\ reported \in Values
    /\ online \in BOOLEAN
    /\ upsets \in 0..MaxUpsets
    /\ pushes \in Seq(Values)
    /\ status \in Values \cup {NoStatus}
    /\ lastUpdateSuccess \in BOOLEAN
    /\ deviceReachable \in BOOLEAN
    /\ poll \in [Refreshers -> PollStates]
    /\ cooldown \in NoTimer..Cooldown
    /\ executeAtEnd \in BOOLEAN

(* After async_setup_entry: the first refresh either succeeded or failed   *)
(* and was tolerated, and the hourly refresh is scheduled.                 *)
CoordInit ==
    /\ value \in Values
    /\ reported = value
    /\ online = TRUE
    /\ upsets = 0
    /\ pushes = <<>>
    /\ \/ status = value    /\ lastUpdateSuccess = TRUE
       \/ status = NoStatus /\ lastUpdateSuccess = FALSE
    /\ deviceReachable = TRUE
    /\ poll = [r \in Refreshers |-> Idle]
    /\ cooldown = NoTimer
    /\ executeAtEnd = FALSE

available == lastUpdateSuccess /\ deviceReachable

-----------------------------------------------------------------------------
(* LG's cloud. *)

Upset == upsets < MaxUpsets /\ upsets' = upsets + 1

(* The device takes the value v.  While it is connected it tells the cloud *)
(* and, if the value is a new one, the cloud reports it over MQTT; that    *)
(* report may be lost.                                                     *)
Take(v) ==
    /\ value' = v
    /\ reported' = IF online THEN v ELSE reported
    /\ \/ UNCHANGED pushes
       \/ online /\ v # value /\ Len(pushes) < MaxPushes /\ pushes' = Append(pushes, v)

RemoteChange ==
    /\ Upset
    /\ \E v \in Values \ {value} : Take(v)
    /\ UNCHANGED <<online, dataVars, poll, timerVars>>

Disconnect ==
    /\ Upset
    /\ online /\ online' = FALSE
    /\ UNCHANGED <<deviceVars, dataVars, poll, timerVars>>

Reconnect ==
    /\ ~online /\ online' = TRUE
    /\ reported' = value
    /\ UNCHANGED <<value, upsets, pushes, dataVars, poll, timerVars>>

(* The REST status call: the value the cloud knows, or an error or an      *)
(* empty body.  A device that is offline may have either.                  *)
AnswerPoll(r) ==
    /\ poll[r] = Asked
    /\ \/ poll' = [poll EXCEPT ![r] = Answered(reported)] /\ UNCHANGED upsets
       \/ /\ poll' = [poll EXCEPT ![r] = Answered(NoStatus)]
          /\ IF online THEN Upset ELSE UNCHANGED upsets
    /\ UNCHANGED <<deviceVars, online, dataVars, timerVars>>

-----------------------------------------------------------------------------
(* The coordinator. *)

mark_unreachable == deviceReachable' = FALSE
mark_reachable   == deviceReachable' = TRUE

(* Debouncer.async_cancel *)
CancelDebounce == cooldown' = NoTimer /\ executeAtEnd' = FALSE

(* mutant: a status does not clear the unreachable flag *)
MutUpdateStatus(s) == status' = s /\ lastUpdateSuccess' = TRUE /\ UNCHANGED deviceReachable

(* device.update_status followed by what makes the update a success *)
UpdateStatus(s) ==
    /\ status' = s
    /\ lastUpdateSuccess' = TRUE
    /\ mark_reachable

handle_mqtt_status ==
    /\ pushes # <<>>
    /\ pushes' = Tail(pushes)
    /\ UpdateStatus(Head(pushes))
    /\ CancelDebounce
    /\ UNCHANGED <<value, reported, online, upsets, poll>>

(* The scheduled refresh fires: the interval (3600 s) is far longer than a *)
(* REST call, so the previous one has ended.                               *)
HourlyRefresh ==
    /\ poll["hourly"] = Idle
    /\ poll' = [poll EXCEPT !["hourly"] = Asked]
    /\ CancelDebounce
    /\ UNCHANGED <<cloudVars, dataVars>>

(* The rest of _async_update_data, in async_refresh, once r's answer is in *)
ApplyPoll(r) ==
    /\ poll[r].phase = "answered"
    /\ IF poll[r].body = NoStatus
       THEN lastUpdateSuccess' = FALSE /\ UNCHANGED <<status, deviceReachable>>
       ELSE UpdateStatus(poll[r].body)
    /\ poll' = [poll EXCEPT ![r] = IF r = "debounced" THEN Applied ELSE Idle]
    /\ UNCHANGED <<cloudVars, timerVars>>

(* mutant: a refresh that is running does not hold the others off *)
MutRunsRefresh == cooldown = NoTimer

(* async_request_refresh (Debouncer.async_call): inside the cooldown it    *)
(* only asks for a refresh at the end of it, and while a requested refresh *)
(* runs it does nothing.  RunsRefresh says that the caller awaits a poll.  *)
RunsRefresh == cooldown = NoTimer /\ poll["debounced"] = Idle

async_request_refresh ==
    \/ /\ RunsRefresh
       /\ poll' = [poll EXCEPT !["debounced"] = Asked]
       /\ CancelDebounce
    \/ /\ cooldown # NoTimer
       /\ executeAtEnd' = TRUE
       /\ UNCHANGED <<poll, cooldown>>
    \/ /\ cooldown = NoTimer /\ poll["debounced"] # Idle
       /\ UNCHANGED <<poll, timerVars>>

(* The Debouncer's caller runs again: the lock is freed, the timer starts. *)
ReleaseDebouncer ==
    /\ poll["debounced"] = Applied
    /\ poll' = [poll EXCEPT !["debounced"] = Idle]
    /\ cooldown' = Cooldown
    /\ UNCHANGED executeAtEnd

(* Debouncer._on_debounce, then _handle_timer_finish without a break *)
CooldownEnds ==
    /\ cooldown = 0
    /\ CancelDebounce
    /\ poll' = IF executeAtEnd /\ poll["debounced"] = Idle
               THEN [poll EXCEPT !["debounced"] = Asked] ELSE poll
    /\ UNCHANGED <<cloudVars, dataVars>>

CooldownTick == cooldown' = IF cooldown > 0 THEN cooldown - 1 ELSE cooldown

=============================================================================
