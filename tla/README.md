# A verification of my_lg

`my_lg` is a Home Assistant integration for LG appliances. It uses two backends
at once: LG's official one ("PAT", through the library *thinqconnect*: REST calls
and MQTT pushes) and LG's unofficial one ("wideq", a vendored client that logs in
as the phone app does). Everything runs on Home Assistant's event loop: a handler
is atomic between two `await`s, and between any two of them anything else may run.
That is where the interesting failures are: a service call is a chain of requests,
sleeps and refreshes, and pushes, polls, other calls, logins and the end of the
appliance's work fall in between.

This directory holds TLA+ models of those parts, the TLC configurations that check
them on small instances, and TLAPS proofs of what matters most for every instance.
Paths are relative to `src/custom_components/my_lg/` unless they start with `src/`.

## 1. Inventory

| component | state | operations | talks to | hard part | correct when |
|---|---|---|---|---|---|
| PAT device coordinator (`coordinator_pat.py` 156-298) | the copy of the device's status, `last_update_success`, `_device_reachable`, the Debouncer | push, hourly and requested refresh, mark (un)reachable | MQTT, REST, every PAT entity | a refresh is in flight while pushes and other refreshes are applied | the copy and the availability settle on the truth; one requested refresh at a time |
| PAT command engine (`coordinator_pat.py` 45-90, 300-460) | where each service call is | `async_send_pat_command`, with or without `verify` | REST, the coordinator | retries, late effects, calls of several entities | the cloud's verdict is final; no failure is hidden; every call ends |
| Switch, dehumidifier (`switch.py`, `humidifier.py`) | a few attributes | turn on/off, set mode or humidity | the command engine | - | they pass the right value |
| Air conditioner, mode (`climate.py` 88-121, 278-395) | `_last_hvac_mode`, `_hvac_mode_optimistic_until` | `async_set_hvac_mode` | the command engine, the coordinator | two requests, one display; the window, the retry | the display shows no mixture and settles on the truth |
| Air conditioner, wideq commands (`climate.py` 523-646) | per call; the reauth and reachable flags | `_async_send_wideq_command` | wideq session, runtime data | expired, revoked session; retry | at most two transmissions; flags follow the answers |
| Air conditioner, temperature (`climate.py` 221-276, 397-521) | `_last_target_temperature`, `_temperature_rollback_value`, `_pending_temperature_task` | `async_set_temperature`, the debounced task, removal | wideq commands | bursts, cancellation, overlapping sends | only the latest value is started; the display ends on what was applied |
| Air conditioner, fan and swing (`climate.py` 648-675) | `_last_fan_mode`, `_last_swing_mode` | two setters | wideq commands | overlapping commands | only acknowledged modes are shown |
| Reauth flag (`__init__.py` 84-171, 340-368) | `wideq_reauth_needed` | set, cleared | all users of wideq | checked before an `await`, written after it | a final revocation is noticed and stays noticed |
| AC filter coordinator (`sensor.py` 90-152) | the filter data | poll | wideq, the flag | as above | as above |
| Washer course coordinator (`coordinator_course.py`) | `_is_polling_active`, `update_interval`, the course | PAT listener, poll | PAT coordinator, wideq, the flag | polls overlap with the end and the start of runs | polling never stalls, an idle washer is not polled, the running course is shown |
| Entry set-up, unload, reload (`__init__.py` 177-420) | `RuntimeData` | set-up, hourly login, reload, unload | everything | a step fails half way; an event during an unload | nothing is leaked, nothing is used after it was closed |
| MQTT client (`mqtt.py`) | client, subscriptions | connect, subscribe, messages, disconnect | a thread of its own | hand-over to the event loop; a failing subscription | no message after the end, subscriptions are undone |
| wideq login and session (`wideq/core_async.py`) | token, session, device list | login, refresh, close | LG's web services | several callers renew the same session | one live session, never an old token after a new one |
| wideq device monitor (`wideq/device.py`) | class-wide connection state, error counters | poll, reconnect | session, client | shared state of all monitors, rate limits | a lost connection is restored; errors become critical only when they persist; no poll waits for ever |
| wideq error mapping (`wideq/core_async.py`, `core_exceptions.py`) | - | answer to exception | commands, polls | a code that is lost on the way | what is retried is what the lists say |
| wideq washer (`wideq/devices/washerDryer.py`, `wideq/device.py` 380-1153) | run states, end of the cycle, what remote start is called with, `_control_set` | poll, readings that update what they read, remote start, pause, wake up, power off | monitor, session, model information | polls sample a washer that goes on by itself; commands, readings and polls interleave | an end is reported, a start carries the chosen course, control permissions are given back |
| wideq model information (`wideq/model_info.py`, `device_info.py`) | tables | lookups, bits of an option byte, decoding of V1 frames | devices | short and unreadable frames | a bit is written without its neighbours |
| wideq transport (`wideq/core_async.py`, `core_util.py`) | - | HTTP, signatures, login forms | LG | - | - |
| Device router and set-up of the devices (`device_router.py`, `__init__.py` 204-337, the platforms' `async_setup_entry`) | `RuntimeData`'s devices and coordinators | matches PAT and wideq devices by kind and name, makes entities | set-up | a request of one device fails; names change between the two lists; the fan mode is kept only as the last state of an entity | if the set-up is completed, every device is served by its own wideq device and one that fails costs the others nothing; the fan mode survives |
| Config flow (`config_flow.py`) | the two forms | validate, create, reauthenticate | set-up | - | no entry with bad credentials |
| Sensors, binary sensors (`sensor.py`, `binary_sensor.py`) | - | views of the coordinators | coordinators | - | - |
| Home Assistant core, thinqconnect | Debouncer, DataUpdateCoordinator | external | everything | the Debouncer's lock and timer | modelled as the code uses them |

How they interact: an entity's service call goes through the command engine (PAT) or
through `_async_send_wideq_command` (wideq). Both end by changing what other
entities see: the coordinator's copy, its reachable flag, the reauth flag. Pushes and
refreshes change the same copy. The course coordinator listens to the washer's PAT
coordinator to decide whether wideq may be polled. The reauth flag is the only brake on
wideq: each user looks at it before it starts and writes it when its answer is in.

The hazards, each at its line, are in `PROJECT.json`; they are what the properties are
for.

## 2. The modules

| module | models | state and actions |
|---|---|---|
| `PatCoordinator` | `PatDeviceCoordinator` for one property of one device | `status`, `lastUpdateSuccess`, `deviceReachable` as in the code. A refresh is three steps: asked, answered by the cloud (`AnswerPoll`), applied (`ApplyPoll`). `reported` is what the cloud was last told: a poll of a device that is offline may succeed with it, as the class's comments say, or fail. `cooldown`, `executeAtEnd` and the poll "debounced" are the Debouncer: its timer, its deferred call, its lock. `pushes` are messages on their way; a push may be lost. |
| `PatCommand` (extends `PatCoordinator`) | `async_send_pat_command`, several calls at a time | `pc` is the `await` a call stands at; `attempt`, `answer`, `sleep` are its locals. One action per stretch of code between two awaits: `Succeed`, `Fail`, `Offline`, `Sleep`, `Retry`, `RefreshAndVerify`, `Refreshed`. The cloud may acknowledge, refuse as busy (and apply the command later all the same, `ApplyLate`), as offline, or fail with or without an effect. |
| `CommandContract` | what a caller may rely on | the abstract specification of `PatCommand`: one verdict at most, a settled call returns quietly, another call without `verify` raises |
| `HvacMode` | `async_set_hvac_mode`, `hvac_mode` | the device's two properties and the copy of them, which pushes update one at a time; the optimistic window and the sleeps in seconds |
| `WideqCommand` | `_async_send_wideq_command` | `pc`, `try`, `reply`, `result` per send; LG's view of the session; the reauth and reachable flags. A library for the next two modules, which say what the sender does with `result'` in the same step. |
| `WideqContract` | what the caller of a wideq command may rely on | the abstract specification of the commands in `WideqReauth`: two transmissions at most (`sent` says what the second one waited for), none after a definite answer, True only if acknowledged, no silent skip without the flag, a refusal leaves the flag set, an offline device is an error only behind a login |
| `TargetTemperature` (extends `WideqCommand`) | `async_set_temperature` and its debounced task | `shown`, `rollback`, `pending` are the entity's attributes; `waiting` are the tasks in their debounce window; calls are numbered in the order they are made. `overlapped` is a history variable that no action reads. |
| `WideqReauth` (extends `WideqCommand`) | fan and swing commands, the course poll, the filter poll, the hourly login, and the flag they share | `poll` is what each of the two polls is doing; `invalidCount` is `_invalid_credential_count`, by which `Monitor.refresh` hides the first refusals from the course poll; `shownMode` is `_last_fan_mode` |
| `WasherCourse` | `WasherCourseCoordinator` | `polling` is `_is_polling_active` (with it `update_interval` is set), `timer` the scheduled refresh, `poll` the calls of `_async_update_data` in flight, of which several may overlap |
| `EntryLifecycle` | `async_setup_entry`, `async_unload_entry`, `_async_refresh_wideq_auth` and the connection and subscriptions of `ThinQMQTT` | `stage` is the `await` at which set-up or unload stands, or the state Home Assistant gives the entry; `client` the wideq client, `manager` `runtime_data.mqtt_client`, `link` the MQTT connection, `subscribed` what LG remembers; `tick` and `renewal` are the tasks of the two timers, which outlive the entry that started them |
| `ClientSession` | `ClientAsync`, `Session` and `Auth` as several callers use them at once, with closing and replacing the client | `session` is what the token of a client's session is: set, taken by a refresh, lost by a failed one; `apart` says that client and session hold different `Auth`s; `via` is the reason of a login that is awaited, `takers` who took a token. A library for the next module. |
| `DeviceMonitor` (extends `ClientSession`) | `Monitor` of V1 and V2 washers | `pc` is the `await` a poll stands at, `iteration`, `refused` (`err9012raised`) its locals; `shared` the class's `_client_connected` and `_critical_error` and the 10 s after a reconnection; `notLogged` is `_not_logged_count`; `work` the work ids. `Handle` is the chain of `except` clauses in `Monitor.refresh` |
| `ModelInfo` | what the washers ask of `ModelInfoV1` and `ModelInfoV2` | operators: names of values, option bits, courses, V1 frames |
| `WasherDevice` (extends `ModelInfo`) | `WMDevice` and `WMStatus` on top of `Device` | the appliance moves by itself (`WasherMoves`); `stage` is the poll, `status` the `WMStatus`, `runStates` the two latest run states, `copy`, `pressed`, `standBy`, `initialBit`, `selected` what remote start depends on, `completed`, `finishing` the end of the cycle, `controlSet` and `permission` a V1 command's permission; `pc`, `cmd`, `payload` the commands in flight |
| `DeviceSetup` | `async_setup_entry` device by device, the router, the platforms | `phase` and `next` are where the set-up stands, `failed` if an exception that nobody caught ended it (`SetUpFails`); a failure of one device's request is `troubled`; `available` are the coordinators that are; `fan` is the fan mode shown, `saved` and `stored` the last states that Home Assistant has in memory and on the disk, which are those of an unavailable entity without its mode (`LastState`). History: `commanded` is the mode commanded last, `mislaid` and `onDisk` say of the two copies whether the mode is missing or older, and why |
| `MC*` | instances for TLC | values for the constants |
| `*Proofs` | theorems about the module of that name (`WideqCommand` has none of its own: each module that extends it is proved with it) | see 5 |

An operator `MutX` next to `X` is a plausible mistake in the code that `X` models. No
specification uses it; replacing `X` by it must break the property named for it
in `PROJECT.json`, which shows that the property says something about the code.

What is abstracted: values, modes and courses are members of small sets. A payload
is the one property that the call sets. Logging, translation of messages, unit
ranges and rounding are left out. Error codes are the classes that the code tells apart
("busy" for the list of transient codes, "offline" for `NOT_CONNECTED_DEVICE` or 0106,
"invalid" for 0110, "notLoggedIn" for 0102, "error" for the rest).

In `ClientSession` and `DeviceMonitor` an error is what `Monitor.refresh` makes of it
(see `Errors` there). In `WasherDevice` one function, Steam, stands for those that a course has a
default for, and one bit, Beep, for those it has not.

What is external: LG's cloud and the devices (any answer at any time, limited by
`MaxUpsets` where it disturbs), MQTT (late, lost; in order for one property), Home
Assistant's Debouncer and DataUpdateCoordinator, `asyncio.sleep` and time.

## 3. What is checked

| run | instance | shows | states |
|---|---|---|---|
| `pat_command` | a verified and a plain call for different values of the property, 1 message on its way, 1 upset, two attempts | `TypeOK`, `VerdictIsFinal`, `RefreshHasOneOwner`, `QuietOnlyIfSettled`, and the refinement `KeepsContract` | 1.8 million |
| `pat_command_live` | the same two calls, one attempt to verify | `CallsEnd`, `EventuallyTrue` | 423,000 |
| `verify_stale` | one verified call, the real delays 10 s, 3 s, three attempts | the finding of section 6 | |
| `temperature` | three calls | `TypeOK`, `ShowsLastAcknowledged`, `OnlyLatestIsStarted`, `LatestCallEnds` | 176,000 |
| `wideq_reauth` | two fan commands, both polls, 1 upset | `TypeOK`, `ShowsAcknowledgedMode`, `RevocationSticks`, and the refinement `KeepsContract` | 591,000 |
| `washer_course` | two courses, up to three polls at once, 2 upsets | `TypeOK`, `NeverStalls`, `NoPollWhenIdle`, `ShowsRunningCourse` | 37,000 |
| `hvac_settles` | two overlapping calls (cool, then off), the real delays | `SettlesOnTruth` | 2,400 |
| `entry_lifecycle` | up to three outages, failures, user actions or restarts, two reloads that wait | `TypeOK`, `UsedClientIsOpen`, `LinkIsHeld`, `NoClientIsLost`, `WideqComesBack`, `EventsAreRenewed` | 38,000 |
| `wideq_session` | a V1 and a V2 washer, the hourly renewal, one reload | `TypeOK`, `NoTokenForgotten`, `ClosedClientIsSilent`, `CriticalAfterFailures` | 2.4 million |
| `wideq_session_live` | two V2 washers, the hourly renewal, no reload; LG comes to stay up | `ConnectionReturns`, `PollsEnd` | 63,000 |
| `washer_device` | a V1 model, a V2 model and one with `vtCtrl`; one caller, two moves of the washer | `TypeOK`, `CompletionReported`, `NoPermissionForgotten`, `ReadingIsStable`, `StartsTheChosenCourse` | 1.8 million |
| `device_setup` | two air conditioners, a washer, a fridge; two names, two fan modes of one of the air conditioners | `TypeOK`, `EveryDeviceIsServed`, `FanModeSurvives` | 3.0 million |

Bounds, and why they are enough:

* `Commands`: the races of the command engine are between two calls (one holds the
  Debouncer's lock, the other asks for it) or between one call and the coordinator.
  One call is verified and one is not, and they set different values. Both runs have both calls: liveness
  is about one that wants the lock which the other, or the timer, holds.
* `MaxPushes` = 1, `MaxUpsets` = 1: one push can overtake a poll, one change of the
  remote control or one disconnection can fall anywhere. `upsets` counts remote
  changes, disconnections and failing polls of an online device; reconnecting is free.
* `Cooldown` = 2, `RetryDelay` = 1, `VerifyAttempts` = 2 in `pat_command`: the cooldown
  is longer than the delay, as 10 s is longer than 3 s, so that the second verification
  falls into it. `pat_command_live` has `Cooldown` = 1 and `VerifyAttempts` = 1, to keep the graph small
  enough for liveness: the verification still asks for a refresh that may be running or put off, and what a
  second attempt adds, another round of the same awaits, is counted by `attempt`, which `pat_command`
  bounds. `verify_stale` uses the real values.
* `MaxCalls` = 3: a burst of two and one more before or after it. The session starts
  valid, expired or revoked, and the hourly login or a command's own may renew it;
  that it changes once more in the middle is left to `wideq_reauth`.
* `MaxInvalidCredential` = 3 in `wideq_reauth` is the code's value.
* `MaxUpsets` in `WideqReauth` counts changes of the session and failing polls, in
  `WasherCourse` failing polls, stale PAT updates and changes of the flag by others.
* `MaxUpsets` = 3 in `entry_lifecycle`: an outage during the set-up, a reload by the user and a
  failure in it may meet; outages end without being counted. `MaxReloads` = 2: the
  reload of a reconnection and the user's.
* `Polls` = three: two polls overlap when the washer stops and restarts during a poll;
  a third does when it happens again.
* `MaxTrip` = 1 s, `MaxBusy` = 1 in `hvac_settles`: requests take 0 or 1 second, and one
  call meets a busy device (`2304`, the job mode of a device that is off, comes on top
  and needs no bound).
* `wideq_session`: two monitors share everything the class has, and one renewal without a lock
  beside them is enough to take a token twice. `MaxClients` = 2 is one reload; a monitor of the old
  client may be anywhere when it comes. `MaxRetries` = 2 is the smallest loop with a retry (3 in
  the code), `MaxFail` = 2 (10 in the code) the smallest for which one failure is not enough, and
  `GatewayAfter` = 2 (30 in the code) makes the third reconnection ask for the gateway;
  `MaxCredential` = 1 (3 in the code) tells the first invalid credential from the second. The theorems of
  section 5 hold for all values.
* `wideq_session_live`: two V2 washers wait for each other at both locks, the class's and the one
  around the list of devices. `MaxClients` = 1 and `MaxCredential` = 0, to keep the graph small enough for
  liveness; `MaySettle` lets LG's servers come to stay up at any moment.
* `washer_device`: the three models differ in all that the code asks of a model. The programs are an
  unknown one and a known course; `Lengths` has a frame that ends behind its first field and a
  complete one. `MaxMoves` = 2 counts the changes of run state (switching on and off, start, pause,
  fault, end): from "init" a cycle runs and ends; from the last minute of a cycle, where the
  washer may be when the integration starts, it ends and is switched off. Any number of polls,
  readings and commands fall between. Switching remote start, choosing a program and the last
  minute are free until the last of these moves; then the washer rests, and polls, readings and commands go on.
* `device_setup`: two devices of one kind can be mixed up, the washer shows that kinds are kept
  apart, the fridge is not supported; with two names they can be the same or different. `FanAcs` bounds
  the air conditioners whose fan mode is followed: no definition relates the fan modes of two of them. Two
  modes tell an older one from the commanded one.

Deadlock: `PatCommand`, `HvacMode`, `WasherCourse`, `DeviceMonitor`, `WasherDevice` and `DeviceSetup` never
stop (time, refreshes, polls and the washer go on), so it is checked there. The temperature and reauth models end when every call
has been made and answered, and an entry that is disabled or failed to unload is at rest
for good: those runs say `CHECK_DEADLOCK FALSE`.

Symmetry is used in `device_setup` only: its names and fan modes are interchangeable, and all its properties
are invariants. Elsewhere the sets are small, their members differ (a V1 and a V2 washer, a verified
and a plain call), or liveness is checked.

## 4. Liveness and fairness

Liveness is checked by TLC only. What is assumed, and why:

* A request is answered (`AnswerCall`, `AnswerPoll`, `Serve`, `Answer`): both clients set a
  timeout, which ends in the "error" answer.
* A task that is ready runs (`CallStep`, `Send`, `EndPoll`, ...): asyncio's loop is fair. In `PatCommand` there is
  one condition per task: each call, the hourly refresh (`HourlyStep`), the Debouncer (`DebouncerStep`).
* Timers fire and time goes on (`Tick`, `CooldownEnds`, `DebounceEnds`, `TimerFires`, `WindowEnds`).
* In `DeviceMonitor` a washer is polled again and again: while a run is on, the course
  coordinator's `update_interval` is set. In `WideqReauth` only the filter is (`StartPoll`), on its own
  interval: the washer may stop for good. An entry that was unloaded for a reload is set up again (`Reload`).
* A lock is granted to whoever waits for it if it is free again and again (`TakeLock`,
  `WaitForList`, strong fairness): `asyncio.Lock` wakes its waiters in the order they came.
* The coordinator refreshes every hour (`HourlyRefresh`, `Refresh`, `PatUpdate`): its
  `update_interval` is set, and a listener is always there.
* A message that is on its way arrives. Messages may be lost before.
* The hourly login (`HourlyRefreshAuth`, `Tick`) and the daily renewal (`StartRenewal`) run on time
  intervals. Home Assistant retries a set-up that is not ready (`HomeAssistantRetries`) and
  takes up a reload when the entry is at rest (`StartReload`).

Nothing makes a user call a service, change the device, reconnect it or renew LG's terms.

`EventuallyTrue` says that the copy and the availability of a PAT device settle on the
truth once it stays connected; the hourly refresh is what it rests on, since pushes may be lost. It says nothing of a
device that stays offline, which nobody notices but a command, and which a poll makes available again
(section 6). `CallsEnd`
holds because the Debouncer is asked, never waited for. `ShowsRunningCourse` needs
that a failing or suppressed poll schedules the next one. `WideqComesBack` goes
through the hourly reconnection, its reload and, if the device list fails meanwhile, Home
Assistant's retry. `ConnectionReturns` needs that a poll
that is refused for being within 10 s of another attempt is followed by one that is not, and
that no round is started without counting it; `PollsEnd` also that every path leaves
the class's lock. `RevocationSticks` holds
although late answers clear the flag, because the filter poll goes on as long as it is clear: the course poll
need not, and three of its refusals in a row are hidden.

## 5. What is proved

The theorems hold for every set of calls, values, polls, courses, programs,
appliances and clients, and for all delays and bounds. They assume only the named `ASSUME`s of the modules: the special
values are none of the ordinary ones, counters and delays are natural numbers, each
call has a value. TLC evaluates them in every run. (`PatCommandProofs` does not use the
finiteness of anything.)

* `PatCommandProofs`: `TypeCorrect`, `VerdictFinal`, `OneOwner`, `QuietSettled`
  and `Refinement` (`Spec => KeepsContract`). The inductive invariant is
  `TypeOK /\ RetriesLeft /\ VerdictIsFinal /\ RefreshHasOneOwner /\ StageMatchesAnswer`.
  `TypeOK` bounds the attempts, so it needs that a call which may try again has attempts left (`RetriesLeft`).
  `RefreshHasOneOwner` is inductive only together with itself in the coordinator's terms:
  a call that awaits a refresh implies that the Debouncer's poll is not idle, so no other
  call starts one. `StageMatchesAnswer` ties the place a call has reached to the answer it
  got (one that sleeps or checks was told "busy"); without it the refinement does not
  follow. The refinement proof maps each action to a step of
  `CommandContract` or to a stutter.
* `TargetTemperatureProofs`: `TypeCorrect`, `LatestStarts`, `DisplayIsApplied`. The inductive
  invariant adds `OneTaskWaits`: the one task that may wait is the pending one and the latest
  call's, and nothing is pending once the entity is removed; `OnlyLatestIsStarted` itself speaks of a step and
  cannot be inductive. It says of the first transmission that it is the latest call's, and of any other that it is
  the one retry of such a transmission. For `ShowsLastAcknowledged` it adds `BurstInv`, which holds as long as no
  burst overlapped with a sending: one task runs at a time (`OneSendRuns`), while a task waits or
  runs the display is what it asks for (`ShownIsAskedFor`) and the rollback value is what the cloud
  acknowledged last, until it acknowledges this one (`RollbackIsApplied`), and at rest the display is that
  value (`RestIsApplied`). A call that fails hands the second back to the fourth.
* `WideqReauthProofs`: `TypeCorrect`, `Acknowledged`, `Refinement` (`Spec => KeepsContract`). The invariant adds that a send whose
  result is "sent" was acknowledged, and that a mode shown belongs to a send that has
  ended: otherwise a later transmission could take the acknowledgement back. The refinement needs
  `PlaceMatchesReply`: a send has no answer before it was sent, and one that awaits a login or a delay
  was answered "notLoggedIn" or "busy" to its first transmission; `SendMoves` lists the ways on of a
  send, each of which is one step of `WideqContract`. It is stated for the commands of `WideqReauth`,
  where sessions come and go; those of `TargetTemperature` are the same actions.
* `WasherCourseProofs`: `TypeCorrect`, `NoStall`, `IdleIsQuiet`. The invariant adds that the
  timer only runs while polling is active: without it a timer of an idle washer
  could fire and poll it.
* `EntryLifecycleProofs`: `TypeCorrect`, `ClientsClosed`, `ClientOpen`, `LinkHeld`. The invariant
  adds `ClientFitsStage`: an entry that is down has no open client, and any other has no
  closed one. The first half is what makes a new set-up drop nothing, the second
  what keeps entities from a closed client; each needs the other across a reload.

* `DeviceMonitorProofs`: `TypeCorrect`, `TokensReturn`, `ClosedIsSilent`, `CriticalIsEarned`. The
  invariant has two halves, proved one after the other. `SessionInv` is about logins: who
  works has a client, who awaits a login has a reason (`LoginHasReason`), whoever took a token still
  waits for the login it is for (`TakersWait`), a renewal of a session that is gone was told so
  (`RenewalHasSession`), and a closed client that is being reconnected is known as late
  (`LateIsKnown`). `NoTokenForgotten` needs the first four: otherwise a login that ends could not be
  told to be the one that returns the token. `MonitorInv` is about the class: one holder of the
  lock (`OneHolder`), and `Counted`, which says that `_not_logged_count` is at most one ahead of the
  reconnections that have failed, for the one under way; `CriticalAfterFailures` follows from it when
  an error is raised. `NextIsThere` adds that a client that is not yet set up has no users.
* `DeviceSetupProofs`: `TypeCorrect`, `FanSurvives`, `DevicesServed`. `FanInv` says of each place that a fan
  mode is in, shown, in memory or on the disk, that it is the mode commanded last unless that
  place's history explains why not (`Fits`). What is shown matters while there is an entity that offers modes, and
  what is in memory while there is none; `WrittenFits` is the step between them, for an unload and for a write to the disk:
  what is written fits what is noted about it. `EveryDeviceIsServed` speaks of a set-up that has been completed, so `ServeInv` says
  of each of its loops what has been done for the devices the loop has passed (`CoordinatorsBuilt`,
  `AcsMatched`, `WashersMatched`, `EntitiesAdded`), what the loops start from (`StartsEmpty`), and that the two
  lists agree while nobody renamed anything (`NamesAgree`). That the router's first match is the device
  itself needs that a first match exists: the least element of a set of positions (`MinIsMember`, by
  well-founded induction) fits, and with unambiguous names only the device fits (`FirstFits`). A device
  that wideq does not list is promised its entities, and no wideq device.
* `WasherDeviceProofs`: `TypeCorrect`, `PermissionReturns`, `CycleReported`, `AskingIsSafe`,
  `StartsChosen`. `TypeInv` has a part for the appliance, the poll, the `WMStatus`, remote start, the
  cycle and the commands, and rests on a lemma for each operator that reads or keeps a report
  (`DecodeTypes`, `TakeStatesTypes`). Over it:
  * `PermissionInv`: only a V1 model has a permission at all; one that is held implies that
    `_control_set` is positive or an answer is in that will make it so (`Handled`), and one still
    held after a deletion was acquired while the deletion was on its way, which left `_control_set` at 2.
  * `CycleInv`: a status whose run state was read is the first of the run states kept, the last
    minute of a run is remembered (`finishing`) as long as the status shows it, and what a command
    writes into a status never makes it a running one. `ReadIsRead` (reading a second time
    changes nothing) serves this proof and `ReadingIsStable`.
  * `CopyInv`: the copy that remote start is called with is a program reported since remote
    start was last seen off.
  * `StartsTheChosenCourse` is about the bytes sent. `OptionBits` and `WrittenBits` say, by arithmetic on
    quotients and remainders, that writing a bit of an option byte leaves the others alone and that it is read
    back; `StartCarries` follows for each of the three kinds of payload.

Only model-checked: the liveness properties (`CallsEnd`, `EventuallyTrue`, `LatestCallEnds`,
`RevocationSticks`, `ShowsRunningCourse`, `SettlesOnTruth`, `WideqComesBack`,
`EventsAreRenewed`, `ConnectionReturns`, `PollsEnd`), since TLAPS does not treat
fairness and ENABLED here; `SettlesOnTruth` is all that is checked of `HvacMode`. All invariants,
action properties and refinements of the passing runs are theorems.

## 6. Finding

`verify_stale` is a run that TLC must find violated; the line it contradicts is in `PROJECT.json`.
The refresh that a verification asks for goes through the Debouncer, which does nothing within 10 s
of the last one. With three attempts 3 s apart `verify()` looks at an old copy, and the switch
reports a failure although the device took the value.

More places where the models do what the code does, and a comment, a docstring or a reader might expect something
else. They are part of the behaviours checked above; no run is kept for them.

* `climate.py:455`: a burst of temperatures that starts while an earlier one is being sent
  remembers the earlier one's optimistic value, and if both fail the display ends on a temperature that
  was never applied. `ShowsLastAcknowledged` is stated for bursts that do not overlap.
* `climate.py:610` and `635`: a temperature that was superseded, or whose entity was removed, while its
  send waited for a login or for the delay is transmitted again all the same. `OnlyLatestIsStarted` says
  so: it promises that such a value is not started, and that nothing but this one retry goes out.
* `climate.py:616`: the docstring of `_async_send_wideq_command` (lines 547-551) says that a device that
  is offline is marked unreachable and that the command returns quietly. The first transmission and the
  one after a delay do so; the one after a login has no branch for it, raises, and the device stays available.
  `WideqContract` promises what the docstring says, with this one exception: it lets a command of an offline device
  raise if it was sent again behind a login, and in no other case.
* `coordinator_pat.py:229`: an offline device is noticed by a command only (comment, lines 203-213, and docstring,
  219-225), and the next poll that succeeds with what the cloud still knows makes the device
  available again, although it is as offline as before. `EventuallyTrue` is about devices that stay connected.
* `coordinator_pat.py:130`: "Could not load PAT profile" is for a `ThinQAPIException`; any other exception of the request, a timeout
  for one, ends the set-up of all devices, and Home Assistant does not try again.
  `EveryDeviceIsServed` is about set-ups that were completed.
* `climate.py:236`: the docstring (lines 221-231) says that the fan mode is repopulated from the last state. The last state of an entity that
  was not available, or that was set up without wideq, has no fan mode, so a reload or a restart in that
  situation forgets it; a crash may bring back an older one. `FanModeSurvives` names both cases.
* `coordinator_course.py:38`: the docstring says that at most one extra poll may still fire right after the washer
  stops. None does: a timer that was set is cancelled when "-" is published (line 98), and a poll in flight
  then schedules nothing. The docstring gives an upper bound, which the code keeps; `NoPollWhenIdle`
  checks the stricter sentence of the module's docstring, that an idle washer is not polled at all.
* `sensor.py:149`: the filter poll clears the reauth flag before it looks whether it got an answer at
  all. `RevocationSticks` is a liveness property for this reason.
* `coordinator_course.py:98`: a poll in flight when the washer stops writes its course over "-", where
  it stays until the next run. `ShowsRunningCourse` is about runs.
* `climate.py:112`: with one retry `async_set_hvac_mode` needs 2 + 3 + 2 seconds and the round trips,
  and the optimistic window that is meant to cover a retry has 6 seconds.

## 7. Plan

Done, in the order of importance: the command engine and the coordinator, the contract and its
refinement, wideq commands, temperature, reauth flag, washer course, hvac mode, entry lifecycle,
the session and the monitors, the washer, the set-up of the devices.

Of the properties, all but the liveness ones are proved.

Next:

1. An abstract optimistic setting (shown value, applied value, pending request), to be
   implemented by `TargetTemperature`, `WideqReauth`'s modes and `HvacMode`.
2. `WideqCommand` over `ClientSession`: its "valid / expired / revoked" as a refinement of the token.
3. The safety half of what the liveness properties say, as far as it can be said of single steps.

## 8. Not modelled, and why

* HTTP transport, signatures, login forms, the first login with name and password: pure I/O
  against a service without documentation.
* Config flow: two forms, each validated by one login; nothing runs beside it.
* Sensors and binary sensors: views without state. Which of them a set-up creates is in
  `DeviceSetup`.
* `WasherDevice` leaves out the sub-device of a tower washer (a second device with keys of its own),
  errors and display options, the emulation mode, and the hours of the remaining time (0, 1 and more
  minutes are told apart). A V1 model is taken to be polled with a work id, and a V2 model with
  the list of devices, as their platform says. The washer is "init" or in its last minute at
  the start; remote start and the program are changed at the appliance in "init" only. Smart courses are in the definitions, and no
  program of the checked instance has one. The commands and the readings are the library's: this integration
  polls the washer, and asks for its course only.
* `DeviceMonitor` leaves out log levels, `stop` and `poll_json`, which nobody here uses. How long a
  token is valid is left open: any refresh may find it near its end.
* Error codes are classes; the tables that map them are not enumerated.
* MQTT's thread is a message on its way.
* `climate.py`'s fallback to PAT for the temperature is a plain call of `PatCommand`; it is not
  composed with `TargetTemperature`. `DeviceSetup` and `EntryLifecycle` are two views of one set-up: what a step
  does for each device, and what it does to the connections.
* `DeviceSetup` follows the fan mode; the swing mode and the temperature are restored from the same last state
  in the same way. A failure of Home Assistant's own storage is left out.
* Turning a unit into another, rounding to a step, and ranges.
