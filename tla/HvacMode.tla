-------------------------------- MODULE HvacMode --------------------------------
(***************************************************************************)
(* async_set_hvac_mode and hvac_mode (climate.py).  The air conditioner's  *)
(* mode is two PAT properties, on/off and the job mode, that are set by    *)
(* two requests Settle seconds apart and reported one at a time.  For      *)
(* Window seconds after a call hvac_mode shows what was asked for; then it *)
(* combines the two properties again.                                      *)
(*                                                                         *)
(* Time is in seconds.  The refreshes of the PAT coordinator are one step  *)
(* here: PatCoordinator has their overlaps.                                *)
(***************************************************************************)
EXTENDS Naturals

CONSTANTS
    Jobs,         \* the job modes
    Off,          \* HVACMode.OFF, POWER_OFF
    MaxCalls,     \* bound: how many calls are made
    Mode,         \* the hvac mode that each of them sets
    Window,       \* _HVAC_MODE_OPTIMISTIC_WINDOW_SECONDS
    Settle,       \* _POWER_ON_SETTLE_SECONDS
    RetryDelay,   \* _PAT_RETRY_DELAY_SECONDS
    MaxTrip,      \* the longest that a PAT request takes
    MaxBusy       \* bound: busy answers that have no cause in this model

Calls == 1..MaxCalls
Modes == Jobs \cup {Off}

ASSUME HvacAssumption ==
    /\ Off \notin Jobs
    /\ MaxCalls \in Nat \ {0}
    /\ Mode \in [Calls -> Modes]
    /\ {Window, Settle, RetryDelay} \subseteq Nat \ {0}
    /\ {MaxTrip, MaxBusy} \subseteq Nat

VARIABLES
    device,     \* the air conditioner: is it on, and its job mode
    busy,       \* busy answers so far
    copy,       \* the coordinator's copy of the two properties
    issued,     \* calls made so far
    lastMode,   \* _last_hvac_mode
    window,     \* seconds until _hvac_mode_optimistic_until
    pc,         \* where each call is
    retried,    \* the calls whose _send_command runs for the second time
    timer       \* seconds left of its sleep, or of its request

lgVars   == <<device, busy>>
showVars == <<issued, lastMode, window>>
callVars == <<pc, retried, timer>>
vars == <<lgVars, copy, showVars, callVars>>

Asking   == {"off", "on", "job"}        \* a request is on its way
Sleeping == {"settling", "waiting"}
Ended    == {"done", "raised"}
Stages   == {"idle"} \cup Asking \cup Sleeping \cup Ended
Running(c) == pc[c] \in Asking \cup Sleeping

States == [power : BOOLEAN, job : Jobs]

(* What the variables range over. *)
TypeOK ==
    /\ device \in States
    /\ busy \in 0..MaxBusy
    /\ copy \in States
    /\ issued \in 0..MaxCalls
    /\ lastMode \in Modes
    /\ window \in 0..Window
    /\ pc \in [Calls -> Stages]
    /\ retried \subseteq Calls
    /\ timer \in [Calls -> 0..(Settle + RetryDelay + MaxTrip)]

Init ==
    /\ device \in States
    /\ busy = 0
    /\ copy = device
    /\ issued = 0
    /\ lastMode = Off
    /\ window = 0
    /\ pc = [c \in Calls |-> "idle"]
    /\ retried = {}
    /\ timer = [c \in Calls |-> 0]

ModeOf(s) == IF s.power THEN s.job ELSE Off

(* mutant: what was asked for is shown until something else is *)
MutHvacMode == IF issued > 0 THEN lastMode ELSE ModeOf(copy)

hvac_mode == IF window > 0 THEN lastMode ELSE ModeOf(copy)

-----------------------------------------------------------------------------
Goto(c, stage, seconds) ==
    /\ pc' = [pc EXCEPT ![c] = stage]
    /\ timer' = [timer EXCEPT ![c] = seconds]

Show(c) ==
    /\ lastMode' = Mode[c]
    /\ window' = Window

(* _send_command: it reads the copy each time it is called. *)
SendCommand(c) ==
    Goto(c, IF Mode[c] = Off THEN "off" ELSE IF copy.power THEN "job" ELSE "on", MaxTrip)

Issue(c) ==
    /\ c = issued + 1 /\ issued' = c
    /\ Show(c)
    /\ SendCommand(c)
    /\ UNCHANGED <<lgVars, copy, retried>>

(* A request is accepted.  Power-on is followed by a pause. *)
Accepted(c) ==
    /\ pc[c] \in Asking
    /\ \/ pc[c] = "off" /\ device' = [device EXCEPT !.power = FALSE] /\ Goto(c, "done", 0)
       \/ pc[c] = "on"  /\ device' = [device EXCEPT !.power = TRUE]  /\ Goto(c, "settling", Settle)
       \/ /\ pc[c] = "job" /\ device.power
          /\ device' = [device EXCEPT !.job = Mode[c]]
          /\ Goto(c, "done", 0)
    /\ UNCHANGED <<busy, copy, showVars, retried>>

PowerSettled(c) ==
    /\ pc[c] = "settling" /\ timer[c] = 0
    /\ Goto(c, "job", MaxTrip)
    /\ UNCHANGED <<lgVars, copy, showVars, retried>>

(* The call ends with an error: nothing optimistic is shown any more. *)
Raise(c) ==
    /\ Goto(c, "raised", 0)
    /\ window' = 0
    /\ UNCHANGED <<issued, lastMode, retried>>

(* Busy, or the job mode of a device that is off (2304): once more, later. *)
Busy(c) ==
    /\ pc[c] \in Asking
    /\ \/ pc[c] = "job" /\ ~device.power /\ UNCHANGED busy
       \/ busy < MaxBusy /\ busy' = busy + 1
    /\ IF c \in retried
       THEN Raise(c)
       ELSE Goto(c, "waiting", RetryDelay) /\ UNCHANGED <<showVars, retried>>
    /\ UNCHANGED <<device, copy>>

Retry(c) ==
    /\ pc[c] = "waiting" /\ timer[c] = 0
    /\ retried' = retried \cup {c}
    /\ SendCommand(c)
    /\ UNCHANGED <<lgVars, copy, showVars>>

(* Any other error.  What was powered on stays on. *)
Refused(c) ==
    /\ pc[c] \in Asking
    /\ Raise(c)
    /\ UNCHANGED <<lgVars, copy>>

(* NOT_CONNECTED_DEVICE: the call returns, and the window stays open. *)
NotConnected(c) ==
    /\ pc[c] \in Asking
    /\ Goto(c, "done", 0)
    /\ UNCHANGED <<lgVars, copy, showVars, retried>>

-----------------------------------------------------------------------------
(* A push reports one property; it may be late, or lost. *)
Push ==
    /\ \/ copy' = [copy EXCEPT !.power = device.power]
       \/ copy' = [copy EXCEPT !.job = device.job]
    /\ UNCHANGED <<lgVars, showVars, callVars>>

(* A refresh reads both. *)
Refresh ==
    /\ copy' = device
    /\ UNCHANGED <<lgVars, showVars, callVars>>

WindowTick == window' = IF window > 0 THEN window - 1 ELSE 0

(* One second.  What is due happens before time goes on. *)
Tick ==
    /\ \A c \in Calls : Running(c) => timer[c] > 0
    /\ timer' = [c \in Calls |-> IF Running(c) THEN timer[c] - 1 ELSE 0]
    /\ WindowTick
    /\ UNCHANGED <<lgVars, copy, issued, lastMode, pc, retried>>

CallStep(c) ==
    Accepted(c) \/ PowerSettled(c) \/ Busy(c) \/ Retry(c) \/ Refused(c) \/ NotConnected(c)

Next ==
    \/ \E c \in Calls : Issue(c) \/ CallStep(c)
    \/ Push \/ Refresh \/ Tick

Spec == Init /\ [][Next]_vars

(* Requests end, time passes, the coordinator refreshes now and then. *)
FairSpec ==
    Spec /\ WF_vars(Refresh) /\ WF_vars(Tick) /\ \A c \in Calls : WF_vars(CallStep(c))

-----------------------------------------------------------------------------
(* Calls that overlap, fail half way or find the device offline: when all  *)
(* is over, hvac_mode shows the mode that the device is in.                *)
SettlesOnTruth == <>[](hvac_mode = ModeOf(device))
=============================================================================
