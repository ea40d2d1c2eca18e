--------------------------- MODULE TargetTemperature ---------------------------
(***************************************************************************)
(* async_set_temperature (climate.py) through wideq: the new value is      *)
(* shown at once; a task waits out the debounce window, sends the latest   *)
(* value of the burst, and rolls the display back if the send fails.       *)
(* Calls are numbered in the order in which they are made.                 *)
(***************************************************************************)
EXTENDS WideqCommand

CONSTANTS
    MaxCalls,   \* bound: how many calls are made
    Restored    \* the temperature shown and set at the start

ASSUME TemperatureAssumption ==
    /\ MaxCalls \in Nat
    /\ Sends = 1..MaxCalls
    /\ NoSend = 0
    /\ Restored \notin Values

VARIABLES
    shown,      \* _last_target_temperature
    rollback,   \* _temperature_rollback_value
    pending,    \* _pending_temperature_task, or NoSend
    waiting,    \* the tasks that sleep in the debounce window
    issued,     \* calls made so far
    removed,    \* the entity was removed
    overlapped  \* history: a call was made while an earlier one was being sent

burstVars == <<pending, waiting, issued, removed, overlapped>>
vars == <<wideqVars, shown, rollback, burstVars>>

Temps == Values \cup {Restored}

TypeOK ==
    /\ WideqTypeOK
    /\ shown \in Temps
    /\ rollback \in Temps
    /\ pending \in Sends \cup {NoSend}
    /\ waiting \subseteq Sends
    /\ issued \in Sends \cup {0}
    /\ removed \in BOOLEAN
    /\ overlapped \in BOOLEAN

Init ==
    /\ WideqInit
    /\ shown = Restored
    /\ rollback = Restored
    /\ pending = NoSend
    /\ waiting = {}
    /\ issued = 0
    /\ removed = FALSE
    /\ overlapped = FALSE

(* mutant: a cancelled task goes on *)
MutCancel(tasks) == waiting' = waiting \cup tasks

Cancel(tasks) == waiting' = waiting \ tasks

(* mutant: a newer call does not cancel the pending one *)
MutSetTemperature(s) ==
    /\ s = issued + 1 /\ ~removed
    /\ overlapped' = (overlapped \/ ~Quiet)
    /\ rollback' = IF pending = NoSend THEN shown ELSE rollback
    /\ waiting' = waiting \cup {s}
    /\ pending' = s
    /\ issued' = s
    /\ shown' = Wanted[s]
    /\ UNCHANGED <<wideqVars, removed>>

(* mutant: every call of a burst remembers what is shown *)
MutRollback(s) ==
    /\ s = issued + 1 /\ ~removed
    /\ overlapped' = (overlapped \/ ~Quiet)
    /\ rollback' = shown
    /\ waiting' = (waiting \ {pending}) \cup {s}
    /\ pending' = s
    /\ issued' = s
    /\ shown' = Wanted[s]
    /\ UNCHANGED <<wideqVars, removed>>

(* The value to roll back to is remembered when a burst starts. *)
SetTemperature(s) ==
    /\ s = issued + 1 /\ ~removed
    /\ overlapped' = (overlapped \/ ~Quiet)
    /\ rollback' = IF pending = NoSend THEN shown ELSE rollback
    /\ waiting' = (waiting \ {pending}) \cup {s}
    /\ pending' = s
    /\ issued' = s
    /\ shown' = Wanted[s]
    /\ UNCHANGED <<wideqVars, removed>>

(* What _async_debounced_set_temperature does as soon as its send returns *)
RollBackUnlessSent(s) ==
    shown' = IF result'[s] \in {"skipped", "error"} THEN rollback ELSE shown

DebounceEnds(s) ==
    /\ s \in waiting
    /\ Cancel({s})
    /\ pending' = NoSend
    /\ Start(s)
    /\ RollBackUnlessSent(s)
    /\ UNCHANGED <<rollback, issued, removed, overlapped>>

Send(s) ==
    /\ SendStep(s)
    /\ RollBackUnlessSent(s)
    /\ UNCHANGED <<rollback, burstVars>>

(* async_will_remove_from_hass *)
Remove ==
    /\ ~removed /\ removed' = TRUE
    /\ Cancel({pending})
    /\ pending' = NoSend
    /\ UNCHANGED <<wideqVars, shown, rollback, issued, overlapped>>

Cloud ==
    /\ SessionChanges \/ \E s \in Sends : Serve(s)
    /\ UNCHANGED <<shown, rollback, burstVars>>

Next ==
    \/ \E s \in Sends : SetTemperature(s) \/ DebounceEnds(s) \/ Send(s)
    \/ Cloud
    \/ Remove

Spec == Init /\ [][Next]_vars

(* The debounce timer fires, tasks run, and the cloud answers or the       *)
(* request times out.                                                      *)
FairSpec ==
    Spec /\ \A s \in Sends :
        WF_vars(DebounceEnds(s)) /\ WF_vars(Send(s)) /\ WF_vars(Cloud /\ Serve(s))

-----------------------------------------------------------------------------
Settled == Quiet /\ waiting = {}

(* A send is transmitted again. *)
Retransmits(s) == pc[s] \notin {"idle", "sending"} /\ pc'[s] = "sending"

(* Of the values of a burst only the latest starts to be sent, and only    *)
(* while its entity is there.  What was started may be transmitted once    *)
(* more, after a login or a delay, although a newer call has superseded it *)
(* by then or the entity is gone: that retry is the only transmission of   *)
(* such a value.                                                           *)
OnlyLatestIsStarted ==
    [][\A s \in Sends :
          /\ pc[s] = "idle" /\ pc'[s] # "idle" => s = issued /\ s = pending /\ ~removed
          /\ Retransmits(s) => /\ try[s] = "first" /\ try'[s] # "first"
                               /\ reply[s] \in {"notLoggedIn", "busy"}]_vars

(* Once everything is over, the display shows what the cloud acknowledged  *)
(* last, if no burst overlapped with the sending of an earlier one.        *)
ShowsLastAcknowledged ==
    Settled /\ ~removed /\ ~overlapped =>
        shown = IF lastAcked = NoSend THEN Restored ELSE Wanted[lastAcked]

(* The latest call always comes to an end: it is sent, skipped or fails,   *)
(* unless its entity is removed.                                           *)
LatestCallEnds == \A s \in Sends : issued = s ~> issued > s \/ pc[s] = "ended" \/ removed
=============================================================================
