----------------------------- MODULE CommandContract -----------------------------
(***************************************************************************)
(* What the caller of async_send_pat_command (coordinator_pat.py) may rely *)
(* on, whatever the retries, refreshes and other calls in between: a call  *)
(* that the cloud acknowledged, or that found the device offline, returns  *)
(* quietly; any other call without `verify` raises.                        *)
(***************************************************************************)
CONSTANTS
    Calls,
    Verifiable   \* calls that may also end because the device has the value

VARIABLES
    stage,         \* where the caller sees each call
    acknowledged,  \* calls that the cloud acknowledged
    foundOffline   \* calls that found the device offline

vars == <<stage, acknowledged, foundOffline>>

Init ==
    /\ stage = [c \in Calls |-> "idle"]
    /\ acknowledged = {}
    /\ foundOffline = {}

Settled == acknowledged \cup foundOffline

Issue(c) ==
    /\ stage[c] = "idle"
    /\ stage' = [stage EXCEPT ![c] = "open"]
    /\ UNCHANGED <<acknowledged, foundOffline>>

(* At most one verdict, and only while the call is open *)
Settle(c) ==
    /\ stage[c] = "open" /\ c \notin Settled
    /\ \/ acknowledged' = acknowledged \cup {c} /\ UNCHANGED foundOffline
       \/ foundOffline' = foundOffline \cup {c} /\ UNCHANGED acknowledged
    /\ UNCHANGED stage

ReturnQuietly(c) ==
    /\ stage[c] = "open" /\ c \in Settled \cup Verifiable
    /\ stage' = [stage EXCEPT ![c] = "done"]
    /\ UNCHANGED <<acknowledged, foundOffline>>

Raise(c) ==
    /\ stage[c] = "open" /\ c \notin Settled
    /\ stage' = [stage EXCEPT ![c] = "raised"]
    /\ UNCHANGED <<acknowledged, foundOffline>>

Next == \E c \in Calls : Issue(c) \/ Settle(c) \/ ReturnQuietly(c) \/ Raise(c)

Spec == Init /\ [][Next]_vars
=============================================================================
