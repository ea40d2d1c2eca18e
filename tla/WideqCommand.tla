------------------------------ MODULE WideqCommand ------------------------------
(***************************************************************************)
(* _async_send_wideq_command (climate.py): fan, swing and temperature      *)
(* commands to the unofficial backend, several of them at a time, and the  *)
(* flag wideq_reauth_needed that they share (RuntimeData, __init__.py).    *)
(*                                                                         *)
(* Each of Sends sets Wanted[s].  A send is transmitted at most twice: the *)
(* first time, and once more either after the session was renewed or after *)
(* a delay.  What follows a send (its caller's code up to the next await)  *)
(* belongs to the modules that extend this one; they look at result'.      *)
(***************************************************************************)
EXTENDS Naturals

CONSTANTS
    Sends,      \* the commands
    Values,     \* what they set
    Wanted,     \* the value each of them sets
    NoSend,     \* "nothing acknowledged yet"
    MaxUpsets   \* bound: how often the session expires or is shut down

ASSUME WideqAssumption ==
    /\ Wanted \in [Sends -> Values]
    /\ NoSend \notin Sends
    /\ MaxUpsets \in Nat

VARIABLES
    session,        \* LG's view: "valid", "expired", "revoked" (terms not accepted)
    upsets,         \* how many upsets happened so far
    lastAcked,      \* the send the cloud acknowledged last
    reauthNeeded,   \* RuntimeData.wideq_reauth_needed
    acReachable,    \* the PAT coordinator's _device_reachable
    pc,             \* where each send is
    try,            \* which transmission it is
    reply,          \* the answer to the last transmission
    result          \* what the function returned or raised

cloudVars  == <<session, upsets, lastAcked>>
flagVars   == <<reauthNeeded, acReachable>>
sendVars   == <<pc, try, reply, result>>
wideqVars  == <<cloudVars, flagVars, sendVars>>

Stages  == {"idle", "sending", "replied", "refreshing", "sleeping", "ended"}
Tries   == {"first", "afterLogin", "afterDelay"}
(* "busy": a WideqAPIError whose code is in _WIDEQ_TRANSIENT_RESULT_CODES; *)
(* "invalid": 0110, "notLoggedIn": 0102, "offline": 0106.                  *)
Replies == {"none", "ok", "invalid", "offline", "notLoggedIn", "busy", "error"}
Results == {"none", "sent", "skipped", "error"}   \* True, False, an exception

WideqTypeOK ==
    /\ session \in {"valid", "expired", "revoked"}
    /\ upsets \in 0..MaxUpsets
    /\ lastAcked \in Sends \cup {NoSend}
    /\ reauthNeeded \in BOOLEAN
    /\ acReachable \in BOOLEAN
    /\ pc \in [Sends -> Stages]
    /\ try \in [Sends -> Tries]
    /\ reply \in [Sends -> Replies]
    /\ result \in [Sends -> Results]

WideqInit ==
    /\ session \in {"valid", "expired", "revoked"}
    /\ upsets = 0
    /\ lastAcked = NoSend
    /\ reauthNeeded = FALSE
    /\ acReachable \in BOOLEAN
    /\ pc = [s \in Sends |-> "idle"]
    /\ try = [s \in Sends |-> "first"]
    /\ reply = [s \in Sends |-> "none"]
    /\ result = [s \in Sends |-> "none"]

Running(s) == pc[s] \notin {"idle", "ended"}
Quiet      == \A s \in Sends : ~Running(s)

-----------------------------------------------------------------------------
(* LG's cloud. *)

(* The session expires, or LG shuts it down until new terms are accepted. *)
SessionChanges ==
    /\ upsets < MaxUpsets /\ upsets' = upsets + 1
    /\ session' \in {"valid", "expired", "revoked"} \ {session}
    /\ session = "expired" => session' = "revoked"
    /\ UNCHANGED <<lastAcked, flagVars, sendVars>>

(* An answer other than "ok" may hide that the device took the value. *)
Serve(s) ==
    /\ pc[s] = "sending"
    /\ pc' = [pc EXCEPT ![s] = "replied"]
    /\ \E a \in Replies \ {"none"} :
          /\ reply' = [reply EXCEPT ![s] = a]
          /\ a = "invalid" <=> session = "revoked" /\ a # "error"
          /\ a = "notLoggedIn" <=> session = "expired" /\ a # "error"
          /\ lastAcked' = IF a = "ok" THEN s ELSE lastAcked
    /\ UNCHANGED <<session, upsets, flagVars, try, result>>

-----------------------------------------------------------------------------
(* The send runs. *)

End(s, r) ==
    /\ pc' = [pc EXCEPT ![s] = "ended"]
    /\ result' = [result EXCEPT ![s] = r]

(* mutant: a second transmission is not told from the first *)
MutTransmit(s, t) ==
    /\ pc' = [pc EXCEPT ![s] = "sending"]
    /\ try' = [try EXCEPT ![s] = "first"]

Transmit(s, t) ==
    /\ pc' = [pc EXCEPT ![s] = "sending"]
    /\ try' = [try EXCEPT ![s] = t]

(* The call, up to its first await: nothing is sent while the flag is set. *)
Start(s) ==
    /\ pc[s] = "idle"
    /\ IF reauthNeeded
       THEN End(s, "skipped") /\ UNCHANGED try
       ELSE Transmit(s, "first") /\ UNCHANGED result
    /\ UNCHANGED <<cloudVars, flagVars, reply>>

Replied(s, a) == pc[s] = "replied" /\ reply[s] = a

(* The retry after a renewed session does not clear the flag. *)
Accepted(s) ==
    /\ Replied(s, "ok")
    /\ acReachable' = TRUE
    /\ reauthNeeded' = (reauthNeeded /\ try[s] = "afterLogin")
    /\ End(s, "sent")
    /\ UNCHANGED <<cloudVars, try, reply>>

Refused(s) ==
    /\ Replied(s, "invalid")
    /\ reauthNeeded' = TRUE
    /\ End(s, "skipped")
    /\ UNCHANGED <<cloudVars, acReachable, try, reply>>

(* mutant: behind a delay the branch for an offline device is missing *)
MutOffline(s) ==
    /\ Replied(s, "offline") /\ try[s] # "afterLogin"
    /\ acReachable' = (acReachable /\ try[s] = "afterDelay")
    /\ End(s, IF try[s] = "afterDelay" THEN "error" ELSE "skipped")
    /\ UNCHANGED <<cloudVars, reauthNeeded, try, reply>>

Offline(s) ==
    /\ Replied(s, "offline") /\ try[s] # "afterLogin"
    /\ acReachable' = FALSE
    /\ End(s, "skipped")
    /\ UNCHANGED <<cloudVars, reauthNeeded, try, reply>>

Fail(s) ==
    /\ \/ Replied(s, "error")
       \/ Replied(s, "offline") /\ try[s] = "afterLogin"
       \/ (Replied(s, "busy") \/ Replied(s, "notLoggedIn")) /\ try[s] # "first"
    /\ End(s, "error")
    /\ UNCHANGED <<cloudVars, flagVars, try, reply>>

Login(s) ==
    /\ Replied(s, "notLoggedIn") /\ try[s] = "first"
    /\ pc' = [pc EXCEPT ![s] = "refreshing"]
    /\ UNCHANGED <<cloudVars, flagVars, try, reply, result>>

(* await refresh_auth(): it asks for a token only when the old one is near *)
(* its end by the local clock, so an expired session may stay expired.     *)
RefreshAuth(s) ==
    /\ pc[s] = "refreshing"
    /\ \/ Transmit(s, "afterLogin") /\ UNCHANGED <<session, result>>
       \/ session = "expired" /\ session' = "valid" /\ Transmit(s, "afterLogin") /\ UNCHANGED result
       \/ End(s, "error") /\ UNCHANGED <<session, try>>
    /\ UNCHANGED <<upsets, lastAcked, flagVars, reply>>

Delay(s) ==
    /\ Replied(s, "busy") /\ try[s] = "first"
    /\ pc' = [pc EXCEPT ![s] = "sleeping"]
    /\ UNCHANGED <<cloudVars, flagVars, try, reply, result>>

Resend(s) ==
    /\ pc[s] = "sleeping"
    /\ Transmit(s, "afterDelay")
    /\ UNCHANGED <<cloudVars, flagVars, reply, result>>

SendStep(s) ==
    \/ Accepted(s) \/ Refused(s) \/ Offline(s) \/ Fail(s) \/ Login(s)
    \/ RefreshAuth(s) \/ Delay(s) \/ Resend(s)
=============================================================================
