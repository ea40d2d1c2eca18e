------------------------------- MODULE WideqReauth -------------------------------
(***************************************************************************)
(* The users of the unofficial backend that share wideq_reauth_needed:     *)
(* fan and swing commands (climate.py), the washer-course poll             *)
(* (coordinator_course.py), the AC filter poll (sensor.py) and the hourly  *)
(* session refresh (__init__.py).  Each decides by the flag when it starts *)
(* and updates it when its answer is in, with others in between.           *)
(***************************************************************************)
EXTENDS WideqCommand

CONSTANTS
    NoMode,              \* the mode shown before any command, as restored
    MaxInvalidCredential \* MAX_INVALID_CREDENTIAL_ERR (device.py): 3

ASSUME ReauthAssumption ==
    /\ NoMode \notin Values
    /\ MaxInvalidCredential \in Nat

VARIABLES
    shownMode,    \* _last_fan_mode (or _last_swing_mode)
    poll,         \* what each poll is doing
    invalidCount  \* _invalid_credential_count of the washer's Monitor

pollVars == <<poll, invalidCount>>
vars     == <<wideqVars, shownMode, pollVars>>

(* "swallowed": a filter query that failed, or a course poll that got no   *)
(* status because the client was closed: the coordinator sees None.        *)
Pollers     == {"course", "filter"}
PollStates  == {"idle", "asked", "ok", "invalid", "failed", "swallowed"}

TypeOK ==
    /\ WideqTypeOK
    /\ shownMode \in Values \cup {NoMode}
    /\ poll \in [Pollers -> PollStates]
    /\ invalidCount \in 0..MaxInvalidCredential

Init ==
    /\ WideqInit
    /\ shownMode = NoMode
    /\ poll = [p \in Pollers |-> "idle"]
    /\ invalidCount = 0

-----------------------------------------------------------------------------
(* async_set_fan_mode, async_set_swing_mode: shown only if really sent. *)

(* mutant: shown as soon as the call returns without an exception *)
MutShowIfSent(s) ==
    shownMode' = IF pc'[s] = "ended" /\ result'[s] # "error" THEN Wanted[s] ELSE shownMode

(* mutant: what the call returned is shown, not the mode *)
MutShowResult(s) ==
    shownMode' = IF pc'[s] = "ended" /\ result'[s] = "sent" THEN result'[s] ELSE shownMode

ShowIfSent(s) ==
    shownMode' = IF pc'[s] = "ended" /\ result'[s] = "sent" THEN Wanted[s] ELSE shownMode

SetMode(s) == Start(s) /\ ShowIfSent(s) /\ UNCHANGED pollVars

Send(s) == SendStep(s) /\ ShowIfSent(s) /\ UNCHANGED pollVars

-----------------------------------------------------------------------------
(* _async_update_data of the two polling coordinators. *)

(* Their interval has passed.  With the flag set: UpdateFailed, no call.   *)
(* The course is polled only while the washer runs.                        *)
StartPoll(p) ==
    /\ poll[p] = "idle" /\ ~reauthNeeded
    /\ poll' = [poll EXCEPT ![p] = "asked"]
    /\ UNCHANGED <<wideqVars, shownMode, invalidCount>>

Answer(p, a) == poll' = [poll EXCEPT ![p] = a]

(* Network failures are upsets: they do not go on for ever. *)
Upset == upsets < MaxUpsets /\ upsets' = upsets + 1

ServeFilter ==
    /\ poll["filter"] = "asked"
    /\ \/ session = "valid"   /\ Answer("filter", "ok")        /\ UNCHANGED upsets
       \/ session = "revoked" /\ Answer("filter", "invalid")   /\ UNCHANGED upsets
       \/ session = "expired" /\ Answer("filter", "swallowed") /\ UNCHANGED upsets
       \/ Upset /\ Answer("filter", "swallowed")
    /\ UNCHANGED invalidCount

(* Monitor.refresh: the first refusals with 0110 in a row are made plain   *)
(* failures, and only the next one reaches the coordinator as what it is.  *)
InvalidCredential ==
    IF invalidCount >= MaxInvalidCredential
    THEN Answer("course", "invalid") /\ UNCHANGED invalidCount
    ELSE Answer("course", "failed") /\ invalidCount' = invalidCount + 1

(* Any other ending resets the count.  After a refusal the Monitor logs in *)
(* again before it asks, and that may fail in another way.                 *)
OtherEnding ==
    /\ \/ session = "valid" /\ Answer("course", "ok") /\ UNCHANGED upsets
       \/ session # "valid" /\ Answer("course", "failed") /\ UNCHANGED upsets
       \/ Upset /\ (Answer("course", "swallowed") \/ Answer("course", "failed"))
    /\ invalidCount' = 0

ServeCourse ==
    /\ poll["course"] = "asked"
    /\ \/ session = "revoked" /\ InvalidCredential /\ UNCHANGED upsets
       \/ OtherEnding

ServePoll(p) ==
    /\ \/ p = "filter" /\ ServeFilter
       \/ p = "course" /\ ServeCourse
    /\ UNCHANGED <<session, lastAcked, flagVars, sendVars, shownMode>>

(* mutant: a poll refused with 0110 is an ordinary failure *)
MutEndPoll(p) ==
    /\ poll[p] \notin {"idle", "asked"}
    /\ reauthNeeded' = (reauthNeeded /\ poll[p] \in {"failed", "invalid"})
    /\ Answer(p, "idle")
    /\ UNCHANGED <<cloudVars, acReachable, sendVars, shownMode, invalidCount>>

(* mark_wideq_reauth_ok comes before the answer is looked at. *)
EndPoll(p) ==
    /\ poll[p] \notin {"idle", "asked"}
    /\ reauthNeeded' = CASE poll[p] = "invalid" -> TRUE
                         [] poll[p] \in {"ok", "swallowed"} -> FALSE
                         [] poll[p] = "failed" -> reauthNeeded
    /\ Answer(p, "idle")
    /\ UNCHANGED <<cloudVars, acReachable, sendVars, shownMode, invalidCount>>

(* _async_refresh_wideq_auth: not guarded by the flag, which it ignores *)
HourlyRefreshAuth ==
    /\ session = "expired" /\ session' = "valid"
    /\ UNCHANGED <<upsets, lastAcked, flagVars, sendVars, shownMode, pollVars>>

-----------------------------------------------------------------------------
Cloud ==
    /\ SessionChanges \/ \E s \in Sends : Serve(s)
    /\ UNCHANGED <<shownMode, pollVars>>

Next ==
    \/ \E s \in Sends : SetMode(s) \/ Send(s)
    \/ \E p \in Pollers : StartPoll(p) \/ ServePoll(p) \/ EndPoll(p)
    \/ HourlyRefreshAuth
    \/ Cloud

Spec == Init /\ [][Next]_vars

(* Tasks run, answers arrive, and the filter is polled again and again.    *)
(* The course need not be: the washer may stop for good.                   *)
FairSpec ==
    /\ Spec
    /\ \A s \in Sends : WF_vars(Send(s)) /\ WF_vars(Cloud /\ Serve(s))
    /\ \A p \in Pollers : WF_vars(ServePoll(p)) /\ WF_vars(EndPoll(p))
    /\ WF_vars(StartPoll("filter"))
    /\ WF_vars(HourlyRefreshAuth)

-----------------------------------------------------------------------------
(* Fan and swing are write-only: the mode shown is the restored one or one *)
(* that the cloud acknowledged, whichever commands ran beside it.          *)
ShowsAcknowledgedMode ==
    shownMode \in {NoMode} \cup {Wanted[s] : s \in {r \in Sends : reply[r] = "ok"}}

(* If LG shuts the session down for good, the flag is raised and stays:    *)
(* late answers cannot keep clearing it.  The filter poll sees to that; a  *)
(* course poll may hide the refusals for as long as they are too few.      *)
RevocationSticks == <>[](session = "revoked") => <>[]reauthNeeded

(* The callers of a wideq command see what WideqContract promises: what    *)
(* was done for a send is told from its place, its last answer, and which  *)
(* transmission it is.                                                     *)
StageOf(s) ==
    IF pc[s] = "idle" THEN "idle"
    ELSE IF pc[s] = "sending" THEN "sent"
    ELSE IF pc[s] # "ended" THEN "answered"
    ELSE IF result[s] = "sent" THEN "true"
    ELSE IF result[s] = "error" THEN "raised" ELSE result[s]

SentOf(s) == IF pc[s] # "sending" /\ reply[s] = "none" THEN "never" ELSE try[s]

VerdictOf(s) ==
    IF reply[s] = "none" THEN "none"
    ELSE IF reply[s] = "ok" THEN "acknowledged"
    ELSE IF reply[s] = "invalid" THEN "refused"
    ELSE IF reply[s] = "offline" THEN "offline" ELSE "unclear"

Contract == INSTANCE WideqContract WITH
    stage <- [s \in Sends |-> StageOf(s)],
    sent <- [s \in Sends |-> SentOf(s)],
    verdict <- [s \in Sends |-> VerdictOf(s)],
    flag <- reauthNeeded

KeepsContract == Contract!Spec
=============================================================================
