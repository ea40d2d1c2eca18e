------------------------------ MODULE WasherCourse ------------------------------
(***************************************************************************)
(* WasherCourseCoordinator (coordinator_course.py): the washer's course is *)
(* polled through wideq, but only while the PAT coordinator says that the  *)
(* washer runs.  The first poll of a run starts from the PAT listener, the *)
(* next ones from a timer (DataUpdateCoordinator, external).  Nothing      *)
(* keeps two polls from overlapping, nor ends one when the washer stops.   *)
(*                                                                         *)
(* Each of Polls is one call of _async_update_data that awaits its answer. *)
(***************************************************************************)
EXTENDS Naturals

CONSTANTS
    Courses,    \* the washer's courses
    NoCourse,   \* "-"
    Polls,      \* bound: the polls in flight at a time
    MaxUpsets   \* bound: failing polls, stale PAT updates, changes of the flag

(* What a poll may be doing.  "empty": it returned no status; "invalid":   *)
(* 0110.                                                                   *)
Shown      == Courses \cup {NoCourse}
Failures   == {"failed", "invalid", "empty"}
PollStates == {"idle", "asked"} \cup Failures \cup Shown

ASSUME CourseAssumption ==
    /\ NoCourse \notin Courses
    /\ Shown \cap ({"idle", "asked"} \cup Failures) = {}
    /\ MaxUpsets \in Nat

VARIABLES
    washer,        \* the course the washer runs, or NoCourse
    upsets,        \* how many upsets happened so far
    reauthNeeded,  \* RuntimeData.wideq_reauth_needed
    polling,       \* _is_polling_active; update_interval is set exactly then
    timer,         \* the next refresh is scheduled
    poll,          \* what each poll is doing
    data,          \* the course shown
    lastUpdateSuccess

worldVars == <<washer, upsets>>
pollVars  == <<timer, poll>>
dataVars  == <<data, lastUpdateSuccess>>
vars == <<worldVars, reauthNeeded, polling, pollVars, dataVars>>

TypeOK ==
    /\ washer \in Shown
    /\ upsets \in 0..MaxUpsets
    /\ reauthNeeded \in BOOLEAN
    /\ polling \in BOOLEAN
    /\ timer \in BOOLEAN
    /\ poll \in [Polls -> PollStates]
    /\ data \in Shown
    /\ lastUpdateSuccess \in BOOLEAN

(* No listener has run yet: a washer that runs already is polled from the  *)
(* next PAT update on.  The sensor shows no data as "-".                   *)
Init ==
    /\ washer \in Shown
    /\ upsets = 0
    /\ reauthNeeded = FALSE
    /\ polling = FALSE
    /\ timer = FALSE
    /\ poll = [p \in Polls |-> "idle"]
    /\ data = NoCourse
    /\ lastUpdateSuccess = TRUE

InFlight == {p \in Polls : poll[p] # "idle"}

-----------------------------------------------------------------------------
(* Outside: the washer, the cloud, the other users of wideq. *)

Upset == upsets < MaxUpsets /\ upsets' = upsets + 1

WasherChanges ==
    /\ washer' \in Shown \ {washer}
    /\ UNCHANGED <<upsets, reauthNeeded, polling, pollVars, dataVars>>

(* Another call was refused with 0110, or succeeded. *)
FlagChanges ==
    /\ Upset
    /\ reauthNeeded' = ~reauthNeeded
    /\ UNCHANGED <<washer, polling, pollVars, dataVars>>

Answer(p) ==
    /\ poll[p] = "asked"
    /\ \/ poll' = [poll EXCEPT ![p] = washer] /\ UNCHANGED upsets
       \/ \E f \in Failures : poll' = [poll EXCEPT ![p] = f] /\ Upset
    /\ UNCHANGED <<washer, reauthNeeded, polling, timer, dataVars>>

-----------------------------------------------------------------------------
(* mutant: a refresh that the flag suppresses schedules no other *)
MutRefresh ==
    \/ /\ ~reauthNeeded
       /\ \E p \in Polls \ InFlight : poll' = [poll EXCEPT ![p] = "asked"]
       /\ timer' = FALSE
       /\ UNCHANGED lastUpdateSuccess
    \/ /\ reauthNeeded
       /\ timer' = FALSE
       /\ lastUpdateSuccess' = FALSE
       /\ UNCHANGED poll

(* async_refresh up to its first await.  It drops the scheduled refresh.   *)
(* With the flag set _async_update_data fails without a call, and the next *)
(* refresh is scheduled at once.                                           *)
Refresh ==
    \/ /\ ~reauthNeeded
       /\ \E p \in Polls \ InFlight : poll' = [poll EXCEPT ![p] = "asked"]
       /\ timer' = FALSE
       /\ UNCHANGED lastUpdateSuccess
    \/ /\ reauthNeeded
       /\ timer' = TRUE
       /\ lastUpdateSuccess' = FALSE
       /\ UNCHANGED poll

(* async_set_updated_data("-") drops the scheduled refresh as well.  The   *)
(* class docstring does not count on it: it says that one extra poll, then *)
(* already scheduled, may still fire.                                      *)
StopPolling ==
    /\ data' = NoCourse
    /\ lastUpdateSuccess' = TRUE
    /\ timer' = FALSE
    /\ UNCHANGED poll

(* _handle_pat_update, once the PAT coordinator's copy says `running` *)
HandlePatUpdate(running) ==
    /\ polling' = running
    /\ \/ running /\ ~polling /\ Refresh /\ UNCHANGED data
       \/ ~running /\ polling /\ StopPolling
       \/ running = polling /\ UNCHANGED <<pollVars, dataVars>>
    /\ UNCHANGED <<washer, reauthNeeded>>

(* The copy is up to date, or (a poll that a push overtook) it is not. *)
PatUpdate      == HandlePatUpdate(washer # NoCourse) /\ UNCHANGED upsets
StalePatUpdate == HandlePatUpdate(washer = NoCourse) /\ Upset

TimerFires ==
    /\ timer
    /\ Refresh
    /\ UNCHANGED <<worldVars, reauthNeeded, polling, data>>

(* mutant: a refresh that failed schedules no other *)
MutSchedule(p) == timer' = IF polling /\ poll[p] \in Shown THEN TRUE ELSE timer

(* mutant: update_interval stays set when the washer stops *)
MutScheduleAlways(p) == timer' = TRUE

(* _schedule_refresh: only with an update_interval *)
Schedule(p) == timer' = IF polling THEN TRUE ELSE timer

(* mutant: a poll without a status is shown as well *)
MutUpdated(p) == data' = poll[p]

(* The sensor keeps the last course when a poll failed. *)
Updated(p) == data' = IF poll[p] \in Shown THEN poll[p] ELSE data

(* The rest of _async_update_data and of _async_refresh, in one step: it   *)
(* does not look at _is_polling_active.                                    *)
EndPoll(p) ==
    /\ poll[p] \notin {"idle", "asked"}
    /\ poll' = [poll EXCEPT ![p] = "idle"]
    /\ reauthNeeded' = (poll[p] = "invalid" \/ (poll[p] = "failed" /\ reauthNeeded))
    /\ Updated(p)
    /\ lastUpdateSuccess' = (poll[p] \in Shown)
    /\ Schedule(p)
    /\ UNCHANGED <<worldVars, polling>>

-----------------------------------------------------------------------------
Next ==
    \/ WasherChanges \/ FlagChanges
    \/ PatUpdate \/ StalePatUpdate
    \/ TimerFires
    \/ \E p \in Polls : Answer(p) \/ EndPoll(p)

Spec == Init /\ [][Next]_vars

(* The PAT coordinator is refreshed at least hourly, the timer fires, and  *)
(* a poll is answered or times out.                                        *)
FairSpec ==
    /\ Spec
    /\ WF_vars(PatUpdate)
    /\ WF_vars(TimerFires)
    /\ \A p \in Polls : WF_vars(Answer(p)) /\ WF_vars(EndPoll(p))

-----------------------------------------------------------------------------
(* Polling never stalls: as long as the washer runs, a poll is on its way  *)
(* or the next one is scheduled, however polls, failures and restarts      *)
(* overlap.                                                                *)
NeverStalls == polling => timer \/ InFlight # {}

(* "When the washer is idle, no wideq calls are made at all" (the module's *)
(* docstring): no poll starts unless the PAT coordinator has last said     *)
(* that the washer runs, whatever polls of the run that ended come back    *)
(* later.  This is stricter than the class docstring, which allows for one *)
(* extra poll, because the code is: see StopPolling.                       *)
NoPollWhenIdle ==
    [][\A p \in Polls : poll[p] = "idle" /\ poll'[p] = "asked" => polling']_vars

(* If the washer goes on running a course, and LG does not shut wideq      *)
(* down, the course is shown in the end, and no late answer hides it.      *)
ShowsRunningCourse ==
    \A c \in Courses :
        <>[](washer = c /\ ~reauthNeeded) => <>[](data = c /\ lastUpdateSuccess)
=============================================================================
