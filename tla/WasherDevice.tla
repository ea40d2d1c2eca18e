------------------------------ MODULE WasherDevice ------------------------------
(***************************************************************************)
(* A washer behind the unofficial API (wideq/devices/washerDryer.py with   *)
(* the parts of wideq/device.py it is built on): WMDevice, which remembers *)
(* run states, whether a cycle has ended, what remote start may be called  *)
(* with and whether a V1 command left a control permission behind, and its *)
(* WMStatus, which a poll replaces and a command updates in advance.       *)
(*                                                                         *)
(* Polls are made one at a time, by the course coordinator; commands and   *)
(* readings come from callers of the library, at any time, also while a    *)
(* poll or another command is awaited.  The washer is a person's and moves *)
(* on by itself: polls only sample it.                                     *)
(***************************************************************************)
EXTENDS ModelInfo

CONSTANTS
    Users,         \* callers of the commands
    MCModels,      \* the models tried
    MCPrograms,    \* the programs tried
    Lengths,       \* lengths of the frames a V1 washer sends, in fields
    Chosen,       \* entries of the list of courses that are chosen
    MaxMoves,      \* bound: changes of the washer's run state; it rests after the last
    Current        \* the entry "Current course" of the list of courses

ASSUME WasherAssumption ==
    /\ MCModels \subseteq Models /\ MCPrograms \subseteq Programs
    /\ ZeroProgram \in MCPrograms
    /\ Lengths \subseteq 0 .. Len(Frame)
    /\ Chosen \subseteq Courses \cup {Current}
    /\ MaxMoves \in Nat
    /\ Current \notin Courses

VARIABLES
    model, washer, permission,     \* the model, the appliance, LG's permission
    stage, heard,                  \* _device_poll
    status, runStates,             \* _status, _run_states
    copy, pressed, standBy, initialBit, selected,
    completed, finishing,          \* _is_run_completed, _is_cycle_finishing
    controlSet,                    \* _control_set
    pc, cmd, payload,              \* the commands that are awaited
    moves,                         \* bound: see MaxMoves
    unseen, once, due, armed       \* history; once: moved once between two samples

applianceVars == <<washer, permission, moves>>
pollVars    == <<stage, heard>>
statusVars  == <<status, runStates>>
remoteVars  == <<copy, pressed, standBy, initialBit, selected>>
cycleVars   == <<completed, finishing>>
commandVars == <<pc, cmd, payload>>
historyVars == <<unseen, once, due, armed>>
vars == <<model, applianceVars, pollVars, statusVars, remoteVars, cycleVars,
          controlSet, commandVars, historyVars>>

NoReport  == [Zero EXCEPT !.state = "missing"]
Kinds     == {"power_off", "wake_up", "remote_start", "pause"}
NoPayload == [course |-> "none"]
NoProgram == [ZeroProgram EXCEPT !.course = "none"]

(* run: the cached name of the run state, "unread" until it is asked for.  *)
(* pre: the name of the previous one, "none" where the model has no key.   *)
StatusType == [state : Encoded, left : 0..2, program : Programs,
               run : Listed \cup {"unread"}, pre : Listed \cup {"none"}]

TypeOK ==
    /\ model \in MCModels
    /\ washer \in Reports /\ permission \in {"free", "held", "orphan"} /\ moves \in 0..MaxMoves
    /\ stage \in {"idle", "asked", "heard", "deleting", "deleted"}
    /\ heard \in Reports \cup {NoReport}
    /\ status \in StatusType
    /\ runStates \in Seq(Listed) /\ Len(runStates) \in 0..2
    /\ copy \in MCPrograms \cup {NoProgram}
    /\ {pressed, standBy, initialBit, completed, finishing} \subseteq BOOLEAN
    /\ selected \in Courses \cup {Current}
    /\ controlSet \in 0..2
    /\ pc \in [Users -> {"idle", "sent", "handled"}]
    /\ cmd \in [Users -> Kinds \cup {"none"}]
    /\ DOMAIN payload = Users
    /\ unseen \in 0..2 /\ once \in BOOLEAN /\ due \in BOOLEAN /\ armed \subseteq MCPrograms

(* When its device is made, the washer is on, or in the last minute of a   *)
(* cycle, which reports no program.                                        *)
SwitchedOn(p) == [Zero EXCEPT !.state = "init", !.program = p]
Ending        == [state |-> "run", pre |-> IF model.pre THEN "init" ELSE "off", left |-> 1,
                  program |-> ZeroProgram, remote |-> FALSE]

Init ==
    /\ model \in MCModels
    /\ washer \in {SwitchedOn(p) : p \in MCPrograms} \cup {Ending}
    /\ permission = "free" /\ moves = 0
    /\ stage = "idle" /\ heard = NoReport
    /\ status = [state |-> "missing", left |-> 0, program |-> ZeroProgram, run |-> "unread",
                 pre |-> IF model.pre THEN "off" ELSE "none"]
    /\ runStates = <<>>
    /\ copy = NoProgram /\ pressed = FALSE /\ standBy = FALSE /\ initialBit = FALSE
    /\ selected = Current
    /\ completed = FALSE /\ finishing = FALSE /\ controlSet = 0
    /\ pc = [u \in Users |-> "idle"] /\ cmd = [u \in Users |-> "none"]
    /\ payload = [u \in Users |-> NoPayload]
    /\ unseen = 2 /\ once = FALSE /\ due = FALSE /\ armed = {}

-----------------------------------------------------------------------------
(* mutant: the run state before the latest is not kept *)
MutSaveRun(states, run) == IF states # <<>> /\ run = states[1] THEN states ELSE <<run>>

(* mutant: the list of run states is not cut *)
MutSaveRunAll(states, run) ==
    IF states # <<>> /\ run = states[1] THEN states ELSE <<run>> \o states

(* save_run_states: the latest run state and the one before it *)
SaveRun(states, run) ==
    IF states = <<>> THEN <<run>>
    ELSE IF run = states[1] THEN states
    ELSE <<run, states[1]>>

SavePre(states, pre) == IF states = <<>> THEN states ELSE <<states[1], pre>>

(* _get_run_state: looked up, and saved, by whoever asks first *)
Run     == IF status.run = "unread" THEN StateName(status.state) ELSE status.run
Read    == [status EXCEPT !.run = Run]
RunsRead == IF status.run = "unread" THEN SaveRun(runStates, Run) ELSE runStates

IsOn     == Run # "off"
Internal == IF status.state \in Listed THEN status.state ELSE "none"

RemoteStartEnabled ==
    ~pressed /\ ~standBy /\ IsOn /\ copy # NoProgram /\ Internal \in {"init", "pause"}
PauseEnabled ==
    ~standBy /\ IsOn /\ copy # NoProgram /\ Internal \notin {"init", "pause"}
SelectCourseEnabled == initialBit /\ RemoteStartEnabled

-----------------------------------------------------------------------------
(* WMDevice.is_run_completed, a property that updates what it reads *)
StatusCompleted == Run = "end" \/ (Run = "off" /\ status.pre = "end")

HasStopped ==
    /\ finishing \/ completed
    /\ Run \in {"off", "init"} /\ RunsRead[Len(RunsRead)] \notin {"off", "init"}

Completed == StatusCompleted \/ (completed /\ Run = "off") \/ HasStopped

Forgets ==
    IF StatusCompleted THEN ~completed
    ELSE IF completed /\ Run = "off" THEN TRUE
    ELSE HasStopped /\ ~completed

(* mutant: a reading that finds the cycle over forgets both *)
MutReadCompleted ==
    /\ completed' = (Completed /\ ~HasStopped)
    /\ finishing' = (finishing /\ ~Forgets)
    /\ status' = Read /\ runStates' = RunsRead
    /\ UNCHANGED <<model, applianceVars, pollVars, remoteVars, controlSet, commandVars, historyVars>>

ReadCompleted ==
    /\ completed' = Completed
    /\ finishing' = (finishing /\ ~Forgets)
    /\ status' = Read /\ runStates' = RunsRead
    /\ UNCHANGED <<model, applianceVars, pollVars, remoteVars, controlSet, commandVars, historyVars>>

(* A reading of select_course_enabled, or of anything that needs the run   *)
(* state: a guard of a command that is refused, a feature.                 *)
ReadSelection ==
    /\ selected' = IF SelectCourseEnabled THEN selected ELSE Current
    /\ status' = Read /\ runStates' = RunsRead
    /\ UNCHANGED <<model, applianceVars, pollVars, copy, pressed, standBy, initialBit, cycleVars,
                    controlSet, commandVars, historyVars>>

(* select_start_course *)
SelectCourse(course) ==
    /\ SelectCourseEnabled
    /\ selected' = course
    /\ status' = Read /\ runStates' = RunsRead
    /\ UNCHANGED <<model, applianceVars, pollVars, copy, pressed, standBy, initialBit, cycleVars,
                    controlSet, commandVars, historyVars>>

-----------------------------------------------------------------------------
(* The appliance.  A new run state leaves the old one in pre. *)
Becomes(state, left, remote, program) ==
    /\ moves < MaxMoves /\ moves' = moves + 1
    /\ washer' = [state |-> state, pre |-> IF model.pre /\ washer.state \in Listed THEN washer.state
                                            ELSE washer.pre,
                  left |-> left, program |-> program, remote |-> remote]
    /\ unseen' = IF unseen = 2 THEN 2 ELSE unseen + 1

SwitchOn  == washer.state = "off" /\ Becomes("init", 0, FALSE, washer.program)
SwitchOff == washer.state # "off" /\ Becomes("off", 0, FALSE, washer.program)
Begin(program) ==
    /\ washer.state \in {"init", "pause"}
    /\ Becomes("run", IF washer.left = 0 THEN 2 ELSE washer.left, washer.remote, program)
Pause  == washer.state = "run" /\ Becomes("pause", washer.left, washer.remote, washer.program)
Break  == washer.state = "run" /\ Becomes("fault", washer.left, FALSE, washer.program)
Finish == /\ washer.state = "run" /\ washer.left = 1
          /\ \E s \in {"end", "off", "init"} : Becomes(s, 0, FALSE, washer.program)

(* remote start is switched on or off, another program, the last minute *)
Changes ==
    /\ moves < MaxMoves
    /\ \/ washer.state = "init" /\ washer' = [washer EXCEPT !.remote = ~washer.remote]
       \/ washer.state = "init" /\ \E p \in MCPrograms : washer' = [washer EXCEPT !.program = p]
       \/ washer.state = "run" /\ washer.left = 2 /\ washer' = [washer EXCEPT !.left = 1]
    /\ UNCHANGED <<moves, unseen>>

WasherMoves ==
    /\ SwitchOn \/ SwitchOff \/ Begin(washer.program) \/ Pause \/ Break \/ Finish \/ Changes
    /\ UNCHANGED <<model, permission, pollVars, statusVars, remoteVars, cycleVars, controlSet,
                    commandVars, once, due, armed>>

-----------------------------------------------------------------------------
(* Device._device_poll: the device answers, a V1 washer with a frame that  *)
(* may be short or unreadable, ...                                         *)
Ask ==
    /\ stage = "idle" /\ stage' = "asked"
    /\ UNCHANGED <<model, applianceVars, heard, statusVars, remoteVars, cycleVars, controlSet,
                    commandVars, historyVars>>

Samples ==
    IF model.v2 THEN {washer}
    ELSE {NoReport} \cup {DecodeFrame(washer, n) : n \in Lengths}

Answer ==
    /\ stage = "asked" /\ stage' = "heard"
    /\ heard' \in Samples
    /\ unseen' = 0 /\ once' = (unseen = 1)
    /\ UNCHANGED <<model, applianceVars, statusVars, remoteVars, cycleVars, controlSet,
                    commandVars, due, armed>>

(* ... _delete_permission takes back what a command has acquired: at the   *)
(* second poll after it, ...                                               *)
Release ==
    /\ stage = "heard" /\ ~model.v2 /\ controlSet = 1 /\ stage' = "deleting"
    /\ UNCHANGED <<model, applianceVars, heard, statusVars, remoteVars, cycleVars, controlSet,
                    commandVars, historyVars>>

PermissionDeleted ==
    /\ stage = "deleting" /\ stage' = "deleted" /\ permission' = "free"
    /\ UNCHANGED <<model, washer, moves, heard, statusVars, remoteVars, cycleVars, controlSet,
                    commandVars, historyVars>>

(* ... an exception anywhere leaves the device as it is, and the report    *)
(* unused, ...                                                             *)
PollFails ==
    /\ stage \in {"asked", "deleting", "deleted"} /\ stage' = "idle"
    /\ heard' = NoReport
    /\ unseen' = (IF stage = "asked" THEN unseen ELSE 2) /\ once' = FALSE
    /\ UNCHANGED <<model, applianceVars, statusVars, remoteVars, cycleVars, controlSet, commandVars,
                    due, armed>>

NoData ==
    /\ stage = "asked" /\ stage' = "idle"
    /\ standBy' = FALSE
    /\ UNCHANGED <<model, applianceVars, heard, statusVars, copy, pressed, initialBit, selected,
                    cycleVars, controlSet, commandVars, historyVars>>

(* ... and the poll ends: WMDevice.poll makes a WMStatus of the report and *)
(* reads all its features.                                                 *)
MinutesLeft == IF model.v2 /\ StateName(heard.state) = "off" THEN 0 ELSE heard.left

(* _get_pre_state *)
TakeStates ==
    LET run    == StateName(heard.state)
        states == SaveRun(runStates, run)
        named  == model.pre /\ StateName(heard.pre) # run
        pre    == IF ~model.pre THEN "none"
                  ELSE IF named THEN StateName(heard.pre) ELSE states[Len(states)]
    IN  /\ runStates' = IF named THEN SavePre(states, pre) ELSE states
        /\ status' = [state |-> heard.state, left |-> MinutesLeft, program |-> heard.program,
                      run |-> run, pre |-> pre]

(* mutant: the copy is kept when remote start is switched off *)
MutTakeRemote ==
    /\ pressed' = FALSE
    /\ standBy' = (model.standby /\ StateName(heard.state) = "off")
    /\ copy' = IF heard.remote /\ copy = NoProgram THEN heard.program ELSE copy
    /\ initialBit' = (heard.remote /\ heard.state = "init")
    /\ armed' = IF heard.remote THEN armed \cup {heard.program} ELSE {}

(* _set_remote_start_opt *)
TakeRemote ==
    /\ pressed' = FALSE
    /\ standBy' = (model.standby /\ StateName(heard.state) = "off")
    /\ copy' = IF ~heard.remote THEN NoProgram ELSE IF copy = NoProgram THEN heard.program ELSE copy
    /\ initialBit' = (heard.remote /\ heard.state = "init")
    /\ armed' = IF heard.remote THEN armed \cup {heard.program} ELSE {}

(* _set_cycle_finishing *)
TakeMinutes ==
    finishing' = (MinutesLeft = 1 \/ (MinutesLeft = 0 /\ finishing))

(* The cycle was in its last minute at the previous sample, whose status   *)
(* is the latest still, and the washer has moved once since.               *)
HasFinished ==
    /\ status.run = "run" /\ status.left = 1 /\ once
    /\ heard.state \in {"end", "off", "init"} /\ MinutesLeft = 0
    /\ model.pre => heard.pre = "run"

TakeReport ==
    IF heard = NoReport
    THEN standBy' = FALSE /\ UNCHANGED <<statusVars, copy, pressed, initialBit, finishing, due, armed>>
    ELSE TakeStates /\ TakeRemote /\ TakeMinutes /\ due' = HasFinished

EndPoll ==
    /\ \/ /\ stage = "heard" /\ (model.v2 \/ controlSet # 1)
          /\ controlSet' = IF ~model.v2 /\ controlSet > 0 THEN controlSet - 1 ELSE controlSet
       \/ stage = "deleted" /\ controlSet' = controlSet - 1
    /\ stage' = "idle" /\ heard' = NoReport
    /\ TakeReport
    /\ unseen' = (IF heard = NoReport THEN 2 ELSE unseen) /\ once' = FALSE
    /\ UNCHANGED <<model, applianceVars, selected, completed, commandVars>>

-----------------------------------------------------------------------------
(* The course a start is for (_update_course_info): the selected one, what *)
(* the data shows, or the default; fixed when it is the data's.            *)
CourseInfo(program, chosen) ==
    IF chosen # Current THEN [id |-> chosen, fixed |-> FALSE]
    ELSE IF program.course \in Courses THEN [id |-> program.course, fixed |-> TRUE]
    ELSE IF program.smart \in SmartCourses THEN [id |-> program.smart, fixed |-> TRUE]
    ELSE [id |-> DefaultCourse, fixed |-> FALSE]

(* _prepare_command_v1 and _v2: the functions that a washer reads in the   *)
(* data of the command, and _prepare_course_info, its course.              *)
StartV1(program, info) ==
    LET set    == IF info.fixed THEN OptionOf(program)
                  ELSE UpdateOption("Steam", OptionOf(program), SteamDefault[info.id])
        option == UpdateOption("InitialBit", set, IF initialBit THEN 1 ELSE 0)
    IN  [steam |-> OptionBit("Steam", option), beep |-> OptionBit("Beep", option),
         initial |-> OptionBit("InitialBit", option)]

StartV2(program, info) ==
    [steam |-> IF info.fixed THEN program.steam ELSE SteamDefault[info.id],
     beep |-> program.beep, initial |-> IF initialBit THEN 1 ELSE 0]

StartData(program, info) ==
    LET smart == info.id \in SmartCourses
        set   == IF model.v2 THEN StartV2(program, info) ELSE StartV1(program, info)
    IN  [course |-> IF smart THEN BaseCourse[info.id] ELSE info.id,
         smart |-> IF smart THEN info.id ELSE "other",
         steam |-> set.steam, beep |-> set.beep, initial |-> set.initial]

(* _prepare_command_vtctrl sends no more than the functions of a course    *)
(* that is not the data's; 2 stands for a function that is not sent.       *)
Unsent == 2
VtSteam(info) == IF info.fixed THEN Unsent ELSE SteamDefault[info.id]
StartVt(info) ==
    [course |-> "unsent", smart |-> "unsent", beep |-> Unsent, initial |-> Unsent,
     steam |-> IF initialBit THEN VtSteam(info) ELSE Unsent]

(* A V1 command and a start need the data of a course; without the initial *)
(* bit they take the status's and drop the selection.                      *)
NeedsCourse(kind) ==
    \/ ~model.v2
    \/ model.v2 /\ kind = "remote_start" /\ (~model.vt \/ initialBit)
HasCourse  == IF initialBit THEN copy # NoProgram ELSE status.state # "missing"
DataCourse == IF initialBit THEN copy ELSE status.program
Selection(kind, chosen) == IF NeedsCourse(kind) /\ ~initialBit THEN Current ELSE chosen

-----------------------------------------------------------------------------
(* The commands: guard and data, then the request is awaited. *)
Send(u, kind, data) ==
    /\ pc[u] = "idle"
    /\ NeedsCourse(kind) => HasCourse
    /\ pc' = [pc EXCEPT ![u] = "sent"] /\ cmd' = [cmd EXCEPT ![u] = kind]
    /\ payload' = [payload EXCEPT ![u] = data]
    /\ UNCHANGED <<model, applianceVars, pollVars, copy, pressed, standBy, initialBit, cycleVars,
                    controlSet, historyVars>>

SendPowerOff(u) ==
    /\ Send(u, "power_off", NoPayload) /\ selected' = Selection("power_off", selected)
    /\ UNCHANGED statusVars

SendWakeUp(u) ==
    /\ standBy /\ Send(u, "wake_up", NoPayload) /\ selected' = Selection("wake_up", selected)
    /\ UNCHANGED statusVars

SendPause(u) ==
    /\ PauseEnabled /\ Send(u, "pause", NoPayload) /\ selected' = Selection("pause", selected)
    /\ status' = Read /\ runStates' = RunsRead

SendStart(u, chosen) ==
    LET selection == Selection("remote_start", chosen)
        info == CourseInfo(DataCourse, selection)
    IN  /\ RemoteStartEnabled
        /\ Send(u, "remote_start", IF model.vt /\ model.v2 THEN StartVt(info)
                                   ELSE StartData(DataCourse, info))
        /\ selected' = selection
        /\ status' = Read /\ runStates' = RunsRead

(* remote_start, with a course or without *)
RemoteStart(u) ==
    \E chosen \in {selected} \cup (IF initialBit THEN Chosen ELSE {}) :
        SendStart(u, chosen)

(* The washer does what it is told, where it can; a V1 command acquires    *)
(* the permission.                                                         *)
Can(kind) ==
    \/ kind = "power_off" /\ washer.state # "off"
    \/ kind = "wake_up" /\ washer.state = "off"
    \/ kind = "pause" /\ washer.state = "run"
    \/ kind = "remote_start" /\ washer.remote /\ washer.state \in {"init", "pause"}

Obey(u) ==
    \/ cmd[u] = "power_off" /\ SwitchOff
    \/ cmd[u] = "wake_up" /\ SwitchOn
    \/ cmd[u] = "pause" /\ Pause
    \/ cmd[u] = "remote_start" /\ washer.remote /\ \E p \in MCPrograms : Begin(p)
    \/ ~Can(cmd[u]) /\ UNCHANGED <<washer, moves, unseen>>

Handle(u) ==
    /\ pc[u] = "sent" /\ pc' = [pc EXCEPT ![u] = "handled"]
    /\ payload' = [payload EXCEPT ![u] = NoPayload]
    /\ Obey(u)
    /\ permission' = IF model.v2 THEN permission ELSE "held"
    /\ UNCHANGED <<model, pollVars, statusVars, remoteVars, cycleVars, controlSet, cmd, once, due,
                    armed>>

-----------------------------------------------------------------------------
(* The answer: the device is updated in advance of the next poll. *)
UpdateStatus(value) ==
    IF status.state = "missing" THEN UNCHANGED <<status, due>>
    ELSE status' = [status EXCEPT !.state = value, !.run = "unread"] /\ due' = FALSE

(* mutant: one poll is enough *)
MutAcquired == controlSet' = IF model.v2 THEN controlSet ELSE 1

(* _set_control: two polls are to take the permission back *)
Acquired == controlSet' = IF model.v2 THEN controlSet ELSE 2

Done(u) ==
    \/ /\ cmd[u] = "power_off"
       /\ copy' = NoProgram /\ armed' = {} /\ UpdateStatus("off")
       /\ UNCHANGED <<pressed, standBy>>
    \/ /\ cmd[u] = "wake_up"
       /\ standBy' = FALSE /\ UpdateStatus("init")
       /\ UNCHANGED <<copy, armed, pressed>>
    \/ /\ cmd[u] = "remote_start"
       /\ pressed' = TRUE
       /\ UNCHANGED <<copy, armed, standBy, status, due>>
    \/ /\ cmd[u] = "pause"
       /\ pressed' = TRUE /\ UpdateStatus("pause")
       /\ UNCHANGED <<copy, armed, standBy>>

Return(u) ==
    pc' = [pc EXCEPT ![u] = "idle"] /\ cmd' = [cmd EXCEPT ![u] = "none"]

Succeed(u) ==
    /\ pc[u] = "handled" /\ Return(u)
    /\ Acquired /\ Done(u)
    /\ UNCHANGED <<model, applianceVars, pollVars, runStates, initialBit, selected, cycleVars, payload,
                    unseen, once>>

(* The request fails, before LG has handled it or after. *)
Fail(u) ==
    /\ pc[u] \in {"sent", "handled"} /\ Return(u)
    /\ payload' = [payload EXCEPT ![u] = NoPayload]
    /\ permission' = IF pc[u] = "handled" /\ permission = "held" THEN "orphan" ELSE permission
    /\ UNCHANGED <<model, washer, moves, pollVars, statusVars, remoteVars, cycleVars, controlSet,
                    historyVars>>

-----------------------------------------------------------------------------
Poll == Ask \/ Answer \/ Release \/ PermissionDeleted \/ PollFails \/ NoData \/ EndPoll

Command(u) ==
    \/ SendPowerOff(u) \/ SendWakeUp(u) \/ SendPause(u) \/ RemoteStart(u)
    \/ Handle(u) \/ Succeed(u) \/ Fail(u)

Next ==
    \/ WasherMoves \/ Poll \/ ReadCompleted \/ ReadSelection
    \/ \E c \in Chosen : SelectCourse(c)
    \/ \E u \in Users : Command(u)

Spec == Init /\ [][Next]_vars

-----------------------------------------------------------------------------
(* Asking whether a run is completed is a property that changes what it    *)
(* reads; asked again, it gives the same answer, whoever asked before.     *)
ReadingIsStable == [][ReadCompleted => Completed' = Completed]_vars

(* A cycle that was polled in its last minute is reported as completed     *)
(* after the next poll, wherever the washer went from there, and by a      *)
(* model that tells the previous state as by one that does not.            *)
CompletionReported == due => Completed

(* A start carries the course that was selected, with its defaults, or the *)
(* program reported since remote start was last seen off; whatever bit is  *)
(* written, the others are as they were reported.                          *)
Carries(sent, program, chosen) ==
    /\ sent.beep = program.beep
    /\ sent.initial = IF initialBit THEN 1 ELSE 0
    /\ IF chosen # Current THEN sent.course = chosen /\ sent.steam = SteamDefault[chosen]
       ELSE program.course \in Courses => sent.course = program.course /\ sent.steam = program.steam

StartsTheChosenCourse ==
    [][\A u \in Users : (pc[u] = "idle" /\ pc'[u] = "sent" /\ cmd'[u] = "remote_start") =>
        \/ payload'[u].course = "unsent"
        \/ \E program \in IF initialBit THEN armed ELSE {status.program} :
               Carries(payload'[u], program, selected')]_vars

(* A control permission that a V1 command has acquired is taken back by a  *)
(* poll, however polls and commands overlap, unless the command's answer   *)
(* was lost.                                                               *)
NoPermissionForgotten ==
    permission = "held" => controlSet > 0 \/ \E u \in Users : pc[u] = "handled"
=============================================================================
