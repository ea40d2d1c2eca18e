--------------------------- MODULE WasherDeviceProofs ----------------------------
(***************************************************************************)
(* WasherDevice for any callers, models, programs and lengths of frames:   *)
(* its types, the permission that is taken back, the cycle that is         *)
(* reported, and the course that is started.                               *)
(***************************************************************************)
EXTENDS WasherDevice, TLAPS

-----------------------------------------------------------------------------
(* Run states and reports. *)
LEMMA StateNameListed == \A v : StateName(v) \in Listed
  BY DEF StateName, Listed

LEMMA SaveRunTypes ==
    ASSUME NEW states \in Seq(Listed), Len(states) \in 0..2, NEW run \in Listed
    PROVE  /\ SaveRun(states, run) \in Seq(Listed) /\ Len(SaveRun(states, run)) \in 1..2
           /\ SaveRun(states, run)[1] = run
  <1>1. CASE states = <<>>
    <2>1. SaveRun(states, run) = <<run>>
      BY <1>1 DEF SaveRun
    <2>2. <<run>> \in Seq(Listed) /\ Len(<<run>>) = 1 /\ <<run>>[1] = run
      OBVIOUS
    <2>3. SaveRun(states, run) \in Seq(Listed)
      BY <2>1, <2>2
    <2>4. Len(SaveRun(states, run)) \in 1..2
      BY <2>1, <2>2
    <2>5. SaveRun(states, run)[1] = run
      BY <2>1, <2>2
    <2> QED BY <2>3, <2>4, <2>5
  <1>2. CASE states # <<>>
    <2>1. Len(states) \in 1..2 /\ states[1] \in Listed
      BY <1>2
    <2>2. CASE run = states[1]
      BY <1>2, <2>1, <2>2 DEF SaveRun
    <2>3. CASE run # states[1]
      BY <1>2, <2>1, <2>3 DEF SaveRun
    <2> QED BY <2>2, <2>3
  <1> QED BY <1>1, <1>2

LEMMA SavePreTypes ==
    ASSUME NEW states \in Seq(Listed), Len(states) \in 1..2, NEW pre \in Listed
    PROVE  SavePre(states, pre) = <<states[1], pre>>
  BY DEF SavePre

LEMMA DecodeTypes ==
    ASSUME NEW report \in Reports, NEW n \in 0 .. Len(Frame)
    PROVE  /\ DecodeFrame(report, n) \in Reports
           /\ DecodeFrame(report, n).program \in {report.program, ZeroProgram}
  <1>1. ToSet(Frame) = {"state", "left", "pre", "program", "remote"}
    BY DEF ToSet, Frame
  <1>2. Zero \in Reports /\ Zero.program = ZeroProgram
    BY DEF Zero, Reports, Encoded, Listed, ZeroProgram, Programs, Courses, SmartCourses
  <1> DEFINE received == ToSet(SubSeq(Frame, 1, n))
  <1>3. DecodeFrame(report, n) =
          [state   |-> IF "state" \in received THEN report.state ELSE Zero.state,
           pre     |-> IF "pre" \in received THEN report.pre ELSE Zero.pre,
           left    |-> IF "left" \in received THEN report.left ELSE Zero.left,
           program |-> IF "program" \in received THEN report.program ELSE Zero.program,
           remote  |-> IF "remote" \in received THEN report.remote ELSE Zero.remote]
    BY <1>1 DEF DecodeFrame
  <1> HIDE DEF received
  <1> QED BY <1>2, <1>3 DEF Reports

-----------------------------------------------------------------------------
(* Types, by what they belong to.  Only programs that are tried are        *)
(* reported, and a permission is only taken back while one is owed: the    *)
(* count of polls is not zero.                                             *)
ApplianceOK ==
    /\ model \in MCModels /\ washer \in Reports /\ washer.program \in MCPrograms
    /\ permission \in {"free", "held", "orphan"} /\ moves \in 0..MaxMoves
    /\ unseen \in 0..2 /\ once \in BOOLEAN

PollOK ==
    /\ stage \in {"idle", "asked", "heard", "deleting", "deleted"}
    /\ heard \in Reports \cup {NoReport} /\ heard.program \in MCPrograms
    /\ controlSet \in 0..2
    /\ stage \in {"deleting", "deleted"} => controlSet \in 1..2 /\ ~model.v2

StatusOK ==
    /\ status \in StatusType /\ status.program \in MCPrograms
    /\ runStates \in Seq(Listed) /\ Len(runStates) \in 0..2

RemoteOK ==
    /\ copy \in MCPrograms \cup {NoProgram} /\ selected \in Courses \cup {Current}
    /\ pressed \in BOOLEAN /\ standBy \in BOOLEAN /\ initialBit \in BOOLEAN
    /\ armed \subseteq MCPrograms

CycleOK == completed \in BOOLEAN /\ finishing \in BOOLEAN /\ due \in BOOLEAN

CommandOK ==
    /\ pc \in [Users -> {"idle", "sent", "handled"}]
    /\ cmd \in [Users -> Kinds \cup {"none"}] /\ DOMAIN payload = Users

TypeInv == ApplianceOK /\ PollOK /\ StatusOK /\ RemoteOK /\ CycleOK /\ CommandOK

LEMMA TypeInvImplies == TypeInv => TypeOK
  <1> SUFFICES ASSUME TypeInv
               PROVE  TypeOK
    OBVIOUS
  <1>1. {pressed, standBy, initialBit, completed, finishing} \subseteq BOOLEAN
    BY DEF TypeInv, RemoteOK, CycleOK
  <1> QED
    BY <1>1 DEF TypeInv, ApplianceOK, PollOK, StatusOK, RemoteOK, CycleOK, CommandOK, TypeOK

LEMMA TypeInit == Init => TypeInv
  <1> SUFFICES ASSUME Init
               PROVE  TypeInv
    OBVIOUS
  <1> USE WasherAssumption
  <1>1. Zero \in Reports /\ Zero.program = ZeroProgram /\ ZeroProgram \in Programs
    BY DEF Zero, Reports, Encoded, Listed, ZeroProgram, Programs, Courses, SmartCourses
  <1>2. ApplianceOK
    <2>1. ASSUME NEW p \in MCPrograms
          PROVE  SwitchedOn(p) \in Reports /\ SwitchedOn(p).program \in MCPrograms
      BY <1>1 DEF SwitchedOn, Reports, Encoded, Listed
    <2>2. Ending \in Reports /\ Ending.program \in MCPrograms
      <3> DEFINE pre == IF model.pre THEN "init" ELSE "off"
      <3>1. pre \in Listed
        BY DEF Listed
      <3>2. Ending = [state |-> "run", pre |-> pre, left |-> 1, program |-> ZeroProgram,
                      remote |-> FALSE]
        BY DEF Ending
      <3> HIDE DEF pre
      <3> QED BY <1>1, <3>1, <3>2 DEF Reports, Encoded, Listed
    <2>3. model \in MCModels /\ permission = "free" /\ moves = 0 /\ unseen = 2 /\ once = FALSE
      BY DEF Init
    <2>4. washer \in {SwitchedOn(p) : p \in MCPrograms} \cup {Ending}
      BY DEF Init
    <2>5. moves \in 0..MaxMoves /\ unseen \in 0..2
      BY <2>3, WasherAssumption
    <2>6. permission \in {"free", "held", "orphan"} /\ once \in BOOLEAN
      BY <2>3
    <2>7. washer \in Reports /\ washer.program \in MCPrograms
      BY <2>1, <2>2, <2>4
    <2> QED BY <2>3, <2>5, <2>6, <2>7 DEF ApplianceOK
  <1>3. PollOK
    <2>1. NoReport.program = ZeroProgram
      BY DEF NoReport, Zero
    <2>2. stage = "idle" /\ heard = NoReport /\ controlSet = 0
      BY DEF Init
    <2> QED BY <2>1, <2>2 DEF PollOK
  <1>4. StatusOK
    <2> DEFINE pre == IF model.pre THEN "off" ELSE "none"
    <2>1. pre \in Listed \cup {"none"}
      BY DEF Listed
    <2>2. /\ status = [state |-> "missing", left |-> 0, program |-> ZeroProgram, run |-> "unread",
                       pre |-> pre]
          /\ runStates = <<>>
      BY DEF Init
    <2> HIDE DEF pre
    <2>3. status \in StatusType /\ status.program = ZeroProgram
      BY <1>1, <2>1, <2>2 DEF StatusType, Encoded, Listed
    <2> QED BY <2>2, <2>3 DEF StatusOK
  <1>5. RemoteOK /\ CycleOK /\ CommandOK
    BY DEF Init, RemoteOK, CycleOK, CommandOK
  <1> QED BY <1>2, <1>3, <1>4, <1>5 DEF TypeInv

LEMMA ReadTypes ==
    ASSUME TypeInv
    PROVE  /\ Run \in Listed /\ Read \in StatusType /\ Read.program \in MCPrograms
           /\ RunsRead \in Seq(Listed) /\ Len(RunsRead) \in 0..2
  <1>1. /\ status \in StatusType /\ status.program \in MCPrograms
        /\ runStates \in Seq(Listed) /\ Len(runStates) \in 0..2
    BY DEF TypeInv, StatusOK
  <1>2. Run \in Listed
    BY <1>1, StateNameListed DEF Run, StatusType
  <1>3. Read \in StatusType /\ Read.program = status.program
    BY <1>1, <1>2 DEF Read, StatusType
  <1>4. RunsRead \in Seq(Listed) /\ Len(RunsRead) \in 0..2
    <2>1. SaveRun(runStates, Run) \in Seq(Listed) /\ Len(SaveRun(runStates, Run)) \in 1..2
      BY <1>1, <1>2, SaveRunTypes
    <2>2. CASE status.run = "unread"
      BY <2>1, <2>2 DEF RunsRead
    <2>3. CASE status.run # "unread"
      BY <1>1, <2>3 DEF RunsRead
    <2> QED BY <2>2, <2>3
  <1> QED BY <1>1, <1>2, <1>3, <1>4

LEMMA BecomesTypes ==
    ASSUME TypeInv, NEW state \in Encoded \ {"missing"}, NEW left \in 0..2, NEW remote \in BOOLEAN,
           NEW program \in MCPrograms, Becomes(state, left, remote, program)
    PROVE  /\ washer' \in Reports /\ washer'.program \in MCPrograms
           /\ moves' \in 0..MaxMoves /\ unseen' \in 0..2
  <1>1. washer \in Reports /\ moves \in 0..MaxMoves /\ unseen \in 0..2 /\ MaxMoves \in Nat
    BY WasherAssumption DEF TypeInv, ApplianceOK
  <1>2. program \in Programs
    BY WasherAssumption
  <1>3. moves' \in 0..MaxMoves /\ unseen' \in 0..2
    BY <1>1 DEF Becomes
  <1> DEFINE pre == IF model.pre /\ washer.state \in Listed THEN washer.state ELSE washer.pre
  <1>4. pre \in Listed
    BY <1>1 DEF Reports
  <1>5. washer' = [state |-> state, pre |-> pre, left |-> left, program |-> program,
                   remote |-> remote]
    BY DEF Becomes
  <1> HIDE DEF pre
  <1> QED BY <1>2, <1>3, <1>4, <1>5 DEF Reports

LEMMA MovesTypes ==
    ASSUME TypeInv, SwitchOn \/ SwitchOff \/ Pause \/ \E p \in MCPrograms : Begin(p)
    PROVE  /\ washer' \in Reports /\ washer'.program \in MCPrograms
           /\ moves' \in 0..MaxMoves /\ unseen' \in 0..2
  <1>1. /\ washer.program \in MCPrograms /\ washer.left \in 0..2 /\ washer.remote \in BOOLEAN
    BY DEF TypeInv, ApplianceOK, Reports
  <1>2. /\ {"init", "off", "pause", "run"} \subseteq Encoded \ {"missing"}
        /\ 0 \in 0..2 /\ FALSE \in BOOLEAN
    BY DEF Encoded, Listed
  <1>3. CASE SwitchOn
    BY <1>1, <1>2, <1>3, BecomesTypes, Zenon DEF SwitchOn
  <1>4. CASE SwitchOff
    BY <1>1, <1>2, <1>4, BecomesTypes, Zenon DEF SwitchOff
  <1>5. CASE Pause
    BY <1>1, <1>2, <1>5, BecomesTypes, Zenon DEF Pause
  <1>6. ASSUME NEW p \in MCPrograms, Begin(p)
        PROVE  /\ washer' \in Reports /\ washer'.program \in MCPrograms
               /\ moves' \in 0..MaxMoves /\ unseen' \in 0..2
    <2>1. (IF washer.left = 0 THEN 2 ELSE washer.left) \in 0..2
      BY <1>1
    <2> QED BY <1>1, <1>2, <1>6, <2>1, BecomesTypes, Zenon DEF Begin
  <1> QED BY <1>3, <1>4, <1>5, <1>6

(* What the actions of the appliance, of a poll and of the commands leave  *)
(* alone.                                                                  *)
LEMMA TypesKept ==
    ASSUME TypeInv
    PROVE  /\ UNCHANGED <<model, applianceVars, unseen, once>> => ApplianceOK'
           /\ UNCHANGED <<model, pollVars, controlSet>> => PollOK'
           /\ UNCHANGED statusVars => StatusOK'
           /\ UNCHANGED <<remoteVars, armed>> => RemoteOK'
           /\ UNCHANGED <<cycleVars, due>> => CycleOK'
           /\ UNCHANGED commandVars => CommandOK'
  <1>1. UNCHANGED <<model, applianceVars, unseen, once>> => ApplianceOK'
    BY DEF TypeInv, ApplianceOK, applianceVars
  <1>2. UNCHANGED <<model, pollVars, controlSet>> => PollOK'
    BY DEF TypeInv, PollOK, pollVars
  <1>3. UNCHANGED statusVars => StatusOK'
    BY DEF TypeInv, StatusOK, statusVars
  <1>4. UNCHANGED <<remoteVars, armed>> => RemoteOK'
    BY DEF TypeInv, RemoteOK, remoteVars
  <1>5. UNCHANGED <<cycleVars, due>> => CycleOK'
    BY DEF TypeInv, CycleOK, cycleVars
  <1>6. UNCHANGED commandVars => CommandOK'
    BY DEF TypeInv, CommandOK, commandVars
  <1> QED BY <1>1, <1>2, <1>3, <1>4, <1>5, <1>6

LEMMA WasherKeepsTypes ==
    ASSUME TypeInv, WasherMoves
    PROVE  TypeInv'
  <1>1. /\ washer \in Reports /\ washer.program \in MCPrograms /\ washer.left \in 0..2
        /\ washer.remote \in BOOLEAN /\ moves \in 0..MaxMoves /\ unseen \in 0..2
    BY DEF TypeInv, ApplianceOK, Reports
  <1>2. washer' \in Reports /\ washer'.program \in MCPrograms
        /\ moves' \in 0..MaxMoves /\ unseen' \in 0..2
    <2>1. CASE SwitchOn
      BY <1>1, <2>1, MovesTypes
    <2>2. CASE SwitchOff
      BY <1>1, <2>2, MovesTypes
    <2>3. CASE Begin(washer.program)
      BY <1>1, <2>3, MovesTypes
    <2>4. CASE Pause
      BY <1>1, <2>4, MovesTypes
    <2>5. CASE Break
      BY <1>1, <2>5, BecomesTypes DEF Break, Encoded, Listed
    <2>6. CASE Finish
      <3>1. PICK s \in {"end", "off", "init"} : Becomes(s, 0, FALSE, washer.program)
        BY <2>6 DEF Finish
      <3>2. s \in Encoded \ {"missing"} /\ 0 \in 0..2 /\ FALSE \in BOOLEAN
        BY DEF Encoded, Listed
      <3> QED BY <1>1, <3>1, <3>2, BecomesTypes, Zenon
    <2>7. CASE Changes
      <3>1. MCPrograms \subseteq Programs
        BY WasherAssumption
      <3>2. CASE washer' = [washer EXCEPT !.remote = ~washer.remote]
        <4>1. washer' \in Reports /\ washer'.program = washer.program
          BY <1>1, <3>2, Zenon DEF Reports
        <4> QED BY <1>1, <2>7, <4>1 DEF Changes
      <3>3. ASSUME NEW p \in MCPrograms, washer' = [washer EXCEPT !.program = p]
            PROVE  washer' \in Reports /\ washer'.program \in MCPrograms
                   /\ moves' \in 0..MaxMoves /\ unseen' \in 0..2
        BY <1>1, <2>7, <3>1, <3>3 DEF Changes, Reports
      <3>4. CASE washer' = [washer EXCEPT !.left = 1]
        BY <1>1, <2>7, <3>4 DEF Changes, Reports
      <3> QED BY <2>7, <3>2, <3>3, <3>4 DEF Changes
    <2> QED BY <2>1, <2>2, <2>3, <2>4, <2>5, <2>6, <2>7 DEF WasherMoves
  <1>3. /\ UNCHANGED <<model, permission, once>>
        /\ UNCHANGED <<pollVars, controlSet>> /\ UNCHANGED statusVars
        /\ UNCHANGED <<remoteVars, armed>> /\ UNCHANGED <<cycleVars, due>> /\ UNCHANGED commandVars
    BY DEF WasherMoves
  <1>4. ApplianceOK'
    BY <1>2, <1>3 DEF TypeInv, ApplianceOK
  <1> QED BY <1>3, <1>4, TypesKept DEF TypeInv

LEMMA ReadingKeepsTypes ==
    ASSUME TypeInv, ReadCompleted \/ ReadSelection \/ \E c \in Chosen : SelectCourse(c)
    PROVE  TypeInv'
  <1>1. status' = Read /\ runStates' = RunsRead
    BY DEF ReadCompleted, ReadSelection, SelectCourse
  <1>2. StatusOK'
    BY <1>1, ReadTypes DEF StatusOK
  <1>3. CASE ReadCompleted
    <2>1. completed' \in BOOLEAN /\ finishing' \in BOOLEAN
      BY <1>3 DEF ReadCompleted, Completed, StatusCompleted, HasStopped
    <2>2. /\ UNCHANGED <<model, applianceVars, unseen, once>> /\ UNCHANGED <<pollVars, controlSet>>
          /\ UNCHANGED <<remoteVars, armed>> /\ UNCHANGED due /\ UNCHANGED commandVars
      BY <1>3 DEF ReadCompleted, historyVars
    <2>3. CycleOK'
      BY <2>1, <2>2 DEF TypeInv, CycleOK
    <2> QED BY <1>2, <2>2, <2>3, TypesKept DEF TypeInv
  <1>4. CASE ReadSelection \/ \E c \in Chosen : SelectCourse(c)
    <2>1. selected' \in Courses \cup {Current}
      BY <1>4, WasherAssumption DEF ReadSelection, SelectCourse, TypeInv, RemoteOK
    <2>2. /\ UNCHANGED <<model, applianceVars, unseen, once>> /\ UNCHANGED <<pollVars, controlSet>>
          /\ UNCHANGED <<copy, pressed, standBy, initialBit, armed>>
          /\ UNCHANGED <<cycleVars, due>> /\ UNCHANGED commandVars
      BY <1>4 DEF ReadSelection, SelectCourse, historyVars
    <2>3. RemoteOK'
      BY <2>1, <2>2 DEF TypeInv, RemoteOK
    <2> QED BY <1>2, <2>2, <2>3, TypesKept DEF TypeInv
  <1> QED BY <1>3, <1>4

(* The run states that a report leaves: of the report, and the one before. *)
LEMMA TakeStatesTypes ==
    ASSUME TypeInv, heard \in Reports, TakeStates
    PROVE  /\ StatusOK' /\ status'.run = StateName(heard.state) /\ status'.left = MinutesLeft
           /\ runStates' # <<>> /\ runStates'[1] = status'.run
  <1> DEFINE run    == StateName(heard.state)
             states == SaveRun(runStates, run)
             named  == model.pre /\ StateName(heard.pre) # run
             pre    == IF ~model.pre THEN "none"
                       ELSE IF named THEN StateName(heard.pre) ELSE states[Len(states)]
  <1>1. /\ heard.state \in Encoded /\ heard.left \in 0..2
        /\ heard.program \in MCPrograms /\ heard.program \in Programs
    BY WasherAssumption DEF TypeInv, PollOK, Reports
  <1>2. run \in Listed /\ StateName(heard.pre) \in Listed
    BY StateNameListed
  <1>3. states \in Seq(Listed) /\ Len(states) \in 1..2 /\ states[1] = run
    BY <1>2, SaveRunTypes DEF TypeInv, StatusOK
  <1>4. states[Len(states)] \in Listed /\ states[1] \in Listed
    BY <1>3
  <1>5. MinutesLeft \in 0..2
    BY <1>1 DEF MinutesLeft
  <1>6. /\ runStates' = IF named THEN SavePre(states, pre) ELSE states
        /\ status' = [state |-> heard.state, left |-> MinutesLeft, program |-> heard.program,
                      run |-> run, pre |-> pre]
    BY DEF TakeStates
  <1>7. pre \in Listed \cup {"none"} /\ (named => pre = StateName(heard.pre))
    BY <1>2, <1>4
  <1> HIDE DEF run, states, named, pre
  <1>8. status' \in StatusType /\ status'.program \in MCPrograms
        /\ status'.run = run /\ status'.left = MinutesLeft
    BY <1>1, <1>2, <1>5, <1>6, <1>7 DEF StatusType
  <1>9. /\ runStates' \in Seq(Listed) /\ Len(runStates') \in 0..2
        /\ runStates' # <<>> /\ runStates'[1] = run
    <2>1. CASE named
      <3>1. runStates' = <<states[1], pre>> /\ pre \in Listed
        BY <1>2, <1>3, <1>6, <1>7, <2>1, SavePreTypes
      <3> QED BY <3>1, <1>3, <1>4
    <2>2. CASE ~named
      BY <1>3, <1>6, <2>2
    <2> QED BY <2>1, <2>2
  <1> QED BY <1>8, <1>9 DEF StatusOK, run

LEMMA NoReportTypes == NoReport.program \in MCPrograms
  BY WasherAssumption DEF NoReport, Zero

LEMMA PollKeepsTypes ==
    ASSUME TypeInv, Poll
    PROVE  TypeInv'
  <1>1. CASE Ask \/ Release \/ PermissionDeleted \/ PollFails \/ NoData
    <2>1. /\ UNCHANGED <<model, washer, moves, statusVars, cycleVars, commandVars, controlSet>>
          /\ UNCHANGED <<copy, pressed, initialBit, selected, armed, due>>
          /\ permission' = permission \/ permission' = "free"
          /\ standBy' = standBy \/ standBy' = FALSE
          /\ unseen' = unseen \/ unseen' = 2
          /\ once' = once \/ once' = FALSE
      BY <1>1 DEF Ask, Release, PermissionDeleted, PollFails, NoData, applianceVars, remoteVars,
                  historyVars
    <2>2. /\ heard' \in {heard, NoReport}
          /\ stage' \in {"idle", "asked"} \/ (stage' = "deleting" /\ controlSet = 1 /\ ~model.v2)
                \/ (stage = "deleting" /\ stage' = "deleted")
      BY <1>1 DEF Ask, Release, PermissionDeleted, PollFails, NoData, pollVars
    <2>3. PollOK'
      BY <2>1, <2>2, NoReportTypes DEF TypeInv, PollOK
    <2>4. ApplianceOK' /\ RemoteOK' /\ CycleOK'
      <3>1. unseen' \in 0..2 /\ once' \in BOOLEAN /\ permission' \in {"free", "held", "orphan"}
        <4>1. unseen \in 0..2 /\ once \in BOOLEAN /\ permission \in {"free", "held", "orphan"}
          BY DEF TypeInv, ApplianceOK
        <4>2. unseen' \in 0..2
          BY <2>1, <4>1
        <4>3. once' \in BOOLEAN
          BY <2>1, <4>1
        <4>4. permission' \in {"free", "held", "orphan"}
          BY <2>1, <4>1
        <4> QED BY <4>2, <4>3, <4>4
      <3>2. ApplianceOK'
        BY <2>1, <3>1 DEF TypeInv, ApplianceOK
      <3>3. standBy' \in BOOLEAN
        BY <2>1 DEF TypeInv, RemoteOK
      <3>4. RemoteOK' /\ CycleOK'
        BY <2>1, <3>3 DEF TypeInv, RemoteOK, CycleOK, cycleVars
      <3> QED BY <3>2, <3>4
    <2>5. StatusOK' /\ CommandOK'
      BY <2>1, TypesKept
    <2> QED BY <2>3, <2>4, <2>5 DEF TypeInv
  <1>2. CASE Answer
    <2>1. heard' \in Reports \cup {NoReport} /\ heard'.program \in MCPrograms
      <3>1. washer \in Reports /\ washer.program \in MCPrograms
        BY DEF TypeInv, ApplianceOK
      <3>2. \A n \in Lengths : /\ DecodeFrame(washer, n) \in Reports
                               /\ DecodeFrame(washer, n).program \in MCPrograms
        BY <3>1, DecodeTypes, WasherAssumption
      <3>3. heard' \in Samples
        BY <1>2 DEF Answer
      <3> QED BY <3>1, <3>2, <3>3, NoReportTypes DEF Samples
    <2>2. /\ UNCHANGED <<model, washer, permission, moves, controlSet>> /\ stage' = "heard"
          /\ unseen' = 0 /\ once' = (unseen = 1)
          /\ UNCHANGED statusVars /\ UNCHANGED <<remoteVars, armed>>
          /\ UNCHANGED <<cycleVars, due>> /\ UNCHANGED commandVars
      BY <1>2 DEF Answer, applianceVars
    <2>3. ApplianceOK'
      <3>1. unseen' \in 0..2
        BY <2>2
      <3>2. once' \in BOOLEAN
        BY <2>2
      <3> QED BY <2>2, <3>1, <3>2 DEF TypeInv, ApplianceOK
    <2>4. PollOK'
      BY <2>1, <2>2 DEF TypeInv, PollOK
    <2> QED BY <2>2, <2>3, <2>4, TypesKept DEF TypeInv
  <1>3. CASE EndPoll
    <2>1. /\ UNCHANGED <<model, washer, permission, moves, selected, completed>>
          /\ stage' = "idle" /\ heard' = NoReport
          /\ unseen' \in {2, unseen} /\ once' = FALSE
          /\ UNCHANGED commandVars /\ TakeReport
      BY <1>3 DEF EndPoll, applianceVars
    <2>2. controlSet' \in 0..2
      <3>1. controlSet \in 0..2 /\ (stage = "deleted" => controlSet \in 1..2)
        BY DEF TypeInv, PollOK
      <3>2. \/ controlSet' = controlSet
            \/ controlSet' = controlSet - 1 /\ (controlSet > 0 \/ stage = "deleted")
        BY <1>3 DEF EndPoll
      <3> QED BY <3>1, <3>2
    <2>3. ApplianceOK' /\ PollOK'
      <3>1. unseen' \in 0..2
        BY <2>1 DEF TypeInv, ApplianceOK
      <3>2. once' \in BOOLEAN
        BY <2>1
      <3>3. ApplianceOK'
        BY <2>1, <3>1, <3>2 DEF TypeInv, ApplianceOK
      <3>4. PollOK'
        BY <2>1, <2>2, NoReportTypes DEF TypeInv, PollOK
      <3> QED BY <3>3, <3>4
    <2>4. CommandOK'
      BY <2>1, TypesKept
    <2>5. CASE heard = NoReport
      <3>1. /\ UNCHANGED <<statusVars, copy, pressed, initialBit, armed, finishing, due>>
            /\ standBy' = FALSE
        BY <2>1, <2>5 DEF TakeReport
      <3>2. StatusOK'
        BY <3>1, TypesKept
      <3>3. RemoteOK' /\ CycleOK'
        BY <2>1, <3>1 DEF TypeInv, RemoteOK, CycleOK
      <3> QED BY <2>3, <2>4, <3>2, <3>3 DEF TypeInv
    <2>6. CASE heard # NoReport
      <3>1. heard \in Reports /\ heard.program \in MCPrograms /\ heard.remote \in BOOLEAN
        BY <2>6 DEF TypeInv, PollOK, Reports
      <3>2. TakeStates /\ TakeRemote /\ TakeMinutes /\ due' = HasFinished
        BY <2>1, <2>6 DEF TakeReport
      <3>3. StatusOK'
        BY <3>1, <3>2, TakeStatesTypes
      <3>4. RemoteOK'
        <4>1. /\ pressed' \in BOOLEAN /\ standBy' \in BOOLEAN /\ initialBit' \in BOOLEAN
          BY <3>2 DEF TakeRemote
        <4>2. copy' \in MCPrograms \cup {NoProgram} /\ armed' \subseteq MCPrograms
          BY <3>1, <3>2 DEF TakeRemote, TypeInv, RemoteOK
        <4> QED BY <2>1, <4>1, <4>2 DEF TypeInv, RemoteOK
      <3>5. CycleOK'
        BY <2>1, <3>2 DEF TakeMinutes, HasFinished, TypeInv, CycleOK
      <3> QED BY <2>3, <2>4, <3>3, <3>4, <3>5 DEF TypeInv
    <2> QED BY <2>5, <2>6
  <1> QED BY <1>1, <1>2, <1>3 DEF Poll

LEMMA SendKeepsTypes ==
    ASSUME TypeInv, NEW u \in Users,
           SendPowerOff(u) \/ SendWakeUp(u) \/ SendPause(u) \/ RemoteStart(u)
    PROVE  TypeInv'
  <1>1. PICK kind \in Kinds, chosen \in Courses \cup {Current} :
           /\ \E data : Send(u, kind, data)
           /\ selected' = Selection(kind, chosen)
           /\ \/ UNCHANGED statusVars
              \/ status' = Read /\ runStates' = RunsRead
    <2>1. {"power_off", "wake_up", "pause", "remote_start"} = Kinds
      BY DEF Kinds
    <2>2. selected \in Courses \cup {Current}
      BY DEF TypeInv, RemoteOK
    <2>3. CASE SendPowerOff(u)
      BY <2>1, <2>2, <2>3 DEF SendPowerOff
    <2>4. CASE SendWakeUp(u)
      BY <2>1, <2>2, <2>4 DEF SendWakeUp
    <2>5. CASE SendPause(u)
      BY <2>1, <2>2, <2>5 DEF SendPause
    <2>6. CASE RemoteStart(u)
      <3>1. PICK chosen \in {selected} \cup (IF initialBit THEN Chosen ELSE {}) :
               SendStart(u, chosen)
        BY <2>6 DEF RemoteStart
      <3>2. chosen \in Courses \cup {Current}
        BY <2>2, <3>1, WasherAssumption
      <3> QED BY <2>1, <3>1, <3>2 DEF SendStart
    <2> QED BY <2>3, <2>4, <2>5, <2>6
  <1>2. /\ UNCHANGED <<model, applianceVars, unseen, once>> /\ UNCHANGED <<pollVars, controlSet>>
        /\ UNCHANGED <<copy, pressed, standBy, initialBit, armed>> /\ UNCHANGED <<cycleVars, due>>
        /\ pc' = [pc EXCEPT ![u] = "sent"] /\ cmd' = [cmd EXCEPT ![u] = kind]
        /\ \E data : payload' = [payload EXCEPT ![u] = data]
    BY <1>1 DEF Send, historyVars
  <1>3. CommandOK'
    BY <1>2 DEF TypeInv, CommandOK
  <1>4. RemoteOK'
    <2>1. selected' \in Courses \cup {Current}
      BY <1>1 DEF Selection
    <2> QED BY <1>2, <2>1 DEF TypeInv, RemoteOK
  <1>5. StatusOK'
    BY <1>1, ReadTypes, TypesKept DEF StatusOK
  <1> QED BY <1>2, <1>3, <1>4, <1>5, TypesKept DEF TypeInv

(* What an answer makes of the status: another state, to be named again. *)
LEMMA UpdateStatusTypes ==
    ASSUME TypeInv, NEW value \in Listed, UpdateStatus(value)
    PROVE  /\ status' \in StatusType
           /\ status'.program = status.program /\ due' \in BOOLEAN
           /\ \/ UNCHANGED <<status, due>>
              \/ status'.run = "unread" /\ due' = FALSE
  <1>1. status \in StatusType /\ due \in BOOLEAN
    BY DEF TypeInv, StatusOK, CycleOK
  <1>2. CASE status.state = "missing"
    BY <1>1, <1>2 DEF UpdateStatus
  <1>3. CASE status.state # "missing"
    <2>1. status' = [status EXCEPT !.state = value, !.run = "unread"] /\ due' = FALSE
      BY <1>3 DEF UpdateStatus
    <2>2. value \in Encoded
      BY DEF Encoded
    <2>3. status' \in StatusType /\ status'.program = status.program /\ status'.run = "unread"
      BY <1>1, <2>1, <2>2 DEF StatusType
    <2> QED BY <2>1, <2>3
  <1> QED BY <1>2, <1>3

LEMMA AnswerKeepsTypes ==
    ASSUME TypeInv, NEW u \in Users, Handle(u) \/ Succeed(u) \/ Fail(u)
    PROVE  TypeInv'
  <1>1. CommandOK'
    <2>1. \/ pc' = [pc EXCEPT ![u] = "handled"] /\ UNCHANGED cmd
          \/ pc' = [pc EXCEPT ![u] = "idle"] /\ cmd' = [cmd EXCEPT ![u] = "none"]
      BY DEF Handle, Succeed, Fail, Return
    <2>2. payload' = [payload EXCEPT ![u] = NoPayload] \/ UNCHANGED payload
      BY DEF Handle, Succeed, Fail
    <2>3. DOMAIN payload' = Users
      BY <2>2 DEF TypeInv, CommandOK
    <2> QED BY <2>1, <2>3 DEF TypeInv, CommandOK
  <1>2. CASE Handle(u)
    <2>1. /\ UNCHANGED <<model, once>> /\ permission' \in {permission, "held"}
          /\ UNCHANGED <<pollVars, controlSet>> /\ UNCHANGED statusVars
          /\ UNCHANGED <<remoteVars, armed>> /\ UNCHANGED <<cycleVars, due>>
      BY <1>2 DEF Handle
    <2>2. /\ washer' \in Reports /\ washer'.program \in MCPrograms
          /\ moves' \in 0..MaxMoves /\ unseen' \in 0..2
      <3>1. \/ SwitchOff \/ SwitchOn \/ Pause \/ \E p \in MCPrograms : Begin(p)
            \/ UNCHANGED <<washer, moves, unseen>>
        BY <1>2 DEF Handle, Obey
      <3> QED BY <3>1, MovesTypes DEF TypeInv, ApplianceOK
    <2>3. ApplianceOK'
      BY <2>1, <2>2 DEF TypeInv, ApplianceOK
    <2> QED BY <1>1, <2>1, <2>3, TypesKept DEF TypeInv
  <1>3. CASE Succeed(u)
    <2>1. /\ UNCHANGED <<model, applianceVars, unseen, once>>
          /\ UNCHANGED <<pollVars, runStates, initialBit, selected, cycleVars>>
          /\ Acquired /\ Done(u)
      BY <1>3 DEF Succeed
    <2>2. PollOK'
      BY <2>1 DEF Acquired, TypeInv, PollOK, pollVars
    <2>3. /\ copy' = copy \/ copy' = NoProgram
          /\ armed' = armed \/ armed' = {}
          /\ pressed' = pressed \/ pressed' = TRUE
          /\ standBy' = standBy \/ standBy' = FALSE
          /\ UNCHANGED <<status, due>> \/ \E value \in Listed : UpdateStatus(value)
      BY <2>1 DEF Done, Listed
    <2>4. RemoteOK'
      BY <2>1, <2>3 DEF TypeInv, RemoteOK
    <2>5. status' \in StatusType /\ status'.program = status.program /\ due' \in BOOLEAN
      BY <2>3, UpdateStatusTypes DEF TypeInv, StatusOK, CycleOK
    <2>6. StatusOK' /\ CycleOK'
      BY <2>1, <2>5 DEF TypeInv, StatusOK, CycleOK, cycleVars
    <2> QED BY <1>1, <2>1, <2>2, <2>4, <2>6, TypesKept DEF TypeInv
  <1>4. CASE Fail(u)
    <2>1. /\ UNCHANGED <<model, washer, moves, unseen, once>>
          /\ permission' = permission \/ permission' = "orphan"
          /\ UNCHANGED <<pollVars, controlSet>> /\ UNCHANGED statusVars
          /\ UNCHANGED <<remoteVars, armed>> /\ UNCHANGED <<cycleVars, due>>
      BY <1>4 DEF Fail, historyVars
    <2>2. ApplianceOK'
      BY <2>1 DEF TypeInv, ApplianceOK
    <2> QED BY <1>1, <2>1, <2>2, TypesKept DEF TypeInv
  <1> QED BY <1>2, <1>3, <1>4

LEMMA TypeStep == TypeInv /\ [Next]_vars => TypeInv'
  <1> SUFFICES ASSUME TypeInv, [Next]_vars
               PROVE  TypeInv'
    OBVIOUS
  <1>1. CASE Next
    BY <1>1, WasherKeepsTypes, PollKeepsTypes, ReadingKeepsTypes, SendKeepsTypes, AnswerKeepsTypes
       DEF Next, Command
  <1>2. CASE UNCHANGED vars
    <2>1. /\ UNCHANGED <<model, applianceVars, unseen, once>> /\ UNCHANGED <<pollVars, controlSet>>
          /\ UNCHANGED statusVars /\ UNCHANGED <<remoteVars, armed>>
          /\ UNCHANGED <<cycleVars, due>> /\ UNCHANGED commandVars
      BY <1>2 DEF vars, historyVars
    <2> QED BY <2>1, TypesKept DEF TypeInv
  <1> QED BY <1>1, <1>2

(* The inductive invariant of the types holds throughout. *)
THEOREM TypeInvariant == Spec => []TypeInv
  BY TypeInit, TypeStep, PTL DEF Spec

(* Whatever is reported, in frames of whatever length: the run states kept *)
(* are at most two, and every variable keeps its type.                     *)
THEOREM TypeCorrect == Spec => []TypeOK
  BY TypeInvariant, TypeInvImplies, PTL

-----------------------------------------------------------------------------
(* The permission.  It is only forgotten by the end of a poll that takes   *)
(* it back: that one has deleted it, unless a command has acquired it      *)
(* again since, which has started the count again or is still to answer.   *)
Handled == \E u \in Users : pc[u] = "handled"

PermissionInv ==
    /\ model.v2 => permission = "free" /\ controlSet = 0
    /\ (stage = "deleted" /\ permission = "held") => controlSet = 2 \/ Handled
    /\ permission = "held" => controlSet > 0 \/ Handled

LEMMA PermissionStep == TypeInv /\ PermissionInv /\ [Next]_vars => PermissionInv'
  <1> SUFFICES ASSUME TypeInv, PermissionInv, [Next]_vars
               PROVE  PermissionInv'
    OBVIOUS
  <1>1. CASE UNCHANGED <<model, permission, controlSet, stage, pc>>
    BY <1>1 DEF PermissionInv, Handled
  <1>2. CASE WasherMoves \/ ReadCompleted \/ ReadSelection \/ \E c \in Chosen : SelectCourse(c)
    BY <1>1, <1>2
       DEF WasherMoves, ReadCompleted, ReadSelection, SelectCourse, applianceVars, pollVars,
           commandVars
  <1>3. CASE Ask \/ Answer \/ Release \/ PollFails \/ NoData
    <2>1. /\ UNCHANGED <<model, permission, controlSet, pc>> /\ stage' # "deleted"
      BY <1>3 DEF Ask, Answer, Release, PollFails, NoData, applianceVars, commandVars
    <2> QED BY <2>1 DEF PermissionInv, Handled
  <1>4. CASE PermissionDeleted
    <2>1. UNCHANGED <<model, controlSet>> /\ permission' = "free"
      BY <1>4 DEF PermissionDeleted
    <2> QED BY <2>1 DEF PermissionInv
  <1>5. CASE EndPoll
    <2>1. /\ UNCHANGED <<model, permission, pc>> /\ stage' = "idle"
          /\ \/ /\ stage = "heard" /\ (model.v2 \/ controlSet # 1)
                /\ controlSet' = IF ~model.v2 /\ controlSet > 0 THEN controlSet - 1 ELSE controlSet
             \/ stage = "deleted" /\ controlSet' = controlSet - 1
      BY <1>5 DEF EndPoll, applianceVars, commandVars
    <2>2. controlSet \in 0..2 /\ (stage = "deleted" => ~model.v2)
      BY DEF TypeInv, PollOK
    <2> QED BY <2>1, <2>2 DEF PermissionInv, Handled
  <1>6. ASSUME NEW u \in Users, Command(u)
        PROVE  PermissionInv'
    <2>1. pc \in [Users -> {"idle", "sent", "handled"}]
      BY DEF TypeInv, CommandOK
    <2>2. CASE SendPowerOff(u) \/ SendWakeUp(u) \/ SendPause(u) \/ RemoteStart(u)
      <3>1. /\ UNCHANGED <<model, permission, controlSet, stage>>
            /\ pc[u] = "idle" /\ pc' = [pc EXCEPT ![u] = "sent"]
        BY <2>2 DEF SendPowerOff, SendWakeUp, SendPause, RemoteStart, SendStart, Send,
                    applianceVars, pollVars
      <3> QED BY <2>1, <3>1 DEF PermissionInv, Handled
    <2>3. CASE Handle(u)
      <3>1. /\ UNCHANGED <<model, controlSet, stage>>
            /\ permission' = IF model.v2 THEN permission ELSE "held"
            /\ pc' = [pc EXCEPT ![u] = "handled"]
        BY <2>3 DEF Handle, pollVars
      <3>2. Handled'
        BY <2>1, <3>1 DEF Handled
      <3> QED BY <3>1, <3>2 DEF PermissionInv
    <2>4. CASE Succeed(u)
      <3>1. /\ UNCHANGED <<model, permission, stage>>
            /\ controlSet' = IF model.v2 THEN controlSet ELSE 2
        BY <2>4 DEF Succeed, Acquired, applianceVars, pollVars
      <3> QED BY <3>1 DEF PermissionInv
    <2>5. CASE Fail(u)
      <3>1. /\ UNCHANGED <<model, controlSet, stage>>
            /\ pc' = [pc EXCEPT ![u] = "idle"]
            /\ permission' = IF pc[u] = "handled" /\ permission = "held" THEN "orphan"
                             ELSE permission
        BY <2>5 DEF Fail, Return, pollVars
      <3>2. permission' = "held" => (Handled => Handled')
        BY <2>1, <3>1 DEF Handled
      <3> QED BY <3>1, <3>2 DEF PermissionInv
    <2> QED BY <1>6, <2>2, <2>3, <2>4, <2>5 DEF Command
  <1>7. CASE UNCHANGED vars
    BY <1>1, <1>7 DEF vars, applianceVars, pollVars, commandVars
  <1> QED BY <1>2, <1>3, <1>4, <1>5, <1>6, <1>7 DEF Next, Poll

(* However polls and commands of any number of callers overlap, a control  *)
(* permission that a command has acquired is taken back by a later poll,   *)
(* unless the command's answer was lost.                                   *)
THEOREM PermissionReturns == Spec => []NoPermissionForgotten
  <1>1. Init => PermissionInv
    BY DEF Init, PermissionInv
  <1>2. PermissionInv => NoPermissionForgotten
    BY DEF PermissionInv, NoPermissionForgotten, Handled
  <1> QED BY <1>1, <1>2, PermissionStep, TypeInvariant, PTL DEF Spec

-----------------------------------------------------------------------------
(* The cycle.  A status whose run state was read is the first of the run   *)
(* states, and the last minute of a run is remembered as long as the       *)
(* status shows it: no command makes a status a running one.               *)
CycleInv ==
    /\ status.run = "unread" => status.state # "run"
    /\ status.run # "unread" => runStates # <<>> /\ runStates[1] = status.run
    /\ (status.run = "run" /\ status.left = 1) => finishing
    /\ CompletionReported

(* Once the run state has been read, reading it again changes nothing. *)
LEMMA ReadIsRead ==
    ASSUME TypeInv, CycleInv, status' = Read, runStates' = RunsRead
    PROVE  /\ Run' = Run /\ RunsRead' = RunsRead /\ StatusCompleted' = StatusCompleted
           /\ status'.run = Run /\ status'.left = status.left
           /\ runStates' # <<>> /\ runStates'[1] = Run
           /\ (Run = "run" /\ status.left = 1) => finishing
  <1>1. Run \in Listed /\ status \in StatusType
    BY ReadTypes DEF TypeInv, StatusOK
  <1>2. Run # "unread"
    BY <1>1 DEF Listed
  <1>3. status'.run = Run /\ status'.pre = status.pre /\ status'.left = status.left
    BY <1>1 DEF Read, StatusType
  <1>4. Run' = Run /\ RunsRead' = RunsRead
    BY <1>2, <1>3 DEF Run, RunsRead
  <1>5. StatusCompleted' = StatusCompleted
    BY <1>3, <1>4 DEF StatusCompleted
  <1>6. runStates' # <<>> /\ runStates'[1] = Run
    <2>1. CASE status.run = "unread"
      <3>1. SaveRun(runStates, Run)[1] = Run /\ Len(SaveRun(runStates, Run)) \in 1..2
        BY <1>1, SaveRunTypes DEF TypeInv, StatusOK
      <3> QED BY <2>1, <3>1 DEF RunsRead
    <2>2. CASE status.run # "unread"
      BY <2>2 DEF RunsRead, Run, CycleInv
    <2> QED BY <2>1, <2>2
  <1>7. (Run = "run" /\ status.left = 1) => finishing
    BY DEF Run, StateName, CycleInv
  <1> QED BY <1>3, <1>4, <1>5, <1>6, <1>7

(* Asking whether a run is completed gives the answer that asking gave. *)
LEMMA ReadingStable ==
    ASSUME TypeInv, CycleInv, ReadCompleted
    PROVE  Completed' = Completed /\ CycleInv'
  <1>1. /\ completed' = Completed /\ finishing' = (finishing /\ ~Forgets)
        /\ status' = Read /\ runStates' = RunsRead /\ UNCHANGED due
    BY DEF ReadCompleted, historyVars
  <1>2. /\ Run' = Run /\ RunsRead' = RunsRead /\ StatusCompleted' = StatusCompleted
        /\ status'.run = Run /\ status'.left = status.left
        /\ runStates' # <<>> /\ runStates'[1] = Run
        /\ (Run = "run" /\ status.left = 1) => finishing
    BY <1>1, ReadIsRead
  <1>3. Completed \in BOOLEAN /\ completed \in BOOLEAN /\ finishing \in BOOLEAN
    BY DEF Completed, StatusCompleted, HasStopped, TypeInv, CycleOK
  <1>4. Completed' = Completed
    BY <1>1, <1>2, <1>3 DEF Completed, HasStopped
  <1>5. Run = "run" => ~Forgets
    BY DEF Forgets, StatusCompleted, HasStopped
  <1>6. Run # "unread"
    BY ReadTypes DEF Listed
  <1> QED BY <1>1, <1>2, <1>4, <1>5, <1>6 DEF CycleInv, CompletionReported

(* So does any other reading of the run state. *)
LEMMA ReadKeepsCycle ==
    ASSUME TypeInv, CycleInv, status' = Read, runStates' = RunsRead, UNCHANGED <<cycleVars, due>>
    PROVE  CycleInv'
  <1>1. UNCHANGED <<completed, finishing, due>>
    BY DEF cycleVars
  <1>2. /\ Run' = Run /\ RunsRead' = RunsRead /\ StatusCompleted' = StatusCompleted
        /\ status'.run = Run /\ status'.left = status.left
        /\ runStates' # <<>> /\ runStates'[1] = Run
        /\ (Run = "run" /\ status.left = 1) => finishing
    BY ReadIsRead
  <1>3. Completed' = Completed
    BY <1>1, <1>2 DEF Completed, HasStopped
  <1>4. Run # "unread"
    BY ReadTypes DEF Listed
  <1> QED BY <1>1, <1>2, <1>3, <1>4 DEF CycleInv, CompletionReported

(* The report after the last minute: the run state before it was a running *)
(* one, and what is reported now is not.                                   *)
LEMMA ReportCompletes ==
    ASSUME TypeInv, CycleInv, heard \in Reports, TakeStates, TakeMinutes, UNCHANGED completed,
           HasFinished
    PROVE  Completed'
  <1> DEFINE run == heard.state
  <1>1. /\ run \in {"end", "off", "init"} /\ MinutesLeft = 0 /\ (model.pre => heard.pre = "run")
        /\ runStates # <<>> /\ runStates[1] = "run" /\ finishing
    BY DEF HasFinished, CycleInv
  <1>2. StateName(run) = run /\ StateName("run") = "run"
    BY <1>1 DEF StateName, Listed
  <1>3. SaveRun(runStates, run) = <<run, "run">>
    BY <1>1 DEF SaveRun
  <1>4. runStates' = <<run, "run">> /\ status'.run = run
    <2>1. status'.run = run
      BY <1>2, TakeStatesTypes
    <2>2. CASE model.pre
      <3>1. runStates' = SavePre(<<run, "run">>, "run")
        BY <1>1, <1>2, <1>3, <2>2 DEF TakeStates
      <3>2. run \in Listed /\ "run" \in Listed
        BY <1>1 DEF Listed
      <3>3. /\ <<run, "run">> \in Seq(Listed) /\ Len(<<run, "run">>) \in 1..2
            /\ <<run, "run">>[1] = run
        BY <3>2
      <3> QED BY <2>1, <3>1, <3>2, <3>3, SavePreTypes
    <2>3. CASE ~model.pre
      <3>1. runStates' = <<run, "run">>
        BY <1>2, <1>3, <2>3 DEF TakeStates
      <3> QED BY <2>1, <3>1
    <2> QED BY <2>2, <2>3
  <1>5. finishing'
    BY <1>1 DEF TakeMinutes
  <1>6. Run' = run /\ RunsRead' = <<run, "run">>
    BY <1>1, <1>4 DEF Run, RunsRead
  <1>7. CASE run = "end"
    BY <1>6, <1>7 DEF Completed, StatusCompleted
  <1>8. CASE run \in {"off", "init"}
    <2>1. RunsRead'[Len(RunsRead')] = "run"
      BY <1>6
    <2> QED BY <1>5, <1>6, <1>8, <2>1 DEF Completed, HasStopped
  <1> QED BY <1>1, <1>7, <1>8

LEMMA CycleInit == Init => CycleInv
  <1> SUFFICES ASSUME Init
               PROVE  CycleInv
    OBVIOUS
  <1>1. status.run = "unread" /\ status.state = "missing" /\ ~due
    BY DEF Init
  <1> QED BY <1>1 DEF CycleInv, CompletionReported

LEMMA CycleKept ==
    ASSUME CycleInv, UNCHANGED <<statusVars, cycleVars, due>>
    PROVE  CycleInv'
  <1>1. UNCHANGED <<status, runStates, completed, finishing, due>>
    BY DEF statusVars, cycleVars
  <1> QED
    BY <1>1 DEF CycleInv, CompletionReported, Completed, StatusCompleted, HasStopped, Run, RunsRead

LEMMA CycleStep == TypeInv /\ CycleInv /\ [Next]_vars => CycleInv'
  <1> SUFFICES ASSUME TypeInv, CycleInv, [Next]_vars
               PROVE  CycleInv'
    OBVIOUS
  <1>1. CASE WasherMoves \/ UNCHANGED vars
    BY <1>1, CycleKept DEF WasherMoves, vars, historyVars
  <1>2. CASE Ask \/ Answer \/ Release \/ PermissionDeleted \/ PollFails \/ NoData
    BY <1>2, CycleKept DEF Ask, Answer, Release, PermissionDeleted, PollFails, NoData, historyVars
  <1>3. CASE EndPoll
    <2>1. TakeReport /\ UNCHANGED completed
      BY <1>3 DEF EndPoll
    <2>2. CASE heard = NoReport
      BY <2>1, <2>2, CycleKept DEF TakeReport, cycleVars
    <2>3. CASE heard # NoReport
      <3>1. heard \in Reports
        BY <2>3 DEF TypeInv, PollOK
      <3>2. TakeStates /\ TakeMinutes /\ due' = HasFinished
        BY <2>1, <2>3 DEF TakeReport
      <3>3. /\ status'.run \in Listed /\ status'.left = MinutesLeft
            /\ runStates' # <<>> /\ runStates'[1] = status'.run
        BY <3>1, <3>2, TakeStatesTypes, StateNameListed
      <3>4. MinutesLeft = 1 => finishing'
        BY <3>2 DEF TakeMinutes
      <3>5. CompletionReported'
        BY <2>1, <3>1, <3>2, ReportCompletes DEF CompletionReported
      <3> QED BY <3>3, <3>4, <3>5 DEF CycleInv, Listed
    <2> QED BY <2>2, <2>3
  <1>4. CASE ReadCompleted
    BY <1>4, ReadingStable
  <1>5. CASE ReadSelection \/ \E c \in Chosen : SelectCourse(c)
    BY <1>5, ReadKeepsCycle DEF ReadSelection, SelectCourse, historyVars
  <1>6. ASSUME NEW u \in Users, Command(u)
        PROVE  CycleInv'
    <2>1. CASE SendPowerOff(u) \/ SendWakeUp(u)
      BY <2>1, CycleKept DEF SendPowerOff, SendWakeUp, Send, historyVars
    <2>2. CASE SendPause(u) \/ RemoteStart(u)
      BY <2>2, ReadKeepsCycle DEF SendPause, RemoteStart, SendStart, Send, historyVars
    <2>3. CASE Handle(u) \/ Fail(u)
      BY <2>3, CycleKept DEF Handle, Fail, historyVars
    <2>4. CASE Succeed(u)
      <3>1. Done(u) /\ UNCHANGED <<runStates, cycleVars>>
        BY <2>4 DEF Succeed
      <3>2. CASE UNCHANGED <<status, due>>
        BY <3>1, <3>2, CycleKept DEF statusVars
      <3>3. ASSUME NEW value \in {"off", "init", "pause"}, UpdateStatus(value),
                   ~UNCHANGED <<status, due>>
            PROVE  CycleInv'
        <4>1. status' = [status EXCEPT !.state = value, !.run = "unread"] /\ due' = FALSE
          BY <3>3 DEF UpdateStatus
        <4>2. status'.run = "unread" /\ status'.state = value
          BY <4>1 DEF TypeInv, StatusOK, StatusType
        <4> QED BY <3>3, <4>1, <4>2 DEF CycleInv, CompletionReported
      <3> QED BY <3>1, <3>2, <3>3 DEF Done
    <2> QED BY <1>6, <2>1, <2>2, <2>3, <2>4 DEF Command
  <1> QED BY <1>1, <1>2, <1>3, <1>4, <1>5, <1>6 DEF Next, Poll

(* The inductive invariant of the cycle holds throughout. *)
THEOREM CycleInvariant == Spec => []CycleInv
  BY CycleInit, CycleStep, TypeInvariant, PTL DEF Spec

(* A cycle that was polled in its last minute is reported as completed     *)
(* after the next poll, whatever was read, commanded or lost in between.   *)
THEOREM CycleReported == Spec => []CompletionReported
  BY CycleInvariant, PTL DEF CycleInv

(* Whoever asks whether a run is completed, and however often, gets the    *)
(* same answer until something else happens.                               *)
THEOREM AskingIsSafe == Spec => ReadingIsStable
  <1>1. TypeInv /\ CycleInv /\ [Next]_vars => [ReadCompleted => Completed' = Completed]_vars
    BY ReadingStable
  <1> QED BY <1>1, TypeInvariant, CycleInvariant, PTL DEF Spec, ReadingIsStable

-----------------------------------------------------------------------------
(* The course.  Bits of the option byte: the bit that is written has the   *)
(* value written, and the others keep theirs.                              *)
LEMMA OptionBits ==
    /\ \A v \in Nat : /\ OptionBit("InitialBit", v) = v % 2
                      /\ OptionBit("Steam", v) = (v \div 2) % 2
                      /\ OptionBit("Beep", v) = (v \div 4) % 2
    /\ \A v \in Nat, bit \in 0..1 :
          /\ UpdateOption("InitialBit", v, bit) = v - (v % 2) + bit
          /\ UpdateOption("Steam", v, bit) = v - ((v \div 2) % 2) * 2 + bit * 2
  <1>1. /\ Layout["InitialBit"].start = 0 /\ Layout["InitialBit"].length = 1
        /\ Layout["Steam"].start = 1 /\ Layout["Steam"].length = 1
        /\ Layout["Beep"].start = 2 /\ Layout["Beep"].length = 1
    BY DEF Layout
  <1>2. 2^0 = 1 /\ 2^1 = 2 /\ 2^2 = 4
    OBVIOUS
  <1>3. \A v \in Nat : /\ OptionBit("InitialBit", v) = v % 2
                      /\ OptionBit("Steam", v) = (v \div 2) % 2
                      /\ OptionBit("Beep", v) = (v \div 4) % 2
    BY <1>1, <1>2 DEF OptionBit, BitValue
  <1>4. ASSUME NEW v \in Nat, NEW bit \in 0..1
        PROVE  /\ UpdateOption("InitialBit", v, bit) = v - (v % 2) + bit
               /\ UpdateOption("Steam", v, bit) = v - ((v \div 2) % 2) * 2 + bit * 2
    <2>1. Bit(v, 0) = v % 2 /\ Bit(v, 1) = (v \div 2) % 2
      BY <1>2 DEF Bit
    <2>2. CASE bit = 0
      BY <1>1, <1>2, <2>1, <2>2 DEF UpdateOption, ClearBit, BitIndex
    <2>3. CASE bit = 1
      BY <1>1, <1>2, <2>1, <2>3 DEF UpdateOption, SetBit, BitIndex
    <2> QED BY <2>2, <2>3
  <1> QED BY <1>3, <1>4

LEMMA WrittenBits ==
    ASSUME NEW steam \in 0..1, NEW beep \in 0..1, NEW new \in 0..1, NEW bit \in 0..1,
           NEW v, v = steam * 2 + beep * 4
    PROVE  LET option  == UpdateOption("InitialBit", v, bit)
               changed == UpdateOption("InitialBit", UpdateOption("Steam", v, new), bit)
           IN  /\ OptionBit("InitialBit", option) = bit /\ OptionBit("Beep", option) = beep
               /\ OptionBit("Steam", option) = steam
               /\ OptionBit("InitialBit", changed) = bit /\ OptionBit("Beep", changed) = beep
               /\ OptionBit("Steam", changed) = new
  <1>1. /\ v \in Nat /\ v % 2 = 0 /\ (v \div 2) % 2 = steam /\ (v \div 4) % 2 = beep
    OBVIOUS
  <1>2. UpdateOption("InitialBit", v, bit) = steam * 2 + beep * 4 + bit
    <2>1. UpdateOption("InitialBit", v, bit) = v - (v % 2) + bit
      BY <1>1, OptionBits, Zenon
    <2> QED BY <1>1, <2>1
  <1>3. UpdateOption("Steam", v, new) = new * 2 + beep * 4
    <2>1. UpdateOption("Steam", v, new) = v - ((v \div 2) % 2) * 2 + new * 2
      BY <1>1, OptionBits, Zenon
    <2> QED BY <1>1, <2>1
  <1>4. UpdateOption("InitialBit", UpdateOption("Steam", v, new), bit) = new * 2 + beep * 4 + bit
    <2> DEFINE w == new * 2 + beep * 4
    <2>1. w \in Nat /\ w % 2 = 0
      OBVIOUS
    <2> HIDE DEF w
    <2>2. UpdateOption("InitialBit", w, bit) = w - (w % 2) + bit
      BY <2>1, OptionBits, Zenon
    <2>3. UpdateOption("InitialBit", w, bit) = w + bit
      BY <2>1, <2>2
    <2> QED BY <1>3, <2>3 DEF w
  <1>5. ASSUME NEW s \in 0..1
        PROVE  /\ OptionBit("InitialBit", s * 2 + beep * 4 + bit) = bit
               /\ OptionBit("Steam", s * 2 + beep * 4 + bit) = s
               /\ OptionBit("Beep", s * 2 + beep * 4 + bit) = beep
    <2>1. /\ s * 2 + beep * 4 + bit \in Nat
          /\ (s * 2 + beep * 4 + bit) % 2 = bit
          /\ ((s * 2 + beep * 4 + bit) \div 2) % 2 = s
          /\ ((s * 2 + beep * 4 + bit) \div 4) % 2 = beep
      OBVIOUS
    <2> QED BY <2>1, OptionBits
  <1> QED BY <1>2, <1>4, <1>5

(* What a start carries, whichever kind of model prepares it. *)
LEMMA StartCarries ==
    ASSUME TypeInv, NEW program \in Programs, NEW chosen \in Courses \cup {Current}
    PROVE  Carries(StartData(program, CourseInfo(program, chosen)), program, chosen)
  <1> DEFINE info == CourseInfo(program, chosen)
             bit  == IF initialBit THEN 1 ELSE 0
             set  == IF model.v2 THEN StartV2(program, info) ELSE StartV1(program, info)
             data == StartData(program, info)
  <1>1. program.steam \in 0..1 /\ program.beep \in 0..1 /\ bit \in 0..1
    BY DEF Programs
  <1>2. /\ info.id \in Courses \cup SmartCourses
        /\ chosen # Current => info = [id |-> chosen, fixed |-> FALSE]
        /\ (chosen = Current /\ program.course \in Courses) =>
              info = [id |-> program.course, fixed |-> TRUE]
        /\ ~info.fixed \/ info.fixed
    BY DEF CourseInfo, Courses, SmartCourses, DefaultCourse
  <1>3. SteamDefault[info.id] \in 0..1
    BY <1>2 DEF SteamDefault, Courses, SmartCourses
  <1> HIDE DEF info, bit
  <1>4. /\ set.beep = program.beep /\ set.initial = bit
        /\ info.fixed => set.steam = program.steam
        /\ ~info.fixed => set.steam = SteamDefault[info.id]
    <2>1. CASE model.v2
      BY <2>1 DEF StartV2, bit
    <2>2. CASE ~model.v2
      <3> DEFINE v == OptionOf(program)
                 changed == UpdateOption("Steam", v, SteamDefault[info.id])
                 option == UpdateOption("InitialBit", IF info.fixed THEN v ELSE changed, bit)
      <3>1. v = program.steam * 2 + program.beep * 4
        <4>1. BitIndex("Steam") = 1 /\ BitIndex("Beep") = 2 /\ 2^1 = 2 /\ 2^2 = 4
          BY DEF BitIndex, Layout
        <4> QED BY <4>1 DEF OptionOf
      <3>2. set = [steam |-> OptionBit("Steam", option), beep |-> OptionBit("Beep", option),
                   initial |-> OptionBit("InitialBit", option)]
        BY <2>2 DEF StartV1, bit
      <3> HIDE DEF v, set
      <3>3. CASE info.fixed
        <4>1. option = UpdateOption("InitialBit", v, bit)
          BY <3>3
        <4> HIDE DEF option
        <4> QED BY <1>1, <1>3, <3>1, <3>2, <3>3, <4>1, WrittenBits
      <3>4. CASE ~info.fixed
        <4>1. option = UpdateOption("InitialBit", changed, bit)
          BY <3>4
        <4> HIDE DEF option
        <4> QED BY <1>1, <1>3, <3>1, <3>2, <3>4, <4>1, WrittenBits
      <3> QED BY <3>3, <3>4
    <2> QED BY <2>1, <2>2
  <1>5. /\ data.steam = set.steam /\ data.beep = set.beep /\ data.initial = set.initial
        /\ info.id \in Courses => data.course = info.id
    BY DEF StartData, Courses, SmartCourses
  <1> HIDE DEF set, data
  <1>6. /\ data.beep = program.beep /\ data.initial = IF initialBit THEN 1 ELSE 0
    BY <1>4, <1>5 DEF bit
  <1>7. chosen # Current => data.course = chosen /\ data.steam = SteamDefault[chosen]
    BY <1>2, <1>4, <1>5
  <1>8. (chosen = Current /\ program.course \in Courses) =>
          data.course = program.course /\ data.steam = program.steam
    BY <1>2, <1>4, <1>5
  <1>9. Carries(data, program, chosen)
    BY <1>6, <1>7, <1>8 DEF Carries
  <1> QED BY <1>9 DEF data, info

(* The copy that a start is made of was reported since remote start was    *)
(* last seen off.                                                          *)
CopyInv == copy # NoProgram => copy \in armed

LEMMA CopyStep == TypeInv /\ CopyInv /\ [Next]_vars => CopyInv'
  <1> SUFFICES ASSUME TypeInv, CopyInv, [Next]_vars
               PROVE  CopyInv'
    OBVIOUS
  <1>1. CASE UNCHANGED <<copy, armed>>
    BY <1>1 DEF CopyInv
  <1>2. CASE WasherMoves \/ UNCHANGED vars
    BY <1>1, <1>2 DEF WasherMoves, vars, remoteVars, historyVars
  <1>3. CASE Ask \/ Answer \/ Release \/ PermissionDeleted \/ PollFails \/ NoData
    BY <1>1, <1>3 DEF Ask, Answer, Release, PermissionDeleted, PollFails, NoData, remoteVars,
                      historyVars
  <1>4. CASE EndPoll
    <2>1. TakeReport
      BY <1>4 DEF EndPoll
    <2>2. UNCHANGED <<copy, armed>> \/ TakeRemote
      BY <2>1 DEF TakeReport
    <2> QED BY <1>1, <2>2 DEF TakeRemote, CopyInv
  <1>5. CASE ReadCompleted \/ ReadSelection \/ \E c \in Chosen : SelectCourse(c)
    BY <1>1, <1>5 DEF ReadCompleted, ReadSelection, SelectCourse, remoteVars, historyVars
  <1>6. ASSUME NEW u \in Users, Command(u)
        PROVE  CopyInv'
    <2>1. CASE SendPowerOff(u) \/ SendWakeUp(u) \/ SendPause(u) \/ RemoteStart(u)
      BY <1>1, <2>1 DEF SendPowerOff, SendWakeUp, SendPause, RemoteStart, SendStart, Send,
                        historyVars
    <2>2. CASE Handle(u) \/ Fail(u)
      BY <1>1, <2>2 DEF Handle, Fail, remoteVars, historyVars
    <2>3. CASE Succeed(u)
      BY <1>1, <2>3 DEF Succeed, Done, CopyInv
    <2> QED BY <1>6, <2>1, <2>2, <2>3 DEF Command
  <1> QED BY <1>2, <1>3, <1>4, <1>5, <1>6 DEF Next, Poll

(* So it is throughout. *)
THEOREM CopyInvariant == Spec => []CopyInv
  <1>1. Init => CopyInv
    BY DEF Init, CopyInv
  <1> QED BY <1>1, CopyStep, TypeInvariant, PTL DEF Spec

(* Only remote_start sends a start. *)
LEMMA OnlyRemoteStartStarts ==
    ASSUME TypeInv, [Next]_vars, NEW u \in Users,
           pc[u] = "idle", pc'[u] = "sent", cmd'[u] = "remote_start"
    PROVE  RemoteStart(u)
  <1>0. /\ pc \in [Users -> {"idle", "sent", "handled"}] /\ cmd \in [Users -> Kinds \cup {"none"}]
    BY DEF TypeInv, CommandOK
  <1>1. pc' # pc
    OBVIOUS
  <1>2. ~(WasherMoves \/ Poll \/ ReadCompleted \/ ReadSelection \/ UNCHANGED vars
            \/ \E c \in Chosen : SelectCourse(c))
    <2>1. ~(WasherMoves \/ ReadCompleted \/ ReadSelection \/ UNCHANGED vars
              \/ \E c \in Chosen : SelectCourse(c))
      BY <1>1 DEF WasherMoves, ReadCompleted, ReadSelection, SelectCourse, vars, commandVars
    <2>2. ~Poll
      BY <1>1 DEF Poll, Ask, Answer, Release, PermissionDeleted, PollFails, NoData, EndPoll,
                  commandVars
    <2> QED BY <2>1, <2>2
  <1>3. PICK w \in Users : Command(w)
    BY <1>2 DEF Next
  <1>4. CASE Handle(w) \/ Succeed(w) \/ Fail(w)
    <2>1. pc' = [pc EXCEPT ![w] = "handled"] \/ pc' = [pc EXCEPT ![w] = "idle"]
      BY <1>4 DEF Handle, Succeed, Fail, Return
    <2> QED BY <1>0, <2>1
  <1>5. CASE SendPowerOff(w) \/ SendWakeUp(w) \/ SendPause(w)
    <2>1. /\ pc' = [pc EXCEPT ![w] = "sent"]
          /\ \E kind \in {"power_off", "wake_up", "pause"} : cmd' = [cmd EXCEPT ![w] = kind]
      BY <1>5 DEF SendPowerOff, SendWakeUp, SendPause, Send
    <2> QED BY <1>0, <2>1
  <1>6. CASE RemoteStart(w)
    <2>1. pc' = [pc EXCEPT ![w] = "sent"]
      BY <1>6 DEF RemoteStart, SendStart, Send
    <2> QED BY <1>0, <1>6, <2>1
  <1> QED BY <1>3, <1>4, <1>5, <1>6 DEF Command

LEMMA StartStep ==
    ASSUME TypeInv, CopyInv, NEW u \in Users, RemoteStart(u)
    PROVE  \/ payload'[u].course = "unsent"
           \/ \E program \in IF initialBit THEN armed ELSE {status.program} :
                  Carries(payload'[u], program, selected')
  <1>1. PICK chosen \in {selected} \cup (IF initialBit THEN Chosen ELSE {}) : SendStart(u, chosen)
    BY DEF RemoteStart
  <1> DEFINE selection == Selection("remote_start", chosen)
             info == CourseInfo(DataCourse, selection)
             data == IF model.vt /\ model.v2 THEN StartVt(info) ELSE StartData(DataCourse, info)
  <1>2. selection \in Courses \cup {Current}
    BY <1>1, WasherAssumption DEF Selection, TypeInv, RemoteOK
  <1>3. /\ selected' = selection /\ payload' = [payload EXCEPT ![u] = data]
        /\ NeedsCourse("remote_start") => HasCourse
    BY <1>1 DEF SendStart, Send
  <1>4. payload'[u] = data
    BY <1>3 DEF TypeInv, CommandOK
  <1>5. CASE model.vt /\ model.v2
    BY <1>4, <1>5 DEF StartVt
  <1>6. CASE ~(model.vt /\ model.v2)
    <2>1. HasCourse
      BY <1>3, <1>6 DEF NeedsCourse
    <2>2. DataCourse \in IF initialBit THEN armed ELSE {status.program}
      BY <2>1 DEF HasCourse, DataCourse, CopyInv
    <2>3. DataCourse \in Programs
      BY <2>2, WasherAssumption DEF TypeInv, StatusOK, RemoteOK
    <2>4. Carries(data, DataCourse, selection)
      BY <1>2, <1>6, <2>3, StartCarries
    <2> QED BY <1>3, <1>4, <2>2, <2>4
  <1> QED BY <1>5, <1>6

(* A start carries the course that was selected or the program reported    *)
(* since remote start was last seen off, for every kind of model, and no   *)
(* bit of it but those that are meant is changed.                          *)
THEOREM StartsChosen == Spec => StartsTheChosenCourse
  <1> DEFINE Start(u) ==
        (pc[u] = "idle" /\ pc'[u] = "sent" /\ cmd'[u] = "remote_start") =>
            \/ payload'[u].course = "unsent"
            \/ \E program \in IF initialBit THEN armed ELSE {status.program} :
                   Carries(payload'[u], program, selected')
  <1>1. TypeInv /\ CopyInv /\ [Next]_vars => [\A u \in Users : Start(u)]_vars
    BY OnlyRemoteStartStarts, StartStep
  <1> QED BY <1>1, TypeInvariant, CopyInvariant, PTL DEF Spec, StartsTheChosenCourse
=============================================================================
