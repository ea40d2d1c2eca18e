--------------------------- MODULE WasherCourseProofs ---------------------------
(***************************************************************************)
(* WasherCourse for any set of courses, any number of polls in flight and  *)
(* any number of upsets.                                                   *)
(***************************************************************************)
EXTENDS WasherCourse, TLAPS

(* A refresh is only ever scheduled while the washer is polled. *)
TimerIsLive == timer => polling

IInv == TypeOK /\ TimerIsLive /\ NeverStalls

(* What every way of refreshing does: afterwards a poll is on its way or   *)
(* the next refresh is scheduled.                                          *)
LEMMA RefreshMoves ==
    ASSUME TypeOK, Refresh
    PROVE  /\ poll' \in [Polls -> PollStates]
           /\ timer' \in BOOLEAN
           /\ lastUpdateSuccess' \in BOOLEAN
           /\ timer' \/ InFlight' # {}
  <1>1. CASE ~reauthNeeded
    <2>1. PICK p \in Polls \ InFlight : poll' = [poll EXCEPT ![p] = "asked"]
      BY <1>1 DEF Refresh
    <2>2. poll' \in [Polls -> PollStates] /\ timer' = FALSE /\ lastUpdateSuccess' = lastUpdateSuccess
      BY <1>1, <2>1 DEF Refresh, TypeOK, PollStates
    <2>3. poll'[p] = "asked"
      BY <2>1 DEF TypeOK
    <2>4. p \in InFlight'
      BY <2>1, <2>3 DEF InFlight
    <2> QED BY <2>2, <2>4 DEF TypeOK
  <1>2. CASE reauthNeeded
    BY <1>2 DEF Refresh, TypeOK
  <1> QED BY <1>1, <1>2

(* The two PAT updates differ only in what the copy says. *)
LEMMA HandlerStep ==
    ASSUME IInv, NEW running \in BOOLEAN, HandlePatUpdate(running), upsets' \in 0..MaxUpsets
    PROVE  IInv'
  <1> USE DEF IInv
  <1>1. washer' \in Shown /\ reauthNeeded' \in BOOLEAN /\ polling' \in BOOLEAN
    BY DEF HandlePatUpdate, TypeOK
  <1>2. CASE running /\ ~polling /\ Refresh /\ UNCHANGED data
    BY <1>1, <1>2, RefreshMoves DEF HandlePatUpdate, TypeOK, TimerIsLive, NeverStalls
  <1>3. CASE ~running /\ polling /\ StopPolling
    BY <1>1, <1>3 DEF HandlePatUpdate, StopPolling, TypeOK, TimerIsLive, NeverStalls, Shown
  <1>4. CASE running = polling /\ UNCHANGED <<pollVars, dataVars>>
    BY <1>1, <1>4 DEF HandlePatUpdate, pollVars, dataVars, TypeOK, TimerIsLive, NeverStalls, InFlight
  <1> QED BY <1>2, <1>3, <1>4 DEF HandlePatUpdate

(* The invariant holds at the start. *)
LEMMA InvInit == Init => IInv
  <1> SUFFICES ASSUME Init
               PROVE  IInv
    OBVIOUS
  <1>1. upsets \in 0..MaxUpsets
    BY CourseAssumption DEF Init
  <1>2. poll \in [Polls -> PollStates]
    BY DEF Init, PollStates
  <1>3. ~polling /\ ~timer
    BY DEF Init
  <1>4. TypeOK
    BY <1>1, <1>2 DEF Init, TypeOK, Shown
  <1> QED BY <1>3, <1>4 DEF IInv, TimerIsLive, NeverStalls

(* Every step keeps the invariant. *)
LEMMA InvStep == IInv /\ [Next]_vars => IInv'
  <1> SUFFICES ASSUME IInv, [Next]_vars
               PROVE  IInv'
    OBVIOUS
  <1> USE DEF IInv
  <1>1. CASE WasherChanges
    BY <1>1 DEF WasherChanges, pollVars, dataVars, TypeOK, TimerIsLive, NeverStalls, InFlight
  <1>2. CASE FlagChanges
    BY <1>2, CourseAssumption
       DEF FlagChanges, Upset, pollVars, dataVars, TypeOK, TimerIsLive, NeverStalls, InFlight
  <1>3. CASE PatUpdate
    BY <1>3, HandlerStep DEF PatUpdate, TypeOK
  <1>4. CASE StalePatUpdate
    <2>1. upsets' \in 0..MaxUpsets
      BY <1>4, CourseAssumption DEF StalePatUpdate, Upset, TypeOK
    <2>2. HandlePatUpdate(washer = NoCourse) /\ (washer = NoCourse) \in BOOLEAN
      BY <1>4 DEF StalePatUpdate
    <2> QED BY <2>1, <2>2, HandlerStep
  <1>5. CASE TimerFires
    BY <1>5, RefreshMoves DEF TimerFires, worldVars, TypeOK, TimerIsLive, NeverStalls
  <1>6. ASSUME NEW p \in Polls, Answer(p)
        PROVE  IInv'
    <2>1. upsets' \in 0..MaxUpsets
      BY <1>6, CourseAssumption DEF Answer, Upset, TypeOK
    <2>2. PICK a \in Shown \cup Failures : poll' = [poll EXCEPT ![p] = a]
      BY <1>6 DEF Answer, TypeOK
    <2>3. poll' \in [Polls -> PollStates]
      BY <2>2 DEF TypeOK, PollStates
    <2>4. poll'[p] = a
      BY <2>2 DEF TypeOK
    <2>5. a # "idle"
      BY <2>2, CourseAssumption DEF Failures
    <2>6. p \in InFlight'
      BY <2>4, <2>5 DEF InFlight
    <2> QED BY <1>6, <2>1, <2>3, <2>6 DEF Answer, dataVars, TypeOK, TimerIsLive, NeverStalls
  <1>7. ASSUME NEW p \in Polls, EndPoll(p)
        PROVE  IInv'
    <2>1. poll' \in [Polls -> PollStates]
      BY <1>7 DEF EndPoll, TypeOK, PollStates
    <2>2. data' \in Shown
      BY <1>7 DEF EndPoll, Updated, TypeOK
    <2>3. timer' = (polling \/ timer)
      BY <1>7 DEF EndPoll, Schedule, TypeOK
    <2> QED BY <1>7, <2>1, <2>2, <2>3 DEF EndPoll, worldVars, TypeOK, TimerIsLive, NeverStalls
  <1>8. CASE UNCHANGED vars
    BY <1>8 DEF vars, worldVars, pollVars, dataVars, TypeOK, TimerIsLive, NeverStalls, InFlight
  <1> QED BY <1>1, <1>2, <1>3, <1>4, <1>5, <1>6, <1>7, <1>8 DEF Next

(* The inductive invariant holds throughout. *)
THEOREM Invariant == Spec => []IInv
  BY InvInit, InvStep, PTL DEF Spec

(* Types: the coordinator only ever shows a course or "-", whatever a poll *)
(* ended with.                                                             *)
THEOREM TypeCorrect == Spec => []TypeOK
  BY Invariant, PTL DEF IInv

(* Polling never stalls, however many polls overlap and fail. *)
THEOREM NoStall == Spec => []NeverStalls
  BY Invariant, PTL DEF IInv

(* No poll starts while the washer is reported idle. *)
THEOREM IdleIsQuiet == Spec => NoPollWhenIdle
  <1> DEFINE A == \A p \in Polls : poll[p] = "idle" /\ poll'[p] = "asked" => polling'
  <1>1. IInv /\ [Next]_vars => [A]_vars
    <2> SUFFICES ASSUME IInv, Next, NEW p \in Polls, poll[p] = "idle", poll'[p] = "asked"
                 PROVE  polling'
      OBVIOUS
    <2>1. CASE WasherChanges \/ FlagChanges
      BY <2>1 DEF WasherChanges, FlagChanges, pollVars
    <2>2. ASSUME NEW running \in BOOLEAN, HandlePatUpdate(running)
          PROVE  polling'
      BY <2>2 DEF HandlePatUpdate, StopPolling, pollVars, IInv, TypeOK
    <2>3. CASE TimerFires
      BY <2>3 DEF TimerFires, IInv, TimerIsLive
    <2>4. ASSUME NEW q \in Polls, Answer(q) \/ EndPoll(q)
          PROVE  FALSE
      BY <2>4 DEF Answer, EndPoll, IInv, TypeOK
    <2> QED BY <2>1, <2>2, <2>3, <2>4 DEF Next, PatUpdate, StalePatUpdate
  <1> QED BY <1>1, Invariant, PTL DEF Spec, NoPollWhenIdle
=============================================================================
