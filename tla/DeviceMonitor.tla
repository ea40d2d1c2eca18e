------------------------------ MODULE DeviceMonitor ------------------------------
(***************************************************************************)
(* The Monitor of each washer (wideq/device.py): polls with retries that   *)
(* share one connection state, kept in the class and therefore common to   *)
(* all washers and to all clients, and one lock around every renewal.      *)
(* A client reconnects at most every 10 s; what failed before that fails   *)
(* the poll.  Log levels and their counters (_has_error, _error_log_count) *)
(* are left out, and which exception is raised once critical is set.       *)
(***************************************************************************)
EXTENDS ClientSession

CONSTANTS
    V1,            \* the washers polled with a work id (THINQ1)
    MaxRetries,    \* MAX_RETRIES
    MaxFail,       \* MAX_UPDATE_FAIL_ALLOWED
    GatewayAfter,  \* failed reconnections before the gateway is asked again
    MaxCredential  \* MAX_INVALID_CREDENTIAL_ERR

ASSUME MonitorAssumption ==
    /\ MaxRetries \in Nat \ {0} /\ MaxCredential \in Nat
    /\ MaxFail \in Nat \ {0} /\ GatewayAfter \in Nat /\ MaxFail <= GatewayAfter

VARIABLES
    shared,    \* _client_connected, _critical_error, and whether the last
               \* reconnection was begun MIN_TIME_BETWEEN_CLI_REFRESH ago or less
    notLogged, \* _not_logged_count
    iteration, \* the loop of Monitor.refresh
    refused,   \* the monitors with err9012raised
    invalid,   \* _invalid_credential_count, as it was before the poll
    work,      \* the monitors with a _work_id
    bad,       \* the monitors whose request was sent without a good token
    fails      \* history: reconnections that failed since the last success, up to MaxFail

pollVars  == <<iteration, refused, invalid>>
classVars == <<shared, notLogged, fails>>
vars == <<sessionVars, classVars, pollVars, work, bad>>

Flags == {"connected", "critical", "recent"}

TypeOK ==
    /\ SessionTypeOK
    /\ shared \subseteq Flags
    /\ notLogged \in 0..(GatewayAfter + 1)
    /\ iteration \in [Monitors -> 0..(MaxRetries - 1)]
    /\ refused \subseteq Monitors /\ work \subseteq Monitors /\ bad \subseteq Monitors
    /\ invalid \in [Monitors -> 0..MaxCredential]
    /\ fails \in 0..MaxFail

Init ==
    /\ SessionInit
    /\ shared = {"connected"} /\ notLogged = 0 /\ fails = 0
    /\ iteration = [m \in Monitors |-> 0]
    /\ invalid = [m \in Monitors |-> 0]
    /\ refused = {} /\ work = {} /\ bad = {}

(* The class lock, and the client's lock around refresh_devices. *)
LockFree    == \A m \in Monitors : pc[m] \notin {"gateway", "login", "devices"}
ListFree(c) == \A m \in Monitors : ~(pc[m] = "snapshot" /\ user[m] = c)

-----------------------------------------------------------------------------
(* The ends of Monitor.refresh, and of one round of its loop. *)

(* It returns, with a status or None, or raises what it got; the Monitor   *)
(* of a client that was replaced is gone then.                             *)
EndWith(m, count) ==
    /\ Leave(m)
    /\ iteration' = [iteration EXCEPT ![m] = 0]
    /\ invalid' = [invalid EXCEPT ![m] = IF user[m] = current THEN count ELSE 0]
    /\ refused' = refused \ {m} /\ bad' = bad \ {m}

End(m) == EndWith(m, 0)

Quietly(m) == End(m) /\ UNCHANGED shared

(* mutant: one failure too early *)
MutRaiseEarly(m, lost, count) ==
    /\ EndWith(m, count)
    /\ shared' = (shared \ lost) \cup (IF notLogged + 1 >= MaxFail THEN {"critical"} ELSE {})

(* _raise_error *)
Raise(m, lost, count) ==
    /\ EndWith(m, count)
    /\ shared' = (shared \ lost) \cup (IF notLogged >= MaxFail THEN {"critical"} ELSE {})

LoggedOut == {"connected"}

(* mutants: a round too many, and rounds that are not counted *)
MutAgainOnce(m, official) ==
    IF iteration[m] = MaxRetries THEN Quietly(m)
    ELSE /\ iteration' = [iteration EXCEPT ![m] = @ + 1]
         /\ pc' = [pc EXCEPT ![m] = "queue"]
         /\ refused' = refused \cup official /\ bad' = bad \ {m}
         /\ UNCHANGED <<user, invalid, shared>>

MutAgain(m, official) ==
    /\ pc' = [pc EXCEPT ![m] = "queue"]
    /\ refused' = refused \cup official /\ bad' = bad \ {m}
    /\ UNCHANGED <<user, invalid, iteration, shared>>

(* The next round, after a pause, if there is one. *)
Again(m, official) ==
    IF iteration[m] + 1 = MaxRetries THEN Quietly(m)
    ELSE /\ iteration' = [iteration EXCEPT ![m] = @ + 1]
         /\ pc' = [pc EXCEPT ![m] = "queue"]
         /\ refused' = refused \cup official /\ bad' = bad \ {m}
         /\ UNCHANGED <<user, invalid, shared>>

(* The handlers of Monitor.refresh. *)
Handle(m, error) ==
    \/ error = "notConnected" /\ iteration[m] >= 1 /\ Quietly(m)
    \/ error = "notConnected" /\ iteration[m] < 1  /\ Again(m, {})
    \/ error = "officialApi" /\ m \notin refused /\ Again(m, {m})
    \/ error = "officialApi" /\ m \in refused    /\ Raise(m, LoggedOut, 0)
    \/ error = "credential" /\ invalid[m] >= MaxCredential
       /\ EndWith(m, invalid[m]) /\ UNCHANGED shared
    \/ error = "credential" /\ invalid[m] < MaxCredential
       /\ Raise(m, LoggedOut, invalid[m] + 1)
    \/ error = "refused" /\ Raise(m, LoggedOut, 0)
    \/ error = "failed" /\ Raise(m, {}, 0)

-----------------------------------------------------------------------------
(* Monitor.poll. *)

At(m, c, stage) ==
    /\ pc' = [pc EXCEPT ![m] = stage] /\ user' = [user EXCEPT ![m] = c]
    /\ UNCHANGED pollVars

(* The token is read when the request is sent. *)
Send(m, c, stage) ==
    /\ At(m, c, stage)
    /\ bad' = IF session'[c] = "set" THEN bad \ {m} ELSE bad \cup {m}

AnswersTo(m) == IF m \in bad THEN {"refused"} ELSE Answers

(* refresh_devices, with the lock of client c: the list is 25 s old or     *)
(* less, or there is no session, or it is asked for.                       *)
List(m, c) ==
    \/ End(m)
    \/ session'[c] # "none" /\ Send(m, c, "snapshot")

(* The first steps of poll, up to its first await.  Sets pc, user, the     *)
(* poll's variables, bad and work.                                         *)
Poll(m, c) ==
    \/ /\ m \in V1 /\ c \in open
       /\ Send(m, c, IF m \in work THEN "result" ELSE "start")
       /\ UNCHANGED work
    \/ /\ m \in V1 /\ c \notin open
       /\ End(m) /\ work' = work \ {m}
    \/ m \notin V1 /\ ListFree(c) /\ List(m, c) /\ UNCHANGED work
    \/ /\ m \notin V1 /\ ~ListFree(c)
       /\ At(m, c, "wait") /\ UNCHANGED <<bad, work>>

WaitForList(m) ==
    /\ pc[m] = "wait" /\ ListFree(user[m])
    /\ UNCHANGED <<ownVars, authVars, lg, classVars, work>>
    /\ List(m, user[m])

(* With or without this washer in the list. *)
AnswerList(m) ==
    /\ pc[m] = "snapshot"
    /\ \/ "ok" \in AnswersTo(m) /\ Quietly(m)
       \/ \E e \in AnswersTo(m) : Handle(m, e)
    /\ UNCHANGED <<ownVars, authVars, lg, notLogged, fails, work>>

AnswerStart(m) ==
    /\ pc[m] = "start"
    /\ UNCHANGED <<ownVars, authVars, lg, notLogged, fails>>
    /\ \/ /\ "ok" \in AnswersTo(m) /\ user[m] \in open
          /\ work' = work \cup {m} /\ UNCHANGED shared /\ Send(m, user[m], "result")
       \/ /\ "ok" \in AnswersTo(m) /\ user[m] \notin open
          /\ Quietly(m) /\ UNCHANGED work
       \/ "none" \in AnswersTo(m) /\ Again(m, {}) /\ UNCHANGED work
       \/ \E e \in AnswersTo(m) : Handle(m, e) /\ UNCHANGED work

(* Anything but data gives the work id up, a MonitorError included. *)
AnswerResult(m) ==
    /\ pc[m] = "result"
    /\ \/ "ok" \in AnswersTo(m) /\ Quietly(m) /\ UNCHANGED work
       \/ "none" \in AnswersTo(m) /\ Again(m, {}) /\ work' = work \ {m}
       \/ \E e \in AnswersTo(m) : Handle(m, e) /\ work' = work \ {m}
    /\ UNCHANGED <<ownVars, authVars, lg, notLogged, fails>>

-----------------------------------------------------------------------------
(* Monitor.refresh up to the poll: _refresh_auth under the class lock. *)

FailedOnce == fails' = IF fails < MaxFail THEN fails + 1 ELSE fails

(* mutant: the class is not told that the connection is back *)
MutConnected ==
    /\ shared' = shared \ {"critical"}
    /\ notLogged' = 0 /\ fails' = 0

Connected ==
    /\ shared' = (shared \cup {"connected"}) \ {"critical"}
    /\ notLogged' = 0 /\ fails' = 0

(* _refresh_auth while the class is connected *)
RefreshAuth(m, c) ==
    /\ "connected" \in shared
    /\ \/ StillValid(c) /\ Poll(m, c) /\ UNCHANGED ownVars
       \/ RenewSession(m, c) /\ At(m, c, "login") /\ UNCHANGED <<ownVars, work, bad>>
       \/ /\ session[c] = "none" /\ c \notin open
          /\ End(m) /\ UNCHANGED <<ownVars, authVars, work>>
    /\ UNCHANGED classVars

(* _refresh_client within 10 s of the last attempt: False *)
TooEarly(m) ==
    /\ "connected" \notin shared /\ "recent" \in shared
    /\ Raise(m, LoggedOut, 0)
    /\ UNCHANGED <<ownVars, authVars, work, notLogged, fails>>

(* _refresh_client, ClientAsync.refresh *)
Reconnect(m, c) ==
    /\ "connected" \notin shared /\ "recent" \notin shared
    /\ shared' = shared \cup {"recent"}
    /\ notLogged' = IF notLogged >= GatewayAfter THEN 1 ELSE notLogged + 1
    /\ \/ /\ c \notin open /\ FailedOnce
          /\ End(m) /\ UNCHANGED <<ownVars, authVars>>
       \/ /\ c \in open /\ notLogged >= GatewayAfter
          /\ At(m, c, "gateway") /\ UNCHANGED <<ownVars, authVars, bad, fails>>
       \/ /\ c \in open /\ notLogged < GatewayAfter
          /\ ForceLogin(m, c)
          /\ At(m, c, "login") /\ UNCHANGED <<ownVars, bad, fails>>
    /\ UNCHANGED work

Locked(m, c) ==
    /\ LockFree
    /\ RefreshAuth(m, c) \/ TooEarly(m) \/ Reconnect(m, c)
    /\ UNCHANGED lg

(* The coordinator's timer.  A free lock is taken without a pause. *)
StartPoll(m) ==
    /\ pc[m] = "idle" /\ current \in open
    /\ \/ Locked(m, current)
       \/ /\ ~LockFree /\ At(m, current, "queue")
          /\ UNCHANGED <<ownVars, authVars, lg, classVars, work, bad>>

TakeLock(m) == pc[m] = "queue" /\ Locked(m, user[m])

AnswerGateway(m) ==
    /\ pc[m] = "gateway"
    /\ \/ /\ ForceLogin(m, user[m]) /\ UNCHANGED ownVars
          /\ At(m, user[m], "login") /\ UNCHANGED <<shared, fails, bad>>
       \/ \E e \in Answers : Handle(m, e) /\ FailedOnce /\ UNCHANGED <<ownVars, authVars>>
    /\ UNCHANGED <<lg, notLogged, work>>

(* Connected is set even if another washer was logged out meanwhile.       *)
(* _load_devices asks if the client has no list of devices.                *)
AnswerLogin(m) ==
    /\ \/ /\ LoginOk(m) /\ via[m] # "client"
          /\ Poll(m, user[m]) /\ UNCHANGED classVars
       \/ /\ LoginOk(m) /\ via[m] = "client"
          /\ \/ Poll(m, user[m]) /\ Connected
             \/ Send(m, user[m], "devices") /\ UNCHANGED <<work, classVars>>
       \/ /\ LoginFails(m)
          /\ \E e \in {"refused", "failed"} : Handle(m, e)
          /\ IF via[m] = "client" THEN FailedOnce ELSE UNCHANGED fails
          /\ UNCHANGED <<work, notLogged>>
    /\ UNCHANGED <<ownVars, lg>>

AnswerDevices(m) ==
    /\ pc[m] = "devices"
    /\ UNCHANGED <<ownVars, authVars, lg>>
    /\ \/ "ok" \in AnswersTo(m) /\ Poll(m, user[m]) /\ Connected
       \/ /\ \E e \in AnswersTo(m) : Handle(m, e)
          /\ FailedOnce /\ UNCHANGED <<work, notLogged>>

Serve(m) ==
    \/ AnswerGateway(m) \/ AnswerLogin(m) \/ AnswerDevices(m)
    \/ AnswerList(m) \/ AnswerStart(m) \/ AnswerResult(m)

(* MIN_TIME_BETWEEN_CLI_REFRESH has passed. *)
WindowEnds ==
    /\ "recent" \in shared /\ shared' = shared \ {"recent"}
    /\ UNCHANGED <<sessionVars, notLogged, fails, pollVars, work, bad>>

(* The next set-up makes new Monitors, which have no work id. *)
Reload ==
    /\ Setup
    /\ work' = {}
    /\ invalid' = [m \in Monitors |-> IF user[m] = NoClient THEN 0 ELSE invalid[m]]
    /\ UNCHANGED <<classVars, iteration, refused, bad>>

Session == SessionNext /\ UNCHANGED <<classVars, pollVars, work, bad>>

Next ==
    \/ \E m \in Monitors : StartPoll(m) \/ TakeLock(m) \/ WaitForList(m) \/ Serve(m)
    \/ WindowEnds
    \/ Reload \/ Session

Spec == Init /\ [][Next]_vars

(* Polls are made again and again, calls are answered or time out, time    *)
(* passes, and both locks are granted in the order of waiting.             *)
FairSpec ==
    /\ Spec
    /\ \A m \in Monitors :
          /\ WF_vars(StartPoll(m)) /\ WF_vars(Serve(m))
          /\ SF_vars(TakeLock(m)) /\ SF_vars(WaitForList(m))
    /\ \A r \in Renewers : WF_vars(EndRenewal(r) /\ UNCHANGED <<classVars, pollVars, work, bad>>)
    /\ WF_vars(WindowEnds)
    /\ WF_vars(Reload)

-----------------------------------------------------------------------------
(* A poll fails as unavailable (and the log shows an error) only after     *)
(* MaxFail reconnections without a success, the one under way included:    *)
(* across all washers, and also after the entry was reloaded.              *)
CriticalAfterFailures == "critical" \in shared => fails + 1 >= MaxFail

(* Once LG stays up, a lost connection is found again: by the polls alone, *)
(* whatever the attempts that were too early and the calls still under way *)
(* did to the common state.                                                *)
ConnectionReturns == (lg = "up") ~> ("connected" \in shared)

(* No poll waits for ever: every wait has an end, with an answer, or with  *)
(* an exception, and both locks are left on each of them.                  *)
PollsEnd == \A m \in Monitors : (pc[m] # "idle") ~> (pc[m] = "idle")
=============================================================================
