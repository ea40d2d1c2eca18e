------------------------------ MODULE ClientSession ------------------------------
(***************************************************************************)
(* The login of the unofficial backend (wideq/core_async.py): ClientAsync, *)
(* its Session and their Auth, used at the same time by the monitors of    *)
(* the washers and by renewals without a lock (the hourly task, a command  *)
(* whose session had expired), and replaced when the entry is reloaded.    *)
(*                                                                         *)
(* Auth.refresh takes the token from one Auth, which others may hold, and  *)
(* returns another.  Of their identities the model keeps what the code can *)
(* tell apart: whether the Auth of the client is that of its session, and  *)
(* whether a login that is awaited took the token of the session's Auth.   *)
(* Which devices a client has listed, and when, is left open.              *)
(***************************************************************************)
EXTENDS Naturals

CONSTANTS
    Monitors,   \* washers that are polled
    Renewers,   \* callers of refresh_auth that take no lock
    MaxClients, \* bound: ClientAsync objects, one for each set-up
    MaySettle,  \* bound: whether LG's servers ever come to stay up
    NoClient

Callers == Monitors \cup Renewers
Clients == 1..MaxClients

ASSUME SessionAssumption ==
    /\ MaxClients \in Nat \ {0} /\ MaySettle \in BOOLEAN
    /\ NoClient \notin Clients
    /\ Monitors \cap Renewers = {}

VARIABLES
    current,  \* the client of the entry
    open,     \* the clients that are _connected
    session,  \* of each client: no _session, or the access_token of its Auth
    apart,    \* the clients with a session whose _auth is another Auth
    late,     \* history: closed while a reconnection was under way
    lg,       \* LG's servers: anything can happen, or they stay up
    pc,       \* what each caller is doing
    user,     \* the client it works with
    via,      \* how it came to refresh the Auth whose login it awaits
    takers    \* the callers whose login took the token of the session's Auth

ownVars     == <<current, open, late>>
authVars    == <<session, apart, via, takers>>
sessionVars == <<ownVars, authVars, lg, pc, user>>

(* out: taken by a refresh, None in the code.  lost: None, as its login    *)
(* failed.  How long a token that is set is still valid is left open, and  *)
(* so is whether a refresh finds TOKEN_EXP_LIMIT reached.                  *)
Tokens == {"none", "set", "out", "lost"}
Vias   == {"none", "session", "detached", "client"}
Stages == {"idle", "queue", "gateway", "login", "devices", "wait", "snapshot", "start", "result"}

SessionTypeOK ==
    /\ current \in Clients /\ open \subseteq Clients
    /\ session \in [Clients -> Tokens]
    /\ apart \subseteq Clients /\ late \subseteq Clients
    /\ lg \in {"unsteady", "up"}
    /\ pc \in [Callers -> Stages]
    /\ user \in [Callers -> Clients \cup {NoClient}]
    /\ via \in [Callers -> Vias]
    /\ takers \subseteq Callers

(* from_token has logged in. *)
SessionInit ==
    /\ current = 1 /\ open = {1} /\ late = {}
    /\ session = [c \in Clients |-> IF c = 1 THEN "set" ELSE "none"]
    /\ apart = {} /\ takers = {}
    /\ lg = "unsteady"
    /\ pc   = [p \in Callers |-> "idle"]
    /\ user = [p \in Callers |-> NoClient]
    /\ via  = [p \in Callers |-> "none"]

Users(c) == {p \in Callers : user[p] = c}

-----------------------------------------------------------------------------
(* The classes of errors, by what Monitor.refresh does with them.          *)
(* refused: not logged in, a token error or anything unexpected.           *)
(* officialApi: 9006 or 9012, and the client has made itself another id.   *)
Errors == {"refused", "credential", "officialApi", "notConnected", "failed"}

Answers == {"ok", "none"} \cup (IF lg = "up" THEN {} ELSE Errors)

-----------------------------------------------------------------------------
(* Auth.refresh, Session.refresh_auth and ClientAsync.refresh_auth. *)

(* The token is good enough: the Auth returns itself, without an await. *)
StillValid(c) ==
    /\ session[c] = "set"
    /\ apart' = apart \ {c}
    /\ UNCHANGED <<session, via, takers>>

(* Auth.refresh up to its await: the token is taken at once. *)
Await(p, how) == via' = [via EXCEPT ![p] = how]

RenewSession(p, c) ==
    /\ session[c] # "none" /\ Await(p, "session")
    /\ session' = [session EXCEPT ![c] = "out"]
    /\ takers' = takers \cup {p}
    /\ UNCHANGED apart

(* ClientAsync.refresh: the same with the client's own Auth *)
ForceLogin(p, c) ==
    /\ Await(p, "client")
    /\ IF c \in apart \/ session[c] = "none" THEN UNCHANGED <<session, takers>>
       ELSE session' = [session EXCEPT ![c] = "out"] /\ takers' = takers \cup {p}
    /\ UNCHANGED apart

(* mutant: the session does not keep the Auth that its refresh returned *)
MutRenewed(p, c) ==
    /\ via[p] = "session"
    /\ apart' = apart \cup {c} /\ takers' = takers \ {p}
    /\ Await(p, "none") /\ UNCHANGED session

(* The login is done: the session and then the client keep the new Auth. *)
Renewed(p, c) ==
    /\ via[p] = "session"
    /\ session' = [session EXCEPT ![c] = "set"]
    /\ apart' = apart \ {c} /\ takers' = takers \ Users(c)
    /\ Await(p, "none")

(* The session was replaced or dropped meanwhile, and is nobody's. *)
RenewedForNobody(p, c) ==
    /\ via[p] = "detached"
    /\ apart' = IF session[c] = "none" THEN apart ELSE apart \cup {c}
    /\ Await(p, "none") /\ UNCHANGED <<session, takers>>

Detached(q, c) == user[q] = c /\ via[q] = "session"

(* ClientAsync.refresh after the login: another Session, even if the       *)
(* client was closed meanwhile; renewals of the old one go on with it.     *)
Reconnected(p, c) ==
    /\ via[p] = "client"
    /\ session' = [session EXCEPT ![c] = "set"]
    /\ apart' = apart \ {c} /\ takers' = takers \ Users(c)
    /\ via' = [q \in Callers |-> IF q = p THEN "none"
                                 ELSE IF Detached(q, c) THEN "detached" ELSE via[q]]

LoginOk(p) ==
    /\ pc[p] = "login"
    /\ Renewed(p, user[p]) \/ RenewedForNobody(p, user[p]) \/ Reconnected(p, user[p])

(* The exception leaves the old Auth as it is: without a token.  The user  *)
(* number is known by now, and is not asked for.                           *)
LoginFails(p) ==
    /\ pc[p] = "login" /\ lg # "up"
    /\ session' = IF p \in takers THEN [session EXCEPT ![user[p]] = "lost"] ELSE session
    /\ Await(p, "none") /\ takers' = takers \ {p}
    /\ UNCHANGED apart

-----------------------------------------------------------------------------
(* The hourly task and a command's second try: refresh_auth, no lock. *)

Leave(p) == pc' = [pc EXCEPT ![p] = "idle"] /\ user' = [user EXCEPT ![p] = NoClient]

Renew(r) ==
    /\ pc[r] = "idle" /\ current \in open
    /\ \/ /\ RenewSession(r, current)
          /\ pc' = [pc EXCEPT ![r] = "login"] /\ user' = [user EXCEPT ![r] = current]
       \/ StillValid(current) /\ UNCHANGED <<pc, user>>
    /\ UNCHANGED <<ownVars, lg>>

EndRenewal(r) ==
    /\ LoginOk(r) \/ LoginFails(r)
    /\ Leave(r)
    /\ UNCHANGED <<ownVars, lg>>

-----------------------------------------------------------------------------
(* Unload and set-up of the entry, and LG. *)

Reconnecting(p) == pc[p] = "gateway" \/ (pc[p] = "login" /\ via[p] = "client")

(* mutant: the session of a closed client is kept *)
MutClose ==
    /\ current \in open /\ current < MaxClients
    /\ open' = open \ {current}
    /\ late' = IF \E p \in Users(current) : Reconnecting(p) THEN late \cup {current} ELSE late
    /\ UNCHANGED <<current, authVars, lg, pc, user>>

(* ClientAsync.close; calls in flight go on. *)
Close ==
    /\ current \in open /\ current < MaxClients
    /\ open' = open \ {current}
    /\ session' = [session EXCEPT ![current] = "none"]
    /\ apart' = apart \ {current} /\ takers' = takers \ Users(current)
    /\ via' = [p \in Callers |-> IF Detached(p, current) THEN "detached" ELSE via[p]]
    /\ late' = IF \E p \in Users(current) : Reconnecting(p) THEN late \cup {current} ELSE late
    /\ UNCHANGED <<current, lg, pc, user>>

(* from_token for the next set-up of the entry *)
Setup ==
    /\ current \notin open
    /\ current' = current + 1 /\ open' = open \cup {current + 1}
    /\ session' = [session EXCEPT ![current + 1] = "set"]
    /\ UNCHANGED <<late, apart, takers, via, lg, pc, user>>

(* Nobody uses a client that was closed any more, and it is gone. *)
Forget(c) ==
    /\ c < current /\ Users(c) = {} /\ (session[c] # "none" \/ c \in late)
    /\ session' = [session EXCEPT ![c] = "none"]
    /\ apart' = apart \ {c} /\ late' = late \ {c}
    /\ UNCHANGED <<current, open, takers, via, lg, pc, user>>

LgStaysUp ==
    /\ MaySettle /\ lg # "up" /\ lg' = "up"
    /\ UNCHANGED <<ownVars, authVars, pc, user>>

(* Setup is left to the module that has the monitors, which it replaces. *)
SessionNext ==
    \/ \E r \in Renewers : Renew(r) \/ EndRenewal(r)
    \/ Close \/ LgStaysUp
    \/ \E c \in Clients : Forget(c)

-----------------------------------------------------------------------------
(* A session without a token waits for a login that is under way, or its   *)
(* login has failed (and the next renewal asks again): whoever replaces    *)
(* the Auth of whom, no token is taken and forgotten.                      *)
NoTokenForgotten ==
    \A c \in Clients : session[c] = "out" =>
        \E p \in takers : user[p] = c /\ pc[p] = "login"

(* A closed client has no session, and so sends nothing, unless one of its *)
(* reconnections was under way when it was closed.                         *)
ClosedClientIsSilent ==
    \A c \in Clients \ open : session[c] # "none" => c \in late
=============================================================================
