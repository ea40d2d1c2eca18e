--------------------------- MODULE DeviceMonitorProofs ---------------------------
(***************************************************************************)
(* DeviceMonitor for any washers, any unlocked renewals, any number of     *)
(* set-ups and any limits of the retries.                                  *)
(***************************************************************************)
EXTENDS DeviceMonitor, TLAPS

(* Who works works with a client, and who awaits a login has a reason.     *)
WorkHasClient == \A p \in Callers : pc[p] # "idle" => user[p] \in Clients
LoginHasReason == \A p \in Callers : via[p] # "none" <=> pc[p] = "login"

(* Whoever took a token is still waiting for the login it is for.          *)
TakersWait == \A p \in takers : via[p] \in {"session", "client"}

(* A renewal of a session that is gone knows it: it was detached.          *)
RenewalHasSession == \A p \in Callers : via[p] = "session" => session[user[p]] # "none"

(* A client that was closed during a reconnection is known to be late.     *)
LateIsKnown == \A p \in Callers : Reconnecting(p) /\ user[p] \notin open => user[p] \in late

SessionInv ==
    /\ SessionTypeOK
    /\ WorkHasClient /\ LoginHasReason /\ TakersWait /\ RenewalHasSession /\ LateIsKnown
    /\ NoTokenForgotten /\ ClosedClientIsSilent

(* Caller p goes on without the class lock, with client c if with any.     *)
Unlocked == Stages \ {"gateway", "login", "devices"}
Releases(p, c) ==
    \E s \in Unlocked :
        /\ pc' = [pc EXCEPT ![p] = s]
        /\ \/ user' = [user EXCEPT ![p] = c]
           \/ s = "idle" /\ user' = [user EXCEPT ![p] = NoClient]

(* Caller p goes on to any stage but a login, with client c if with any.   *)
Moves(p, c) ==
    \E s \in Stages \ {"login"} :
        /\ s = "gateway" => c \in open
        /\ pc' = [pc EXCEPT ![p] = s]
        /\ \/ user' = [user EXCEPT ![p] = c]
           \/ s = "idle" /\ user' = [user EXCEPT ![p] = NoClient]

(***************************************************************************)
(* What the parts of a poll do to the caller's stage.                      *)
(***************************************************************************)
LEMMA ReleaseMoves ==
    ASSUME NEW p, NEW c, Releases(p, c)
    PROVE  Moves(p, c)
  BY DEF Releases, Moves, Unlocked, Stages

LEMMA EndMoves ==
    ASSUME NEW m \in Monitors, NEW c \in Clients, NEW n, EndWith(m, n)
    PROVE  Releases(m, c) /\ Moves(m, c)
  <1>1. Releases(m, c)
    BY DEF EndWith, Leave, Releases, Unlocked, Stages
  <1> QED BY <1>1, ReleaseMoves

LEMMA HandleMoves ==
    ASSUME SessionTypeOK, NEW m \in Monitors, user[m] \in Clients, NEW e, Handle(m, e)
    PROVE  Releases(m, user[m]) /\ Moves(m, user[m])
  <1>1. m \in Callers
    BY DEF Callers
  <1>2. user = [user EXCEPT ![m] = user[m]]
    BY <1>1 DEF SessionTypeOK
  <1>3. ASSUME Quietly(m) PROVE Releases(m, user[m])
    BY <1>3, EndMoves DEF Quietly, End
  <1>4. ASSUME NEW lost, NEW n, Raise(m, lost, n) PROVE Releases(m, user[m])
    BY <1>4, EndMoves DEF Raise
  <1>5. ASSUME NEW official, Again(m, official) PROVE Releases(m, user[m])
    <2>1. CASE Quietly(m)
      BY <2>1, <1>3
    <2>2. CASE pc' = [pc EXCEPT ![m] = "queue"] /\ UNCHANGED user
      BY <2>2, <1>2 DEF Releases, Unlocked, Stages
    <2> QED BY <1>5, <2>1, <2>2 DEF Again
  <1>6. Releases(m, user[m])
    BY <1>3, <1>4, <1>5, EndMoves DEF Handle
  <1> QED BY <1>6, ReleaseMoves

LEMMA PollMoves ==
    ASSUME NEW m \in Monitors, NEW c \in Clients, Poll(m, c)
    PROVE  Releases(m, c) /\ Moves(m, c)
  <1>1. ASSUME NEW stage \in {"result", "start", "snapshot", "wait"}, At(m, c, stage)
        PROVE  Releases(m, c)
    BY <1>1 DEF At, Releases, Unlocked, Stages
  <1>2. ASSUME List(m, c) PROVE Releases(m, c)
    BY <1>1, <1>2, EndMoves DEF List, End, Send
  <1>3. Releases(m, c)
    BY <1>1, <1>2, EndMoves DEF Poll, End, Send
  <1> QED BY <1>3, ReleaseMoves

(***************************************************************************)
(* What the steps of a session do to the invariant.                        *)
(***************************************************************************)

(* A caller that awaits no login goes on, and no Auth changes.             *)
LEMMA MoveKeepsInv ==
    ASSUME SessionInv, NEW p \in Callers, pc[p] # "login", NEW c \in Clients, Moves(p, c),
           UNCHANGED <<ownVars, session, via, takers, lg>>, apart' \subseteq Clients
    PROVE  SessionInv'
  <1> USE DEF SessionInv, ownVars
  <1>1. PICK s \in Stages \ {"login"}, u \in Clients \cup {NoClient} :
           /\ s = "gateway" => c \in open
           /\ pc' = [pc EXCEPT ![p] = s] /\ user' = [user EXCEPT ![p] = u]
           /\ u = c \/ s = "idle"
    BY DEF Moves
  <1>2. SessionTypeOK'
    BY <1>1 DEF SessionTypeOK
  <1>3. via[p] = "none" /\ p \notin takers
    BY DEF LoginHasReason, TakersWait, SessionTypeOK
  <1>4. \A q \in Callers \ {p} : pc'[q] = pc[q] /\ user'[q] = user[q]
    BY <1>1 DEF SessionTypeOK
  <1>5. pc'[p] = s /\ user'[p] = u
    BY <1>1 DEF SessionTypeOK
  <1>6. WorkHasClient' /\ LoginHasReason' /\ TakersWait' /\ RenewalHasSession'
    BY <1>1, <1>3, <1>4, <1>5
       DEF WorkHasClient, LoginHasReason, TakersWait, RenewalHasSession, SessionTypeOK
  <1>7. LateIsKnown'
    BY <1>1, <1>3, <1>4, <1>5 DEF LateIsKnown, Reconnecting
  <1>8. NoTokenForgotten'
    BY <1>3, <1>4 DEF NoTokenForgotten, SessionTypeOK
  <1>9. ClosedClientIsSilent'
    BY DEF ClosedClientIsSilent
  <1> QED BY <1>2, <1>6, <1>7, <1>8, <1>9

(* A refresh has found the token too old, and awaits the login.            *)
LEMMA RenewKeepsInv ==
    ASSUME SessionInv, NEW p \in Callers, pc[p] # "login", NEW c \in Clients, RenewSession(p, c),
           pc' = [pc EXCEPT ![p] = "login"], user' = [user EXCEPT ![p] = c],
           UNCHANGED <<ownVars, lg>>
    PROVE  SessionInv'
  <1> USE DEF SessionInv, ownVars, RenewSession, Await
  <1>1. SessionTypeOK'
    BY DEF SessionTypeOK, Stages, Vias, Tokens
  <1>2. /\ \A q \in Callers \ {p} : pc'[q] = pc[q] /\ user'[q] = user[q] /\ via'[q] = via[q]
        /\ pc'[p] = "login" /\ user'[p] = c /\ via'[p] = "session"
        /\ \A d \in Clients \ {c} : session'[d] = session[d]
        /\ session'[c] = "out" /\ takers' = takers \cup {p}
    BY DEF SessionTypeOK
  <1>3. WorkHasClient' /\ LoginHasReason' /\ TakersWait'
    BY <1>2 DEF WorkHasClient, LoginHasReason, TakersWait, SessionTypeOK
  <1>4. RenewalHasSession'
    <2> SUFFICES ASSUME NEW q \in Callers, via'[q] = "session"
                 PROVE  session'[user'[q]] # "none"
      BY DEF RenewalHasSession
    <2>1. CASE q = p
      BY <1>2, <2>1
    <2>2. CASE q # p
      <3>1. user[q] \in Clients /\ session[user[q]] # "none" /\ user'[q] = user[q]
        BY <1>2, <2>2 DEF WorkHasClient, LoginHasReason, RenewalHasSession
      <3> QED BY <1>2, <3>1
    <2> QED BY <2>1, <2>2
  <1>5. LateIsKnown'
    BY <1>2 DEF LateIsKnown, Reconnecting
  <1>6. NoTokenForgotten'
    BY <1>2, p \notin takers DEF NoTokenForgotten, SessionTypeOK, TakersWait, LoginHasReason
  <1>7. ClosedClientIsSilent'
    BY <1>2 DEF ClosedClientIsSilent
  <1> QED BY <1>1, <1>3, <1>4, <1>5, <1>6, <1>7

(* A reconnection takes the token of the client's own Auth, if it has one. *)
LEMMA ForceKeepsInv ==
    ASSUME SessionInv, NEW p \in Callers, pc[p] # "login", NEW c \in Clients, ForceLogin(p, c),
           c \in open \cup late,
           pc' = [pc EXCEPT ![p] = "login"], user' = [user EXCEPT ![p] = c],
           UNCHANGED <<ownVars, lg>>
    PROVE  SessionInv'
  <1> USE DEF SessionInv, ownVars, ForceLogin, Await
  <1>1. SessionTypeOK'
    BY DEF SessionTypeOK, Stages, Vias, Tokens
  <1>2. /\ \A q \in Callers \ {p} : pc'[q] = pc[q] /\ user'[q] = user[q] /\ via'[q] = via[q]
        /\ pc'[p] = "login" /\ user'[p] = c /\ via'[p] = "client"
        /\ \A d \in Clients \ {c} : session'[d] = session[d]
    BY DEF SessionTypeOK
  <1>3. \/ session' = session /\ takers' = takers
        \/ session'[c] = "out" /\ session[c] # "none" /\ takers' = takers \cup {p}
    BY DEF SessionTypeOK
  <1>4. WorkHasClient' /\ LoginHasReason' /\ TakersWait'
    BY <1>2, <1>3 DEF WorkHasClient, LoginHasReason, TakersWait, SessionTypeOK
  <1>5. RenewalHasSession'
    BY <1>2, <1>3 DEF RenewalHasSession, LoginHasReason, WorkHasClient
  <1>6. LateIsKnown'
    BY <1>2 DEF LateIsKnown, Reconnecting
  <1>7. NoTokenForgotten'
    BY <1>2, <1>3 DEF NoTokenForgotten, SessionTypeOK, TakersWait, LoginHasReason
  <1>8. ClosedClientIsSilent'
    BY <1>2, <1>3 DEF ClosedClientIsSilent
  <1> QED BY <1>1, <1>4, <1>5, <1>6, <1>7, <1>8

(* A login succeeds, and its caller goes on.                               *)
LEMMA LoginOkKeepsInv ==
    ASSUME SessionInv, NEW p \in Callers, LoginOk(p), Moves(p, user[p]), UNCHANGED <<ownVars, lg>>
    PROVE  SessionInv'
  <1> DEFINE c == user[p]
  <1> USE DEF SessionInv, ownVars
  <1>1. pc[p] = "login" /\ c \in Clients /\ via[p] # "none"
    BY DEF LoginOk, WorkHasClient, LoginHasReason
  <1>2. PICK s \in Stages \ {"login"}, u \in Clients \cup {NoClient} :
           /\ s = "gateway" => c \in open
           /\ pc' = [pc EXCEPT ![p] = s] /\ user' = [user EXCEPT ![p] = u]
           /\ u = c \/ s = "idle"
    BY <1>1 DEF Moves
  <1>3. /\ \A q \in Callers \ {p} : pc'[q] = pc[q] /\ user'[q] = user[q]
        /\ pc'[p] = s /\ user'[p] = u
    BY <1>2 DEF SessionTypeOK
  <1>4. CASE Renewed(p, c) \/ Reconnected(p, c)
    <2>1. /\ session' = [session EXCEPT ![c] = "set"]
          /\ apart' = apart \ {c} /\ takers' = takers \ Users(c)
      BY <1>4 DEF Renewed, Reconnected
    <2>2. /\ via'[p] = "none" /\ via' \in [Callers -> Vias]
          /\ \A q \in Callers \ {p} :
                \/ via'[q] = via[q]
                \/ via'[q] = "detached" /\ via[q] = "session" /\ user[q] = c
      BY <1>1, <1>4 DEF Renewed, Reconnected, Await, Detached, SessionTypeOK, Vias
    <2>3. SessionTypeOK'
      BY <1>2, <2>1, <2>2 DEF SessionTypeOK, Tokens
    <2>4. session'[c] = "set" /\ \A d \in Clients \ {c} : session'[d] = session[d]
      BY <1>1, <2>1 DEF SessionTypeOK
    <2>5. p \notin takers' /\ \A q \in takers : user[q] # c => q \in takers'
      BY <2>1 DEF Users, SessionTypeOK
    <2>6. WorkHasClient' /\ LoginHasReason'
      BY <1>1, <1>2, <1>3, <2>2 DEF WorkHasClient, LoginHasReason
    <2>7. TakersWait'
      BY <2>1, <2>2, <2>5 DEF TakersWait, SessionTypeOK, Users
    <2>8. RenewalHasSession'
      BY <1>3, <2>2, <2>4 DEF RenewalHasSession, WorkHasClient, LoginHasReason
    <2>9. LateIsKnown'
      BY <1>1, <1>2, <1>3, <2>2 DEF LateIsKnown, Reconnecting
    <2>10. NoTokenForgotten'
      BY <1>3, <2>4, <2>5 DEF NoTokenForgotten, SessionTypeOK
    <2>11. c \in open \cup late \/ session[c] # "none"
      BY <1>1, <1>4 DEF Renewed, Reconnected, LateIsKnown, Reconnecting, RenewalHasSession
    <2>12. ClosedClientIsSilent'
      BY <1>1, <2>4, <2>11 DEF ClosedClientIsSilent
    <2> QED BY <2>3, <2>6, <2>7, <2>8, <2>9, <2>10, <2>12
  <1>5. CASE RenewedForNobody(p, c)
    <2>1. /\ UNCHANGED <<session, takers>> /\ p \notin takers
          /\ via'[p] = "none" /\ via' \in [Callers -> Vias]
          /\ \A q \in Callers \ {p} : via'[q] = via[q]
      BY <1>5 DEF RenewedForNobody, Await, TakersWait, SessionTypeOK, Vias
    <2>2. SessionTypeOK'
      BY <1>1, <1>2, <1>5, <2>1 DEF SessionTypeOK, RenewedForNobody
    <2>3. WorkHasClient' /\ LoginHasReason' /\ TakersWait' /\ RenewalHasSession'
      BY <1>1, <1>2, <1>3, <2>1
         DEF WorkHasClient, LoginHasReason, TakersWait, RenewalHasSession, SessionTypeOK
    <2>4. LateIsKnown'
      BY <1>1, <1>2, <1>3, <2>1 DEF LateIsKnown, Reconnecting
    <2>5. NoTokenForgotten' /\ ClosedClientIsSilent'
      BY <1>3, <2>1 DEF NoTokenForgotten, ClosedClientIsSilent, SessionTypeOK
    <2> QED BY <2>2, <2>3, <2>4, <2>5
  <1> QED BY <1>4, <1>5 DEF LoginOk

(* A login fails, and its caller goes on.                                  *)
LEMMA LoginFailsKeepsInv ==
    ASSUME SessionInv, NEW p \in Callers, LoginFails(p), Moves(p, user[p]), UNCHANGED <<ownVars, lg>>
    PROVE  SessionInv'
  <1> DEFINE c == user[p]
  <1> USE DEF SessionInv, ownVars
  <1>1. pc[p] = "login" /\ c \in Clients /\ via[p] # "none"
    BY DEF LoginFails, WorkHasClient, LoginHasReason
  <1>2. PICK s \in Stages \ {"login"}, u \in Clients \cup {NoClient} :
           /\ s = "gateway" => c \in open
           /\ pc' = [pc EXCEPT ![p] = s] /\ user' = [user EXCEPT ![p] = u]
           /\ u = c \/ s = "idle"
    BY <1>1 DEF Moves
  <1>3. /\ \A q \in Callers \ {p} : pc'[q] = pc[q] /\ user'[q] = user[q]
        /\ pc'[p] = s /\ user'[p] = u
    BY <1>2 DEF SessionTypeOK
  <1>4. /\ via'[p] = "none" /\ via' \in [Callers -> Vias] /\ takers' = takers \ {p}
        /\ \A q \in Callers \ {p} : via'[q] = via[q]
    BY DEF LoginFails, Await, SessionTypeOK, Vias
  <1>5. /\ session' \in [Clients -> Tokens] /\ apart' = apart
        /\ \/ session' = session /\ p \notin takers
           \/ session' = [session EXCEPT ![c] = "lost"] /\ p \in takers
    BY <1>1 DEF LoginFails, SessionTypeOK, Tokens
  <1>6. SessionTypeOK'
    BY <1>2, <1>4, <1>5 DEF SessionTypeOK
  <1>7. WorkHasClient' /\ LoginHasReason' /\ TakersWait'
    BY <1>1, <1>2, <1>3, <1>4 DEF WorkHasClient, LoginHasReason, TakersWait, SessionTypeOK
  <1>8. \A d \in Clients : session'[d] = session[d] \/ (session'[d] = "lost" /\ d = c)
    BY <1>1, <1>5 DEF SessionTypeOK
  <1>9. RenewalHasSession'
    BY <1>3, <1>4, <1>8 DEF RenewalHasSession, WorkHasClient, LoginHasReason
  <1>10. LateIsKnown'
    BY <1>1, <1>2, <1>3, <1>4 DEF LateIsKnown, Reconnecting
  <1>11. NoTokenForgotten'
    <2> SUFFICES ASSUME NEW d \in Clients, session'[d] = "out"
                 PROVE  \E q \in takers' : user'[q] = d /\ pc'[q] = "login"
      BY DEF NoTokenForgotten
    <2>1. session[d] = "out"
      BY <1>8
    <2>2. PICK q \in takers : user[q] = d /\ pc[q] = "login"
      BY <2>1 DEF NoTokenForgotten
    <2>3. q # p
      BY <1>1, <1>5, <2>2 DEF SessionTypeOK
    <2> QED BY <1>3, <1>4, <2>2, <2>3 DEF SessionTypeOK
  <1>12. ClosedClientIsSilent'
    <2> SUFFICES ASSUME NEW d \in Clients \ open, session'[d] # "none"
                 PROVE  d \in late
      BY DEF ClosedClientIsSilent
    <2>1. CASE session'[d] = session[d]
      BY <2>1 DEF ClosedClientIsSilent
    <2>2. CASE d = c /\ p \in takers
      BY <1>1, <2>2
         DEF ClosedClientIsSilent, RenewalHasSession, TakersWait, LateIsKnown, Reconnecting,
             SessionTypeOK
    <2> QED BY <1>1, <1>5, <2>1, <2>2 DEF SessionTypeOK
  <1> QED BY <1>6, <1>7, <1>9, <1>10, <1>11, <1>12

(* Renewals without a lock, the entry, and LG.                             *)
LEMMA SessionStep == SessionInv /\ SessionNext => SessionInv'
  <1> SUFFICES ASSUME SessionInv, SessionNext
               PROVE  SessionInv'
    OBVIOUS
  <1> USE DEF SessionInv
  <1>1. ASSUME NEW r \in Renewers, Renew(r)
        PROVE  SessionInv'
    <2>1. /\ r \in Callers /\ current \in Clients /\ pc[r] = "idle"
          /\ pc[r] # "login" /\ UNCHANGED <<ownVars, lg>>
      BY <1>1 DEF Renew, Callers, SessionTypeOK
    <2>2. CASE RenewSession(r, current) /\ pc' = [pc EXCEPT ![r] = "login"]
               /\ user' = [user EXCEPT ![r] = current]
      BY <2>1, <2>2, RenewKeepsInv
    <2>3. CASE StillValid(current) /\ UNCHANGED <<pc, user>>
      BY <2>1, <2>3
         DEF StillValid, SessionTypeOK, WorkHasClient, LoginHasReason, TakersWait,
             RenewalHasSession, LateIsKnown, Reconnecting, NoTokenForgotten, ClosedClientIsSilent,
             ownVars
    <2> QED BY <1>1, <2>2, <2>3 DEF Renew
  <1>2. ASSUME NEW r \in Renewers, EndRenewal(r)
        PROVE  SessionInv'
    <2>1. r \in Callers
      BY DEF Callers
    <2>2. Moves(r, user[r]) /\ UNCHANGED <<ownVars, lg>>
      BY <1>2 DEF EndRenewal, Leave, Moves, Stages
    <2> QED BY <1>2, <2>1, <2>2, LoginOkKeepsInv, LoginFailsKeepsInv DEF EndRenewal
  <1>3. CASE Close
    <2>1. /\ current \in Clients /\ UNCHANGED <<current, lg, pc, user>>
          /\ open' = open \ {current} /\ session' = [session EXCEPT ![current] = "none"]
          /\ apart' = apart \ {current} /\ takers' = takers \ Users(current)
          /\ via' = [p \in Callers |-> IF Detached(p, current) THEN "detached" ELSE via[p]]
          /\ late' = IF \E p \in Users(current) : Reconnecting(p) THEN late \cup {current} ELSE late
      BY <1>3 DEF Close, SessionTypeOK
    <2>2. /\ session'[current] = "none"
          /\ \A d \in Clients \ {current} : session'[d] = session[d]
      BY <2>1 DEF SessionTypeOK
    <2>3. \A p \in Callers :
             \/ via'[p] = via[p] /\ ~Detached(p, current)
             \/ via'[p] = "detached" /\ via[p] = "session" /\ user[p] = current
      BY <2>1 DEF Detached
    <2>4. SessionTypeOK'
      BY <2>1, <2>3 DEF SessionTypeOK, Tokens, Vias
    <2>5. WorkHasClient' /\ LoginHasReason'
      BY <2>1, <2>3 DEF WorkHasClient, LoginHasReason
    <2>6. TakersWait'
      BY <2>1, <2>3 DEF TakersWait, SessionTypeOK, Users
    <2>7. RenewalHasSession'
      BY <2>1, <2>2, <2>3
         DEF RenewalHasSession, Detached, WorkHasClient, LoginHasReason
    <2>8. LateIsKnown'
      <3> SUFFICES ASSUME NEW p \in Callers, Reconnecting(p)', user[p] \notin open'
                   PROVE  user[p] \in late'
        BY <2>1 DEF LateIsKnown
      <3>1. Reconnecting(p)
        BY <2>1, <2>3 DEF Reconnecting
      <3>2. CASE user[p] = current
        BY <2>1, <3>1, <3>2 DEF Users
      <3>3. CASE user[p] # current
        BY <2>1, <3>1, <3>3 DEF LateIsKnown
      <3> QED BY <3>2, <3>3
    <2>9. NoTokenForgotten'
      <3> SUFFICES ASSUME NEW d \in Clients, session'[d] = "out"
                   PROVE  \E q \in takers' : user'[q] = d /\ pc'[q] = "login"
        BY DEF NoTokenForgotten
      <3>1. d # current /\ session[d] = "out"
        BY <2>2
      <3> QED BY <2>1, <3>1 DEF NoTokenForgotten, Users, SessionTypeOK
    <2>10. ClosedClientIsSilent'
      BY <2>1, <2>2 DEF ClosedClientIsSilent
    <2> QED BY <2>4, <2>5, <2>6, <2>7, <2>8, <2>9, <2>10
  <1>4. CASE LgStaysUp
    BY <1>4 DEF LgStaysUp, ownVars, authVars, SessionTypeOK, WorkHasClient, LoginHasReason, TakersWait,
                RenewalHasSession, LateIsKnown, Reconnecting, NoTokenForgotten, ClosedClientIsSilent
  <1>5. ASSUME NEW c \in Clients, Forget(c)
        PROVE  SessionInv'
    <2>1. /\ UNCHANGED <<current, open, takers, via, lg, pc, user>>
          /\ session' = [session EXCEPT ![c] = "none"]
          /\ apart' = apart \ {c} /\ late' = late \ {c}
          /\ \A p \in Callers : user[p] # c
      BY <1>5 DEF Forget, Users
    <2>2. session'[c] = "none" /\ \A d \in Clients \ {c} : session'[d] = session[d]
      BY <2>1 DEF SessionTypeOK
    <2>3. SessionTypeOK'
      BY <2>1 DEF SessionTypeOK, Tokens
    <2>4. WorkHasClient' /\ LoginHasReason' /\ TakersWait' /\ RenewalHasSession'
      BY <2>1, <2>2 DEF WorkHasClient, LoginHasReason, TakersWait, RenewalHasSession
    <2>5. LateIsKnown'
      BY <2>1 DEF LateIsKnown, Reconnecting
    <2>6. NoTokenForgotten' /\ ClosedClientIsSilent'
      BY <2>1, <2>2 DEF NoTokenForgotten, ClosedClientIsSilent
    <2> QED BY <2>3, <2>4, <2>5, <2>6
  <1> QED BY <1>1, <1>2, <1>3, <1>4, <1>5 DEF SessionNext

(* Only an entry that is set up again is without an open client.           *)
NextIsThere == current \notin open => current < MaxClients

LEMMA SetupStep ==
    ASSUME SessionInv, NextIsThere, Setup
    PROVE  SessionInv'
  <1> USE DEF SessionInv
  <1>1. /\ UNCHANGED <<late, apart, takers, via, lg, pc, user>>
        /\ current' = current + 1 /\ open' = open \cup {current + 1}
        /\ session' = [session EXCEPT ![current + 1] = "set"]
    BY DEF Setup
  <1>2. current + 1 \in Clients
    BY SessionAssumption DEF Setup, NextIsThere, SessionTypeOK, Clients
  <1>3. SessionTypeOK'
    BY <1>1, <1>2 DEF SessionTypeOK, Tokens
  <1>4. /\ session'[current + 1] = "set"
        /\ \A d \in Clients \ {current + 1} : session'[d] = session[d]
    BY <1>1, <1>2 DEF SessionTypeOK
  <1>5. WorkHasClient' /\ LoginHasReason' /\ TakersWait'
    BY <1>1 DEF WorkHasClient, LoginHasReason, TakersWait
  <1>6. RenewalHasSession'
    BY <1>1, <1>4 DEF RenewalHasSession, WorkHasClient, LoginHasReason
  <1>7. LateIsKnown'
    BY <1>1 DEF LateIsKnown, Reconnecting
  <1>8. NoTokenForgotten' /\ ClosedClientIsSilent'
    BY <1>1, <1>4 DEF NoTokenForgotten, ClosedClientIsSilent
  <1> QED BY <1>3, <1>5, <1>6, <1>7, <1>8

(***************************************************************************)
(* The monitors.                                                           *)
(***************************************************************************)

(* A monitor with the class lock; c is the client it works with.           *)
LEMMA LockedStep ==
    ASSUME SessionInv, NEW m \in Monitors, pc[m] # "login", NEW c \in Clients, Locked(m, c)
    PROVE  SessionInv'
  <1>1. m \in Callers /\ SessionTypeOK /\ apart \subseteq Clients
    BY DEF Callers, SessionInv, SessionTypeOK
  <1>2. ASSUME UNCHANGED <<ownVars, authVars, lg>>, Moves(m, c)
        PROVE  SessionInv'
    BY <1>1, <1>2, MoveKeepsInv DEF authVars
  <1>3. ASSUME RefreshAuth(m, c), UNCHANGED lg
        PROVE  SessionInv'
    <2>1. CASE StillValid(c) /\ Poll(m, c) /\ UNCHANGED ownVars
      BY <1>1, <1>3, <2>1, PollMoves, MoveKeepsInv DEF StillValid
    <2>2. CASE RenewSession(m, c) /\ At(m, c, "login") /\ UNCHANGED ownVars
      BY <1>1, <1>3, <2>2, RenewKeepsInv DEF At
    <2>3. CASE End(m) /\ UNCHANGED <<ownVars, authVars>>
      BY <1>2, <1>3, <2>3, EndMoves DEF End
    <2> QED BY <1>3, <2>1, <2>2, <2>3 DEF RefreshAuth
  <1>4. ASSUME TooEarly(m), UNCHANGED lg
        PROVE  SessionInv'
    BY <1>2, <1>4, EndMoves DEF TooEarly, Raise
  <1>5. ASSUME Reconnect(m, c), UNCHANGED lg
        PROVE  SessionInv'
    <2>1. CASE End(m) /\ UNCHANGED <<ownVars, authVars>>
      BY <1>2, <1>5, <2>1, EndMoves DEF End
    <2>2. CASE c \in open /\ At(m, c, "gateway") /\ UNCHANGED <<ownVars, authVars>>
      BY <1>2, <1>5, <2>2 DEF At, Moves, Stages
    <2>3. CASE c \in open /\ ForceLogin(m, c) /\ At(m, c, "login") /\ UNCHANGED ownVars
      BY <1>1, <1>5, <2>3, ForceKeepsInv DEF At
    <2> QED BY <1>5, <2>1, <2>2, <2>3 DEF Reconnect
  <1> QED BY <1>3, <1>4, <1>5 DEF Locked

(* A monitor gets an answer.                                               *)
LEMMA ServeStep ==
    ASSUME SessionInv, NEW m \in Monitors, Serve(m)
    PROVE  SessionInv'
  <1>1. m \in Callers /\ SessionTypeOK /\ apart \subseteq Clients
    BY DEF Callers, SessionInv, SessionTypeOK
  <1>2. ASSUME pc[m] \notin {"idle", "login"}, UNCHANGED <<ownVars, authVars, lg>>, Moves(m, user[m])
        PROVE  SessionInv'
    BY <1>1, <1>2, MoveKeepsInv DEF authVars, SessionInv, WorkHasClient
  <1>3. ASSUME pc[m] # "idle", NEW e, Handle(m, e)
        PROVE  Moves(m, user[m])
    BY <1>1, <1>3, HandleMoves DEF SessionInv, WorkHasClient
  <1>4. ASSUME pc[m] # "idle", \/ Quietly(m) \/ Again(m, {})
                              \/ \E stage \in {"devices", "result", "snapshot"} : Send(m, user[m], stage)
                              \/ List(m, user[m]) \/ Poll(m, user[m])
        PROVE  Moves(m, user[m])
    <2>1. user[m] \in Clients
      BY <1>1, <1>4 DEF SessionInv, WorkHasClient
    <2>2. ASSUME NEW stage \in {"devices", "result", "snapshot"}, Send(m, user[m], stage)
          PROVE  Moves(m, user[m])
      BY <2>2 DEF Send, At, Moves, Stages
    <2>3. user = [user EXCEPT ![m] = user[m]]
      BY <1>1 DEF SessionTypeOK
    <2>4. CASE Again(m, {})
      BY <2>1, <2>3, <2>4, EndMoves DEF Again, Quietly, End, Moves, Stages
    <2>5. CASE Quietly(m) \/ List(m, user[m])
      BY <2>1, <2>2, <2>5, EndMoves DEF Quietly, End, List
    <2> QED BY <1>4, <2>1, <2>2, <2>4, <2>5, PollMoves
  <1>5. CASE AnswerList(m) \/ AnswerStart(m) \/ AnswerResult(m)
    BY <1>2, <1>3, <1>4, <1>5 DEF AnswerList, AnswerStart, AnswerResult
  <1>6. CASE AnswerDevices(m)
    BY <1>2, <1>3, <1>4, <1>6 DEF AnswerDevices
  <1>7. CASE AnswerGateway(m)
    <2>1. pc[m] = "gateway" /\ user[m] \in Clients /\ user[m] \in open \cup late
      BY <1>1, <1>7 DEF AnswerGateway, SessionInv, WorkHasClient, LateIsKnown, Reconnecting
    <2>2. CASE ForceLogin(m, user[m]) /\ UNCHANGED ownVars /\ At(m, user[m], "login")
      BY <1>1, <1>7, <2>1, <2>2, ForceKeepsInv DEF At, AnswerGateway
    <2> QED BY <1>2, <1>3, <1>7, <2>1, <2>2 DEF AnswerGateway
  <1>8. CASE AnswerLogin(m)
    <2>1. pc[m] = "login" /\ UNCHANGED <<ownVars, lg>>
      BY <1>8 DEF AnswerLogin, LoginOk, LoginFails
    <2> QED BY <1>1, <1>3, <1>4, <1>8, <2>1, LoginOkKeepsInv, LoginFailsKeepsInv DEF AnswerLogin
  <1> QED BY <1>5, <1>6, <1>7, <1>8 DEF Serve

LEMMA SessionInvStep == SessionInv /\ NextIsThere /\ [Next]_vars => SessionInv'
  <1> SUFFICES ASSUME SessionInv, NextIsThere, [Next]_vars
               PROVE  SessionInv'
    OBVIOUS
  <1> USE DEF SessionInv
  <1>1. ASSUME NEW m \in Monitors, StartPoll(m)
        PROVE  SessionInv'
    <2>1. m \in Callers /\ current \in Clients /\ pc[m] = "idle"
      BY <1>1 DEF StartPoll, Callers, SessionTypeOK
    <2>2. CASE Locked(m, current)
      BY <2>1, <2>2, LockedStep
    <2>3. CASE At(m, current, "queue") /\ UNCHANGED <<ownVars, authVars, lg>>
      BY <2>1, <2>3, MoveKeepsInv DEF At, Moves, Stages, authVars, SessionTypeOK
    <2> QED BY <1>1, <2>2, <2>3 DEF StartPoll
  <1>2. ASSUME NEW m \in Monitors, TakeLock(m)
        PROVE  SessionInv'
    BY <1>2, LockedStep DEF TakeLock, WorkHasClient, Callers
  <1>3. ASSUME NEW m \in Monitors, WaitForList(m)
        PROVE  SessionInv'
    <2>1. m \in Callers /\ user[m] \in Clients /\ pc[m] = "wait" /\ apart \subseteq Clients
      BY <1>3 DEF WaitForList, Callers, WorkHasClient, SessionTypeOK
    <2>2. Moves(m, user[m])
      BY <1>3, <2>1, EndMoves DEF WaitForList, List, End, Send, At, Moves, Stages
    <2> QED BY <1>3, <2>1, <2>2, MoveKeepsInv DEF WaitForList, authVars
  <1>4. ASSUME NEW m \in Monitors, Serve(m)
        PROVE  SessionInv'
    BY <1>4, ServeStep
  <1>5. CASE WindowEnds \/ UNCHANGED vars
    <2>1. UNCHANGED sessionVars
      BY <1>5 DEF WindowEnds, vars
    <2> QED
      BY <2>1 DEF sessionVars, ownVars, authVars, SessionTypeOK, WorkHasClient, LoginHasReason,
         TakersWait, RenewalHasSession, LateIsKnown, Reconnecting, NoTokenForgotten,
         ClosedClientIsSilent
  <1>6. CASE Reload
    BY <1>6, SetupStep DEF Reload
  <1>7. CASE Session
    BY <1>7, SessionStep DEF Session
  <1> QED BY <1>1, <1>2, <1>3, <1>4, <1>5, <1>6, <1>7 DEF Next

(***************************************************************************)
(* Types of the monitors' own variables.                                   *)
(***************************************************************************)
PollTypeOK ==
    /\ iteration \in [Monitors -> 0..(MaxRetries - 1)]
    /\ refused \subseteq Monitors /\ bad \subseteq Monitors
    /\ invalid \in [Monitors -> 0..MaxCredential]

ClassTypeOK ==
    /\ shared \subseteq Flags
    /\ notLogged \in 0..(GatewayAfter + 1) /\ fails \in 0..MaxFail
    /\ work \subseteq Monitors

LEMMA Typed == TypeOK <=> SessionTypeOK /\ PollTypeOK /\ ClassTypeOK
  BY DEF TypeOK, PollTypeOK, ClassTypeOK

LEMMA EndTypes ==
    ASSUME PollTypeOK, NEW m \in Monitors, NEW n \in 0..MaxCredential, EndWith(m, n)
    PROVE  PollTypeOK'
  BY MonitorAssumption DEF EndWith, PollTypeOK

LEMMA HandleTypes ==
    ASSUME PollTypeOK, shared \subseteq Flags, NEW m \in Monitors, NEW e, Handle(m, e)
    PROVE  PollTypeOK' /\ shared' \subseteq Flags
  <1>1. 0 \in 0..MaxCredential /\ invalid[m] \in 0..MaxCredential
    BY MonitorAssumption DEF PollTypeOK
  <1>2. ASSUME Quietly(m) PROVE PollTypeOK' /\ shared' \subseteq Flags
    BY <1>1, <1>2, EndTypes DEF Quietly, End
  <1>3. ASSUME NEW n \in 0..MaxCredential, NEW lost, Raise(m, lost, n)
        PROVE  PollTypeOK' /\ shared' \subseteq Flags
    <2>1. PollTypeOK'
      BY <1>3, EndTypes DEF Raise
    <2>2. shared' \subseteq Flags
      BY <1>3 DEF Raise, Flags
    <2> QED BY <2>1, <2>2
  <1>4. ASSUME NEW official \in {{}, {m}}, Again(m, official)
        PROVE  PollTypeOK' /\ shared' \subseteq Flags
    <2>1. CASE iteration[m] + 1 = MaxRetries
      BY <1>2, <1>4, <2>1 DEF Again
    <2>2. CASE iteration[m] + 1 # MaxRetries
      BY <1>4, <2>2, MonitorAssumption DEF Again, PollTypeOK
    <2> QED BY <2>1, <2>2
  <1>5. ASSUME EndWith(m, invalid[m]), UNCHANGED shared
        PROVE  PollTypeOK' /\ shared' \subseteq Flags
    BY <1>1, <1>5, EndTypes
  <1>6. invalid[m] < MaxCredential => invalid[m] + 1 \in 0..MaxCredential
    BY <1>1, MonitorAssumption
  <1> QED BY <1>1, <1>2, <1>3, <1>4, <1>5, <1>6 DEF Handle

LEMMA PollTypes ==
    ASSUME PollTypeOK, work \subseteq Monitors, NEW m \in Monitors, NEW c, Poll(m, c)
    PROVE  PollTypeOK' /\ work' \subseteq Monitors
  <1>1. ASSUME NEW stage, Send(m, c, stage) PROVE PollTypeOK'
    BY <1>1 DEF Send, At, pollVars, PollTypeOK
  <1>2. ASSUME End(m) PROVE PollTypeOK'
    <2>1. 0 \in 0..MaxCredential
      BY MonitorAssumption
    <2> QED BY <1>2, <2>1, EndTypes DEF End
  <1>3. ASSUME List(m, c) PROVE PollTypeOK'
    BY <1>1, <1>2, <1>3 DEF List
  <1>4. ASSUME At(m, c, "wait"), UNCHANGED bad PROVE PollTypeOK'
    BY <1>4 DEF At, pollVars, PollTypeOK
  <1>5. PollTypeOK'
    BY <1>1, <1>2, <1>3, <1>4 DEF Poll
  <1>6. work' \subseteq Monitors
    BY DEF Poll
  <1> QED BY <1>5, <1>6

(***************************************************************************)
(* The class lock and the counter of reconnections.                        *)
(***************************************************************************)
HoldsLock(m) == pc[m] \in {"gateway", "login", "devices"}
UnderWay(m) == pc[m] \in {"gateway", "devices"} \/ (pc[m] = "login" /\ via[m] = "client")

OneHolder == \A m, n \in Monitors : HoldsLock(m) /\ HoldsLock(n) => m = n

(* _not_logged_count is at most one, for the reconnection under way, ahead *)
(* of the reconnections that have failed.                                  *)
Counted ==
    \/ notLogged <= fails \/ fails = MaxFail
    \/ notLogged = fails + 1 /\ \E m \in Monitors : UnderWay(m)

MonitorInv ==
    /\ PollTypeOK /\ ClassTypeOK
    /\ OneHolder /\ Counted /\ CriticalAfterFailures

(* Whoever raises sees enough failures, if it sets critical.               *)
LEMMA RaisesRightly ==
    ASSUME MonitorInv, NEW m \in Monitors,
           (\E lost, n : Raise(m, lost, n)) \/ UNCHANGED shared
    PROVE  "critical" \in shared' => fails + 1 >= MaxFail
  <1>1. notLogged >= MaxFail => fails + 1 >= MaxFail
    BY MonitorAssumption DEF MonitorInv, Counted, ClassTypeOK
  <1> QED BY <1>1 DEF Raise, MonitorInv, CriticalAfterFailures

LEMMA HandlesRightly ==
    ASSUME MonitorInv, NEW m \in Monitors, NEW e, Handle(m, e)
    PROVE  "critical" \in shared' => fails + 1 >= MaxFail
  <1>1. (\E lost, n : Raise(m, lost, n)) \/ UNCHANGED shared
    BY DEF Handle, Quietly, Again
  <1> QED BY <1>1, RaisesRightly

(* What p does is nothing to the locks and reconnections of the others.    *)
LEMMA OthersStay ==
    ASSUME SessionTypeOK, NEW p \in Monitors, NEW s \in Stages, pc' = [pc EXCEPT ![p] = s],
           \A q \in Monitors \ {p} :
               \/ via'[q] = via[q]
               \/ via[q] = "session" /\ via'[q] = "detached"
    PROVE  /\ pc'[p] = s
           /\ \A q \in Monitors \ {p} : (HoldsLock(q)' <=> HoldsLock(q)) /\ (UnderWay(q)' <=> UnderWay(q))
  <1>1. pc'[p] = s /\ \A q \in Monitors \ {p} : pc'[q] = pc[q]
    BY DEF SessionTypeOK, Callers
  <1> QED BY <1>1 DEF HoldsLock, UnderWay

LEMMA LoginOfOthers ==
    ASSUME SessionTypeOK, NEW p \in Monitors, NEW q \in Monitors \ {p}, LoginOk(p) \/ LoginFails(p)
    PROVE  via'[q] = via[q] \/ (via[q] = "session" /\ via'[q] = "detached")
  <1>1. p \in Callers /\ q \in Callers /\ via \in [Callers -> Vias]
    BY DEF Callers, SessionTypeOK
  <1> QED
    BY <1>1 DEF LoginOk, LoginFails, Renewed, RenewedForNobody, Reconnected, Await, Detached

(* A step without the lock before and after, that counts nothing.          *)
LEMMA OutsideKeepsInv ==
    ASSUME SessionTypeOK, MonitorInv, NEW m \in Monitors, NEW c, Releases(m, c), ~UnderWay(m),
           \A q \in Monitors \ {m} :
               \/ via'[q] = via[q]
               \/ via[q] = "session" /\ via'[q] = "detached",
           PollTypeOK', ClassTypeOK', UNCHANGED <<notLogged, fails>>,
           "critical" \in shared' => fails + 1 >= MaxFail
    PROVE  MonitorInv'
  <1>1. PICK s \in Unlocked : pc' = [pc EXCEPT ![m] = s]
    BY DEF Releases
  <1>2. /\ pc'[m] = s
        /\ \A q \in Monitors \ {m} : (HoldsLock(q)' <=> HoldsLock(q)) /\ (UnderWay(q)' <=> UnderWay(q))
    BY <1>1, OthersStay DEF Unlocked
  <1>3. ~HoldsLock(m)'
    BY <1>2 DEF HoldsLock, Unlocked
  <1>4. OneHolder'
    BY <1>2, <1>3 DEF OneHolder, MonitorInv
  <1>5. Counted'
    BY <1>2 DEF Counted, MonitorInv
  <1> QED BY <1>4, <1>5 DEF MonitorInv, CriticalAfterFailures

(* A step that ends a reconnection, counted one way or the other.          *)
LEMMA ReleaseKeepsInv ==
    ASSUME SessionTypeOK, MonitorInv, NEW m \in Monitors, NEW c, Releases(m, c), HoldsLock(m),
           \A q \in Monitors \ {m} :
               \/ via'[q] = via[q]
               \/ via[q] = "session" /\ via'[q] = "detached",
           PollTypeOK', ClassTypeOK',
           \/ Connected
           \/ /\ FailedOnce /\ UNCHANGED notLogged
              /\ "critical" \in shared' => fails + 1 >= MaxFail
    PROVE  MonitorInv'
  <1>1. PICK s \in Unlocked : pc' = [pc EXCEPT ![m] = s]
    BY DEF Releases
  <1>2. /\ pc'[m] = s
        /\ \A q \in Monitors \ {m} : (HoldsLock(q)' <=> HoldsLock(q)) /\ (UnderWay(q)' <=> UnderWay(q))
    BY <1>1, OthersStay DEF Unlocked
  <1>3. ~HoldsLock(m)'
    BY <1>2 DEF HoldsLock, Unlocked
  <1>4. OneHolder'
    BY <1>2, <1>3 DEF OneHolder, MonitorInv
  <1>5. Counted' /\ CriticalAfterFailures'
    <2>1. CASE Connected
      BY <2>1 DEF Connected, Counted, CriticalAfterFailures
    <2>2. CASE /\ FailedOnce /\ UNCHANGED notLogged
               /\ "critical" \in shared' => fails + 1 >= MaxFail
      <3>1. fails' \in Nat /\ fails' >= fails /\ (fails' = fails + 1 \/ fails' = MaxFail)
        BY <2>2, MonitorAssumption DEF FailedOnce, MonitorInv, ClassTypeOK
      <3>2. notLogged' <= fails' \/ fails' = MaxFail
        BY <2>2, <3>1, MonitorAssumption DEF MonitorInv, Counted, ClassTypeOK
      <3>3. "critical" \in shared' => fails' + 1 >= MaxFail
        BY <2>2, <3>1, MonitorAssumption DEF MonitorInv, ClassTypeOK
      <3> QED BY <3>2, <3>3 DEF Counted, CriticalAfterFailures
    <2> QED BY <2>1, <2>2
  <1> QED BY <1>4, <1>5 DEF MonitorInv

(* A monitor that takes the class lock, at the beginning of a round.       *)
LEMMA LockedCounts ==
    ASSUME SessionInv, MonitorInv, NEW m \in Monitors, NEW c \in Clients, Locked(m, c)
    PROVE  MonitorInv'
  <1>1. \A q \in Monitors : ~HoldsLock(q) /\ ~UnderWay(q)
    BY DEF Locked, LockFree, HoldsLock, UnderWay
  <1>2. notLogged <= fails \/ fails = MaxFail
    BY <1>1 DEF MonitorInv, Counted
  <1>3. SessionTypeOK /\ PollTypeOK /\ ClassTypeOK
    BY DEF SessionInv, MonitorInv
  <1>4. 0 \in 0..MaxCredential
    BY MonitorAssumption
  <1>5. ASSUME NEW stage \in {"gateway", "login"}, At(m, c, stage),
               \/ UNCHANGED notLogged
               \/ /\ stage = "gateway" \/ via'[m] = "client"
                  /\ notLogged' = fails + 1 \/ notLogged' <= fails \/ fails = MaxFail,
               \A q \in Monitors \ {m} : via'[q] = via[q],
               ClassTypeOK', UNCHANGED bad, UNCHANGED fails,
               "critical" \in shared' => fails + 1 >= MaxFail
        PROVE  MonitorInv'
    <2>1. pc' = [pc EXCEPT ![m] = stage] /\ stage \in Stages
      BY <1>5 DEF At, Stages
    <2>2. /\ pc'[m] = stage
          /\ \A q \in Monitors \ {m} : ~HoldsLock(q)' /\ ~UnderWay(q)'
      BY <1>1, <1>3, <1>5, <2>1, OthersStay
    <2>3. OneHolder'
      BY <2>2 DEF OneHolder
    <2>4. stage = "gateway" \/ via'[m] = "client" => UnderWay(m)'
      BY <1>5, <2>2 DEF UnderWay
    <2>5. Counted'
      BY <1>2, <1>5, <2>4 DEF Counted
    <2>6. PollTypeOK'
      BY <1>3, <1>5 DEF PollTypeOK, At, pollVars
    <2> QED BY <1>5, <2>3, <2>5, <2>6 DEF MonitorInv, CriticalAfterFailures
  <1>6. ASSUME RefreshAuth(m, c)
        PROVE  MonitorInv'
    <2>1. UNCHANGED <<shared, notLogged, fails>>
      BY <1>6 DEF RefreshAuth, classVars
    <2>2. "critical" \in shared' => fails + 1 >= MaxFail
      BY <2>1, RaisesRightly
    <2>3. CASE StillValid(c) /\ Poll(m, c)
      <3>1. Releases(m, c) /\ UNCHANGED via
        BY <2>3, PollMoves DEF StillValid
      <3>2. PollTypeOK' /\ ClassTypeOK'
        BY <1>3, <2>1, <2>3, PollTypes DEF ClassTypeOK
      <3> QED BY <1>1, <1>3, <2>1, <2>2, <3>1, <3>2, OutsideKeepsInv
    <2>4. CASE RenewSession(m, c) /\ At(m, c, "login") /\ UNCHANGED <<work, bad>>
      <3>1. via'[m] = "session" /\ \A q \in Monitors \ {m} : via'[q] = via[q]
        BY <1>3, <2>4 DEF RenewSession, Await, SessionTypeOK, Callers
      <3>2. ClassTypeOK'
        BY <1>3, <2>1, <2>4 DEF ClassTypeOK
      <3> QED BY <1>5, <2>1, <2>2, <2>4, <3>1, <3>2
    <2>5. CASE End(m) /\ UNCHANGED <<authVars, work>>
      <3>1. Releases(m, c) /\ UNCHANGED via
        BY <2>5, EndMoves DEF End, authVars
      <3>2. PollTypeOK' /\ ClassTypeOK'
        BY <1>3, <1>4, <2>1, <2>5, EndTypes DEF End, ClassTypeOK
      <3> QED BY <1>1, <1>3, <2>1, <2>2, <3>1, <3>2, OutsideKeepsInv
    <2> QED BY <1>6, <2>3, <2>4, <2>5 DEF RefreshAuth
  <1>7. ASSUME TooEarly(m)
        PROVE  MonitorInv'
    <2>1. /\ Raise(m, LoggedOut, 0)
          /\ UNCHANGED <<authVars, work, notLogged, fails>>
      BY <1>7 DEF TooEarly
    <2>2. Releases(m, c) /\ UNCHANGED via
      BY <2>1, EndMoves DEF Raise, authVars
    <2>3. PollTypeOK' /\ ClassTypeOK'
      BY <1>3, <1>4, <2>1, EndTypes DEF Raise, ClassTypeOK, Flags
    <2> QED BY <1>1, <1>3, <2>1, <2>2, <2>3, RaisesRightly, OutsideKeepsInv
  <1>8. ASSUME Reconnect(m, c)
        PROVE  MonitorInv'
    <2>1. /\ shared' = shared \cup {"recent"} /\ UNCHANGED work
          /\ notLogged' = IF notLogged >= GatewayAfter THEN 1 ELSE notLogged + 1
      BY <1>8 DEF Reconnect
    <2>2. "critical" \in shared' => fails + 1 >= MaxFail
      BY <2>1 DEF MonitorInv, CriticalAfterFailures
    <2>3. notLogged' \in 0..(GatewayAfter + 1) /\ shared' \subseteq Flags
      BY <1>3, <2>1, MonitorAssumption DEF ClassTypeOK, Flags
    <2>4. notLogged' <= fails + 1 \/ fails = MaxFail
      BY <1>2, <1>3, <2>1, MonitorAssumption DEF ClassTypeOK
    <2>5. CASE FailedOnce /\ End(m) /\ UNCHANGED authVars
      <3>1. Releases(m, c) /\ UNCHANGED via
        BY <2>5, EndMoves DEF End, authVars
      <3>2. PICK s \in Unlocked : pc' = [pc EXCEPT ![m] = s]
        BY <3>1 DEF Releases
      <3>3. pc'[m] = s /\ \A q \in Monitors \ {m} : ~HoldsLock(q)'
        BY <1>1, <1>3, <3>1, <3>2, OthersStay DEF Unlocked
      <3>4. OneHolder'
        BY <3>3 DEF OneHolder, HoldsLock, Unlocked
      <3>5. fails' \in 0..MaxFail /\ (fails' = fails + 1 \/ (fails' = MaxFail /\ fails = MaxFail))
        BY <1>3, <2>5, MonitorAssumption DEF FailedOnce, ClassTypeOK
      <3>6. PollTypeOK' /\ ClassTypeOK'
        BY <1>3, <1>4, <2>1, <2>3, <2>5, <3>5, EndTypes DEF End, ClassTypeOK
      <3>7. /\ fails \in Nat /\ fails' \in Nat /\ notLogged' \in Nat /\ MaxFail \in Nat
            /\ fails' <= MaxFail /\ (fails' = fails + 1 \/ (fails' = MaxFail /\ fails = MaxFail))
        BY <1>3, <2>3, <3>5, MonitorAssumption DEF ClassTypeOK
      <3>8. /\ notLogged' <= fails' \/ fails' = MaxFail
            /\ fails + 1 >= MaxFail => fails' + 1 >= MaxFail
        <4>1. CASE fails' = MaxFail
          BY <3>7, <4>1
        <4>2. CASE fails' = fails + 1
          BY <2>4, <3>7, <4>2
        <4> QED BY <3>7, <4>1, <4>2
      <3>9. CriticalAfterFailures'
        BY <2>2, <3>8 DEF CriticalAfterFailures
      <3>10. Counted'
        BY <3>8 DEF Counted
      <3> QED BY <3>4, <3>6, <3>10, <3>9 DEF MonitorInv
    <2>6. CASE At(m, c, "gateway") /\ UNCHANGED <<authVars, bad, fails>>
      <3>1. UNCHANGED via /\ ClassTypeOK'
        BY <1>3, <2>1, <2>3, <2>6 DEF authVars, ClassTypeOK
      <3>2. notLogged' = fails + 1 \/ notLogged' <= fails \/ fails = MaxFail
        BY <1>3, <2>3, <2>4, <2>6, MonitorAssumption DEF ClassTypeOK
      <3> QED BY <1>5, <2>2, <2>6, <3>1, <3>2
    <2>7. CASE ForceLogin(m, c) /\ At(m, c, "login") /\ UNCHANGED <<bad, fails>>
      <3>1. via'[m] = "client" /\ \A q \in Monitors \ {m} : via'[q] = via[q]
        BY <1>3, <2>7 DEF ForceLogin, Await, SessionTypeOK, Callers
      <3>2. ClassTypeOK'
        BY <1>3, <2>1, <2>3, <2>7 DEF ClassTypeOK
      <3>3. notLogged' = fails + 1 \/ notLogged' <= fails \/ fails = MaxFail
        BY <1>3, <2>3, <2>4, <2>7, MonitorAssumption DEF ClassTypeOK
      <3> QED BY <1>5, <2>2, <2>7, <3>1, <3>2, <3>3
    <2> QED BY <1>8, <2>5, <2>6, <2>7 DEF Reconnect
  <1> QED BY <1>6, <1>7, <1>8 DEF Locked

(* A monitor that gets an answer.                                          *)
LEMMA ServeCounts ==
    ASSUME SessionInv, MonitorInv, NEW m \in Monitors, Serve(m)
    PROVE  MonitorInv'
  <1>1. /\ SessionTypeOK /\ PollTypeOK /\ ClassTypeOK
        /\ shared \subseteq Flags /\ work \subseteq Monitors
        /\ fails \in 0..MaxFail /\ notLogged \in 0..(GatewayAfter + 1)
    BY DEF SessionInv, MonitorInv, ClassTypeOK
  <1>2. m \in Callers /\ 0 \in 0..MaxCredential
    BY MonitorAssumption DEF Callers
  <1>3. pc[m] # "idle" => user[m] \in Clients
    BY <1>2 DEF SessionInv, WorkHasClient
  <1>4. ASSUME NEW e, Handle(m, e), pc[m] # "idle"
        PROVE  /\ Releases(m, user[m]) /\ PollTypeOK' /\ shared' \subseteq Flags
               /\ "critical" \in shared' => fails + 1 >= MaxFail
    BY <1>1, <1>3, <1>4, HandleMoves, HandleTypes, HandlesRightly
  <1>5. ASSUME NEW stage \in {"result", "snapshot"}, Send(m, user[m], stage)
        PROVE  Releases(m, user[m]) /\ PollTypeOK'
    BY <1>1, <1>5 DEF Send, At, pollVars, PollTypeOK, Releases, Unlocked, Stages
  <1>6. ASSUME Again(m, {}), pc[m] # "idle"
        PROVE  Releases(m, user[m]) /\ PollTypeOK' /\ UNCHANGED shared
    <2>2. user = [user EXCEPT ![m] = user[m]]
      BY <1>1, <1>2 DEF SessionTypeOK
    <2>3. CASE Quietly(m)
      BY <1>1, <1>2, <1>3, <1>6, <2>3, EndMoves, EndTypes DEF Quietly, End
    <2>4. CASE iteration[m] + 1 # MaxRetries
      <3>1. Releases(m, user[m])
        BY <1>6, <2>2, <2>4 DEF Again, Releases, Unlocked, Stages
      <3>2. PollTypeOK' /\ UNCHANGED shared
        BY <1>1, <1>6, <2>4, MonitorAssumption DEF Again, PollTypeOK
      <3> QED BY <3>1, <3>2
    <2>5. Quietly(m) => UNCHANGED shared
      BY DEF Quietly
    <2> QED BY <1>6, <2>3, <2>4, <2>5 DEF Again
  <1>7. ASSUME Quietly(m), pc[m] # "idle"
        PROVE  Releases(m, user[m]) /\ PollTypeOK' /\ UNCHANGED shared
    BY <1>1, <1>2, <1>3, <1>7, EndMoves, EndTypes DEF Quietly, End
  <1>8. CASE AnswerList(m) \/ AnswerStart(m) \/ AnswerResult(m)
    <2>1. /\ pc[m] \in {"snapshot", "start", "result"} /\ ~UnderWay(m)
          /\ UNCHANGED <<via, notLogged, fails>>
      BY <1>8 DEF AnswerList, AnswerStart, AnswerResult, UnderWay, authVars
    <2>2. \/ Quietly(m) \/ Again(m, {}) \/ \E e : Handle(m, e)
          \/ Send(m, user[m], "result") /\ UNCHANGED shared
      BY <1>8 DEF AnswerList, AnswerStart, AnswerResult
    <2>3. "critical" \in shared => fails + 1 >= MaxFail
      BY DEF MonitorInv, CriticalAfterFailures
    <2>4. /\ Releases(m, user[m]) /\ PollTypeOK' /\ shared' \subseteq Flags
          /\ "critical" \in shared' => fails + 1 >= MaxFail
      BY <1>1, <1>4, <1>5, <1>6, <1>7, <2>1, <2>2, <2>3
    <2>5. work' \subseteq Monitors
      BY <1>1, <1>8 DEF AnswerList, AnswerStart, AnswerResult
    <2>6. ClassTypeOK'
      BY <1>1, <2>1, <2>4, <2>5 DEF ClassTypeOK
    <2> QED BY <1>1, <2>1, <2>4, <2>6, OutsideKeepsInv
  <1>9. FailedOnce => fails' \in 0..MaxFail
    BY <1>1, MonitorAssumption DEF FailedOnce
  <1>10. ASSUME NEW e, Handle(m, e), FailedOnce, HoldsLock(m), UNCHANGED <<notLogged, work>>,
                \A q \in Monitors \ {m} :
                    via'[q] = via[q] \/ (via[q] = "session" /\ via'[q] = "detached")
         PROVE  MonitorInv'
    <2>1. pc[m] # "idle"
      BY <1>10 DEF HoldsLock
    <2>2. PollTypeOK' /\ ClassTypeOK'
      BY <1>1, <1>4, <1>9, <1>10, <2>1 DEF ClassTypeOK
    <2> QED BY <1>1, <1>4, <1>10, <2>1, <2>2, ReleaseKeepsInv
  <1>11. ASSUME Poll(m, user[m]), Connected, HoldsLock(m),
                \A q \in Monitors \ {m} :
                    via'[q] = via[q] \/ (via[q] = "session" /\ via'[q] = "detached")
         PROVE  MonitorInv'
    <2>1. Releases(m, user[m])
      BY <1>3, <1>11, PollMoves DEF HoldsLock
    <2>2. PollTypeOK' /\ work' \subseteq Monitors
      BY <1>1, <1>11, PollTypes
    <2>3. ClassTypeOK'
      BY <1>1, <1>11, <2>2, MonitorAssumption DEF ClassTypeOK, Connected, Flags
    <2> QED BY <1>1, <1>11, <2>1, <2>2, <2>3, ReleaseKeepsInv
  <1>12. ASSUME NEW stage \in {"login", "devices"}, pc' = [pc EXCEPT ![m] = stage],
                stage = "devices" \/ via'[m] = "client", HoldsLock(m), PollTypeOK',
                UNCHANGED <<work, classVars>>,
                \A q \in Monitors \ {m} :
                    via'[q] = via[q] \/ (via[q] = "session" /\ via'[q] = "detached")
         PROVE  MonitorInv'
    <2>1. stage \in Stages
      BY DEF Stages
    <2>2. /\ pc'[m] = stage
          /\ \A q \in Monitors \ {m} : (HoldsLock(q)' <=> HoldsLock(q)) /\ (UnderWay(q)' <=> UnderWay(q))
      BY <1>1, <1>12, <2>1, OthersStay
    <2>3. UnderWay(m)' /\ HoldsLock(m)'
      BY <1>12, <2>2 DEF UnderWay, HoldsLock
    <2>4. OneHolder'
      BY <1>12, <2>2 DEF OneHolder, MonitorInv
    <2>5. UNCHANGED <<shared, notLogged, fails, work>>
      BY <1>12 DEF classVars
    <2>6. Counted'
      BY <2>3, <2>5 DEF MonitorInv, Counted
    <2>7. ClassTypeOK' /\ CriticalAfterFailures'
      BY <2>5 DEF MonitorInv, ClassTypeOK, CriticalAfterFailures
    <2> QED BY <1>12, <2>4, <2>6, <2>7 DEF MonitorInv
  <1>13. CASE AnswerGateway(m)
    <2>1. HoldsLock(m) /\ UNCHANGED <<notLogged, work>>
      BY <1>13 DEF AnswerGateway, HoldsLock
    <2>2. CASE ForceLogin(m, user[m]) /\ At(m, user[m], "login") /\ UNCHANGED <<shared, fails, bad>>
      <3>1. via'[m] = "client" /\ \A q \in Monitors \ {m} : via'[q] = via[q]
        BY <1>1, <1>2, <2>2 DEF ForceLogin, Await, SessionTypeOK, Callers
      <3>2. pc' = [pc EXCEPT ![m] = "login"] /\ PollTypeOK'
        BY <1>1, <2>2 DEF At, pollVars, PollTypeOK
      <3> QED BY <1>12, <2>1, <2>2, <3>1, <3>2 DEF classVars
    <2>3. CASE \E e \in Answers : Handle(m, e) /\ FailedOnce /\ UNCHANGED <<ownVars, authVars>>
      BY <1>10, <2>1, <2>3 DEF authVars
    <2> QED BY <1>13, <2>2, <2>3 DEF AnswerGateway
  <1>14. CASE AnswerDevices(m)
    <2>1. HoldsLock(m) /\ UNCHANGED via
      BY <1>14 DEF AnswerDevices, HoldsLock, authVars
    <2> QED BY <1>10, <1>11, <1>14, <2>1 DEF AnswerDevices
  <1>15. CASE AnswerLogin(m)
    <2>1. LoginOk(m) \/ LoginFails(m)
      BY <1>15 DEF AnswerLogin
    <2>2. pc[m] = "login" /\ HoldsLock(m)
      BY <2>1 DEF LoginOk, LoginFails, HoldsLock
    <2>3. \A q \in Monitors \ {m} :
              via'[q] = via[q] \/ (via[q] = "session" /\ via'[q] = "detached")
      BY <1>1, <2>1, LoginOfOthers
    <2>4. CASE Poll(m, user[m]) /\ Connected
      BY <1>11, <2>2, <2>3, <2>4
    <2>5. CASE Poll(m, user[m]) /\ via[m] # "client" /\ UNCHANGED classVars
      <3>1. Releases(m, user[m]) /\ PollTypeOK' /\ work' \subseteq Monitors
        BY <1>1, <1>3, <2>2, <2>5, PollMoves, PollTypes
      <3>2. UNCHANGED <<shared, notLogged, fails>> /\ ~UnderWay(m)
        BY <2>2, <2>5 DEF classVars, UnderWay
      <3>3. ClassTypeOK'
        BY <1>1, <3>1, <3>2 DEF ClassTypeOK
      <3> QED BY <1>1, <2>3, <3>1, <3>2, <3>3, RaisesRightly, OutsideKeepsInv
    <2>6. CASE Send(m, user[m], "devices") /\ UNCHANGED <<work, classVars>>
      <3>1. pc' = [pc EXCEPT ![m] = "devices"] /\ PollTypeOK'
        BY <1>1, <2>6 DEF Send, At, pollVars, PollTypeOK
      <3> QED BY <1>12, <2>2, <2>3, <2>6, <3>1
    <2>7. ASSUME NEW e \in {"refused", "failed"}, Handle(m, e), UNCHANGED <<work, notLogged>>,
                 (via[m] = "client" /\ FailedOnce) \/ (via[m] # "client" /\ UNCHANGED fails)
          PROVE  MonitorInv'
      <3>1. CASE via[m] = "client" /\ FailedOnce
        BY <1>10, <2>2, <2>3, <2>7, <3>1
      <3>2. CASE via[m] # "client" /\ UNCHANGED fails
        <4>1. ~UnderWay(m)
          BY <2>2, <3>2 DEF UnderWay
        <4>2. ClassTypeOK'
          BY <1>1, <1>4, <2>2, <2>7, <3>2 DEF ClassTypeOK
        <4> QED BY <1>1, <1>4, <2>2, <2>3, <2>7, <3>2, <4>1, <4>2, OutsideKeepsInv
      <3> QED BY <2>7, <3>1, <3>2
    <2> QED BY <1>15, <2>4, <2>5, <2>6, <2>7 DEF AnswerLogin
  <1> QED BY <1>8, <1>13, <1>14, <1>15 DEF Serve

LEMMA MonitorInvStep == SessionInv /\ MonitorInv /\ [Next]_vars => MonitorInv'
  <1> SUFFICES ASSUME SessionInv, MonitorInv, [Next]_vars
               PROVE  MonitorInv'
    OBVIOUS
  <1>1. /\ SessionTypeOK /\ PollTypeOK /\ ClassTypeOK
        /\ shared \subseteq Flags /\ work \subseteq Monitors
    BY DEF SessionInv, MonitorInv, ClassTypeOK
  <1>2. ASSUME NEW m \in Monitors, StartPoll(m)
        PROVE  MonitorInv'
    <2>1. current \in Clients /\ pc[m] = "idle"
      BY <1>1, <1>2 DEF StartPoll, SessionTypeOK
    <2>2. CASE Locked(m, current)
      BY <2>1, <2>2, LockedCounts
    <2>3. CASE At(m, current, "queue") /\ UNCHANGED <<authVars, classVars, work, bad>>
      <3>1. Releases(m, current) /\ ~UnderWay(m) /\ UNCHANGED via
        BY <2>1, <2>3 DEF At, Releases, Unlocked, Stages, UnderWay, authVars
      <3>2. UNCHANGED <<shared, notLogged, fails>> /\ PollTypeOK' /\ ClassTypeOK'
        BY <1>1, <2>3 DEF At, pollVars, classVars, PollTypeOK, ClassTypeOK
      <3> QED BY <1>1, <3>1, <3>2, RaisesRightly, OutsideKeepsInv
    <2> QED BY <1>2, <2>2, <2>3 DEF StartPoll
  <1>3. ASSUME NEW m \in Monitors, TakeLock(m)
        PROVE  MonitorInv'
    BY <1>3, LockedCounts DEF TakeLock, SessionInv, WorkHasClient, Callers
  <1>4. ASSUME NEW m \in Monitors, WaitForList(m)
        PROVE  MonitorInv'
    <2>1. /\ user[m] \in Clients /\ pc[m] = "wait" /\ List(m, user[m])
          /\ UNCHANGED <<authVars, classVars, work>>
      BY <1>4 DEF WaitForList, Callers, SessionInv, WorkHasClient
    <2>2. Releases(m, user[m]) /\ ~UnderWay(m) /\ UNCHANGED via
      BY <2>1, EndMoves DEF List, End, Send, At, Releases, Unlocked, Stages, UnderWay, authVars
    <2>3. PollTypeOK'
      <3>1. CASE End(m)
        <4>1. 0 \in 0..MaxCredential
          BY MonitorAssumption
        <4> QED BY <1>1, <3>1, <4>1, EndTypes DEF End
      <3>2. CASE Send(m, user[m], "snapshot")
        BY <1>1, <3>2 DEF Send, At, pollVars, PollTypeOK
      <3> QED BY <2>1, <3>1, <3>2 DEF List
    <2>4. UNCHANGED <<shared, notLogged, fails>> /\ ClassTypeOK'
      BY <1>1, <2>1 DEF classVars, ClassTypeOK
    <2> QED BY <1>1, <2>2, <2>3, <2>4, RaisesRightly, OutsideKeepsInv
  <1>5. ASSUME NEW m \in Monitors, Serve(m)
        PROVE  MonitorInv'
    BY <1>5, ServeCounts
  <1>6. ASSUME UNCHANGED <<notLogged, fails, work>>, UNCHANGED bad,
               shared' \in {shared, shared \ {"recent"}}, UNCHANGED pollVars,
               \A m \in Monitors :
                  pc'[m] = pc[m] /\ (via'[m] = via[m] \/ (via[m] = "session" /\ via'[m] = "detached"))
        PROVE  MonitorInv'
    <2>1. PollTypeOK' /\ ClassTypeOK' /\ CriticalAfterFailures'
      BY <1>1, <1>6
         DEF MonitorInv, PollTypeOK, ClassTypeOK, CriticalAfterFailures, pollVars
    <2>2. OneHolder' /\ Counted'
      BY <1>6 DEF MonitorInv, OneHolder, Counted, HoldsLock, UnderWay
    <2> QED BY <2>1, <2>2 DEF MonitorInv
  <1>7. CASE WindowEnds \/ UNCHANGED vars
    BY <1>6, <1>7 DEF WindowEnds, vars, sessionVars, authVars, classVars, pollVars
  <1>8. CASE Reload
    <2>1. /\ UNCHANGED <<shared, notLogged, fails, iteration, refused, bad, pc, via>> /\ work' = {}
          /\ invalid' \in [Monitors -> 0..MaxCredential]
      BY <1>1, <1>8, MonitorAssumption DEF Reload, Setup, classVars, PollTypeOK
    <2>2. PollTypeOK' /\ ClassTypeOK' /\ CriticalAfterFailures'
      BY <2>1 DEF MonitorInv, PollTypeOK, ClassTypeOK, CriticalAfterFailures
    <2>3. OneHolder' /\ Counted'
      BY <2>1 DEF MonitorInv, OneHolder, Counted, HoldsLock, UnderWay
    <2> QED BY <2>2, <2>3 DEF MonitorInv
  <1>9. CASE Session
    <2>1. UNCHANGED <<shared, notLogged, fails, work, bad, pollVars>>
      BY <1>9 DEF Session, classVars
    <2>2. ASSUME NEW m \in Monitors
          PROVE  pc'[m] = pc[m] /\ (via'[m] = via[m] \/ (via[m] = "session" /\ via'[m] = "detached"))
      <3>1. m \in Callers /\ \A r \in Renewers : r \in Callers /\ r # m
        BY SessionAssumption DEF Callers
      <3>2. pc \in [Callers -> Stages] /\ via \in [Callers -> Vias]
        BY <1>1 DEF SessionTypeOK
      <3>3. ASSUME NEW r \in Renewers, Renew(r)
            PROVE  pc'[m] = pc[m] /\ via'[m] = via[m]
        BY <3>1, <3>2, <3>3 DEF Renew, RenewSession, StillValid, Await
      <3>4. ASSUME NEW r \in Renewers, EndRenewal(r)
            PROVE  pc'[m] = pc[m] /\ (via'[m] = via[m] \/ (via[m] = "session" /\ via'[m] = "detached"))
        BY <3>1, <3>2, <3>4
           DEF EndRenewal, Leave, LoginOk, LoginFails, Renewed, RenewedForNobody, Reconnected, Await,
               Detached
      <3>5. CASE Close
        BY <3>1, <3>2, <3>5 DEF Close, Detached
      <3>6. CASE LgStaysUp \/ \E c \in Clients : Forget(c)
        BY <3>6 DEF LgStaysUp, Forget, authVars
      <3> QED BY <1>9, <3>3, <3>4, <3>5, <3>6 DEF Session, SessionNext
    <2> QED BY <1>6, <2>1, <2>2
  <1> QED BY <1>2, <1>3, <1>4, <1>5, <1>7, <1>8, <1>9 DEF Next

LEMMA NextIsThereStep == NextIsThere /\ SessionTypeOK /\ [Next]_vars => NextIsThere'
  <1> SUFFICES ASSUME NextIsThere, SessionTypeOK, [Next]_vars
               PROVE  NextIsThere'
    OBVIOUS
  <1>1. ASSUME UNCHANGED ownVars PROVE NextIsThere'
    BY <1>1 DEF ownVars, NextIsThere
  <1>2. ASSUME NEW m \in Monitors, StartPoll(m) \/ TakeLock(m) \/ WaitForList(m) \/ Serve(m)
        PROVE  UNCHANGED ownVars
    <2>1. ASSUME NEW c, Locked(m, c) PROVE UNCHANGED ownVars
      BY <2>1 DEF Locked, RefreshAuth, TooEarly, Reconnect
    <2>2. CASE Serve(m)
      BY <2>2 DEF Serve, AnswerGateway, AnswerLogin, AnswerDevices, AnswerList, AnswerStart,
                  AnswerResult
    <2> QED BY <1>2, <2>1, <2>2 DEF StartPoll, TakeLock, WaitForList
  <1>3. CASE WindowEnds \/ UNCHANGED vars
    BY <1>1, <1>3 DEF WindowEnds, vars, sessionVars
  <1>4. CASE Reload
    BY <1>4 DEF Reload, Setup, NextIsThere
  <1>5. CASE Session
    <2>1. CASE Close
      BY <2>1 DEF Close, NextIsThere
    <2>2. CASE \E r \in Renewers : Renew(r) \/ EndRenewal(r)
      BY <1>1, <2>2 DEF Renew, EndRenewal
    <2>3. CASE LgStaysUp
      BY <1>1, <2>3 DEF LgStaysUp
    <2>4. CASE \E c \in Clients : Forget(c)
      BY <2>4 DEF Forget, NextIsThere
    <2> QED BY <1>5, <2>1, <2>2, <2>3, <2>4 DEF Session, SessionNext
  <1> QED BY <1>1, <1>2, <1>3, <1>4, <1>5 DEF Next

Inv == SessionInv /\ NextIsThere /\ MonitorInv

(* The invariant holds at the start.                                       *)
LEMMA InvInit == Init => Inv
  <1> SUFFICES ASSUME Init
               PROVE  Inv
    OBVIOUS
  <1>1. 1 \in Clients
    BY SessionAssumption DEF Clients
  <1>2. \A p \in Callers : pc[p] = "idle" /\ via[p] = "none" /\ user[p] = NoClient
    BY DEF Init, SessionInit
  <1>3. SessionTypeOK
    BY <1>1 DEF Init, SessionInit, SessionTypeOK, Tokens, Stages, Vias
  <1>4. WorkHasClient /\ LoginHasReason /\ RenewalHasSession /\ LateIsKnown
    BY <1>2 DEF WorkHasClient, LoginHasReason, RenewalHasSession, LateIsKnown, Reconnecting
  <1>5. TakersWait /\ NoTokenForgotten /\ ClosedClientIsSilent
    BY DEF Init, SessionInit, TakersWait, NoTokenForgotten, ClosedClientIsSilent
  <1>6. NextIsThere
    BY DEF Init, SessionInit, NextIsThere
  <1>7. PollTypeOK /\ ClassTypeOK
    BY MonitorAssumption DEF Init, PollTypeOK, ClassTypeOK, Flags
  <1>8. OneHolder
    BY <1>2 DEF OneHolder, HoldsLock, Callers
  <1>9. Counted /\ CriticalAfterFailures
    BY DEF Init, Counted, CriticalAfterFailures
  <1> QED BY <1>3, <1>4, <1>5, <1>6, <1>7, <1>8, <1>9 DEF Inv, SessionInv, MonitorInv

(* Every step keeps it.                                                    *)
LEMMA InvStep == Inv /\ [Next]_vars => Inv'
  BY SessionInvStep, MonitorInvStep, NextIsThereStep DEF Inv, SessionInv

(* The inductive invariant holds throughout.                               *)
THEOREM Invariant == Spec => []Inv
  BY InvInit, InvStep, PTL DEF Spec

(* Every reachable state is well typed: callers, sessions and monitors.    *)
THEOREM TypeCorrect == Spec => []TypeOK
  <1>1. Inv => TypeOK
    BY Typed DEF Inv, SessionInv, MonitorInv
  <1> QED BY <1>1, Invariant, PTL

(* However renewals, reconnections and set-ups overlap: a session without  *)
(* a token has a login under way that will bring one, or one that failed.  *)
THEOREM TokensReturn == Spec => []NoTokenForgotten
  <1>1. Inv => NoTokenForgotten
    BY DEF Inv, SessionInv
  <1> QED BY <1>1, Invariant, PTL

(* Only a reconnection that was under way when its client was closed can   *)
(* give a closed client a session.                                         *)
THEOREM ClosedIsSilent == Spec => []ClosedClientIsSilent
  <1>1. Inv => ClosedClientIsSilent
    BY DEF Inv, SessionInv
  <1> QED BY <1>1, Invariant, PTL

(* No poll is reported as a critical failure before MaxFail reconnections  *)
(* in a row have failed or are under way.                                  *)
THEOREM CriticalIsEarned == Spec => []CriticalAfterFailures
  <1>1. Inv => CriticalAfterFailures
    BY DEF Inv, MonitorInv
  <1> QED BY <1>1, Invariant, PTL
=============================================================================
