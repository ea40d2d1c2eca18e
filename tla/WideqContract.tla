------------------------------ MODULE WideqContract ------------------------------
(***************************************************************************)
(* What the callers of _async_send_wideq_command (climate.py) may rely on, *)
(* whatever logins, delays, other commands and polls run beside it.  A     *)
(* command goes out at most twice, and never again once the cloud has      *)
(* acknowledged it, refused the credentials or found the device offline.   *)
(* True is returned only for an acknowledged command; one that was never   *)
(* sent was held back by the flag; a refusal leaves the flag set.          *)
(*                                                                         *)
(* An offline device is returned quietly, as the docstring says (547-551), *)
(* with one exception that it does not name: behind a login the code has   *)
(* no branch for it (612-617), and the caller gets an exception.           *)
(***************************************************************************)
CONSTANT Sends

VARIABLES
    stage,    \* where the caller sees each command
    sent,     \* "never", "first", or what it was sent again behind
    verdict,  \* what the cloud last said of it
    flag      \* wideq_reauth_needed, which others set and clear as well

vars == <<stage, sent, verdict, flag>>

Verdicts == {"acknowledged", "refused", "offline", "unclear"}

Init ==
    /\ stage = [s \in Sends |-> "idle"]
    /\ sent = [s \in Sends |-> "never"]
    /\ verdict = [s \in Sends |-> "none"]
    /\ flag = FALSE

HoldBack(s) ==
    /\ stage[s] = "idle" /\ flag
    /\ stage' = [stage EXCEPT ![s] = "skipped"]
    /\ UNCHANGED <<sent, verdict, flag>>

Transmit(s) ==
    /\ stage[s] = "idle" /\ ~flag
    /\ stage' = [stage EXCEPT ![s] = "sent"]
    /\ sent' = [sent EXCEPT ![s] = "first"]
    /\ UNCHANGED <<verdict, flag>>

Retransmit(s) ==
    /\ stage[s] = "answered" /\ verdict[s] = "unclear" /\ sent[s] = "first"
    /\ \E behind \in {"afterLogin", "afterDelay"} : sent' = [sent EXCEPT ![s] = behind]
    /\ stage' = [stage EXCEPT ![s] = "sent"]
    /\ UNCHANGED <<verdict, flag>>

Answer(s) ==
    /\ stage[s] = "sent"
    /\ stage' = [stage EXCEPT ![s] = "answered"]
    /\ \E v \in Verdicts : verdict' = [verdict EXCEPT ![s] = v]
    /\ UNCHANGED <<sent, flag>>

Return(s, value) ==
    /\ stage[s] = "answered"
    /\ stage' = [stage EXCEPT ![s] = value]
    /\ UNCHANGED <<sent, verdict>>

ReturnTrue(s) == verdict[s] = "acknowledged" /\ Return(s, "true") /\ (flag' => flag)

(* Quietly, without a visible error *)
ReturnFalse(s) ==
    /\ Return(s, "skipped")
    /\ \/ verdict[s] = "refused" /\ flag'
       \/ verdict[s] = "offline" /\ flag' = flag

(* An offline device is an error only behind a login. *)
Raise(s) ==
    /\ Return(s, "raised") /\ flag' = flag
    /\ verdict[s] = "unclear" \/ (verdict[s] = "offline" /\ sent[s] = "afterLogin")

(* The polls of the two coordinators write the flag. *)
Others == UNCHANGED <<stage, sent, verdict>>

Next ==
    \/ \E s \in Sends : HoldBack(s) \/ Transmit(s) \/ Retransmit(s) \/ Answer(s)
                        \/ ReturnTrue(s) \/ ReturnFalse(s) \/ Raise(s)
    \/ Others

Spec == Init /\ [][Next]_vars
=============================================================================
