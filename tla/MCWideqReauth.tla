----------------------------- MODULE MCWideqReauth -----------------------------
(* Two commands, for two fan modes, beside the two polls. *)
EXTENDS WideqReauth
MCSends  == {"fan1", "fan2"}
MCValues == {"low", "high"}
MCWanted == [s \in Sends |-> IF s = "fan1" THEN "low" ELSE "high"]
=============================================================================
