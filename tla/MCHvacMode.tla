------------------------------- MODULE MCHvacMode -------------------------------
(* An air conditioner that cools or blows, and the real delays in seconds. *)
EXTENDS HvacMode
MCJobs == {"cool", "fan"}
MCMode == [c \in Calls |-> IF c = 1 THEN "cool" ELSE "off"]
=============================================================================
