-------------------------- MODULE MCTargetTemperature --------------------------
(* Three calls in a row, each for a temperature of its own. *)
EXTENDS TargetTemperature
MCSends  == 1..MaxCalls
MCValues == 21..20 + MaxCalls
MCWanted == [s \in Sends |-> 20 + s]
=============================================================================
