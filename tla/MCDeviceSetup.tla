------------------------------ MODULE MCDeviceSetup ------------------------------
(* Small instances of DeviceSetup for TLC. *)
EXTENDS DeviceSetup, TLC

MCPatOrder   == <<"fridge", "washer", "bedroom", "kitchen">>
MCWideqOrder == <<"bedroom", "kitchen", "washer", "fridge">>
MCKind  == [bedroom |-> "ac", kitchen |-> "ac", washer |-> "washer", fridge |-> "other"]
MCFanAcs == {"kitchen"}
MCNone  == "none"
MCSymmetry == Permutations(Names) \cup Permutations(Modes)
=============================================================================
