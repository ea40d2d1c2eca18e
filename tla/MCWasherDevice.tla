----------------------------- MODULE MCWasherDevice ------------------------------
(* Small instances of WasherDevice for TLC. *)
EXTENDS WasherDevice

V1Model == [v2 |-> FALSE, vt |-> FALSE, pre |-> TRUE, standby |-> FALSE]
V2Model == [v2 |-> TRUE, vt |-> FALSE, pre |-> FALSE, standby |-> TRUE]
VtModel == [v2 |-> TRUE, vt |-> TRUE, pre |-> TRUE, standby |-> TRUE]

WoolProgram == [course |-> "wool", smart |-> "other", steam |-> 1, beep |-> 1]

SomeModels   == {V1Model, V2Model, VtModel}
SomePrograms == {ZeroProgram, WoolProgram}
SomeChosen  == {"wool", "current"}
SomeLengths  == {1, Len(Frame)}
=============================================================================
