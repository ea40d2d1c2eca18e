----------------------------- MODULE MCWasherCourse -----------------------------
(* Two courses and up to three overlapping polls. *)
EXTENDS WasherCourse
MCCourses == {"cotton", "wool"}
MCPolls   == {"p1", "p2", "p3"}
MCPair    == {"p1", "p2"}
=============================================================================
