-------------------------------- MODULE ModelInfo --------------------------------
(***************************************************************************)
(* What the washers' code asks of a model's description                    *)
(* (wideq/model_info.py), and what it makes of the answers: names of       *)
(* encoded values, bits inside the option byte of a V1 model, courses with *)
(* the defaults of their functions, and the decoding of a V1 frame.        *)
(*                                                                         *)
(* A model is a record: v2 (a V2 description), vt (it has the control      *)
(* vtCtrl), pre (its data has PreState) and standby (it goes to standby    *)
(* when it is switched off).  Its courses are those below; one function,   *)
(* Steam, stands for those a course has a default for, and a bit that no   *)
(* course mentions, Beep, for the others.                                  *)
(***************************************************************************)
EXTENDS Integers, SequencesExt

Models == [v2 : BOOLEAN, vt : BOOLEAN, pre : BOOLEAN, standby : BOOLEAN]

-----------------------------------------------------------------------------
(* Run states.  Encoded values are named as what they stand for, and all   *)
(* but "fault" are listed by the model; "missing": the data has no such    *)
(* key, or no data came yet.                                               *)
Listed  == {"off", "init", "run", "pause", "end"}
Encoded == Listed \cup {"fault", "missing"}

(* enum_name and lookup_enum, where nothing found is read as "off" *)
StateName(v) == IF v \in Listed THEN v ELSE "off"

-----------------------------------------------------------------------------
(* The option byte of a V1 model: startbit and length of each bit. *)
Layout == [InitialBit |-> [start |-> 0, length |-> 1],
           Steam      |-> [start |-> 1, length |-> 1],
           Beep       |-> [start |-> 2, length |-> 1]]

Bit(value, i) == (value \div 2^i) % 2

(* _get_bit_value: the sum of the field's bits, from its start on *)
BitValue(value, start, length) == (value \div 2^start) % 2^length

OptionBit(name, value) == BitValue(value, Layout[name].start, Layout[name].length)

BitIndex(name) == Layout[name].start

(* _update_opt_bit writes the first bit of the field, whatever its length. *)
SetBit(value, i)   == value + (1 - Bit(value, i)) * 2^i
ClearBit(value, i) == value - Bit(value, i) * 2^i

UpdateOption(name, value, bit) ==
    IF bit # 0 THEN SetBit(value, BitIndex(name))
               ELSE ClearBit(value, BitIndex(name))

-----------------------------------------------------------------------------
(* Courses and smart courses; a smart course names the course it is based  *)
(* on.  DefaultCourse is what the description's config names.              *)
Courses       == {"cotton", "wool"}
SmartCourses  == {"baby"}
BaseCourse    == [baby |-> "cotton"]
DefaultCourse == "cotton"
SteamDefault  == [cotton |-> 1, wool |-> 0, baby |-> 1]

(* What the data says of the program: course and smart course, which may   *)
(* be unknown to the description ("other"), and the functions.             *)
Programs == [course : Courses \cup {"other"}, smart : SmartCourses \cup {"other"},
             steam : 0..1, beep : 0..1]

(* The byte a V1 washer reports for them; its InitialBit is 0. *)
OptionOf(program) == program.steam * 2^BitIndex("Steam") + program.beep * 2^BitIndex("Beep")

-----------------------------------------------------------------------------
(* A status as the device reports it, and the frame of a V1 washer: fields *)
(* in their order, those behind the end of a short frame decoded as 0.     *)
Reports == [state : Encoded \ {"missing"}, pre : Listed, left : 0..2,
            program : Programs, remote : BOOLEAN]

ZeroProgram == [course |-> "other", smart |-> "other", steam |-> 0, beep |-> 0]
Frame == <<"state", "left", "pre", "program", "remote">>
Zero  == [state |-> "off", left |-> 0, pre |-> "off",
          program |-> ZeroProgram, remote |-> FALSE]

(* decode_monitor_byte and decode_monitor_hex of a frame of n fields *)
DecodeFrame(report, n) ==
    LET received == ToSet(SubSeq(Frame, 1, n))
    IN  [f \in ToSet(Frame) |-> IF f \in received THEN report[f] ELSE Zero[f]]
=============================================================================
