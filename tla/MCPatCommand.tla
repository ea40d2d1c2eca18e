------------------------------ MODULE MCPatCommand ------------------------------
(* Small instances of PatCommand: two values of the property, one call of  *)
(* the energy-saving switch (verified) and one of another entity.          *)
EXTENDS PatCommand

MCValues   == {"on", "off"}
MCCommands == {"switch", "plain"}
MCTarget   == [c \in Commands |-> IF c = "switch" THEN "on" ELSE "off"]
MCVerified == Commands \cap {"switch"}
MCSwitch   == {"switch"}
=============================================================================
