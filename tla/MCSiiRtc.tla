------------------------------ MODULE MCSiiRtc ------------------------------
(***************************************************************************)
(* Two structs to set, with every field different in the two, an alarm     *)
(* before noon and one at noon; a chip in 12-hour and in test mode, and    *)
(* one that is well.                                                       *)
(***************************************************************************)
EXTENDS SiiRtc

MCInfos ==
  {[f \in Fields |-> ByteOf(17 + 2 * f)],
   [f \in Fields |-> IF f = AlarmHour THEN ByteOf(18) ELSE IF f = Status THEN ByteOf(5) ELSE ByteOf(96 + f)]}
MCPowerUps ==
  {[f \in Fields |-> IF f = Status THEN ByteOf(130) ELSE ByteOf(128)],
   [f \in Fields |-> IF f = Status THEN ByteOf(64) ELSE ByteOf(f)]}
=============================================================================
