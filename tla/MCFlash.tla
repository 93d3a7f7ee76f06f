------------------------------ MODULE MCFlash ------------------------------
(***************************************************************************)
(* Two sectors in two banks, two bytes each, bytes of one bit: enough for  *)
(* a wrong bank, a wrong offset and a byte that keeps a wrong bit.  The    *)
(* buffer the program saves has a byte to program and one left erased.     *)
(***************************************************************************)
EXTENDS Flash

MCSources == {[o \in 0..1 |-> IF o = 0 THEN {} ELSE {0}]}
=============================================================================
