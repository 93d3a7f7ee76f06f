----------------------------- MODULE MCM4aSound -----------------------------
(* M4aSound as it is: its constant is a set of numbers.                      *)
EXTENDS M4aSound
=============================================================================
