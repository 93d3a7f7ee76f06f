---------------------------- MODULE MCM4aPlayer ----------------------------
(* Instances of M4aPlayer: who owns which track.                            *)
EXTENDS M4aPlayer

MCOneEach == <<1, 2>>
MCSolo == <<1, 1>>
=============================================================================
