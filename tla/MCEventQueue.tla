---------------------------- MODULE MCEventQueue ----------------------------
(* A ring of four slots shared by two windows, whose events are told apart *)
(* by one bit.                                                             *)
EXTENDS EventQueue

MCWindow == {1, 2}
MCPayload == {1, 2}
=============================================================================
