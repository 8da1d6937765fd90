------------------------------- MODULE MCCall -------------------------------
(* An instance of Call for TLC: two devices, one without a microphone.     *)
EXTENDS Call

CONSTANTS a, b

Devices == {a, b}
Microphones == {a}
=============================================================================
