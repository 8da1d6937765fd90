----------------------------- MODULE MCSyncLog -----------------------------
(* An instance of SyncLog for TLC: an author, a relay and a third device.  *)
EXTENDS SyncLog

CONSTANTS a, b, c

ThreeDevices == {a, b, c}
OneAuthor    == {a}
OneRelay     == {b}
=============================================================================
