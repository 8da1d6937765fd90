-------------------------- MODULE MCEditorPresence --------------------------
(* An instance of EditorPresence for TLC: two devices on one key.          *)
EXTENDS EditorPresence

CONSTANTS a, b

TwoDevices == {a, b}
=============================================================================
