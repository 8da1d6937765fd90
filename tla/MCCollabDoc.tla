---------------------------- MODULE MCCollabDoc ----------------------------
(* Instances of CollabDoc for TLC: two devices and a ring of two.          *)
EXTENDS CollabDoc

CONSTANTS a, b

TwoDevices   == {a, b}
\* The migration found rows by a, by a then b, or only baseline text.
MCLegacyRows == {<<>>, <<a>>, <<a, b>>}
OneLegacyRow == {<<a>>}
=============================================================================
