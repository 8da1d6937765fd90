------------------------------ MODULE MCCircle ------------------------------
(***************************************************************************)
(* The owner and a guest for TLC.  The owner's log is long enough for its  *)
(* key bundle, creation, invite, notice, revocation and a share after it;  *)
(* the guest's for its key bundle, joining, and a share or leaving.        *)
(***************************************************************************)
EXTENDS Circle
CONSTANTS a, b

Devices == {a, b}
Guests == {b}
LogBounds == [d \in Devices |-> IF d = a THEN 6 ELSE 3]
=============================================================================
