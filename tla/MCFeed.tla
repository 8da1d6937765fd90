------------------------------- MODULE MCFeed -------------------------------
(* An instance of Feed for TLC: a user with one reading of their own, and  *)
(* two peers who write, affirm, respond, revoke, rename, edit and veto.    *)
EXTENDS Feed

CONSTANTS me, p, q

ThreeAuthors == {me, p, q}
Texts == {"mine", "theirs", "reply"}
OwnReading ==
  {[log |-> LogId(KEY, "mine"), by |-> me, parent |-> NoParent, revoked |-> FALSE]}

Public(hash, by, ts, body) ==
  [hash |-> hash, by |-> by, ext |-> InterpExtensions(ts), body |-> body]

InCircle(hash, by, body) ==
  [hash |-> hash, by |-> by, ext |-> CircleExtensions, body |-> body]

Arrivals ==
  {Public(1, p, 1, [variant |-> "Author", text |-> "theirs"]),
   Public(3, q, 1, [variant |-> "Affirm", log |-> LogId(KEY, "mine")]),
   InCircle(4, p, [variant |-> "RespondTo", log |-> LogId(KEY, "mine"), text |-> "reply"]),
   Public(5, p, 3, [variant |-> "Revoke", log |-> LogId(KEY, "theirs")]),
   Public(6, p, 1, [variant |-> "SetDisplayName"]),
   Public(7, p, 2, [variant |-> "SetDisplayName"]),
   Public(8, q, 1, [variant |-> "Edit"]),
   Public(10, p, 4, [variant |-> "Veto", target |-> 8]),
   Public(11, p, 4, [variant |-> "EditorPresence", joined |-> TRUE]),
   Public(12, p, 4, [variant |-> "CircleInviteNotify", recipient |-> me]),
   Public(13, q, 5, [variant |-> "RetractAffirm"]),
   Public(14, q, 6, [variant |-> "unknown"]),
   Public(15, q, 7, NoBody)}

HandedOver == {[by |-> me, text |-> "theirs"]}
=============================================================================
