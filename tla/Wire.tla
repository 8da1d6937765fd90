-------------------------------- MODULE Wire --------------------------------
(***************************************************************************)
(* What an operation says and what the pipeline makes of it: the bodies of *)
(* ops/src/lib.rs, and the two stages of pipeline/src/lib.rs, decode and   *)
(* materialise, as operators from an operation to a state event.           *)
(*                                                                         *)
(* An operation has a hash, an author, extensions and perhaps a body; a    *)
(* body is a record whose field "variant" is the tag of the encoding.  The *)
(* two stages hand over one event per operation, and the SDK thread takes  *)
(* it before it gives them the next, so their queues are left out.         *)
(***************************************************************************)
EXTENDS Naturals

CONSTANTS
  NoBody,   \* the body of an operation that has none
  NoStamp   \* the timestamp of an operation of a circle

(***************************************************************************)
(* Bodies                                                                  *)
(***************************************************************************)
InterpVariants ==
  {"Author", "Affirm", "RespondTo", "Revoke", "SetDisplayName",
   "CircleInviteNotify", "CircleJoinNotify"}

DocVariants == {"Edit", "Veto", "AffirmRev", "EditorPresence", "RetractAffirm"}

\* The flag is missing in edits that are older than it
AiGenerated(doc) == IF "ai" \in DOMAIN doc THEN doc.ai ELSE FALSE

InterpExtensions(timestamp) == [type |-> "interp", timestamp |-> timestamp]
CircleExtensions == [type |-> "circle"]

\* Only the operations outside circles carry the author's clock
Timestamp(op) == IF op.ext.type = "interp" THEN op.ext.timestamp ELSE NoStamp

(***************************************************************************)
(* First stage                                                             *)
(***************************************************************************)
Skipped(reason) == [type |-> "Skipped", reason |-> reason]

\* An InterpOp if it can be read as one, then a DocOp, else neither
DecodeBody(body) ==
  CASE body.variant \in InterpVariants -> "interp"
    [] body.variant \in DocVariants -> "doc"
    [] OTHER -> "malformed"

Decode(op) == IF op.body = NoBody THEN "no_body" ELSE DecodeBody(op.body)

(***************************************************************************)
(* Second stage.  Author, hash and timestamp come from the operation that  *)
(* carried the body, never from the body.                                  *)
(***************************************************************************)
MaterializeInterp(id, by, timestamp, interp) ==
  CASE interp.variant = "Author" ->
         [type |-> "InterpAuthored", id |-> id, by |-> by, text |-> interp.text]
    [] interp.variant = "Affirm" ->
         [type |-> "AffirmAdded", by |-> by, log |-> interp.log]
    [] interp.variant = "RespondTo" ->
         [type |-> "ResponseAdded", id |-> id, by |-> by, log |-> interp.log, text |-> interp.text]
    [] interp.variant = "Revoke" ->
         [type |-> "InterpRevoked", id |-> id, by |-> by, log |-> interp.log]
    [] interp.variant = "SetDisplayName" ->
         [type |-> "DisplayNameSet", id |-> id, by |-> by, ts |-> timestamp]
    [] interp.variant = "CircleInviteNotify" ->
         [type |-> "CircleInviteReceived", id |-> id, by |-> by, recipient |-> interp.recipient]
    [] interp.variant = "CircleJoinNotify" ->
         [type |-> "CircleMemberJoined", id |-> id, by |-> by]

MaterializeDoc(id, by, timestamp, doc) ==
  CASE doc.variant = "Edit" ->
         [type |-> "DocEdited", id |-> id, by |-> by, ts |-> timestamp,
          ai |-> AiGenerated(doc)]
    [] doc.variant = "Veto" ->
         [type |-> "DocVetoProposed", id |-> id, by |-> by, target |-> doc.target,
          ts |-> timestamp]
    [] doc.variant = "AffirmRev" -> [type |-> "DocAffirmed", id |-> id, by |-> by]
    [] doc.variant = "RetractAffirm" -> [type |-> "DocAffirmRetracted", id |-> id, by |-> by]
    [] doc.variant = "EditorPresence" ->
         [type |-> "EditorPresenceChanged", id |-> id, by |-> by, joined |-> doc.joined,
          ts |-> timestamp]

Materialize(op) ==
  CASE Decode(op) = "interp" -> MaterializeInterp(op.hash, op.by, Timestamp(op), op.body)
    [] Decode(op) = "doc" -> MaterializeDoc(op.hash, op.by, Timestamp(op), op.body)
    [] OTHER -> Skipped(Decode(op))

\* What a circle shares is materialised like anything else, with the time at which
\* it was received.
MaterializeCircleContent(id, by, receivedAt, body) ==
  CASE DecodeBody(body) = "interp" -> MaterializeInterp(id, by, receivedAt, body)
    [] DecodeBody(body) = "doc" -> MaterializeDoc(id, by, receivedAt, body)
    [] OTHER -> Skipped("malformed")

\* The forwarder sends an operation of a circle through the circle's processor, which
\* yields what was shared, and every other operation through the pipeline.
StateEventOf(op, now) ==
  IF op.ext.type = "circle"
  THEN MaterializeCircleContent(op.hash, op.by, now, op.body)
  ELSE Materialize(op)
=============================================================================
