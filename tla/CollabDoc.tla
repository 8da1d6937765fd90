----------------------------- MODULE CollabDoc -----------------------------
(***************************************************************************)
(* The collaborative document of one interp_key, as every device keeps it: *)
(* the Loro snapshot, the rollback metadata, the author-veto ring of the   *)
(* single block BODY_BLOCK_ID, and the edit and veto operations devices    *)
(* exchange over the key's topic (app.rs, zodia-doc, zodia-store).         *)
(*                                                                         *)
(* A Loro document is the set of changes it holds: importing an update is  *)
(* the union of sets, and publish_local exports every change of the        *)
(* document (all_updates).  A document row that does not exist, like a     *)
(* prior_snapshot that is NULL, is the empty set.  Every handler runs to   *)
(* its end before the next one starts, so it is one action; a crash cuts   *)
(* it between two transactions, and has actions of its own.                *)
(***************************************************************************)
EXTENDS Naturals, Sequences

CONSTANTS
  Device,        \* the identities (one device each) that edit the document
  NoEdit,        \* last_edit_* columns are NULL
  NoOp,          \* no Veto button on the page
  LegacyRows,    \* author sequences the migration may find for the key
  RING_SIZE,     \* zodia_doc::RING_SIZE
  VETO_WINDOW,   \* VETO_WINDOW_DAYS * 86_400, in ticks of the clock
  MICROS,        \* units of the p2panda Timestamp per clock tick
  StartTime,     \* the clock when the behaviour starts
  MaxTime,       \* bound: last value of the clock
  MaxEdits,      \* bound: local edits per device
  MaxCrashes     \* bound: crashes in the middle of a received edit

Change == [by : Device, n : Nat]        \* n = 0: the migration's seed text
OpId   == [kind : {"wire", "local", "legacy"}, by : Device, n : Nat]
EditMeta  == [op : OpId, ts : Nat, author : Device]
RingEntry == [author : Device, op : OpId, at : Nat]
EditOp == [kind : {"edit"}, ts : Nat, change : Change, update : SUBSET Change]
VetoOp == [kind : {"veto"}, ts : Nat, target : OpId]
Op     == EditOp \cup VetoOp
Honour == [target : OpId, ts : Nat]

ASSUME SentinelAssumption ==
  /\ NoEdit \notin EditMeta
  /\ NoOp \notin OpId
ASSUME ConstantAssumption ==
  /\ RING_SIZE \in Nat \ {0}
  /\ VETO_WINDOW \in Nat
  /\ MICROS \in Nat \ {0}
  /\ StartTime \in Nat
  /\ LegacyRows \subseteq Seq(Device)
  /\ \A r \in LegacyRows : Len(r) <= RING_SIZE

VARIABLES
  clock,    \* wall clock in seconds
  log,      \* log[a]: operations a published on the key's log, in order
  cursor,   \* cursor[d][a]: how many operations of log[a] reached device d
  snap,     \* interp_docs.loro_snapshot
  prior,    \* interp_docs.prior_snapshot
  last,     \* interp_docs.last_edit_op_id, last_edit_ts, last_edit_author
  ring,     \* doc_block_authors of the block, oldest first
  offered,  \* target of the Veto button on the page the device displays
  edits,    \* how many local edits the device has made
  crashes,  \* how many crashes happened
  applied,  \* history: wire ids of the edits applied on the device
  honoured  \* history: vetoes that rolled the device's document back

docVars == <<snap, prior, last, ring>>
vars == <<clock, log, cursor, snap, prior, last, ring, offered, edits,
          crashes, applied, honoured>>

Seed(d)      == [by |-> d, n |-> 0]
WireId(a, i) == [kind |-> "wire", by |-> a, n |-> i]
LegacyRing(rows) ==
  [i \in 1 .. Len(rows) |->
     [author |-> rows[i],
      op |-> [kind |-> "legacy", by |-> rows[i], n |-> 0], at |-> 0]]

(***************************************************************************)
(* The author ring: push evicts the oldest entry when the ring is full.    *)
(***************************************************************************)
\* Mutant of RingPush: the push does not evict.
RingPushUnbounded(r, e) == Append(r, e)
RingPush(r, e) ==
  LET s == Append(r, e)
  IN  IF Len(s) > RING_SIZE THEN Tail(s) ELSE s
RingPop(r)     == SubSeq(r, 1, Len(r) - 1)
RingAuthors(r) == {r[i].author : i \in 1 .. Len(r)}
Newest(r)      == r[Len(r)]

SaturatingSub(x, y) == IF x >= y THEN x - y ELSE 0

\* zodia_doc::veto_authorised.
VetoAuthorised(r, by, target, editTs, now) ==
  /\ by \in RingAuthors(r)
  /\ SaturatingSub(now, editTs) <= VETO_WINDOW
  /\ r # <<>>
  /\ Newest(r).op = target

Init ==
  /\ clock = StartTime
  /\ log = [a \in Device |-> <<>>]
  /\ cursor = [d \in Device |-> [a \in Device |-> 0]]
  /\ \E migrated \in SUBSET Device, rows \in [Device -> LegacyRows] :
       /\ snap = [d \in Device |-> IF d \in migrated THEN {Seed(d)} ELSE {}]
       /\ ring = [d \in Device |->
                    IF d \in migrated THEN LegacyRing(rows[d]) ELSE <<>>]
  /\ prior = [d \in Device |-> {}]
  /\ last = [d \in Device |-> NoEdit]
  /\ offered = [d \in Device |-> NoOp]
  /\ edits = [d \in Device |-> 0]
  /\ crashes = 0
  /\ applied = [d \in Device |-> {}]
  /\ honoured = [d \in Device |-> {}]

Tick ==
  /\ clock < MaxTime
  /\ clock' = clock + 1
  /\ UNCHANGED <<log, cursor, docVars, offered, edits, crashes, applied,
                 honoured>>

\* Mutant of PublishDocEdit: doc_save instead of doc_save_with_history.
PublishWithoutHistory(d) ==
  LET change == [by |-> d, n |-> edits[d] + 1]
      body   == snap[d] \cup {change}
  IN  /\ edits[d] < MaxEdits
      /\ edits' = [edits EXCEPT ![d] = @ + 1]
      /\ snap' = [snap EXCEPT ![d] = body]
      /\ log' = [log EXCEPT ![d] =
                   Append(@, [kind |-> "edit", ts |-> clock, change |-> change,
                              update |-> body])]
      /\ UNCHANGED <<clock, cursor, prior, last, ring, offered, crashes, applied,
                     honoured>>

(***************************************************************************)
(* AppMsg::PublishDocEdit.  The local row is written first, under an       *)
(* operation id of the device's own; then the edit is published, unless    *)
(* the client is offline or publishing fails.  The editor's own ring is    *)
(* not touched.                                                            *)
(***************************************************************************)
PublishDocEdit(d) ==
  LET change == [by |-> d, n |-> edits[d] + 1]
      body   == snap[d] \cup {change}
      op     == [kind |-> "edit", ts |-> clock, change |-> change,
                 update |-> body]
  IN  /\ edits[d] < MaxEdits
      /\ edits' = [edits EXCEPT ![d] = @ + 1]
      /\ prior' = [prior EXCEPT ![d] = snap[d]]
      /\ snap' = [snap EXCEPT ![d] = body]
      /\ last' = [last EXCEPT ![d] =
                    [op |-> [kind |-> "local", by |-> d, n |-> edits[d] + 1],
                     ts |-> clock, author |-> d]]
      /\ \/ log' = [log EXCEPT ![d] = Append(@, op)]
         \/ UNCHANGED log
      /\ UNCHANGED <<clock, cursor, ring, offered, crashes, applied, honoured>>

\* The next operation of a's log that device d has not received.
Pending(d, a) ==
  /\ a # d
  /\ cursor[d][a] < Len(log[a])
NextOp(d, a) == log[a][cursor[d][a] + 1]
Advance(d, a) == cursor' = [cursor EXCEPT ![d][a] = @ + 1]

\* Mutants of SaveWithHistory: the received update replaces the document; a
\* prior snapshot that is already there is kept.
SaveReplacing(d, a, op) ==
  LET id == WireId(a, cursor[d][a] + 1)
  IN  /\ prior' = [prior EXCEPT ![d] = snap[d]]
      /\ snap' = [snap EXCEPT ![d] = op.update]
      /\ last' = [last EXCEPT ![d] =
                    [op |-> id, ts |-> op.ts * MICROS, author |-> a]]
      /\ applied' = [applied EXCEPT ![d] = @ \cup {id}]
SaveKeepingPrior(d, a, op) ==
  LET id == WireId(a, cursor[d][a] + 1)
  IN  /\ prior' = [prior EXCEPT ![d] = IF @ = {} THEN snap[d] ELSE @]
      /\ snap' = [snap EXCEPT ![d] = @ \cup op.update]
      /\ last' = [last EXCEPT ![d] =
                    [op |-> id, ts |-> op.ts * MICROS, author |-> a]]
      /\ applied' = [applied EXCEPT ![d] = @ \cup {id}]
\* doc_save_with_history as apply_doc_edit calls it: one row update.
SaveWithHistory(d, a, op) ==
  LET id == WireId(a, cursor[d][a] + 1)
  IN  /\ prior' = [prior EXCEPT ![d] = snap[d]]
      /\ snap' = [snap EXCEPT ![d] = @ \cup op.update]
      /\ last' = [last EXCEPT ![d] =
                    [op |-> id, ts |-> op.ts * MICROS, author |-> a]]
      /\ applied' = [applied EXCEPT ![d] = @ \cup {id}]

\* StateEvent::DocEdited: apply_doc_edit saves the row, then pushes the ring.
ReceiveEdit(d, a) ==
  /\ Pending(d, a)
  /\ NextOp(d, a).kind = "edit"
  /\ SaveWithHistory(d, a, NextOp(d, a))
  /\ ring' = [ring EXCEPT ![d] =
                RingPush(@, [author |-> a, op |-> WireId(a, cursor[d][a] + 1),
                             at |-> clock])]
  /\ Advance(d, a)
  /\ UNCHANGED <<clock, log, offered, edits, crashes, honoured>>

(***************************************************************************)
(* The process dies after the sync log stored the operation: before the    *)
(* row is saved, or between the row and the ring.  Nothing replays it.     *)
(***************************************************************************)
CrashBeforeSave(d, a) ==
  /\ Pending(d, a)
  /\ crashes < MaxCrashes
  /\ crashes' = crashes + 1
  /\ Advance(d, a)
  /\ offered' = [offered EXCEPT ![d] = NoOp]
  /\ UNCHANGED <<clock, log, docVars, edits, applied, honoured>>

CrashBeforeRingPush(d, a) ==
  /\ Pending(d, a)
  /\ NextOp(d, a).kind = "edit"
  /\ crashes < MaxCrashes
  /\ crashes' = crashes + 1
  /\ SaveWithHistory(d, a, NextOp(d, a))
  /\ Advance(d, a)
  /\ offered' = [offered EXCEPT ![d] = NoOp]
  /\ UNCHANGED <<clock, log, ring, edits, honoured>>

\* Mutant of VetoApplies: the target is compared with the ring alone.
VetoAppliesToNewest(d, by, target) ==
  /\ last[d] # NoEdit
  /\ VetoAuthorised(ring[d], by, target, last[d].ts, clock)
  /\ prior[d] # {}
(***************************************************************************)
(* apply_doc_veto and doc_rollback: the target must be the row's last      *)
(* edit, the revoker authorised by the block's ring, and the prior         *)
(* snapshot present; then one transaction restores it and pops the ring.   *)
(***************************************************************************)
VetoApplies(d, by, target) ==
  /\ last[d] # NoEdit
  /\ last[d].op = target
  /\ VetoAuthorised(ring[d], by, target, last[d].ts, clock)
  /\ prior[d] # {}

Rollback(d, target, vetoTs) ==
  /\ snap' = [snap EXCEPT ![d] = prior[d]]
  /\ prior' = [prior EXCEPT ![d] = {}]
  /\ last' = [last EXCEPT ![d] = NoEdit]
  /\ ring' = [ring EXCEPT ![d] = RingPop(@)]
  /\ honoured' = [honoured EXCEPT ![d] =
                    @ \cup {[target |-> target, ts |-> vetoTs]}]

\* StateEvent::DocVetoProposed, honoured or ignored.
ReceiveVeto(d, a) ==
  /\ Pending(d, a)
  /\ NextOp(d, a).kind = "veto"
  /\ Advance(d, a)
  /\ IF VetoApplies(d, a, NextOp(d, a).target)
     THEN Rollback(d, NextOp(d, a).target, NextOp(d, a).ts)
     ELSE UNCHANGED <<docVars, honoured>>
  /\ UNCHANGED <<clock, log, offered, edits, crashes, applied>>

(***************************************************************************)
(* The reading's page shows a Veto button for the newest ring entry, and   *)
(* keeps showing it until the page is rendered again.                      *)
(***************************************************************************)
RenderPage(d) ==
  LET shown == /\ ring[d] # <<>>
               /\ d \in RingAuthors(ring[d])
               /\ SaturatingSub(clock, Newest(ring[d]).at) <= VETO_WINDOW
               /\ Newest(ring[d]).author # d
  IN  /\ offered' = [offered EXCEPT ![d] =
                       IF shown THEN Newest(ring[d]).op ELSE NoOp]
      /\ UNCHANGED <<clock, log, cursor, docVars, edits, crashes, applied,
                     honoured>>

\* AppMsg::ProposeDocVeto: roll back locally, then publish the veto.
ProposeDocVeto(d) ==
  LET target == offered[d]
      op     == [kind |-> "veto", ts |-> clock, target |-> target]
  IN  /\ target # NoOp
      /\ VetoApplies(d, d, target)
      /\ Rollback(d, target, clock)
      /\ \/ log' = [log EXCEPT ![d] = Append(@, op)]
         \/ UNCHANGED log
      /\ UNCHANGED <<clock, cursor, offered, edits, crashes, applied>>

Next ==
  \/ Tick
  \/ \E d \in Device :
       \/ PublishDocEdit(d)
       \/ RenderPage(d)
       \/ ProposeDocVeto(d)
       \/ \E a \in Device :
            \/ ReceiveEdit(d, a)
            \/ ReceiveVeto(d, a)
            \/ CrashBeforeSave(d, a)
            \/ CrashBeforeRingPush(d, a)

Spec == Init /\ [][Next]_vars

-----------------------------------------------------------------------------
TypeOK ==
  /\ clock \in Nat
  /\ log \in [Device -> Seq(Op)]
  /\ cursor \in [Device -> [Device -> Nat]]
  /\ snap \in [Device -> SUBSET Change]
  /\ prior \in [Device -> SUBSET Change]
  /\ last \in [Device -> EditMeta \cup {NoEdit}]
  /\ ring \in [Device -> Seq(RingEntry)]
  /\ \A d \in Device : Len(ring[d]) <= RING_SIZE
  /\ offered \in [Device -> OpId \cup {NoOp}]
  /\ edits \in [Device -> Nat]
  /\ crashes \in Nat
  /\ applied \in [Device -> SUBSET OpId]
  /\ honoured \in [Device -> SUBSET Honour]

OpAt(id) == log[id.by][id.n]
UpdateOf(id) == OpAt(id).update
OwnChanges(d) == {[by |-> d, n |-> i] : i \in 1 .. edits[d]}

(***************************************************************************)
(* No veto, whoever issues it and in whatever order operations arrive,     *)
(* ever removes from a device text that its own user wrote: PublishDocEdit *)
(* replaces the last-edit columns, so a later doc_rollback cannot reach    *)
(* behind it.                                                              *)
(***************************************************************************)
OwnTextIsKept == \A d \in Device : OwnChanges(d) \subseteq snap[d]

(***************************************************************************)
(* What doc_rollback would restore is the document without the last        *)
(* received edit and nothing else: the snapshot is the prior snapshot plus *)
(* the update of the operation named by last_edit_op_id.                   *)
(***************************************************************************)
PriorMatchesLastEdit ==
  \A d \in Device :
    last[d] # NoEdit /\ last[d].author # d =>
      snap[d] = prior[d] \cup UpdateOf(last[d].op)

(***************************************************************************)
(* A document that no veto has rolled back is determined by the set of     *)
(* edits applied to it: the order, the lost edits and the crashes do not   *)
(* matter (the CRDT convergence the collaborative model relies on).        *)
(***************************************************************************)
DocIsUnionOfAppliedEdits ==
  \A d \in Device :
    honoured[d] = {} =>
      snap[d] \ {Seed(d)} =
        (OwnChanges(d) \cup UNION {UpdateOf(id) : id \in applied[d]})
           \ {Seed(d)}

ExactAt(d) ==
  snap[d] \ snap'[d] # {} \/ Len(ring'[d]) < Len(ring[d]) =>
    /\ last[d].op.kind = "wire"
    /\ snap[d] \ snap'[d] \subseteq UpdateOf(last[d].op)
    /\ ring'[d] = RingPop(ring[d])
    /\ Newest(ring[d]).op = last[d].op
(***************************************************************************)
(* A rollback takes away the vetoed edit's update and the ring entry the   *)
(* edit had pushed, never an edit that landed before or after it and never *)
(* another author's ring entry, a crash between the two writes included.   *)
(***************************************************************************)
RollbackIsExact == [][\A d \in Device : ExactAt(d)]_vars

-----------------------------------------------------------------------------
(***************************************************************************)
(* The inductive invariant behind the properties above.  A ring entry      *)
(* never carries a device's local operation id, so a row whose last edit   *)
(* is local cannot be rolled back; a row whose last edit was received      *)
(* kept, as its prior snapshot, everything its own user had written.       *)
(***************************************************************************)
EditRef(id) ==
  /\ id.kind = "wire"
  /\ id.n \in 1 .. Len(log[id.by])
  /\ OpAt(id).kind = "edit"

CursorInv == \A d, x \in Device : cursor[d][x] <= Len(log[x])
RingInv ==
  \A d \in Device : \A i \in 1 .. Len(ring[d]) : ring[d][i].op.kind # "local"
LastInvOf(d) ==
  last[d] # NoEdit =>
    IF last[d].author = d
    THEN last[d].op.kind = "local"
    ELSE /\ EditRef(last[d].op)
         /\ OwnChanges(d) \subseteq prior[d]
         /\ snap[d] = prior[d] \cup UpdateOf(last[d].op)
LastInv == \A d \in Device : LastInvOf(d)
AppliedInv == \A d \in Device : \A id \in applied[d] : EditRef(id)

IInv ==
  TypeOK /\ CursorInv /\ RingInv /\ LastInv /\ AppliedInv /\ OwnTextIsKept

-----------------------------------------------------------------------------
(***************************************************************************)
(* DocOp::Veto's second condition: a veto is honoured only within          *)
(* VETO_WINDOW_DAYS of the edit's operation timestamp.  The code does not  *)
(* keep it: apply_doc_veto subtracts microseconds from seconds.            *)
(***************************************************************************)
VetoWithinWindow ==
  \A d \in Device : \A v \in honoured[d] :
    v.target.kind = "wire" =>
      SaturatingSub(v.ts, OpAt(v.target).ts) <= VETO_WINDOW
=============================================================================
