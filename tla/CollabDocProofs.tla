-------------------------- MODULE CollabDocProofs --------------------------
(***************************************************************************)
(* Proofs about CollabDoc, for any set of devices, any ring size and any   *)
(* bounds: type correctness, the inductive invariant IInv, and the safety  *)
(* properties that follow from it.                                         *)
(***************************************************************************)
EXTENDS CollabDoc, SequenceTheorems, TLAPS

(***************************************************************************)
(* block_ring_push keeps the ring within its capacity, and every entry of  *)
(* the new ring is the pushed one or an old one.                           *)
(***************************************************************************)
LEMMA RingPushFacts ==
  ASSUME NEW r \in Seq(RingEntry), NEW e \in RingEntry, Len(r) <= RING_SIZE
  PROVE  /\ RingPush(r, e) \in Seq(RingEntry)
         /\ Len(RingPush(r, e)) <= RING_SIZE
         /\ Len(RingPush(r, e)) >= Len(r)
         /\ \A i \in 1 .. Len(RingPush(r, e)) :
              \/ RingPush(r, e)[i] = e
              \/ \E j \in 1 .. Len(r) : RingPush(r, e)[i] = r[j]
<1> DEFINE s == Append(r, e)
<1>1. s \in Seq(RingEntry) /\ Len(s) = Len(r) + 1
  OBVIOUS
<1>2. \A i \in 1 .. Len(s) : s[i] = IF i = Len(s) THEN e ELSE r[i]
  OBVIOUS
<1>3. CASE Len(s) > RING_SIZE
  <2>1. RingPush(r, e) = Tail(s)
    BY <1>3 DEF RingPush
  <2>2. RingPush(r, e) \in Seq(RingEntry) /\ Len(RingPush(r, e)) = Len(r)
    BY <1>1, <2>1
  <2>3. ASSUME NEW i \in 1 .. Len(r)
        PROVE  \/ RingPush(r, e)[i] = e
               \/ \E j \in 1 .. Len(r) : RingPush(r, e)[i] = r[j]
    <3>1. RingPush(r, e)[i] = s[i + 1]
      BY <1>1, <2>1
    <3>2. i + 1 \in 1 .. Len(s) /\ (i + 1 # Len(s) => i + 1 \in 1 .. Len(r))
      BY <1>1
    <3>3. QED
      BY <1>2, <3>1, <3>2
  <2>4. Len(RingPush(r, e)) <= RING_SIZE /\ Len(RingPush(r, e)) >= Len(r)
    BY <2>2, ConstantAssumption
  <2>5. QED
    BY <2>2, <2>3, <2>4
<1>4. CASE ~(Len(s) > RING_SIZE)
  <2>1. RingPush(r, e) = s
    BY <1>4 DEF RingPush
  <2>2. Len(s) <= RING_SIZE /\ Len(s) >= Len(r)
    BY <1>1, <1>4, ConstantAssumption
  <2>3. \A i \in 1 .. Len(s) : s[i] = e \/ \E j \in 1 .. Len(r) : s[i] = r[j]
    BY <1>1, <1>2
  <2>4. QED
    BY <1>1, <2>1, <2>2, <2>3
<1>5. QED
  BY <1>3, <1>4

(***************************************************************************)
(* doc_rollback removes the newest entry and keeps the others.             *)
(***************************************************************************)
LEMMA RingPopFacts ==
  ASSUME NEW r \in Seq(RingEntry), r # <<>>
  PROVE  /\ RingPop(r) \in Seq(RingEntry)
         /\ Len(RingPop(r)) = Len(r) - 1
         /\ \A i \in 1 .. Len(RingPop(r)) : RingPop(r)[i] = r[i]
<1>1. Len(r) \in Nat /\ Len(r) # 0
  OBVIOUS
<1>2. RingPop(r) \in Seq(RingEntry)
  BY <1>1, SubSeqProperties DEF RingPop
<1>3. Len(RingPop(r)) = Len(r) - 1
  <2>1. CASE Len(r) = 1
    <3>1. SubSeq(r, 1, 0) = <<>>
      BY SubSeqEmpty
    <3>2. QED
      BY <2>1, <3>1 DEF RingPop
  <2>2. CASE Len(r) > 1
    <3>1. /\ Len(r) - 1 \in Int
          /\ 1 <= Len(r) - 1
          /\ \A i \in 1 .. Len(r) - 1 : r[i] \in RingEntry
      BY <1>1, <2>2
    <3>2. Len(SubSeq(r, 1, Len(r) - 1)) = (Len(r) - 1) - 1 + 1
      BY <3>1, SubSeqProperties
    <3>3. QED
      BY <1>1, <3>2 DEF RingPop
  <2>3. Len(r) = 1 \/ Len(r) > 1
    BY <1>1
  <2>4. QED
    BY <2>1, <2>2, <2>3, Zenon
<1>4. \A i \in 1 .. Len(r) - 1 : RingPop(r)[i] = r[i]
  BY <1>1, SubSeqProperties DEF RingPop
<1>5. QED
  BY <1>2, <1>3, <1>4

(***************************************************************************)
(* Every step appends to the logs or leaves them alone, so an operation    *)
(* that has been published keeps its id and its contents.                  *)
(***************************************************************************)
LogGrows ==
  \A x \in Device :
    /\ Len(log[x]) <= Len(log'[x])
    /\ \A i \in 1 .. Len(log[x]) : log'[x][i] = log[x][i]

\* Publishing extends one log and leaves every operation in place.
LEMMA AppendGrows ==
  ASSUME TypeOK, NEW d \in Device, NEW op \in Op,
         log' = [log EXCEPT ![d] = Append(@, op)]
  PROVE  LogGrows /\ log' \in [Device -> Seq(Op)]
  BY DEF LogGrows, TypeOK

\* A published edit stays where its wire id says while the logs grow.
LEMMA EditRefStable ==
  ASSUME TypeOK, LogGrows, NEW id \in OpId, EditRef(id)
  PROVE  EditRef(id)' /\ OpAt(id)' = OpAt(id) /\ UpdateOf(id)' = UpdateOf(id)
<1>1. id.by \in Device /\ id.n \in 1 .. Len(log[id.by])
  BY DEF OpId, EditRef
<1>2. log'[id.by][id.n] = log[id.by][id.n]
  BY <1>1 DEF LogGrows
<1>3. OpAt(id)' = OpAt(id)
  BY <1>2 DEF OpAt
<1>4. log[id.by] \in Seq(Op) /\ Len(log[id.by]) <= Len(log'[id.by])
  BY <1>1 DEF TypeOK, LogGrows
<1>5. id.n \in 1 .. Len(log'[id.by])
  <2>1. Len(log[id.by]) \in Nat /\ id.n <= Len(log[id.by]) /\ id.n >= 1
    BY <1>1, <1>4
  <2>2. QED
    BY <1>1, <1>4, <2>1
<1>6. QED
  BY <1>3, <1>5 DEF EditRef, UpdateOf

(***************************************************************************)
(* Facts about the operation a device is about to receive.                 *)
(***************************************************************************)
LEMMA NextOpFacts ==
  ASSUME TypeOK, NEW d \in Device, NEW a \in Device, Pending(d, a)
  PROVE  /\ NextOp(d, a) \in Op
         /\ cursor[d][a] + 1 \in 1 .. Len(log[a])
         /\ WireId(a, cursor[d][a] + 1) \in OpId
         /\ NextOp(d, a).kind = "edit" =>
              /\ NextOp(d, a) \in EditOp
              /\ EditRef(WireId(a, cursor[d][a] + 1))
              /\ UpdateOf(WireId(a, cursor[d][a] + 1)) = NextOp(d, a).update
         /\ NextOp(d, a).kind = "veto" => NextOp(d, a) \in VetoOp
<1> DEFINE i == cursor[d][a] + 1
<1>1. cursor[d][a] \in Nat /\ log[a] \in Seq(Op) /\ Len(log[a]) \in Nat
  BY DEF TypeOK
<1>2. i \in 1 .. Len(log[a])
  BY <1>1 DEF Pending
<1>3. NextOp(d, a) \in Op
  BY <1>1, <1>2 DEF NextOp
<1>4. WireId(a, i) \in OpId /\ WireId(a, i).kind = "wire"
       /\ WireId(a, i).by = a /\ WireId(a, i).n = i
  BY <1>1 DEF WireId, OpId
<1>5. OpAt(WireId(a, i)) = NextOp(d, a)
  BY <1>4 DEF OpAt, NextOp
<1>6. /\ NextOp(d, a).kind = "edit" => NextOp(d, a) \in EditOp
      /\ NextOp(d, a).kind = "veto" => NextOp(d, a) \in VetoOp
  BY <1>3 DEF Op, EditOp, VetoOp
<1> HIDE DEF i
<1>7. NextOp(d, a).kind = "edit" =>
        EditRef(WireId(a, i)) /\ UpdateOf(WireId(a, i)) = NextOp(d, a).update
  BY <1>2, <1>4, <1>5 DEF EditRef, UpdateOf
<1>8. QED
  BY <1>2, <1>3, <1>4, <1>6, <1>7 DEF i

(***************************************************************************)
(* The row update of a received edit keeps the types.                      *)
(***************************************************************************)
LEMMA SaveWithHistoryType ==
  ASSUME TypeOK, NEW d \in Device, NEW a \in Device, Pending(d, a),
         NextOp(d, a).kind = "edit", SaveWithHistory(d, a, NextOp(d, a))
  PROVE  /\ snap' \in [Device -> SUBSET Change]
         /\ prior' \in [Device -> SUBSET Change]
         /\ last' \in [Device -> EditMeta \cup {NoEdit}]
         /\ applied' \in [Device -> SUBSET OpId]
<1>1. NextOp(d, a) \in EditOp /\ WireId(a, cursor[d][a] + 1) \in OpId
  BY NextOpFacts
<1>2. NextOp(d, a).update \in SUBSET Change /\ NextOp(d, a).ts * MICROS \in Nat
  BY <1>1, ConstantAssumption DEF EditOp
<1>3. [op |-> WireId(a, cursor[d][a] + 1), ts |-> NextOp(d, a).ts * MICROS,
       author |-> a] \in EditMeta
  BY <1>1, <1>2 DEF EditMeta
<1>4. QED
  BY <1>1, <1>2, <1>3 DEF TypeOK, SaveWithHistory

\* A rollback (doc_rollback) keeps the types of the row and of the ring.
LEMMA RollbackType ==
  ASSUME TypeOK, NEW d \in Device, NEW target \in OpId, NEW ts \in Nat,
         NEW by, VetoApplies(d, by, target), Rollback(d, target, ts)
  PROVE  /\ snap' \in [Device -> SUBSET Change]
         /\ prior' \in [Device -> SUBSET Change]
         /\ last' \in [Device -> EditMeta \cup {NoEdit}]
         /\ ring' \in [Device -> Seq(RingEntry)]
         /\ \A x \in Device : Len(ring'[x]) <= RING_SIZE
         /\ honoured' \in [Device -> SUBSET Honour]
<1>1. ring[d] \in Seq(RingEntry) /\ ring[d] # <<>> /\ Len(ring[d]) <= RING_SIZE
  BY DEF TypeOK, VetoApplies, VetoAuthorised
<1>2. RingPop(ring[d]) \in Seq(RingEntry) /\ Len(RingPop(ring[d])) <= RING_SIZE
  BY <1>1, RingPopFacts, ConstantAssumption
<1>3. [target |-> target, ts |-> ts] \in Honour
  BY DEF Honour
<1>4. QED
  BY <1>2, <1>3 DEF TypeOK, Rollback

\* The migrated or empty database of Init is well typed.
LEMMA TypeInit == Init => TypeOK
<1> SUFFICES ASSUME Init PROVE TypeOK
  OBVIOUS
<1>1. PICK migrated \in SUBSET Device, rows \in [Device -> LegacyRows] :
        /\ snap = [d \in Device |-> IF d \in migrated THEN {Seed(d)} ELSE {}]
        /\ ring = [d \in Device |->
                     IF d \in migrated THEN LegacyRing(rows[d]) ELSE <<>>]
  BY DEF Init
<1>2. ASSUME NEW d \in Device
      PROVE  LegacyRing(rows[d]) \in Seq(RingEntry)
             /\ Len(LegacyRing(rows[d])) <= RING_SIZE
  <2>1. rows[d] \in Seq(Device) /\ Len(rows[d]) <= RING_SIZE
    BY ConstantAssumption
  <2>2. Len(rows[d]) \in Nat /\ \A i \in 1 .. Len(rows[d]) : rows[d][i] \in Device
    BY <2>1
  <2>3. \A i \in 1 .. Len(rows[d]) :
          [author |-> rows[d][i],
           op |-> [kind |-> "legacy", by |-> rows[d][i], n |-> 0], at |-> 0]
             \in RingEntry
    BY <2>2 DEF RingEntry, OpId
  <2>4. QED
    BY <2>1, <2>2, <2>3 DEF LegacyRing
<1>3. ring \in [Device -> Seq(RingEntry)]
       /\ \A d \in Device : Len(ring[d]) <= RING_SIZE
  BY <1>1, <1>2, ConstantAssumption
<1>4. snap \in [Device -> SUBSET Change]
  BY <1>1 DEF Seed, Change
<1>5. QED
  BY <1>3, <1>4, ConstantAssumption DEF Init, TypeOK

\* Every handler, crash and clock step keeps the types.
LEMMA TypeNext == TypeOK /\ [Next]_vars => TypeOK'
<1> SUFFICES ASSUME TypeOK, [Next]_vars PROVE TypeOK'
  OBVIOUS
<1>1. CASE Tick
  BY <1>1 DEF Tick, TypeOK, docVars
<1>2. ASSUME NEW d \in Device, PublishDocEdit(d)
      PROVE  TypeOK'
  <2> DEFINE change == [by |-> d, n |-> edits[d] + 1]
             body   == snap[d] \cup {change}
             op     == [kind |-> "edit", ts |-> clock, change |-> change,
                        update |-> body]
  <2>1. change \in Change /\ body \in SUBSET Change
    BY DEF TypeOK, Change
  <2>2. op \in Op
    BY <2>1 DEF TypeOK, Op, EditOp
  <2>3. log' \in [Device -> Seq(Op)]
    <3>1. log' = [log EXCEPT ![d] = Append(@, op)] \/ log' = log
      BY <1>2 DEF PublishDocEdit
    <3> HIDE DEF op
    <3>2. QED
      BY <2>2, <3>1, AppendGrows DEF TypeOK
  <2>4. [op |-> [kind |-> "local", by |-> d, n |-> edits[d] + 1],
         ts |-> clock, author |-> d] \in EditMeta
    BY DEF TypeOK, EditMeta, OpId
  <2>5. last' \in [Device -> EditMeta \cup {NoEdit}]
    BY <1>2, <2>4 DEF TypeOK, PublishDocEdit
  <2>6. snap' \in [Device -> SUBSET Change] /\ prior' \in [Device -> SUBSET Change]
    BY <1>2, <2>1 DEF TypeOK, PublishDocEdit
  <2>7. edits' \in [Device -> Nat]
    BY <1>2 DEF TypeOK, PublishDocEdit
  <2>8. QED
    BY <1>2, <2>3, <2>5, <2>6, <2>7 DEF TypeOK, PublishDocEdit
<1>3. ASSUME NEW d \in Device, RenderPage(d)
      PROVE  TypeOK'
  <2>1. ring[d] # <<>> => Newest(ring[d]).op \in OpId
    <3>1. ring[d] # <<>> => Len(ring[d]) \in 1 .. Len(ring[d])
      BY DEF TypeOK
    <3>2. ring[d] # <<>> => Newest(ring[d]) \in RingEntry
      BY <3>1 DEF TypeOK, Newest
    <3>3. QED
      BY <3>2 DEF RingEntry
  <2>2. offered' \in [Device -> OpId \cup {NoOp}]
    BY <1>3, <2>1 DEF RenderPage, TypeOK
  <2>3. QED
    BY <1>3, <2>2 DEF RenderPage, TypeOK, docVars
<1>4. ASSUME NEW d \in Device, ProposeDocVeto(d)
      PROVE  TypeOK'
  <2>1. offered[d] \in OpId /\ clock \in Nat
    BY <1>4 DEF ProposeDocVeto, TypeOK
  <2>2. VetoApplies(d, d, offered[d]) /\ Rollback(d, offered[d], clock)
    BY <1>4 DEF ProposeDocVeto
  <2>3. [kind |-> "veto", ts |-> clock, target |-> offered[d]] \in Op
    BY <2>1 DEF Op, VetoOp
  <2>4. log' \in [Device -> Seq(Op)]
    BY <1>4, <2>3, AppendGrows DEF ProposeDocVeto, TypeOK
  <2>5. QED
    BY <1>4, <2>1, <2>2, <2>4, RollbackType DEF ProposeDocVeto, TypeOK
<1>5. ASSUME NEW d \in Device, NEW a \in Device, Pending(d, a), Advance(d, a)
      PROVE  cursor' \in [Device -> [Device -> Nat]]
  BY <1>5 DEF Advance, TypeOK
<1>6. ASSUME NEW d \in Device, NEW a \in Device, ReceiveEdit(d, a)
      PROVE  TypeOK'
  <2>1. Pending(d, a) /\ NextOp(d, a).kind = "edit" /\ Advance(d, a)
         /\ SaveWithHistory(d, a, NextOp(d, a))
    BY <1>6 DEF ReceiveEdit
  <2> DEFINE e == [author |-> a, op |-> WireId(a, cursor[d][a] + 1),
                   at |-> clock]
  <2>2. e \in RingEntry
    BY <2>1, NextOpFacts DEF RingEntry, TypeOK
  <2>3. ring' = [ring EXCEPT ![d] = RingPush(@, e)]
    BY <1>6 DEF ReceiveEdit
  <2>4. RingPush(ring[d], e) \in Seq(RingEntry)
         /\ Len(RingPush(ring[d], e)) <= RING_SIZE
    BY <2>2, RingPushFacts DEF TypeOK
  <2> HIDE DEF e
  <2>5. ring' \in [Device -> Seq(RingEntry)]
         /\ \A x \in Device : Len(ring'[x]) <= RING_SIZE
    BY <2>3, <2>4 DEF TypeOK
  <2>6. QED
    BY <1>5, <1>6, <2>1, <2>5, SaveWithHistoryType DEF ReceiveEdit, TypeOK
<1>7. ASSUME NEW d \in Device, NEW a \in Device, ReceiveVeto(d, a)
      PROVE  TypeOK'
  <2>1. Pending(d, a) /\ NextOp(d, a).kind = "veto" /\ Advance(d, a)
    BY <1>7 DEF ReceiveVeto
  <2>2. NextOp(d, a).target \in OpId /\ NextOp(d, a).ts \in Nat
    BY <2>1, NextOpFacts DEF VetoOp
  <2>3. CASE VetoApplies(d, a, NextOp(d, a).target)
    BY <1>5, <1>7, <2>1, <2>2, <2>3, RollbackType DEF ReceiveVeto, TypeOK
  <2>4. CASE ~VetoApplies(d, a, NextOp(d, a).target)
    BY <1>5, <1>7, <2>1, <2>4 DEF ReceiveVeto, TypeOK, docVars
  <2>5. QED
    BY <2>3, <2>4
<1>8. ASSUME NEW d \in Device, NEW a \in Device, CrashBeforeSave(d, a)
      PROVE  TypeOK'
  <2>1. Pending(d, a) /\ Advance(d, a)
    BY <1>8 DEF CrashBeforeSave
  <2>2. cursor' \in [Device -> [Device -> Nat]]
    BY <1>5, <2>1
  <2>3. offered' \in [Device -> OpId \cup {NoOp}] /\ crashes' \in Nat
    BY <1>8 DEF CrashBeforeSave, TypeOK
  <2>4. UNCHANGED <<clock, log, snap, prior, last, ring, edits, applied,
                    honoured>>
    BY <1>8 DEF CrashBeforeSave, docVars
  <2>5. QED
    BY <2>2, <2>3, <2>4 DEF TypeOK
<1>9. ASSUME NEW d \in Device, NEW a \in Device, CrashBeforeRingPush(d, a)
      PROVE  TypeOK'
  <2>1. Pending(d, a) /\ NextOp(d, a).kind = "edit" /\ Advance(d, a)
         /\ SaveWithHistory(d, a, NextOp(d, a))
    BY <1>9 DEF CrashBeforeRingPush
  <2>2. offered' \in [Device -> OpId \cup {NoOp}] /\ crashes' \in Nat
    BY <1>9 DEF CrashBeforeRingPush, TypeOK
  <2>3. QED
    BY <1>5, <1>9, <2>1, <2>2, SaveWithHistoryType
       DEF CrashBeforeRingPush, TypeOK
<1>10. CASE UNCHANGED vars
  BY <1>10 DEF vars, TypeOK
<1>11. QED
  BY <1>1, <1>2, <1>3, <1>4, <1>6, <1>7, <1>8, <1>9, <1>10 DEF Next

(***************************************************************************)
(* Every reachable state of the document and its ring is well typed; in    *)
(* particular a ring never exceeds RING_SIZE, whatever the interleaving of *)
(* edits, vetoes and crashes.                                              *)
(***************************************************************************)
THEOREM TypeCorrect == Spec => []TypeOK
  BY TypeInit, TypeNext, PTL DEF Spec

-----------------------------------------------------------------------------
\* No step removes or changes a published operation.
LEMMA NextLogGrows == TypeOK /\ [Next]_vars => LogGrows
<1> SUFFICES ASSUME TypeOK, [Next]_vars PROVE LogGrows
  OBVIOUS
<1>1. CASE UNCHANGED log
  <2>1. \A x \in Device : Len(log[x]) \in Nat
    BY DEF TypeOK
  <2>2. QED
    BY <1>1, <2>1 DEF LogGrows
<1>2. ASSUME NEW d \in Device, PublishDocEdit(d)
      PROVE  LogGrows
  <2> DEFINE change == [by |-> d, n |-> edits[d] + 1]
             op     == [kind |-> "edit", ts |-> clock, change |-> change,
                        update |-> snap[d] \cup {change}]
  <2>1. change \in Change
    BY DEF TypeOK, Change
  <2>2. op \in Op
    BY <2>1 DEF TypeOK, Op, EditOp
  <2>3. log' = [log EXCEPT ![d] = Append(@, op)] \/ UNCHANGED log
    BY <1>2 DEF PublishDocEdit
  <2> HIDE DEF op
  <2>4. QED
    BY <1>1, <2>2, <2>3, AppendGrows
<1>3. ASSUME NEW d \in Device, ProposeDocVeto(d)
      PROVE  LogGrows
  <2> DEFINE op == [kind |-> "veto", ts |-> clock, target |-> offered[d]]
  <2>1. offered[d] \in OpId
    BY <1>3 DEF ProposeDocVeto, TypeOK
  <2>2. op \in Op
    BY <2>1 DEF TypeOK, Op, VetoOp
  <2>3. log' = [log EXCEPT ![d] = Append(@, op)] \/ UNCHANGED log
    BY <1>3 DEF ProposeDocVeto
  <2> HIDE DEF op
  <2>4. QED
    BY <1>1, <2>2, <2>3, AppendGrows
<1>4. ASSUME Next PROVE LogGrows
  BY <1>1, <1>2, <1>3, <1>4
     DEF Next, Tick, RenderPage, ReceiveEdit, ReceiveVeto, CrashBeforeSave,
         CrashBeforeRingPush
<1>5. QED
  BY <1>1, <1>4 DEF vars

(***************************************************************************)
(* A device whose row a step leaves alone keeps its part of the invariant. *)
(***************************************************************************)
LEMMA RowStable ==
  ASSUME TypeOK, LogGrows, NEW x \in Device, LastInvOf(x),
         last'[x] = last[x], prior'[x] = prior[x], snap'[x] = snap[x],
         edits'[x] = edits[x]
  PROVE  LastInvOf(x)'
<1>1. CASE last[x] = NoEdit
  BY <1>1 DEF LastInvOf
<1>2. CASE last[x] # NoEdit /\ last[x].author = x
  BY <1>2 DEF LastInvOf
<1>3. CASE last[x] # NoEdit /\ last[x].author # x
  <2>1. last[x].op \in OpId
    BY <1>3 DEF TypeOK, EditMeta
  <2>2. EditRef(last[x].op)
    BY <1>3 DEF LastInvOf
  <2>3. EditRef(last[x].op)' /\ UpdateOf(last[x].op)' = UpdateOf(last[x].op)
    <3> DEFINE id == last[x].op
    <3> HIDE DEF id
    <3>1. EditRef(id)' /\ UpdateOf(id)' = UpdateOf(id)
      BY <2>1, <2>2, EditRefStable DEF id
    <3>2. QED
      BY <3>1 DEF id
  <2>4. QED
    BY <1>3, <2>3 DEF LastInvOf, OwnChanges
<1>4. QED
  BY <1>1, <1>2, <1>3

(***************************************************************************)
(* The parts of the invariant that only depend on the logs growing.        *)
(***************************************************************************)
LEMMA AppliedStable ==
  ASSUME TypeOK, LogGrows, AppliedInv, NEW x \in Device,
         NEW id \in applied[x]
  PROVE  EditRef(id)'
  BY EditRefStable DEF TypeOK, AppliedInv

\* Cursors stay within the logs while the logs grow.
LEMMA CursorStable ==
  ASSUME TypeOK, TypeOK', LogGrows, CursorInv, UNCHANGED cursor
  PROVE  CursorInv'
<1> SUFFICES ASSUME NEW d \in Device, NEW x \in Device
             PROVE  cursor[d][x] <= Len(log'[x])
  BY DEF CursorInv
<1>1. Len(log[x]) \in Nat
  BY DEF TypeOK
<1>2. Len(log'[x]) \in Nat
  BY DEF TypeOK
<1>3. cursor[d][x] \in Nat
  BY DEF TypeOK
<1>4. QED
  BY <1>1, <1>2, <1>3 DEF CursorInv, LogGrows

\* Receiving a pending operation keeps the cursor within the log.
LEMMA CursorAdvance ==
  ASSUME TypeOK, CursorInv, NEW d \in Device, NEW a \in Device, Pending(d, a),
         Advance(d, a), UNCHANGED log
  PROVE  CursorInv'
<1> SUFFICES ASSUME NEW y \in Device, NEW x \in Device
             PROVE  cursor'[y][x] <= Len(log[x])
  BY DEF CursorInv
<1>1. Len(log[x]) \in Nat /\ cursor[y][x] \in Nat
  BY DEF TypeOK
<1>2. QED
  BY <1>1 DEF CursorInv, Advance, Pending, TypeOK

(***************************************************************************)
(* Saving a received edit establishes the row's invariant: the new prior   *)
(* snapshot is the old snapshot, which held all of the user's own text.    *)
(***************************************************************************)
LEMMA SaveWithHistoryInv ==
  ASSUME TypeOK, AppliedInv, LastInv, OwnTextIsKept, LogGrows, UNCHANGED <<log, edits>>,
         NEW d \in Device, NEW a \in Device, Pending(d, a),
         NextOp(d, a).kind = "edit", SaveWithHistory(d, a, NextOp(d, a))
  PROVE  LastInv' /\ AppliedInv' /\ OwnTextIsKept'
<1> DEFINE id == WireId(a, cursor[d][a] + 1)
<1>1. EditRef(id) /\ UpdateOf(id) = NextOp(d, a).update /\ id \in OpId
  BY NextOpFacts
<1>3. a # d
  BY DEF Pending
<1> DEFINE meta == [op |-> id, ts |-> NextOp(d, a).ts * MICROS, author |-> a]
<1>4. last' = [last EXCEPT ![d] = meta]
  BY DEF SaveWithHistory
<1>5. prior' = [prior EXCEPT ![d] = snap[d]]
       /\ snap' = [snap EXCEPT ![d] = @ \cup NextOp(d, a).update]
       /\ applied' = [applied EXCEPT ![d] = @ \cup {id}]
  BY DEF SaveWithHistory
<1>6. last'[d] = meta /\ meta.op = id /\ meta.author = a
  BY <1>4 DEF TypeOK
<1>7. prior'[d] = snap[d] /\ snap'[d] = snap[d] \cup UpdateOf(id)
  BY <1>1, <1>5 DEF TypeOK
<1> HIDE DEF id, meta
<1>8. \A i \in OpId : EditRef(i) => EditRef(i)' /\ UpdateOf(i)' = UpdateOf(i)
  BY EditRefStable
<1>9. LastInvOf(d)'
  <2>1. last'[d].op = id /\ last'[d].author # d
    BY <1>3, <1>6
  <2>2. PICK i \in OpId : i = id
    BY <1>1
  <2>3. EditRef(i)' /\ UpdateOf(i)' = UpdateOf(i)
    BY <1>1, <1>8, <2>2
  <2>4. EditRef(last[d].op)' /\ UpdateOf(last[d].op)' = UpdateOf(i)
    BY <2>1, <2>2, <2>3 DEF EditRef, UpdateOf, OpAt
  <2>5. OwnChanges(d)' = OwnChanges(d) /\ OwnChanges(d) \subseteq snap[d]
    BY DEF OwnChanges, OwnTextIsKept
  <2>6. QED
    BY <1>7, <2>1, <2>2, <2>4, <2>5 DEF LastInvOf
<1>10. ASSUME NEW x \in Device, x # d
       PROVE  LastInvOf(x)'
  <2>1. last'[x] = last[x] /\ prior'[x] = prior[x] /\ snap'[x] = snap[x]
    BY <1>4, <1>5, <1>10 DEF TypeOK
  <2>2. QED
    BY <2>1, RowStable DEF LastInv
<1>11. AppliedInv'
  <2> SUFFICES ASSUME NEW x \in Device, NEW i \in applied'[x]
               PROVE  EditRef(i)'
    BY DEF AppliedInv
  <2>1. i \in applied[x] \/ i = id
    BY <1>5 DEF TypeOK
  <2>2. EditRef(i) /\ i \in OpId
    BY <1>1, <2>1 DEF AppliedInv, TypeOK
  <2>3. QED
    BY <1>8, <2>2
<1>12. OwnTextIsKept'
  BY <1>5 DEF OwnTextIsKept, OwnChanges, TypeOK
<1>13. QED
  BY <1>9, <1>10, <1>11, <1>12 DEF LastInv

(***************************************************************************)
(* A rollback keeps the user's own text: the last edit is not local, since *)
(* the newest ring entry names it, so the prior snapshot holds that text.  *)
(***************************************************************************)
LEMMA RollbackInv ==
  ASSUME IInv, LogGrows, UNCHANGED <<edits, applied>>,
         NEW d \in Device, NEW by, NEW target, NEW ts,
         VetoApplies(d, by, target), Rollback(d, target, ts)
  PROVE  LastInv' /\ OwnTextIsKept' /\ RingInv' /\ last[d].author # d
<1> USE DEF IInv
<1>1. ring[d] \in Seq(RingEntry) /\ ring[d] # <<>>
  BY DEF TypeOK, VetoApplies, VetoAuthorised
<1>2. last[d] # NoEdit /\ Newest(ring[d]).op = last[d].op
  BY DEF VetoApplies, VetoAuthorised
<1>3. Len(ring[d]) \in 1 .. Len(ring[d])
  BY <1>1
<1>4. last[d].op.kind # "local"
  BY <1>2, <1>3 DEF RingInv, Newest
<1>5. last[d].author # d /\ OwnChanges(d) \subseteq prior[d]
  BY <1>2, <1>4 DEF LastInv, LastInvOf
<1>6. snap' = [snap EXCEPT ![d] = prior[d]] /\ last' = [last EXCEPT ![d] = NoEdit]
       /\ prior' = [prior EXCEPT ![d] = {}]
       /\ ring' = [ring EXCEPT ![d] = RingPop(@)]
  BY DEF Rollback
<1>7. OwnTextIsKept'
  BY <1>5, <1>6 DEF OwnTextIsKept, OwnChanges, TypeOK
<1>8. ASSUME NEW x \in Device PROVE LastInvOf(x)'
  <2>1. CASE x = d
    BY <1>6, <2>1 DEF LastInvOf, TypeOK
  <2>2. CASE x # d
    <3>1. last'[x] = last[x] /\ prior'[x] = prior[x] /\ snap'[x] = snap[x]
      BY <1>6, <2>2 DEF TypeOK
    <3>2. QED
      BY <3>1, RowStable DEF LastInv
  <2>3. QED
    BY <2>1, <2>2
<1>9. RingInv'
  <2> SUFFICES ASSUME NEW x \in Device, NEW i \in 1 .. Len(ring'[x])
               PROVE  ring'[x][i].op.kind # "local"
    BY DEF RingInv
  <2>1. CASE x # d
    BY <1>6, <2>1 DEF RingInv, TypeOK
  <2>2. CASE x = d
    <3>1. ring'[d] = RingPop(ring[d]) /\ Len(ring[d]) \in Nat
      BY <1>1, <1>6 DEF TypeOK
    <3>2. Len(RingPop(ring[d])) = Len(ring[d]) - 1
           /\ \A j \in 1 .. Len(RingPop(ring[d])) :
                RingPop(ring[d])[j] = ring[d][j]
      BY <1>1, RingPopFacts
    <3>3. i \in 1 .. Len(ring[d]) /\ ring'[x][i] = ring[d][i]
      BY <2>2, <3>1, <3>2
    <3>4. QED
      BY <3>3 DEF RingInv
  <2>3. QED
    BY <2>1, <2>2
<1>10. QED
  BY <1>5, <1>7, <1>8, <1>9 DEF LastInv

\* The inductive invariant holds in the migrated or empty database.
LEMMA InvInit == Init => IInv
<1> SUFFICES ASSUME Init PROVE IInv
  OBVIOUS
<1>1. TypeOK
  BY TypeInit
<1>2. PICK migrated \in SUBSET Device, rows \in [Device -> LegacyRows] :
        ring = [d \in Device |->
                  IF d \in migrated THEN LegacyRing(rows[d]) ELSE <<>>]
  BY DEF Init
<1>3. RingInv
  <2> SUFFICES ASSUME NEW d \in Device, NEW i \in 1 .. Len(ring[d])
               PROVE  ring[d][i].op.kind # "local"
    BY DEF RingInv
  <2>1. CASE d \in migrated
    <3>1. ring[d] = LegacyRing(rows[d]) /\ rows[d] \in Seq(Device)
      BY <1>2, <2>1, ConstantAssumption
    <3>2. i \in 1 .. Len(rows[d])
      BY <3>1 DEF LegacyRing
    <3>3. ring[d][i].op.kind = "legacy"
      BY <3>1, <3>2 DEF LegacyRing
    <3>4. QED
      BY <3>3
  <2>2. CASE d \notin migrated
    BY <1>2, <2>2
  <2>3. QED
    BY <2>1, <2>2
<1>4. CursorInv /\ LastInv /\ AppliedInv
  BY DEF Init, CursorInv, LastInv, LastInvOf, AppliedInv
<1>5. OwnTextIsKept
  <2>1. ASSUME NEW d \in Device PROVE OwnChanges(d) = {}
    <3>1. 1 .. edits[d] = {}
      BY DEF Init
    <3>2. QED
      BY <3>1 DEF OwnChanges
  <2>2. QED
    BY <2>1 DEF OwnTextIsKept
<1>6. QED
  BY <1>1, <1>3, <1>4, <1>5 DEF IInv

(***************************************************************************)
(* A local edit: the user's own change enters the snapshot and the last    *)
(* edit becomes a local one, which no ring entry can name.                 *)
(***************************************************************************)
LEMMA PublishDocEditInv ==
  ASSUME IInv, LogGrows, NEW d \in Device, PublishDocEdit(d)
  PROVE  LastInv' /\ OwnTextIsKept'
<1> USE DEF IInv
<1> DEFINE change == [by |-> d, n |-> edits[d] + 1]
           meta   == [op |-> [kind |-> "local", by |-> d, n |-> edits[d] + 1],
                      ts |-> clock, author |-> d]
<1>1. /\ edits' = [edits EXCEPT ![d] = @ + 1]
      /\ prior' = [prior EXCEPT ![d] = snap[d]]
      /\ snap' = [snap EXCEPT ![d] = snap[d] \cup {change}]
      /\ last' = [last EXCEPT ![d] = meta]
  BY DEF PublishDocEdit
<1>2. edits[d] \in Nat /\ edits'[d] = edits[d] + 1
      /\ snap'[d] = snap[d] \cup {change} /\ last'[d] = meta
  BY <1>1 DEF TypeOK
<1>3. meta.author = d /\ meta.op.kind = "local"
  OBVIOUS
<1> HIDE DEF meta
<1>4. ASSUME NEW x \in Device, x # d
      PROVE  /\ last'[x] = last[x] /\ prior'[x] = prior[x]
             /\ snap'[x] = snap[x] /\ edits'[x] = edits[x]
  BY <1>1, <1>4 DEF TypeOK
<1>5. LastInvOf(d)'
  BY <1>2, <1>3 DEF LastInvOf
<1>6. LastInv'
  BY <1>4, <1>5, RowStable DEF LastInv
<1>7. ASSUME NEW c \in OwnChanges(d)' PROVE c \in snap'[d]
  <2>1. PICK i \in 1 .. edits'[d] : c = [by |-> d, n |-> i]
    BY <1>7 DEF OwnChanges
  <2>2. i \in 1 .. edits[d] \/ i = edits[d] + 1
    BY <1>2
  <2>3. CASE i \in 1 .. edits[d]
    BY <1>2, <2>1, <2>3 DEF OwnTextIsKept, OwnChanges
  <2>4. CASE i = edits[d] + 1
    BY <1>2, <2>1, <2>4
  <2>5. QED
    BY <2>2, <2>3, <2>4
<1>8. ASSUME NEW x \in Device, x # d PROVE OwnChanges(x)' \subseteq snap'[x]
  BY <1>4, <1>8 DEF OwnTextIsKept, OwnChanges
<1>9. QED
  BY <1>6, <1>7, <1>8 DEF OwnTextIsKept


\* Every step keeps the inductive invariant: one case per handler.
LEMMA InvNext == IInv /\ [Next]_vars => IInv'
<1> SUFFICES ASSUME IInv, [Next]_vars PROVE IInv'
  OBVIOUS
<1> USE DEF IInv
<1>1. TypeOK' /\ LogGrows
  BY TypeNext, NextLogGrows
<1>2. ASSUME UNCHANGED <<snap, prior, last, edits>>
      PROVE  LastInv' /\ OwnTextIsKept'
  BY <1>1, <1>2, RowStable DEF LastInv, OwnTextIsKept, OwnChanges
<1>3. ASSUME UNCHANGED applied PROVE AppliedInv'
  BY <1>1, <1>3, AppliedStable DEF AppliedInv
<1>4. ASSUME UNCHANGED ring PROVE RingInv'
  BY <1>4 DEF RingInv
<1>5. ASSUME UNCHANGED <<cursor, snap, prior, last, ring, edits, applied>>
      PROVE  IInv'
  BY <1>1, <1>2, <1>3, <1>4, <1>5, CursorStable
<1>6. ASSUME NEW d \in Device, PublishDocEdit(d) PROVE IInv'
  <2>1. UNCHANGED <<cursor, ring, applied>>
    BY <1>6 DEF PublishDocEdit
  <2>2. LastInv' /\ OwnTextIsKept'
    BY <1>1, <1>6, PublishDocEditInv
  <2>3. QED
    BY <1>1, <1>3, <1>4, <2>1, <2>2, CursorStable
<1>7. ASSUME NEW d \in Device, ProposeDocVeto(d) PROVE IInv'
  <2>1. UNCHANGED <<cursor, edits, applied>>
         /\ VetoApplies(d, d, offered[d]) /\ Rollback(d, offered[d], clock)
    BY <1>7 DEF ProposeDocVeto
  <2>2. LastInv' /\ OwnTextIsKept' /\ RingInv'
    BY <1>1, <2>1, RollbackInv
  <2>3. QED
    BY <1>1, <1>3, <2>1, <2>2, CursorStable
<1>8. ASSUME NEW d \in Device, NEW a \in Device, ReceiveEdit(d, a) PROVE IInv'
  <2>1. /\ Pending(d, a) /\ NextOp(d, a).kind = "edit" /\ Advance(d, a)
        /\ SaveWithHistory(d, a, NextOp(d, a)) /\ UNCHANGED <<log, edits>>
    BY <1>8 DEF ReceiveEdit
  <2>2. LastInv' /\ AppliedInv' /\ OwnTextIsKept'
    BY <1>1, <2>1, SaveWithHistoryInv
  <2>3. CursorInv'
    BY <2>1, CursorAdvance
  <2>4. RingInv'
    <3> DEFINE e == [author |-> a, op |-> WireId(a, cursor[d][a] + 1),
                     at |-> clock]
    <3>1. e \in RingEntry /\ e.op.kind = "wire"
      BY <2>1, NextOpFacts DEF RingEntry, TypeOK, WireId
    <3>2. ring' = [ring EXCEPT ![d] = RingPush(@, e)]
      BY <1>8 DEF ReceiveEdit
    <3> HIDE DEF e
    <3>3. \A i \in 1 .. Len(RingPush(ring[d], e)) :
            \/ RingPush(ring[d], e)[i] = e
            \/ \E j \in 1 .. Len(ring[d]) : RingPush(ring[d], e)[i] = ring[d][j]
      <4>1. ring[d] \in Seq(RingEntry) /\ Len(ring[d]) <= RING_SIZE
        BY DEF TypeOK
      <4> HIDE DEF IInv
      <4>2. QED
        BY <3>1, <4>1, RingPushFacts
    <3>4. \A i \in 1 .. Len(ring'[d]) : ring'[d][i].op.kind # "local"
      BY <3>1, <3>2, <3>3 DEF RingInv, TypeOK
    <3>5. \A x \in Device : x # d => ring'[x] = ring[x]
      BY <3>2 DEF TypeOK
    <3>6. QED
      BY <3>4, <3>5 DEF RingInv
  <2>5. QED
    BY <1>1, <2>2, <2>3, <2>4
<1>9. ASSUME NEW d \in Device, NEW a \in Device, ReceiveVeto(d, a) PROVE IInv'
  <2>1. Pending(d, a) /\ Advance(d, a) /\ UNCHANGED <<log, edits, applied>>
    BY <1>9 DEF ReceiveVeto
  <2>2. CursorInv' /\ AppliedInv'
    BY <1>3, <2>1, CursorAdvance
  <2>3. CASE VetoApplies(d, a, NextOp(d, a).target)
    <3>1. Rollback(d, NextOp(d, a).target, NextOp(d, a).ts)
      BY <1>9, <2>3 DEF ReceiveVeto
    <3>2. LastInv' /\ OwnTextIsKept' /\ RingInv'
      BY <1>1, <2>1, <2>3, <3>1, RollbackInv
    <3>3. QED
      BY <1>1, <2>2, <3>2
  <2>4. CASE ~VetoApplies(d, a, NextOp(d, a).target)
    <3>1. UNCHANGED docVars
      BY <1>9, <2>4 DEF ReceiveVeto
    <3>2. QED
      BY <1>1, <1>2, <1>4, <2>1, <2>2, <3>1 DEF docVars
  <2>5. QED
    BY <2>3, <2>4
<1>10. ASSUME NEW d \in Device, NEW a \in Device, CrashBeforeSave(d, a)
       PROVE  IInv'
  <2>1. /\ Pending(d, a) /\ Advance(d, a)
        /\ UNCHANGED <<log, snap, prior, last, ring, edits, applied>>
    BY <1>10 DEF CrashBeforeSave, docVars
  <2>2. QED
    BY <1>1, <1>2, <1>3, <1>4, <2>1, CursorAdvance
<1>11. ASSUME NEW d \in Device, NEW a \in Device, CrashBeforeRingPush(d, a)
       PROVE  IInv'
  <2>1. /\ Pending(d, a) /\ NextOp(d, a).kind = "edit" /\ Advance(d, a)
        /\ SaveWithHistory(d, a, NextOp(d, a)) /\ UNCHANGED <<log, edits, ring>>
    BY <1>11 DEF CrashBeforeRingPush
  <2>2. LastInv' /\ AppliedInv' /\ OwnTextIsKept'
    BY <1>1, <2>1, SaveWithHistoryInv
  <2>3. QED
    BY <1>1, <1>4, <2>1, <2>2, CursorAdvance
<1>12. CASE Tick
  BY <1>5, <1>12 DEF Tick, docVars
<1>13. ASSUME NEW d \in Device, RenderPage(d) PROVE IInv'
  BY <1>5, <1>13 DEF RenderPage, docVars
<1>14. CASE UNCHANGED vars
  BY <1>5, <1>14 DEF vars
<1>15. QED
  <2> HIDE DEF IInv
  <2>1. QED
    BY <1>6, <1>7, <1>8, <1>9, <1>10, <1>11, <1>12, <1>13, <1>14 DEF Next

(***************************************************************************)
(* The inductive invariant of the document protocol holds in every         *)
(* reachable state.                                                        *)
(***************************************************************************)
THEOREM Invariance == Spec => []IInv
  BY InvInit, InvNext, PTL DEF Spec

(***************************************************************************)
(* No veto removes from a device the text its own user wrote               *)
(* (PublishDocEdit, apply_doc_veto, doc_rollback), for any devices, ring   *)
(* size, window and number of edits.                                       *)
(***************************************************************************)
THEOREM OwnTextSafe == Spec => []OwnTextIsKept
<1>1. IInv => OwnTextIsKept
  BY DEF IInv
<1>2. QED
  BY <1>1, Invariance, PTL

(***************************************************************************)
(* The snapshot that doc_rollback would restore differs from the current   *)
(* one by the last received edit only.                                     *)
(***************************************************************************)
THEOREM PriorCorrect == Spec => []PriorMatchesLastEdit
<1>1. IInv => PriorMatchesLastEdit
  BY DEF IInv, LastInv, LastInvOf, PriorMatchesLastEdit
<1>2. QED
  BY <1>1, Invariance, PTL

\* Under the invariant, an authorised rollback (VetoApplies) is exact.
LEMMA ExactRollback ==
  ASSUME IInv, NEW d \in Device, NEW by, NEW target, NEW ts,
         VetoApplies(d, by, target), Rollback(d, target, ts)
  PROVE  \A x \in Device : ExactAt(x)
<1> USE DEF IInv
<1>1. ring[d] \in Seq(RingEntry) /\ ring[d] # <<>>
  BY DEF TypeOK, VetoApplies, VetoAuthorised
<1>2. last[d] # NoEdit /\ Newest(ring[d]).op = last[d].op
  BY DEF VetoApplies, VetoAuthorised
<1>3. Len(ring[d]) \in 1 .. Len(ring[d])
  BY <1>1
<1>4. last[d].op.kind # "local"
  BY <1>2, <1>3 DEF RingInv, Newest
<1>5. EditRef(last[d].op) /\ snap[d] = prior[d] \cup UpdateOf(last[d].op)
  BY <1>2, <1>4 DEF LastInv, LastInvOf
<1>6. snap'[d] = prior[d] /\ ring'[d] = RingPop(ring[d])
  BY DEF Rollback, TypeOK
<1>7. ExactAt(d)
  BY <1>2, <1>5, <1>6 DEF ExactAt, EditRef
<1>8. ASSUME NEW x \in Device, x # d PROVE ExactAt(x)
  <2>1. snap'[x] = snap[x] /\ ring'[x] = ring[x]
    BY <1>8 DEF Rollback, TypeOK
  <2>2. ring[x] \in Seq(RingEntry)
    BY DEF TypeOK
  <2>3. QED
    BY <2>1, <2>2 DEF ExactAt
<1>9. QED
  BY <1>7, <1>8

\* A step that only adds text and ring entries removes nothing.
LEMMA ExactGrowth ==
  ASSUME TypeOK, NEW x \in Device, snap[x] \subseteq snap'[x],
         ring'[x] \in Seq(RingEntry), Len(ring'[x]) >= Len(ring[x])
  PROVE  ExactAt(x)
<1>1. Len(ring[x]) \in Nat /\ Len(ring'[x]) \in Nat
  BY DEF TypeOK
<1>2. QED
  BY <1>1 DEF ExactAt

\* Under the invariant, every step is exact on every device's row.
LEMMA ExactNext == IInv /\ Next => \A x \in Device : ExactAt(x)
<1> SUFFICES ASSUME IInv, Next PROVE \A x \in Device : ExactAt(x)
  OBVIOUS
<1>1. TypeOK /\ TypeOK'
  BY InvNext DEF IInv
<1>2. \A x \in Device : /\ Len(ring[x]) \in Nat
                        /\ ring'[x] \in Seq(RingEntry)
  BY <1>1 DEF TypeOK
<1>3. ASSUME UNCHANGED ring, \A x \in Device : snap[x] \subseteq snap'[x]
      PROVE  \A x \in Device : ExactAt(x)
  BY <1>1, <1>2, <1>3, ExactGrowth
<1>4. ASSUME NEW d \in Device, PublishDocEdit(d)
      PROVE  \A x \in Device : ExactAt(x)
  <2>1. UNCHANGED ring /\ \A x \in Device : snap[x] \subseteq snap'[x]
    BY <1>1, <1>4 DEF PublishDocEdit, TypeOK
  <2>2. QED
    BY <1>3, <2>1
<1>5. ASSUME NEW d \in Device, NEW a \in Device,
             SaveWithHistory(d, a, NextOp(d, a))
      PROVE  \A x \in Device : snap[x] \subseteq snap'[x]
  BY <1>1, <1>5 DEF SaveWithHistory, TypeOK
<1>6. ASSUME NEW d \in Device, NEW a \in Device, ReceiveEdit(d, a)
      PROVE  \A x \in Device : ExactAt(x)
  <2>1. Pending(d, a) /\ SaveWithHistory(d, a, NextOp(d, a))
    BY <1>6 DEF ReceiveEdit
  <2> DEFINE e == [author |-> a, op |-> WireId(a, cursor[d][a] + 1),
                   at |-> clock]
  <2>2. e \in RingEntry /\ ring' = [ring EXCEPT ![d] = RingPush(@, e)]
    BY <1>1, <1>6, <2>1, NextOpFacts DEF ReceiveEdit, RingEntry, TypeOK
  <2> HIDE DEF e
  <2>3. ring[d] \in Seq(RingEntry) /\ Len(ring[d]) <= RING_SIZE
    BY <1>1 DEF TypeOK
  <2>4. Len(RingPush(ring[d], e)) >= Len(ring[d])
    BY <2>2, <2>3, RingPushFacts
  <2>5. \A x \in Device : Len(ring'[x]) >= Len(ring[x])
    BY <1>1, <1>2, <2>2, <2>4 DEF TypeOK
  <2>6. QED
    BY <1>1, <1>2, <1>5, <2>1, <2>5, ExactGrowth
<1>7. ASSUME NEW d \in Device, NEW a \in Device, CrashBeforeRingPush(d, a)
      PROVE  \A x \in Device : ExactAt(x)
  BY <1>3, <1>5, <1>7 DEF CrashBeforeRingPush
<1>8. ASSUME NEW d \in Device, NEW a \in Device, ReceiveVeto(d, a)
      PROVE  \A x \in Device : ExactAt(x)
  <2>1. CASE VetoApplies(d, a, NextOp(d, a).target)
    BY <1>8, <2>1, ExactRollback DEF ReceiveVeto
  <2>2. CASE ~VetoApplies(d, a, NextOp(d, a).target)
    BY <1>3, <1>8, <2>2 DEF ReceiveVeto, docVars
  <2>3. QED
    BY <2>1, <2>2
<1>9. ASSUME NEW d \in Device, ProposeDocVeto(d)
      PROVE  \A x \in Device : ExactAt(x)
  BY <1>9, ExactRollback DEF ProposeDocVeto
<1>10. ASSUME UNCHANGED docVars PROVE \A x \in Device : ExactAt(x)
  BY <1>3, <1>10 DEF docVars
<1>11. QED
  BY <1>4, <1>6, <1>7, <1>8, <1>9, <1>10
     DEF Next, Tick, RenderPage, CrashBeforeSave

(***************************************************************************)
(* Every rollback is exact, for any devices, ring size and window, crashes *)
(* between the row and the ring included.                                  *)
(***************************************************************************)
THEOREM RollbackExact == Spec => RollbackIsExact
<1>1. IInv /\ [Next]_vars => [\A d \in Device : ExactAt(d)]_vars
  BY ExactNext
<1>2. QED
  BY <1>1, Invariance, PTL DEF Spec, RollbackIsExact
(***************************************************************************)
(* Everything that was applied to a device's document.                     *)
(***************************************************************************)
Landed(d) == OwnChanges(d) \cup UNION {UpdateOf(id) : id \in applied[d]}
UnionAt(d) == honoured[d] = {} => snap[d] \ {Seed(d)} = Landed(d) \ {Seed(d)}
UnionEverywhere == \A d \in Device : UnionAt(d)

\* While logs grow and nothing is applied, the union of what landed is the same.
LEMMA LandedStable ==
  ASSUME TypeOK, LogGrows, AppliedInv, NEW d \in Device,
         edits'[d] = edits[d], applied'[d] = applied[d]
  PROVE  Landed(d)' = Landed(d)
<1>1. \A id \in applied[d] : UpdateOf(id)' = UpdateOf(id)
  BY EditRefStable DEF AppliedInv, TypeOK
<1>2. QED
  BY <1>1 DEF Landed, OwnChanges

\* A row that is left alone stays the union of its edits.
LEMMA UnionKept ==
  ASSUME TypeOK, LogGrows, AppliedInv, NEW d \in Device, UnionAt(d),
         edits'[d] = edits[d], applied'[d] = applied[d], snap'[d] = snap[d],
         honoured'[d] = honoured[d]
  PROVE  UnionAt(d)'
<1>1. Landed(d)' = Landed(d)
  BY LandedStable
<1>2. QED
  BY <1>1 DEF UnionAt, Seed

\* An own edit adds its change to the row and to what landed.
LEMMA UnionPublish ==
  ASSUME TypeOK, LogGrows, AppliedInv, NEW d \in Device, UnionAt(d), PublishDocEdit(d)
  PROVE  UnionAt(d)'
<1> DEFINE change == [by |-> d, n |-> edits[d] + 1]
<1>1. /\ snap'[d] = snap[d] \cup {change} /\ edits'[d] = edits[d] + 1
      /\ applied' = applied /\ honoured' = honoured
  BY DEF PublishDocEdit, TypeOK
<1>2. edits[d] \in Nat
  BY DEF TypeOK
<1>3. 1 .. edits'[d] = (1 .. edits[d]) \cup {edits[d] + 1}
  BY <1>1, <1>2
<1>4. OwnChanges(d)' = OwnChanges(d) \cup {change}
  BY <1>3 DEF OwnChanges
<1>5. \A id \in applied[d] : UpdateOf(id)' = UpdateOf(id)
  BY EditRefStable DEF AppliedInv, TypeOK
<1>6. Landed(d)' = Landed(d) \cup {change}
  BY <1>1, <1>4, <1>5 DEF Landed
<1>7. QED
  BY <1>1, <1>6 DEF UnionAt, Seed

\* A received edit adds its update to both.
LEMMA UnionSave ==
  ASSUME TypeOK, LogGrows, AppliedInv, NEW d \in Device, NEW a \in Device, UnionAt(d),
         Pending(d, a), NextOp(d, a).kind = "edit", SaveWithHistory(d, a, NextOp(d, a)),
         UNCHANGED <<log, edits, honoured>>
  PROVE  UnionAt(d)'
<1> DEFINE id == WireId(a, cursor[d][a] + 1)
<1>1. EditRef(id) /\ UpdateOf(id) = NextOp(d, a).update /\ id \in OpId
  BY NextOpFacts
<1>2. snap'[d] = snap[d] \cup UpdateOf(id) /\ applied'[d] = applied[d] \cup {id}
  BY <1>1 DEF SaveWithHistory, TypeOK
<1> HIDE DEF id
<1>3. \A i : UpdateOf(i)' = UpdateOf(i)
  BY DEF UpdateOf, OpAt
<1>4. OwnChanges(d)' = OwnChanges(d)
  BY DEF OwnChanges
<1>5. Landed(d)' = Landed(d) \cup UpdateOf(id)
  BY <1>2, <1>3, <1>4 DEF Landed
<1>6. QED
  BY <1>2, <1>5 DEF UnionAt, Seed

\* A rollback is remembered, so nothing is claimed of the row any more.
LEMMA UnionRollback ==
  ASSUME TypeOK, NEW d \in Device, NEW target, NEW ts, Rollback(d, target, ts)
  PROVE  honoured'[d] # {}
  BY DEF Rollback, TypeOK

LEMMA UnionNext ==
  ASSUME IInv, IInv', [Next]_vars, NEW x \in Device, UnionAt(x)
  PROVE  UnionAt(x)'
<1> USE DEF IInv
<1>1. LogGrows
  BY NextLogGrows
<1>2. ASSUME edits'[x] = edits[x], applied'[x] = applied[x], snap'[x] = snap[x],
             honoured'[x] = honoured[x]
      PROVE  UnionAt(x)'
  BY <1>1, <1>2, UnionKept
<1>3. ASSUME NEW d \in Device, PublishDocEdit(d) PROVE UnionAt(x)'
  <2>1. CASE d = x
    BY <1>1, <1>3, <2>1, UnionPublish
  <2>2. CASE d # x
    BY <1>2, <1>3, <2>2 DEF PublishDocEdit, TypeOK
  <2>3. QED
    BY <2>1, <2>2
<1>4. ASSUME NEW d \in Device, NEW a \in Device, Pending(d, a),
             NextOp(d, a).kind = "edit", SaveWithHistory(d, a, NextOp(d, a)),
             UNCHANGED <<log, edits, honoured>>
      PROVE  UnionAt(x)'
  <2>1. CASE d = x
    BY <1>1, <1>4, <2>1, UnionSave
  <2>2. CASE d # x
    BY <1>2, <1>4, <2>2 DEF SaveWithHistory, TypeOK
  <2>3. QED
    BY <2>1, <2>2
<1>5. ASSUME NEW d \in Device, NEW target, NEW ts, Rollback(d, target, ts),
             UNCHANGED <<edits, applied>>
      PROVE  UnionAt(x)'
  <2>1. CASE d = x
    BY <1>5, <2>1, UnionRollback DEF UnionAt
  <2>2. CASE d # x
    BY <1>2, <1>5, <2>2 DEF Rollback, TypeOK
  <2>3. QED
    BY <2>1, <2>2
<1>6. ASSUME UNCHANGED <<edits, applied, snap, honoured>> PROVE UnionAt(x)'
  BY <1>2, <1>6
<1>7. ASSUME NEW d \in Device, NEW a \in Device, ReceiveVeto(d, a) PROVE UnionAt(x)'
  <2>1. CASE VetoApplies(d, a, NextOp(d, a).target)
    BY <1>5, <1>7, <2>1 DEF ReceiveVeto
  <2>2. CASE ~VetoApplies(d, a, NextOp(d, a).target)
    BY <1>6, <1>7, <2>2 DEF ReceiveVeto, docVars
  <2>3. QED
    BY <2>1, <2>2
<1>8. ASSUME NEW d \in Device, ProposeDocVeto(d) PROVE UnionAt(x)'
  BY <1>5, <1>8 DEF ProposeDocVeto
<1>9. ASSUME NEW d \in Device, NEW a \in Device,
             ReceiveEdit(d, a) \/ CrashBeforeRingPush(d, a)
      PROVE  UnionAt(x)'
  BY <1>4, <1>9 DEF ReceiveEdit, CrashBeforeRingPush
<1>10. ASSUME NEW d \in Device, NEW a \in Device,
              Tick \/ RenderPage(d) \/ CrashBeforeSave(d, a)
       PROVE  UnionAt(x)'
  BY <1>6, <1>10 DEF Tick, RenderPage, CrashBeforeSave, docVars
<1>11. CASE UNCHANGED vars
  BY <1>6, <1>11 DEF vars, docVars
<1>12. QED
  <2> HIDE DEF IInv
  <2>1. QED
    BY <1>3, <1>7, <1>8, <1>9, <1>10, <1>11 DEF Next

(***************************************************************************)
(* A document no veto has rolled back is the union of the edits applied to *)
(* it (publish_local's all_updates and the import in apply_doc_edit), in   *)
(* whatever order they came and whatever was lost in crashes.              *)
(***************************************************************************)
THEOREM DocIsUnion == Spec => []DocIsUnionOfAppliedEdits
<1>1. Init => UnionEverywhere
  <2> SUFFICES ASSUME Init PROVE \A d \in Device : UnionAt(d)
    BY DEF UnionEverywhere
  <2> TAKE d \in Device
  <2>1. OwnChanges(d) = {}
    <3>1. 1 .. edits[d] = {}
      BY DEF Init
    <3>2. QED
      BY <3>1 DEF OwnChanges
  <2>2. snap[d] \subseteq {Seed(d)} /\ applied[d] = {}
    BY DEF Init
  <2>3. QED
    BY <2>1, <2>2 DEF UnionAt, Landed
<1>2. IInv /\ IInv' /\ UnionEverywhere /\ [Next]_vars => UnionEverywhere'
  BY UnionNext DEF UnionEverywhere
<1>3. UnionEverywhere => DocIsUnionOfAppliedEdits
  BY DEF UnionEverywhere, UnionAt, Landed, DocIsUnionOfAppliedEdits
<1>4. QED
  BY <1>1, <1>2, <1>3, Invariance, PTL DEF Spec
=============================================================================
