----------------------------- MODULE FeedProofs -----------------------------
(***************************************************************************)
(* Proofs about Feed, for any authors, texts, operations, readings handed  *)
(* over and at the start, and any number of events: the bell is right, the *)
(* tables are those of the applied events, a revoked reading leaves the    *)
(* lists, an authored one reaches them, and the cards are the backlog.     *)
(*                                                                         *)
(* The feed component lags behind the update loop by its mailbox and by    *)
(* what the backfill holds.  The argument is about Coming, the items the   *)
(* backlog will have when both are drained: a card pushed, replayed or     *)
(* drained changes nothing there but what the sender meant, because two    *)
(* items with the same id are the same item (Stable).                      *)
(***************************************************************************)
EXTENDS Feed, SequenceTheorems, FiniteSetTheorems, FunctionTheorems, TLAPS

(***************************************************************************)
(* What is sent                                                            *)
(***************************************************************************)
Hash == {op.hash : op \in Ops}
Target == {op.body.target : op \in Ops}
EventId ==
  ({"op", "block"} \X Hash) \cup ({"log"} \X LogIds) \cup ({"affirm"} \X LogIds \X Author)
    \cup ({"transit"} \X Transits) \cup ({"rolled_back"} \X Target \X Author)
FeedItem == [id : EventId, cat : {"personal", "community"}, log : LogIds \cup {NoParent}]
Message ==
  [type : {"push"}, item : FeedItem] \cup [type : {"reset"}, items : SUBSET FeedItem]
    \cup [type : {"read"}, id : EventId]

Carries(m) == IF m.type = "push" THEN {m.item} ELSE IF m.type = "reset" THEN m.items ELSE {}

OutMessage ==
  [type : {"revoke"}, log : LogIds] \cup [type : {"set"}, id : EventId, read : BOOLEAN]
    \cup [type : {"activate"}, id : EventId]

\* Position k of mailbox v counts when no later message replaces the backlog.
Counts(v, k) == \A j \in 1 .. Len(v) : j > k => v[j].type # "reset"

\* The backlog a with mailbox v when the mailbox is drained.
Drained(a, v) ==
  (IF Counts(v, 0) THEN a ELSE {}) \cup UNION {Carries(v[k]) : k \in {j \in 1 .. Len(v) : Counts(v, j)}}

Coming == Drained(all, view) \cup held

(***************************************************************************)
(* The inductive invariant                                                 *)
(***************************************************************************)
StoreOK(s) ==
  /\ s = [rows |-> s.rows, affirmed |-> s.affirmed, read |-> s.read, muted |-> s.muted,
          name |-> s.name]
  /\ s.rows \subseteq Row /\ IsFiniteSet(s.rows)
  /\ \A r, t \in s.rows : r.log = t.log => r = t
  /\ s.affirmed \subseteq LogIds \X Author /\ IsFiniteSet(s.affirmed)
  /\ s.muted \subseteq Author
  /\ s.name \in [Author -> Nat \cup {NoName}]

QueuesOK ==
  /\ view \in Seq(Message)
  /\ all \subseteq FeedItem
  /\ pending \subseteq FeedItem /\ IsFiniteSet(pending)
  /\ held \subseteq FeedItem /\ IsFiniteSet(held)
  /\ \A i \in pending : i.log = NoParent

CardsOK ==
  /\ cards \subseteq [id : EventId, read : BOOLEAN]
  /\ outbox \in Seq(OutMessage)

\* Before the mount nothing reaches the feed; the backfill holds rows between its
\* read and its replay only.
MountOK ==
  /\ mounted <=> backfill # "idle"
  /\ backfill \in {"idle", "reading", "read", "done"}
  /\ ~mounted => view = <<>> /\ all = {}
  /\ backfill # "read" => held = {}

\* What the card of an operation, or of a row, can be revoked as.
OpLog(op) == IF op.body # NoBody /\ op.body.variant = "Author" THEN LogId(KEY, op.body.text)
             ELSE NoParent
RowLog(r) == IF r.parent = NoParent THEN r.log ELSE NoParent

\* An item is determined by its id: the op and the row it names are unique, and a row
\* never goes away or changes its parent.
StableIn(i, rows) ==
  /\ i.cat = IF i.id[1] = "transit" THEN "personal" ELSE "community"
  /\ i.id[1] = "op" => \E op \in Ops : i.id = <<"op", op.hash>> /\ i.log = OpLog(op)
  /\ i.id[1] = "log" => \E r \in rows : i.id = LogEvent(r.log) /\ i.log = RowLog(r)
  /\ i.id[1] \notin {"op", "log"} => i.log = NoParent

AllStable ==
  /\ \A i \in all \cup held \cup pending : StableIn(i, db.rows)
  /\ \A k \in 1 .. Len(view) : \A i \in Carries(view[k]) : StableIn(i, db.rows)

LiveIn(i, rows) == i.log # NoParent => \E r \in rows : r.log = i.log /\ ~r.revoked
Wanted(r) ==
  /\ r.parent = NoParent /\ ~r.revoked
  /\ \A o \in applied : o.type = "Import" => LogId(KEY, o.text) # r.log

NoneRevoked == ~raced => \A i \in Coming : LiveIn(i, db.rows)
NoneMissing ==
  backfill \in {"read", "done"} => \A r \in db.rows : Wanted(r) => \E i \in Coming : i.log = r.log

\* The name on record is the newest of its author's.
StampsOf(a) == {e.ts : e \in {x \in OfType(applied, {"DisplayNameSet"}) : x.by = a}}
NamesOK ==
  \A a \in Author :
    /\ StampsOf(a) \subseteq Nat
    /\ IF StampsOf(a) = {} THEN db.name[a] = NoName
       ELSE db.name[a] \in StampsOf(a) /\ \A u \in StampsOf(a) : u <= db.name[a]

TypeInv == TypeOK /\ StoreOK(db)
QueueInv == QueuesOK /\ CardsOK /\ MountOK /\ AllStable

(***************************************************************************)
(* What an operation becomes                                               *)
(***************************************************************************)
LEMMA EventFacts ==
  ASSUME NEW op \in Ops, NEW n \in Nat, NEW e, e = StateEventOf(op, n)
  PROVE  /\ e.type = "InterpAuthored" =>
              /\ e.by \in Author /\ e.text \in Text /\ e.id = op.hash
              /\ OpLog(op) = LogId(KEY, e.text)
         /\ e.type = "AffirmAdded" => e.by \in Author /\ e.log \in LogIds
         /\ e.type = "ResponseAdded" =>
              /\ e.by \in Author /\ e.log \in LogIds /\ e.text \in Text /\ e.id = op.hash
              /\ OpLog(op) = NoParent
         /\ e.type = "InterpRevoked" => e.by \in Author /\ e.log \in LogIds
         /\ e.type = "DisplayNameSet" => e.by \in Author /\ e.ts \in Nat
         /\ e.type \in {"DocEdited", "DocAffirmed", "EditorPresenceChanged"} =>
              e.id = op.hash /\ OpLog(op) = NoParent
         /\ e.type = "DocVetoProposed" => e.by \in Author /\ e.target \in Target
<1>1. WellFormed(op)
  BY FeedAssumption
<1>2. ASSUME op.body = NoBody
      PROVE  e.type = "Skipped"
  <2>1. op.ext.type = "interp"
    BY <1>1, <1>2 DEF WellFormed
  <2>2. e = Skipped("no_body")
    BY <1>2, <2>1 DEF StateEventOf, Materialize, Decode
  <2>3. QED
    BY <2>2 DEF Skipped
<1>3. DecodeBody(op.body) = IF op.body.variant \in InterpVariants THEN "interp"
                            ELSE IF op.body.variant \in DocVariants THEN "doc" ELSE "malformed"
  <2>1. ~(op.body.variant \in InterpVariants /\ op.body.variant \in DocVariants)
    BY DEF InterpVariants, DocVariants
  <2>2. QED
    BY <2>1 DEF DecodeBody
<1>4. ASSUME op.body # NoBody
      PROVE  \E ts \in Nat \cup {NoStamp} :
               /\ op.body.variant = "SetDisplayName" => ts \in Nat
               /\ e = IF op.body.variant \in InterpVariants
                      THEN MaterializeInterp(op.hash, op.by, ts, op.body)
                      ELSE IF op.body.variant \in DocVariants
                      THEN MaterializeDoc(op.hash, op.by, ts, op.body)
                      ELSE Skipped("malformed")
  <2>1. CASE op.ext.type = "circle"
    <3>1. e = MaterializeCircleContent(op.hash, op.by, n, op.body)
      BY <2>1 DEF StateEventOf
    <3>2. e = IF op.body.variant \in InterpVariants
              THEN MaterializeInterp(op.hash, op.by, n, op.body)
              ELSE IF op.body.variant \in DocVariants
              THEN MaterializeDoc(op.hash, op.by, n, op.body)
              ELSE Skipped("malformed")
      BY <1>3, <3>1 DEF MaterializeCircleContent
    <3>3. QED
      BY <3>2
  <2>2. CASE op.ext.type # "circle"
    <3>1. e = Materialize(op) /\ Timestamp(op) \in Nat
      BY <1>1, <2>2 DEF StateEventOf, WellFormed, Timestamp
    <3>2. Decode(op) = DecodeBody(op.body)
      BY <1>4 DEF Decode
    <3>3. e = IF op.body.variant \in InterpVariants
              THEN MaterializeInterp(op.hash, op.by, Timestamp(op), op.body)
              ELSE IF op.body.variant \in DocVariants
              THEN MaterializeDoc(op.hash, op.by, Timestamp(op), op.body)
              ELSE Skipped("malformed")
      BY <1>3, <3>1, <3>2 DEF Materialize
    <3>4. QED
      BY <3>1, <3>3
  <2>3. QED
    BY <2>1, <2>2
<1>5. ASSUME op.body # NoBody,
             NEW ts \in Nat \cup {NoStamp}, op.body.variant = "SetDisplayName" => ts \in Nat,
             op.body.variant \in InterpVariants,
             e = MaterializeInterp(op.hash, op.by, ts, op.body)
      PROVE  \/ /\ e.type = "InterpAuthored" /\ e.by \in Author /\ e.text \in Text
                /\ e.id = op.hash /\ OpLog(op) = LogId(KEY, e.text)
             \/ e.type = "AffirmAdded" /\ e.by \in Author /\ e.log \in LogIds
             \/ /\ e.type = "ResponseAdded" /\ e.by \in Author /\ e.log \in LogIds
                /\ e.text \in Text /\ e.id = op.hash /\ OpLog(op) = NoParent
             \/ e.type = "InterpRevoked" /\ e.by \in Author /\ e.log \in LogIds
             \/ e.type = "DisplayNameSet" /\ e.by \in Author /\ e.ts \in Nat
             \/ e.type \in {"CircleInviteReceived", "CircleMemberJoined"}
  <2>1. /\ op.by \in Author
        /\ op.body.variant \in {"Author", "RespondTo"} => op.body.text \in Text
        /\ op.body.variant \in {"Affirm", "RespondTo", "Revoke"} => op.body.log \in LogIds
    BY <1>1, <1>5 DEF WellFormed
  <2>2. CASE op.body.variant = "Author"
    BY <1>5, <2>1, <2>2 DEF MaterializeInterp, OpLog
  <2>3. CASE op.body.variant = "Affirm"
    BY <1>5, <2>1, <2>3 DEF MaterializeInterp
  <2>4. CASE op.body.variant = "RespondTo"
    BY <1>5, <2>1, <2>4 DEF MaterializeInterp, OpLog
  <2>5. CASE op.body.variant = "Revoke"
    BY <1>5, <2>1, <2>5 DEF MaterializeInterp
  <2>6. CASE op.body.variant = "SetDisplayName"
    BY <1>5, <2>1, <2>6 DEF MaterializeInterp
  <2>7. CASE op.body.variant = "CircleInviteNotify"
    BY <1>5, <2>7 DEF MaterializeInterp
  <2>8. CASE op.body.variant = "CircleJoinNotify"
    BY <1>5, <2>8 DEF MaterializeInterp
  <2>9. QED
    BY <1>5, <2>2, <2>3, <2>4, <2>5, <2>6, <2>7, <2>8 DEF InterpVariants
<1>6. ASSUME op.body # NoBody,
             NEW ts, op.body.variant \in DocVariants,
             e = MaterializeDoc(op.hash, op.by, ts, op.body)
      PROVE  \/ /\ e.type \in {"DocEdited", "DocAffirmed", "EditorPresenceChanged"}
                /\ e.id = op.hash /\ OpLog(op) = NoParent
             \/ e.type = "DocVetoProposed" /\ e.by \in Author /\ e.target \in Target
             \/ e.type = "DocAffirmRetracted"
  <2>1. op.by \in Author /\ op.body.target \in Target
    BY <1>1 DEF WellFormed, Target
  <2>2. OpLog(op) = NoParent
    BY <1>6 DEF OpLog, DocVariants
  <2>3. QED
    BY <1>6, <2>1, <2>2 DEF MaterializeDoc, DocVariants
<1>7. QED
  <2>1. CASE op.body = NoBody
    BY <1>2, <2>1
  <2>2. CASE op.body # NoBody
    <3>1. PICK ts \in Nat \cup {NoStamp} :
               /\ op.body.variant = "SetDisplayName" => ts \in Nat
               /\ e = IF op.body.variant \in InterpVariants
                      THEN MaterializeInterp(op.hash, op.by, ts, op.body)
                      ELSE IF op.body.variant \in DocVariants
                      THEN MaterializeDoc(op.hash, op.by, ts, op.body)
                      ELSE Skipped("malformed")
      BY <1>4, <2>2
    <3>2. CASE op.body.variant \in InterpVariants
      BY <1>5, <2>2, <3>1, <3>2
    <3>3. CASE op.body.variant \notin InterpVariants /\ op.body.variant \in DocVariants
      BY <1>6, <2>2, <3>1, <3>3
    <3>4. CASE op.body.variant \notin InterpVariants \cup DocVariants
      BY <3>1, <3>4 DEF Skipped
    <3>5. QED
      BY <3>2, <3>3, <3>4
  <2>3. QED
    BY <2>1, <2>2

(***************************************************************************)
(* Sets as sequences, images of finite sets, and mailboxes                 *)
(***************************************************************************)
\* SetToSeq enumerates a finite set.
LEMMA SetToSeqIsOnto ==
  ASSUME NEW S, IsFiniteSet(S)
  PROVE  /\ SetToSeq(S) \in Seq(S)
         /\ \A x \in S : \E k \in 1 .. Len(SetToSeq(S)) : SetToSeq(S)[k] = x
<1> DEFINE n == Cardinality(S)
           q == SetToSeq(S)
<1>1. n \in Nat /\ ExistsBijection(1 .. n, S)
  BY FS_CardinalityType
<1>2. \E f \in [1 .. n -> S] : IsInjective(f)
  BY <1>1 DEF ExistsBijection, Bijection, Injection
<1>3. q \in [1 .. n -> S] /\ IsInjective(q)
  BY <1>2 DEF SetToSeq
<1>4. q \in Injection(1 .. n, S)
  BY <1>3 DEF Injection
<1>5. IsFiniteSet(1 .. n) /\ Cardinality(1 .. n) = n
  BY <1>1, FS_Interval
<1>6. q \in Surjection(1 .. n, S)
  BY <1>4, <1>5, FS_Injection
<1>7. q \in Seq(S) /\ Len(q) = n
  BY <1>1, <1>3
<1>8. QED
  BY <1>6, <1>7 DEF Surjection

\* No message of q replaces the backlog.
NoReset(q) == \A k \in 1 .. Len(q) : q[k].type # "reset"

LEMMA DrainedEmpty == \A a : Drained(a, <<>>) = a
  BY DEF Drained, Counts

LEMMA InDrained ==
  ASSUME NEW a, NEW v, NEW i
  PROVE  i \in Drained(a, v) <=>
           \/ Counts(v, 0) /\ i \in a
           \/ \E k \in 1 .. Len(v) : Counts(v, k) /\ i \in Carries(v[k])
  BY DEF Drained

\* Messages that replace nothing add what they carry.
LEMMA DrainedConcat ==
  ASSUME NEW a, NEW v \in Seq(Message), NEW w \in Seq(Message), NoReset(w), NEW i
  PROVE  i \in Drained(a, v \o w) <=>
           i \in Drained(a, v) \/ \E k \in 1 .. Len(w) : i \in Carries(w[k])
<1> DEFINE u == v \o w
<1>1. /\ u \in Seq(Message) /\ Len(u) = Len(v) + Len(w) /\ Len(v) \in Nat /\ Len(w) \in Nat
      /\ \A k \in 1 .. Len(u) : u[k] = IF k <= Len(v) THEN v[k] ELSE w[k - Len(v)]
  BY ConcatProperties, LenProperties
<1> HIDE DEF u
<1>2. ASSUME NEW k \in 0 .. Len(v)
      PROVE  Counts(u, k) <=> Counts(v, k)
  <2>1. \A j \in 1 .. Len(v) : j \in 1 .. Len(u) /\ u[j] = v[j]
    BY <1>1
  <2>2. \A j \in 1 .. Len(u) : j <= Len(v) \/ u[j].type # "reset"
    <3> SUFFICES ASSUME NEW j \in 1 .. Len(u), j > Len(v)
                 PROVE  u[j].type # "reset"
      BY <1>1
    <3>1. j - Len(v) \in 1 .. Len(w) /\ u[j] = w[j - Len(v)]
      BY <1>1
    <3>2. QED
      BY <3>1 DEF NoReset
  <2>3. QED
    BY <1>1, <2>1, <2>2 DEF Counts
<1>3. ASSUME NEW k \in 1 .. Len(w)
      PROVE  Counts(u, k + Len(v)) /\ k + Len(v) \in 1 .. Len(u) /\ u[k + Len(v)] = w[k]
  <2>1. ASSUME NEW j \in 1 .. Len(u), j > k + Len(v)
        PROVE  u[j].type # "reset"
    <3>1. j - Len(v) \in 1 .. Len(w) /\ u[j] = w[j - Len(v)]
      BY <1>1, <2>1
    <3>2. QED
      BY <3>1 DEF NoReset
  <2>2. k + Len(v) \in 1 .. Len(u) /\ (k + Len(v)) - Len(v) = k /\ ~(k + Len(v) <= Len(v))
    BY <1>1
  <2>3. u[k + Len(v)] = w[k]
    BY <1>1, <2>2
  <2>4. QED
    BY <2>1, <2>2, <2>3 DEF Counts
<1>4. ASSUME i \in Drained(a, u)
      PROVE  i \in Drained(a, v) \/ \E k \in 1 .. Len(w) : i \in Carries(w[k])
  <2>1. CASE Counts(u, 0) /\ i \in a
    <3>1. Counts(v, 0)
      BY <1>1, <1>2, <2>1
    <3>2. QED
      BY <2>1, <3>1, InDrained
  <2>2. ASSUME NEW k \in 1 .. Len(u), Counts(u, k), i \in Carries(u[k])
        PROVE  i \in Drained(a, v) \/ \E j \in 1 .. Len(w) : i \in Carries(w[j])
    <3>1. CASE k <= Len(v)
      <4>1. k \in 1 .. Len(v) /\ u[k] = v[k] /\ Counts(v, k)
        BY <1>1, <1>2, <2>2, <3>1
      <4>2. QED
        BY <2>2, <4>1, InDrained
    <3>2. CASE k > Len(v)
      <4>1. k - Len(v) \in 1 .. Len(w) /\ u[k] = w[k - Len(v)]
        BY <1>1, <3>2
      <4>2. QED
        BY <2>2, <4>1
    <3>3. QED
      BY <1>1, <3>1, <3>2
  <2>3. QED
    BY <1>4, <2>1, <2>2, InDrained
<1>5. ASSUME i \in Drained(a, v)
      PROVE  i \in Drained(a, u)
  <2>1. CASE Counts(v, 0) /\ i \in a
    <3>1. Counts(u, 0)
      BY <1>1, <1>2, <2>1
    <3>2. QED
      BY <2>1, <3>1, InDrained
  <2>2. ASSUME NEW k \in 1 .. Len(v), Counts(v, k), i \in Carries(v[k])
        PROVE  i \in Drained(a, u)
    <3>1. k \in 1 .. Len(u) /\ u[k] = v[k] /\ Counts(u, k)
      BY <1>1, <1>2, <2>2
    <3>2. QED
      BY <2>2, <3>1, InDrained
  <2>3. QED
    BY <1>5, <2>1, <2>2, InDrained
<1>6. ASSUME NEW k \in 1 .. Len(w), i \in Carries(w[k])
      PROVE  i \in Drained(a, u)
  BY <1>3, <1>6, InDrained
<1>7. QED
  BY <1>4, <1>5, <1>6 DEF u

\* A reset, sent last, decides the backlog.
LEMMA DrainedReset ==
  ASSUME NEW a, NEW v \in Seq(Message), NEW x \in SUBSET FeedItem
  PROVE  /\ Append(v, Reset(x)) \in Seq(Message)
         /\ v \o <<Reset(x)>> = Append(v, Reset(x))
         /\ Drained(a, Append(v, Reset(x))) = x
<1> DEFINE u == Append(v, Reset(x))
<1>1. Reset(x) \in Message
  BY DEF Reset, Message
<1>2. /\ u \in Seq(Message) /\ Len(u) = Len(v) + 1 /\ Len(v) \in Nat
      /\ u[Len(u)] = Reset(x)
  BY <1>1, AppendProperties, LenProperties
<1>3. v \o <<Reset(x)>> = u
  BY <1>1, AppendIsConcat
<1> HIDE DEF u
<1>4. \A k \in 0 .. Len(u) : Counts(u, k) <=> k = Len(u)
  <2>1. u[Len(u)].type = "reset" /\ Len(u) \in 1 .. Len(u)
    BY <1>2 DEF Reset
  <2>2. QED
    BY <1>2, <2>1 DEF Counts
<1>5. Carries(u[Len(u)]) = x
  BY <1>2 DEF Carries, Reset
<1>6. \A i : i \in Drained(a, u) <=> i \in x
  <2> TAKE i
  <2>1. ~Counts(u, 0)
    BY <1>2, <1>4
  <2>2. \A k \in 1 .. Len(u) : Counts(u, k) <=> k = Len(u)
    BY <1>2, <1>4
  <2>3. Len(u) \in 1 .. Len(u)
    BY <1>2
  <2>4. QED
    BY <1>5, <2>1, <2>2, <2>3, InDrained
<1>7. QED
  BY <1>2, <1>3, <1>6 DEF u

\* What the backlog is after the head message.
Taken(a, m) == IF m.type = "push" THEN a \cup {m.item} ELSE IF m.type = "reset" THEN m.items ELSE a

LEMMA DrainedTail ==
  ASSUME NEW a, NEW v \in Seq(Message), v # <<>>
  PROVE  Drained(Taken(a, Head(v)), Tail(v)) = Drained(a, v)
<1> DEFINE m == Head(v)
           t == Tail(v)
<1>1. /\ t \in Seq(Message) /\ Len(t) = Len(v) - 1 /\ Len(v) \in Nat /\ Len(v) > 0
      /\ m = v[1] /\ \A k \in 1 .. Len(t) : t[k] = v[k + 1]
  BY HeadTailProperties, LenProperties, EmptySeq
<1> HIDE DEF m, t
<1>2. \A k \in 0 .. Len(t) : Counts(t, k) <=> Counts(v, k + 1)
  <2> SUFFICES ASSUME NEW k \in 0 .. Len(t)
               PROVE  Counts(t, k) <=> Counts(v, k + 1)
    OBVIOUS
  <2>1. ASSUME Counts(t, k), NEW j \in 1 .. Len(v), j > k + 1
        PROVE  v[j].type # "reset"
    <3>1. j - 1 \in 1 .. Len(t) /\ j - 1 > k /\ (j - 1) + 1 = j
      BY <1>1, <2>1
    <3>2. t[j - 1] = v[j]
      BY <1>1, <3>1
    <3>3. QED
      BY <2>1, <3>1, <3>2 DEF Counts
  <2>2. ASSUME Counts(v, k + 1), NEW j \in 1 .. Len(t), j > k
        PROVE  t[j].type # "reset"
    <3>1. j + 1 \in 1 .. Len(v) /\ j + 1 > k + 1 /\ t[j] = v[j + 1]
      BY <1>1, <2>2
    <3>2. QED
      BY <2>2, <3>1 DEF Counts
  <2>3. QED
    BY <2>1, <2>2 DEF Counts
<1>3. Counts(v, 0) <=> m.type # "reset" /\ Counts(t, 0)
  <2>1. Counts(t, 0) <=> Counts(v, 1)
    BY <1>1, <1>2
  <2>2. Counts(v, 0) <=> m.type # "reset" /\ Counts(v, 1)
    BY <1>1 DEF Counts
  <2>3. QED
    BY <2>1, <2>2
<1>4. ASSUME NEW i
      PROVE  i \in Drained(Taken(a, m), t) <=> i \in Drained(a, v)
  <2>1. i \in Drained(a, v) <=>
          \/ Counts(v, 0) /\ i \in a
          \/ Counts(t, 0) /\ i \in Carries(m)
          \/ \E k \in 1 .. Len(t) : Counts(t, k) /\ i \in Carries(t[k])
    <3>1. (\E k \in 1 .. Len(v) : Counts(v, k) /\ i \in Carries(v[k])) <=>
            \/ Counts(v, 1) /\ i \in Carries(m)
            \/ \E k \in 1 .. Len(t) : Counts(v, k + 1) /\ i \in Carries(v[k + 1])
      <4>1. ASSUME NEW k \in 1 .. Len(v), Counts(v, k), i \in Carries(v[k]), k # 1
            PROVE  \E j \in 1 .. Len(t) : Counts(v, j + 1) /\ i \in Carries(v[j + 1])
        <5>1. k - 1 \in 1 .. Len(t) /\ (k - 1) + 1 = k
          BY <1>1, <4>1
        <5>2. QED
          BY <4>1, <5>1
      <4>2. 1 \in 1 .. Len(v) /\ \A j \in 1 .. Len(t) : j + 1 \in 1 .. Len(v)
        BY <1>1
      <4>3. QED
        BY <1>1, <4>1, <4>2
    <3>2. \A k \in 1 .. Len(t) : (Counts(t, k) <=> Counts(v, k + 1)) /\ t[k] = v[k + 1]
      BY <1>1, <1>2
    <3>3. Counts(t, 0) <=> Counts(v, 1)
      BY <1>1, <1>2
    <3>4. QED
      BY <3>1, <3>2, <3>3, InDrained
  <2>2. i \in Drained(Taken(a, m), t) <=>
          \/ Counts(t, 0) /\ i \in Taken(a, m)
          \/ \E k \in 1 .. Len(t) : Counts(t, k) /\ i \in Carries(t[k])
    BY InDrained
  <2>3. i \in Taken(a, m) <=> (m.type # "reset" /\ i \in a) \/ i \in Carries(m)
    BY DEF Taken, Carries
  <2>4. QED
    BY <1>3, <2>1, <2>2, <2>3
<1>5. QED
  BY <1>4 DEF m, t

(***************************************************************************)
(* The statements of the store                                             *)
(***************************************************************************)
OnlyRows(s, t) ==
  t.affirmed = s.affirmed /\ t.read = s.read /\ t.muted = s.muted /\ t.name = s.name

NewRow(log, by, parent) == [log |-> log, by |-> by, parent |-> parent, revoked |-> FALSE]

LEMMA InsertRowOK ==
  ASSUME NEW s, StoreOK(s), NEW log \in LogIds, NEW by \in Author,
         NEW parent \in LogIds \cup {NoParent}, NEW t, t = InsertRow(s, log, by, parent)
  PROVE  /\ StoreOK(t) /\ OnlyRows(s, t)
         /\ t.rows = IF HasRow(s, log) THEN s.rows ELSE s.rows \cup {NewRow(log, by, parent)}
         /\ t = s <=> HasRow(s, log)
<1>1. CASE HasRow(s, log)
  BY <1>1 DEF InsertRow, OnlyRows
<1>2. CASE ~HasRow(s, log)
  <2> DEFINE row == NewRow(log, by, parent)
  <2>1. t = [s EXCEPT !.rows = s.rows \cup {row}]
    BY <1>2 DEF InsertRow, NewRow
  <2>2. /\ t = [rows |-> s.rows \cup {row}, affirmed |-> s.affirmed, read |-> s.read,
                muted |-> s.muted, name |-> s.name]
        /\ s = [rows |-> s.rows, affirmed |-> s.affirmed, read |-> s.read, muted |-> s.muted,
                name |-> s.name]
    BY <2>1 DEF StoreOK
  <2>3. /\ t.rows = s.rows \cup {row} /\ t.affirmed = s.affirmed /\ t.read = s.read
        /\ t.muted = s.muted /\ t.name = s.name
    BY <2>2
  <2>4. row \in Row /\ row.log = log
    BY DEF Row, NewRow
  <2>5. \A r \in s.rows : r.log # log
    BY <1>2 DEF HasRow, RowsOf
  <2>6. t.rows \subseteq Row /\ IsFiniteSet(t.rows)
    BY <2>3, <2>4, FS_AddElement DEF StoreOK
  <2>7. \A r, x \in t.rows : r.log = x.log => r = x
    BY <2>3, <2>4, <2>5 DEF StoreOK
  <2>8. t # s
    BY <2>3, <2>4, <2>5
  <2>9. QED
    BY <1>2, <2>2, <2>3, <2>6, <2>7, <2>8 DEF StoreOK, OnlyRows
<1>3. QED
  BY <1>1, <1>2

Revoked(r, log, by) == IF r.log = log /\ r.by = by THEN [r EXCEPT !.revoked = TRUE] ELSE r

\* A revocation changes the flag of one row at most and adds and removes none.
LEMMA RevokeInterpOK ==
  ASSUME NEW s, StoreOK(s), NEW log, NEW by, NEW t, t = RevokeInterp(s, log, by)
  PROVE  /\ StoreOK(t) /\ OnlyRows(s, t)
         /\ t.rows = {Revoked(r, log, by) : r \in s.rows}
         /\ \A r \in s.rows :
              LET q == Revoked(r, log, by) IN
              /\ q \in Row /\ q.log = r.log /\ q.by = r.by /\ q.parent = r.parent
              /\ q.revoked <=> r.revoked \/ (r.log = log /\ r.by = by)
              /\ r.revoked => q = r
<1> DEFINE f == [r \in s.rows |-> Revoked(r, log, by)]
<1>1. t = [s EXCEPT !.rows = {Revoked(r, log, by) : r \in s.rows}]
  BY DEF RevokeInterp, Revoked
<1>2. /\ t = [rows |-> {Revoked(r, log, by) : r \in s.rows}, affirmed |-> s.affirmed,
              read |-> s.read, muted |-> s.muted, name |-> s.name]
  BY <1>1 DEF StoreOK
<1>3. /\ t.rows = {Revoked(r, log, by) : r \in s.rows} /\ t.affirmed = s.affirmed
      /\ t.read = s.read /\ t.muted = s.muted /\ t.name = s.name
  BY <1>2
<1>4. ASSUME NEW r \in s.rows
      PROVE  LET q == Revoked(r, log, by) IN
             /\ q \in Row /\ q.log = r.log /\ q.by = r.by /\ q.parent = r.parent
             /\ q.revoked <=> r.revoked \/ (r.log = log /\ r.by = by)
             /\ r.revoked => q = r
  <2>1. r \in Row
    BY DEF StoreOK
  <2>2. QED
    BY <2>1 DEF Revoked, Row
<1>5. t.rows \subseteq Row
  BY <1>3, <1>4
<1>6. IsFiniteSet(t.rows)
  <2>1. f \in Surjection(s.rows, t.rows)
    BY <1>3 DEF Surjection
  <2>2. QED
    BY <2>1, FS_Surjection DEF StoreOK
<1>7. \A r, x \in t.rows : r.log = x.log => r = x
  <2> SUFFICES ASSUME NEW r \in s.rows, NEW x \in s.rows,
                      Revoked(r, log, by).log = Revoked(x, log, by).log
               PROVE  Revoked(r, log, by) = Revoked(x, log, by)
    BY <1>3
  <2>1. r.log = x.log
    BY <1>4
  <2>2. r = x
    BY <2>1 DEF StoreOK
  <2>3. QED
    BY <2>2
<1>8. QED
  BY <1>2, <1>3, <1>4, <1>5, <1>6, <1>7 DEF StoreOK, OnlyRows

LEMMA AffirmInterpOK ==
  ASSUME NEW s, StoreOK(s), NEW log \in LogIds, NEW by \in Author,
         NEW t, t = AffirmInterp(s, log, by)
  PROVE  /\ StoreOK(t) /\ t.rows = s.rows /\ t.name = s.name
         /\ t.affirmed = s.affirmed \cup {<<log, by>>}
<1>1. t = [rows |-> s.rows, affirmed |-> s.affirmed \cup {<<log, by>>}, read |-> s.read,
           muted |-> s.muted, name |-> s.name]
  BY DEF AffirmInterp, StoreOK
<1>2. /\ t.rows = s.rows /\ t.affirmed = s.affirmed \cup {<<log, by>>} /\ t.read = s.read
      /\ t.muted = s.muted /\ t.name = s.name
  BY <1>1
<1>3. IsFiniteSet(t.affirmed)
  <2>1. IsFiniteSet(s.affirmed)
    BY DEF StoreOK
  <2>2. IsFiniteSet(s.affirmed \cup {<<log, by>>})
    BY <2>1, FS_AddElement
  <2>3. QED
    BY <1>2, <2>2
<1>4. QED
  BY <1>1, <1>2, <1>3 DEF StoreOK

\* A name is replaced by a newer one only.
LEMMA NameIfNewerOK ==
  ASSUME NEW s, StoreOK(s), NEW by \in Author, NEW ts \in Nat,
         NEW t, t = SetPeerDisplayNameIfNewer(s, by, ts)
  PROVE  /\ StoreOK(t) /\ t.rows = s.rows /\ t.affirmed = s.affirmed /\ t.read = s.read
         /\ \A a \in Author : a # by => t.name[a] = s.name[a]
         /\ IF s.name[by] # NoName /\ ts <= s.name[by] THEN t.name[by] = s.name[by]
            ELSE t.name[by] = ts
<1>1. CASE s.name[by] # NoName /\ ts <= s.name[by]
  BY <1>1 DEF SetPeerDisplayNameIfNewer
<1>2. CASE ~(s.name[by] # NoName /\ ts <= s.name[by])
  <2>1. t = [rows |-> s.rows, affirmed |-> s.affirmed, read |-> s.read,
             muted |-> s.muted, name |-> [s.name EXCEPT ![by] = ts]]
    BY <1>2 DEF SetPeerDisplayNameIfNewer, StoreOK
  <2>2. /\ t.rows = s.rows /\ t.affirmed = s.affirmed /\ t.read = s.read
        /\ t.muted = s.muted /\ t.name = [s.name EXCEPT ![by] = ts]
    BY <2>1
  <2>3. t.name \in [Author -> Nat \cup {NoName}] /\ t.name[by] = ts
        /\ \A a \in Author : a # by => t.name[a] = s.name[a]
    BY <2>2 DEF StoreOK
  <2>4. QED
    BY <1>2, <2>1, <2>2, <2>3 DEF StoreOK
<1>3. QED
  BY <1>1, <1>2

LEMMA ToggleMuteOK ==
  ASSUME NEW s, StoreOK(s), NEW peer \in Author, NEW t, t = ToggleMute(s, peer)
  PROVE  /\ StoreOK(t) /\ t.rows = s.rows /\ t.affirmed = s.affirmed /\ t.name = s.name
         /\ t.read = s.read
<1> DEFINE muted == IF peer \in s.muted THEN s.muted \ {peer} ELSE s.muted \cup {peer}
<1>1. t = [rows |-> s.rows, affirmed |-> s.affirmed, read |-> s.read, muted |-> muted,
           name |-> s.name]
  BY DEF ToggleMute, StoreOK
<1>2. /\ t.rows = s.rows /\ t.affirmed = s.affirmed /\ t.read = s.read
      /\ t.muted = muted /\ t.name = s.name
  BY <1>1
<1>3. muted \subseteq Author
  BY DEF StoreOK
<1>4. QED
  BY <1>1, <1>2, <1>3 DEF StoreOK

\* Marks change what is read.
LEMMA MarksOK ==
  ASSUME NEW s, StoreOK(s), NEW x,
         NEW t, t \in {MarkEventRead(s, x), MarkEventUnread(s, x), BulkMarkRead(s, x)}
  PROVE  StoreOK(t) /\ t.rows = s.rows /\ t.affirmed = s.affirmed /\ t.name = s.name
<1>1. PICK read : t = [rows |-> s.rows, affirmed |-> s.affirmed, read |-> read,
                       muted |-> s.muted, name |-> s.name]
  BY DEF MarkEventRead, MarkEventUnread, BulkMarkRead, StoreOK
<1>2. /\ t.rows = s.rows /\ t.affirmed = s.affirmed /\ t.read = read
      /\ t.muted = s.muted /\ t.name = s.name
  BY <1>1
<1>3. QED
  BY <1>1, <1>2 DEF StoreOK

\* The responses to readings of the user and their affirmations are finitely many, and
\* a revocation, a name or a mute does not change which are unread.
LEMMA UnreadIsFinite ==
  ASSUME NEW s, StoreOK(s), NEW me
  PROVE  IsFiniteSet(FeedTargetingUnreadIds(s, me))
<1> DEFINE own == {r.log : r \in {x \in s.rows : x.by = me}}
           hearts == {p \in s.affirmed : p[1] \in own /\ p[2] # me}
           replies == {r \in s.rows : r.parent \in own /\ r.by # me}
           A == {AffirmEvent(p[1], p[2]) : p \in hearts}
           B == {LogEvent(r.log) : r \in replies}
<1>1. IsFiniteSet(hearts) /\ IsFiniteSet(replies)
  BY FS_Subset DEF StoreOK
<1>2. IsFiniteSet(A)
  <2>1. [p \in hearts |-> AffirmEvent(p[1], p[2])] \in Surjection(hearts, A)
    BY DEF Surjection
  <2>2. QED
    BY <1>1, <2>1, FS_Surjection
<1>3. IsFiniteSet(B)
  <2>1. [r \in replies |-> LogEvent(r.log)] \in Surjection(replies, B)
    BY DEF Surjection
  <2>2. QED
    BY <1>1, <2>1, FS_Surjection
<1>4. IsFiniteSet((A \cup B) \ s.read)
  BY <1>2, <1>3, FS_Union, FS_Difference
<1>5. QED
  BY <1>4 DEF FeedTargetingUnreadIds

LEMMA UnreadIsSame ==
  ASSUME NEW s, NEW t, NEW me, t.affirmed = s.affirmed, t.read = s.read,
         \/ t.rows = s.rows
         \/ /\ \A r \in s.rows : \E q \in t.rows : q.log = r.log /\ q.by = r.by /\ q.parent = r.parent
            /\ \A q \in t.rows : \E r \in s.rows : q.log = r.log /\ q.by = r.by /\ q.parent = r.parent
  PROVE  FeedTargetingUnreadIds(t, me) = FeedTargetingUnreadIds(s, me)
<1>1. {r.log : r \in {x \in s.rows : x.by = me}} = {r.log : r \in {x \in t.rows : x.by = me}}
  OBVIOUS
<1> DEFINE own == {r.log : r \in {x \in s.rows : x.by = me}}
           Replies(rows) == {LogEvent(r.log) : r \in {x \in rows : x.parent \in own /\ x.by # me}}
<1> HIDE DEF own
<1>2. Replies(s.rows) = Replies(t.rows)
  OBVIOUS
<1>3. FeedTargetingUnreadIds(t, me) =
        ({AffirmEvent(p[1], p[2]) : p \in {p \in t.affirmed : p[1] \in own /\ p[2] # me}}
           \cup Replies(t.rows)) \ t.read
  BY <1>1 DEF FeedTargetingUnreadIds, own
<1>4. FeedTargetingUnreadIds(s, me) =
        ({AffirmEvent(p[1], p[2]) : p \in {p \in s.affirmed : p[1] \in own /\ p[2] # me}}
           \cup Replies(s.rows)) \ s.read
  BY DEF FeedTargetingUnreadIds, own
<1>5. QED
  BY <1>2, <1>3, <1>4

(***************************************************************************)
(* Every step changes the store by one statement, or by marks and mutes    *)
(***************************************************************************)
Quiet ==
  /\ db'.rows = db.rows /\ db'.affirmed = db.affirmed /\ db'.name = db.name
  /\ StoreOK(db') /\ applied' = applied

Applies(e) ==
  /\ e.by \in Author /\ applied' = applied \cup {e}
  /\ \/ /\ e.type \in {"InterpAuthored", "Import"} /\ e.text \in Text
        /\ db' = InsertFromOp(db, e.text, e.by)
     \/ e.type = "AffirmAdded" /\ e.log \in LogIds /\ db' = AffirmInterp(db, e.log, e.by)
     \/ /\ e.type = "ResponseAdded" /\ e.log \in LogIds /\ e.text \in Text
        /\ db' = InsertResponseFromOp(db, e.log, e.text, e.by)
     \/ e.type = "InterpRevoked" /\ db' = RevokeInterp(db, e.log, e.by)
     \/ /\ e.type = "DisplayNameSet" /\ e.ts \in Nat
        /\ db' = SetPeerDisplayNameIfNewer(db, e.by, e.ts)

StoreStep == Quiet \/ \E e : Applies(e)

LEMMA NextIsStoreStep ==
  ASSUME StoreOK(db), events \in Nat, [Next]_vars
  PROVE  StoreStep
<1>1. ASSUME UNCHANGED <<db, applied>>
      PROVE  Quiet
  BY <1>1 DEF Quiet
<1>2. ASSUME NEW op \in Ops, SyncStateEvent(op)
      PROVE  StoreStep
  <2> DEFINE e == StateEventOf(op, events)
  <2>1. /\ e.type = "InterpAuthored" => e.by \in Author /\ e.text \in Text
        /\ e.type = "AffirmAdded" => e.by \in Author /\ e.log \in LogIds
        /\ e.type = "ResponseAdded" => e.by \in Author /\ e.log \in LogIds /\ e.text \in Text
        /\ e.type = "InterpRevoked" => e.by \in Author /\ e.log \in LogIds
        /\ e.type = "DisplayNameSet" => e.by \in Author /\ e.ts \in Nat
    BY EventFacts
  <2> HIDE DEF e
  <2>2. \/ UNCHANGED <<db, applied>>
        \/ InterpAuthored(e) \/ AffirmAdded(e) \/ ResponseAdded(e)
        \/ InterpRevoked(e) \/ DisplayNameSet(e)
    BY <1>2 DEF SyncStateEvent, e, DocEdited, DocVetoProposed, DocShown, NotShown, historyVars
  <2>3. ASSUME InterpAuthored(e)
        PROVE  Applies(e)
    BY <2>1, <2>3 DEF InterpAuthored, Show, Applies
  <2>4. ASSUME AffirmAdded(e)
        PROVE  Applies(e)
    BY <2>1, <2>4 DEF AffirmAdded, Show, Applies
  <2>5. ASSUME ResponseAdded(e)
        PROVE  Applies(e)
    BY <2>1, <2>5 DEF ResponseAdded, Show, Applies
  <2>6. ASSUME InterpRevoked(e)
        PROVE  Applies(e)
    BY <2>1, <2>6 DEF InterpRevoked, Applies
  <2>7. ASSUME DisplayNameSet(e)
        PROVE  Applies(e)
    BY <2>1, <2>7 DEF DisplayNameSet, Applies
  <2>8. QED
    BY <1>1, <2>2, <2>3, <2>4, <2>5, <2>6, <2>7 DEF StoreStep
<1>3. ASSUME NEW r \in Handed, ImportInterps(r)
      PROVE  StoreStep
  <2> DEFINE e == [type |-> "Import", by |-> r.by, text |-> r.text]
  <2>1. e.type = "Import" /\ e.by = r.by /\ e.text = r.text /\ r.by \in Author /\ r.text \in Text
    BY FeedAssumption
  <2>2. db' = InsertFromOp(db, r.text, r.by) /\ applied' = applied \cup {e}
    BY <1>3 DEF ImportInterps, InsertReceived
  <2> HIDE DEF e
  <2>3. Applies(e)
    BY <2>1, <2>2 DEF Applies
  <2>4. QED
    BY <2>3 DEF StoreStep
<1>4. ASSUME NEW peer \in Author, ToggleMutePeer(peer)
      PROVE  Quiet
  BY <1>4, ToggleMuteOK DEF ToggleMutePeer, Quiet, historyVars
<1>5. ASSUME BellClicked
      PROVE  Quiet
  BY <1>5, MarksOK DEF BellClicked, Quiet, historyVars
<1>6. ASSUME FeedViewOut
      PROVE  StoreStep
  <2> DEFINE m == Head(outbox)
  <2>1. CASE SubmitRevoke(m.log)
    <3> DEFINE e == [type |-> "InterpRevoked", by |-> Me, log |-> m.log]
    <3>1. CASE db' = db
      BY <1>1, <2>1, <3>1 DEF SubmitRevoke, StoreStep
    <3>2. CASE db' # db
      <4>1. applied' = applied \cup {e} /\ db' = RevokeInterp(db, m.log, Me)
        BY <2>1, <3>2 DEF SubmitRevoke
      <4>2. e.type = "InterpRevoked" /\ e.by = Me /\ e.log = m.log /\ Me \in Author
        BY FeedAssumption
      <4> HIDE DEF e
      <4>3. Applies(e)
        BY <4>1, <4>2 DEF Applies
      <4>4. QED
        BY <4>3 DEF StoreStep
    <3>3. QED
      BY <3>1, <3>2
  <2>2. CASE FeedSetRead(m.id, m.read)
    BY <2>2, MarksOK DEF FeedSetRead, Quiet, StoreStep, historyVars
  <2>3. CASE FeedActivated(m.id)
    BY <2>3, MarksOK DEF FeedActivated, Quiet, StoreStep, historyVars
  <2>4. QED
    BY <1>6, <2>1, <2>2, <2>3 DEF FeedViewOut
<1>7. ASSUME \/ UNCHANGED vars
             \/ \E t \in Transits : PushFeedItem(t)
             \/ MountFeed \/ BackfillReads \/ BackfillFeed \/ RefreshBellBadge \/ FeedViewMessage
             \/ \E cat \in Categories : SetCategory(cat)
             \/ \E c \in cards : CardSetRead(c, TRUE) \/ CardSetRead(c, FALSE)
                                 \/ CardActivated(c) \/ CardRevoke(c)
      PROVE  Quiet
  <2>1. UNCHANGED <<db, applied>>
    BY <1>7 DEF vars, PushFeedItem, MountFeed, BackfillReads, BackfillFeed, RefreshBellBadge,
       FeedViewMessage, SetCategory, CardSetRead, CardActivated, CardRevoke, historyVars
  <2>2. QED
    BY <1>1, <2>1
<1>8. QED
  BY <1>2, <1>3, <1>4, <1>5, <1>6, <1>7 DEF Next, StoreStep

\* A response is filed under a key of its text.
LEMMA ResponseLogType ==
  ASSUME NEW s, StoreOK(s), NEW parent \in LogIds, NEW text \in Text
  PROVE  /\ ResponseLog(s, parent, text) \in LogIds
         /\ ResponseLog(s, parent, text)[2] = text
         /\ ResponseLog(s, parent, text) \in {LogId(KEY, text), LogId(ORPHAN, text)}
<1>1. parent[1] \in {KEY, ORPHAN}
  BY DEF LogIds
<1>2. ResponseKey(s, parent) \in {KEY, ORPHAN}
  BY <1>1 DEF ResponseKey
<1>3. QED
  BY <1>2 DEF ResponseLog, LogId, LogIds

LEMMA LogIdType ==
  ASSUME NEW text \in Text
  PROVE  LogId(KEY, text) \in LogIds
  BY DEF LogId, LogIds

(***************************************************************************)
(* What one statement does to the rows: a new one at most, or one tombstone *)
(***************************************************************************)
\* The rows r of e are new in t, or e added nothing.
Adds(s, t, log, by, parent) ==
  /\ t.affirmed = s.affirmed /\ t.name = s.name
  /\ t.rows = IF HasRow(s, log) THEN s.rows ELSE s.rows \cup {NewRow(log, by, parent)}

LEMMA AppliesOK ==
  ASSUME StoreOK(db), NEW e, Applies(e)
  PROVE  /\ StoreOK(db')
         /\ e.type \in {"InterpAuthored", "Import"} =>
              Adds(db, db', LogId(KEY, e.text), e.by, NoParent)
         /\ e.type = "ResponseAdded" =>
              Adds(db, db', ResponseLog(db, e.log, e.text), e.by, e.log)
         /\ e.type \notin {"InterpAuthored", "Import", "ResponseAdded", "InterpRevoked"} =>
              db'.rows = db.rows
<1>1. CASE e.type \in {"InterpAuthored", "Import"}
  <2>1. db' = InsertRow(db, LogId(KEY, e.text), e.by, NoParent) /\ LogId(KEY, e.text) \in LogIds
        /\ e.by \in Author
    BY <1>1, LogIdType DEF Applies, InsertFromOp
  <2>2. /\ StoreOK(db') /\ OnlyRows(db, db')
        /\ db'.rows = IF HasRow(db, LogId(KEY, e.text)) THEN db.rows
                      ELSE db.rows \cup {NewRow(LogId(KEY, e.text), e.by, NoParent)}
    BY <2>1, InsertRowOK
  <2>3. QED
    BY <1>1, <2>2 DEF Adds, OnlyRows
<1>2. CASE e.type = "ResponseAdded"
  <2> DEFINE log == ResponseLog(db, e.log, e.text)
  <2>1. db' = InsertRow(db, log, e.by, e.log) /\ log \in LogIds /\ e.by \in Author /\ e.log \in LogIds
    BY <1>2, ResponseLogType DEF Applies, InsertResponseFromOp
  <2> HIDE DEF log
  <2>2. /\ StoreOK(db') /\ OnlyRows(db, db')
        /\ db'.rows = IF HasRow(db, log) THEN db.rows ELSE db.rows \cup {NewRow(log, e.by, e.log)}
    BY <2>1, InsertRowOK
  <2>3. QED
    BY <1>2, <2>2 DEF Adds, OnlyRows, log
<1>3. CASE e.type = "AffirmAdded"
  BY <1>3, AffirmInterpOK DEF Applies
<1>4. CASE e.type = "InterpRevoked"
  BY <1>4, RevokeInterpOK DEF Applies
<1>5. CASE e.type = "DisplayNameSet"
  BY <1>5, NameIfNewerOK DEF Applies
<1>6. QED
  BY <1>1, <1>2, <1>3, <1>4, <1>5 DEF Applies

LEMMA StoreIsOK ==
  ASSUME StoreOK(db), StoreStep
  PROVE  StoreOK(db')
  BY AppliesOK DEF StoreStep, Quiet

\* Rows keep their author and parent and do not go away.
LEMMA RowsStay ==
  ASSUME StoreOK(db), StoreStep, NEW r \in db.rows
  PROVE  \E q \in db'.rows : q.log = r.log /\ q.by = r.by /\ q.parent = r.parent
<1>1. CASE db'.rows = db.rows
  BY <1>1
<1>2. ASSUME NEW e, Applies(e)
      PROVE  \E q \in db'.rows : q.log = r.log /\ q.by = r.by /\ q.parent = r.parent
  <2>1. CASE e.type = "InterpRevoked"
    BY <1>2, <2>1, RevokeInterpOK DEF Applies
  <2>2. CASE e.type # "InterpRevoked"
    BY <1>2, <2>2, AppliesOK DEF Adds
  <2>3. QED
    BY <2>1, <2>2
<1>3. QED
  BY <1>1, <1>2 DEF StoreStep, Quiet

(***************************************************************************)
(* Types                                                                   *)
(***************************************************************************)
LEMMA InitType == Init => TypeInv
<1> SUFFICES ASSUME Init
             PROVE  TypeInv
  OBVIOUS
<1>1. db = [rows |-> InitialRows, affirmed |-> {}, read |-> {}, muted |-> {},
            name |-> [a \in Author |-> NoName]]
  BY DEF Init, EmptyStore
<1>2. /\ db.rows = InitialRows /\ db.affirmed = {} /\ db.read = {} /\ db.muted = {}
      /\ db.name = [a \in Author |-> NoName]
  BY <1>1
<1>3. IsFiniteSet(db.affirmed)
  BY <1>2, FS_EmptySet
<1>4. StoreOK(db)
  BY <1>1, <1>2, <1>3, FeedAssumption DEF StoreOK
<1>5. TypeOK
  <2>1. /\ InitialRows \subseteq Row /\ MaxEvents \in Nat
        /\ \A r, t \in InitialRows : r.log = t.log => r = t
    BY FeedAssumption
  <2>2. /\ badge = 0 /\ refresh = TRUE /\ mounted = FALSE /\ category = "all"
        /\ applied = {} /\ stale = FALSE /\ raced = FALSE /\ events = 0
    BY DEF Init
  <2>3. events \in 0 .. MaxEvents /\ badge \in Nat
    BY <2>1, <2>2
  <2>4. QED
    BY <1>2, <2>1, <2>2, <2>3 DEF TypeOK, Categories
<1>6. QED
  BY <1>4, <1>5 DEF TypeInv

\* The variables TypeOK speaks of besides the store.
LEMMA ScalarsOK ==
  ASSUME TypeInv, [Next]_vars
  PROVE  /\ badge' \in Nat /\ refresh' \in BOOLEAN /\ mounted' \in BOOLEAN
         /\ category' \in Categories /\ stale' \in BOOLEAN /\ raced' \in BOOLEAN
         /\ events' \in 0 .. MaxEvents
<1>1. /\ badge \in Nat /\ refresh \in BOOLEAN /\ mounted \in BOOLEAN
      /\ category \in Categories /\ stale \in BOOLEAN /\ raced \in BOOLEAN
      /\ events \in 0 .. MaxEvents /\ MaxEvents \in Nat /\ StoreOK(db)
  BY FeedAssumption DEF TypeInv, TypeOK
<1>2. Cardinality(FeedTargetingUnreadIds(db, Me)) \in Nat
  BY <1>1, UnreadIsFinite, FS_CardinalityType
<1>3. events < MaxEvents => events + 1 \in 0 .. MaxEvents
  BY <1>1
<1>4. ASSUME NEW op \in Ops, SyncStateEvent(op)
      PROVE  /\ badge' \in Nat /\ refresh' \in BOOLEAN /\ raced' \in BOOLEAN
             /\ UNCHANGED <<mounted, category, stale>> /\ events' \in 0 .. MaxEvents
  <2> DEFINE e == StateEventOf(op, events)
  <2>1. UNCHANGED <<mounted, category>> /\ events' \in 0 .. MaxEvents
    BY <1>3, <1>4 DEF SyncStateEvent, feedVars
  <2>2. \/ UNCHANGED <<badge, refresh, stale, raced>>
        \/ InterpAuthored(e) \/ AffirmAdded(e) \/ ResponseAdded(e) \/ InterpRevoked(e)
        \/ DisplayNameSet(e) \/ DocEdited(e) \/ DocShown(e)
        \/ DocVetoProposed(e) \/ NotShown(e)
    BY <1>4 DEF SyncStateEvent, historyVars
  <2> HIDE DEF e
  <2>3. CASE UNCHANGED <<badge, refresh, stale, raced>>
    BY <1>1, <2>1, <2>3
  <2>4. CASE InterpAuthored(e)
    BY <1>1, <2>1, <2>4 DEF InterpAuthored, Show
  <2>5. CASE AffirmAdded(e)
    BY <1>1, <2>1, <2>5 DEF AffirmAdded, Show
  <2>6. CASE ResponseAdded(e)
    BY <1>1, <2>1, <2>6 DEF ResponseAdded, Show
  <2>7. CASE InterpRevoked(e)
    BY <1>1, <2>1, <2>7 DEF InterpRevoked
  <2>8. CASE DisplayNameSet(e)
    BY <1>1, <2>1, <2>8 DEF DisplayNameSet
  <2>9. CASE DocEdited(e) \/ DocShown(e)
    <3>1. badge' = badge \/ badge' = badge + 1
      BY <2>9 DEF DocEdited, DocShown
    <3>2. badge' \in Nat
      BY <1>1, <3>1
    <3>3. refresh' = TRUE /\ UNCHANGED <<stale, raced>>
      BY <2>9 DEF DocEdited, DocShown, historyVars
    <3>4. QED
      BY <1>1, <2>1, <3>2, <3>3
  <2>10. CASE DocVetoProposed(e) \/ NotShown(e)
    BY <1>1, <2>1, <2>10 DEF DocVetoProposed, NotShown, historyVars
  <2>11. QED
    BY <2>2, <2>3, <2>4, <2>5, <2>6, <2>7, <2>8, <2>9, <2>10
<1>5. CASE \E r \in Handed : ImportInterps(r)
  BY <1>1, <1>3, <1>5 DEF ImportInterps, feedVars
<1>6. CASE FeedViewOut
  <2>1. \/ UNCHANGED <<refresh, stale>> /\ raced' \in BOOLEAN
        \/ refresh' = TRUE /\ UNCHANGED <<stale, raced>>
    BY <1>1, <1>6 DEF FeedViewOut, SubmitRevoke, FeedSetRead, FeedActivated, historyVars
  <2>2. UNCHANGED <<badge, mounted, category, events>>
    BY <1>6 DEF FeedViewOut, feedVars
  <2>3. QED
    BY <1>1, <2>1, <2>2
<1>7. CASE \/ \E t \in Transits : PushFeedItem(t)
           \/ \E peer \in Author \ {Me} : ToggleMutePeer(peer)
           \/ BellClicked
  BY <1>1, <1>3, <1>7 DEF PushFeedItem, ToggleMutePeer, BellClicked, Click, feedVars, historyVars
<1>8. CASE MountFeed \/ BackfillReads \/ BackfillFeed \/ RefreshBellBadge \/ FeedViewMessage
  BY <1>1, <1>2, <1>8 DEF MountFeed, BackfillReads, BackfillFeed, RefreshBellBadge,
     FeedViewMessage, feedVars, historyVars
<1>9. CASE \E cat \in Categories : SetCategory(cat)
  BY <1>1, <1>3, <1>9 DEF SetCategory, Click, historyVars
<1>10. CASE \E c \in cards : CardSetRead(c, TRUE) \/ CardSetRead(c, FALSE)
                             \/ CardActivated(c) \/ CardRevoke(c)
  BY <1>1, <1>3, <1>10 DEF CardSetRead, CardActivated, CardRevoke, Click, feedVars, historyVars
<1>11. CASE UNCHANGED vars
  BY <1>1, <1>11 DEF vars
<1>12. QED
  <2>1. CASE \E op \in Ops : SyncStateEvent(op)
    BY <1>1, <1>4, <2>1
  <2>2. QED
    BY <2>1, <1>5, <1>6, <1>7, <1>8, <1>9, <1>10, <1>11 DEF Next

LEMMA NextType == TypeInv /\ [Next]_vars => TypeInv'
<1> SUFFICES ASSUME TypeInv, [Next]_vars
             PROVE  TypeInv'
  OBVIOUS
<1>1. StoreOK(db) /\ events \in Nat
  BY FeedAssumption DEF TypeInv, TypeOK
<1>2. StoreStep
  BY <1>1, NextIsStoreStep
<1>3. StoreOK(db')
  BY <1>1, <1>2, StoreIsOK
<1>4. \A e \in applied' : e.by \in Author
  BY <1>2 DEF StoreStep, Quiet, Applies, TypeInv, TypeOK
<1>5. TypeOK'
  BY <1>3, <1>4, ScalarsOK DEF TypeOK, StoreOK
<1>6. QED
  BY <1>3, <1>5 DEF TypeInv

(***************************************************************************)
(* The store's tables and the history keep their types: log ids stay       *)
(* unique in the table of readings whatever arrives or is handed over.     *)
(***************************************************************************)
THEOREM FeedTypes == Spec => []TypeOK
<1>1. TypeInv => TypeOK
  BY DEF TypeInv
<1>2. QED
  BY <1>1, InitType, NextType, PTL DEF Spec

(***************************************************************************)
(* The bell                                                                *)
(***************************************************************************)
LEMMA NextBadge == TypeInv /\ BadgeIsFresh /\ [Next]_vars => BadgeIsFresh'
<1> SUFFICES ASSUME TypeInv, BadgeIsFresh, [Next]_vars, ~refresh', ~stale'
             PROVE  badge' = Cardinality(FeedTargetingUnreadIds(db', Me))
  BY DEF BadgeIsFresh
<1> DEFINE Unread(s) == FeedTargetingUnreadIds(s, Me)
<1>1. StoreOK(db) /\ refresh \in BOOLEAN /\ stale \in BOOLEAN
  BY DEF TypeInv, TypeOK
<1>2. ASSUME ~refresh, ~stale, badge' = badge, Unread(db') = Unread(db)
      PROVE  badge' = Cardinality(Unread(db'))
  BY <1>2 DEF BadgeIsFresh
<1>3. ASSUME NEW log, NEW by, db' = RevokeInterp(db, log, by)
      PROVE  Unread(db') = Unread(db)
  <2>1. /\ db'.affirmed = db.affirmed /\ db'.read = db.read
        /\ db'.rows = {Revoked(r, log, by) : r \in db.rows}
        /\ \A r \in db.rows : LET q == Revoked(r, log, by) IN
             q.log = r.log /\ q.by = r.by /\ q.parent = r.parent
    BY <1>1, <1>3, RevokeInterpOK DEF OnlyRows
  <2>2. QED
    BY <2>1, UnreadIsSame
<1>4. ASSUME NEW op \in Ops, SyncStateEvent(op)
      PROVE  badge' = Cardinality(Unread(db'))
  <2> DEFINE e == StateEventOf(op, events)
  <2>1. events \in Nat
    BY FeedAssumption DEF TypeInv, TypeOK
  <2>2. e.type = "DisplayNameSet" => e.by \in Author /\ e.ts \in Nat
    BY <2>1, EventFacts
  <2>3. \/ UNCHANGED <<db, badge, refresh, stale>>
        \/ InterpAuthored(e) \/ AffirmAdded(e) \/ ResponseAdded(e) \/ InterpRevoked(e)
        \/ DisplayNameSet(e) \/ DocEdited(e) \/ DocShown(e)
        \/ DocVetoProposed(e) \/ NotShown(e)
    BY <1>4 DEF SyncStateEvent, historyVars
  <2> HIDE DEF e, Unread
  <2>4. CASE UNCHANGED <<db, badge, refresh, stale>>
    BY <1>1, <1>2, <2>4
  <2>5. CASE InterpAuthored(e)
    BY <1>1, <1>2, <2>5 DEF InterpAuthored, Show
  <2>6. CASE AffirmAdded(e)
    BY <1>1, <1>2, <2>6 DEF AffirmAdded, Show
  <2>7. CASE ResponseAdded(e)
    BY <1>1, <1>2, <2>7 DEF ResponseAdded, Show
  <2>8. CASE InterpRevoked(e)
    BY <1>1, <1>2, <1>3, <2>8 DEF InterpRevoked
  <2>9. CASE DisplayNameSet(e)
    <3>1. db' = SetPeerDisplayNameIfNewer(db, e.by, e.ts) /\ UNCHANGED <<badge, refresh, stale>>
          /\ e.by \in Author /\ e.ts \in Nat
      BY <2>2, <2>9 DEF DisplayNameSet
    <3>2. db'.rows = db.rows /\ db'.affirmed = db.affirmed /\ db'.read = db.read
      BY <1>1, <3>1, NameIfNewerOK
    <3>3. Unread(db') = Unread(db)
      BY <3>2, UnreadIsSame DEF Unread
    <3>4. QED
      BY <1>2, <3>1, <3>3
  <2>10. CASE DocEdited(e) \/ DocShown(e)
    BY <2>10 DEF DocEdited, DocShown
  <2>11. CASE DocVetoProposed(e) \/ NotShown(e)
    BY <1>2, <2>11 DEF DocVetoProposed, NotShown, historyVars
  <2>12. QED
    BY <2>3, <2>4, <2>5, <2>6, <2>7, <2>8, <2>9, <2>10, <2>11
<1>5. CASE \E r \in Handed : ImportInterps(r)
  <2>1. db' = db /\ UNCHANGED <<badge, refresh>> /\ ~stale
    BY <1>1, <1>5 DEF ImportInterps
  <2>2. QED
    BY <1>2, <2>1
<1>6. CASE FeedViewOut
  <2>1. UNCHANGED badge
    BY <1>6 DEF FeedViewOut
  <2>2. \E log : db' = RevokeInterp(db, log, Me) /\ UNCHANGED <<refresh, stale>>
    BY <1>6 DEF FeedViewOut, SubmitRevoke, FeedSetRead, FeedActivated
  <2>3. QED
    BY <1>2, <1>3, <2>1, <2>2
<1>7. CASE \E peer \in Author \ {Me} : ToggleMutePeer(peer)
  <2>1. PICK peer \in Author : ToggleMutePeer(peer)
    BY <1>7
  <2>2. db' = ToggleMute(db, peer) /\ UNCHANGED <<badge, refresh, stale>>
    BY <2>1 DEF ToggleMutePeer, historyVars
  <2>3. db'.rows = db.rows /\ db'.affirmed = db.affirmed /\ db'.read = db.read
    BY <1>1, <2>2, ToggleMuteOK
  <2>4. Unread(db') = Unread(db)
    BY <2>3, UnreadIsSame
  <2>5. QED
    BY <1>2, <2>2, <2>4
<1>8. CASE BellClicked
  BY <1>8 DEF BellClicked
<1>9. CASE RefreshBellBadge
  BY <1>9 DEF RefreshBellBadge
<1>10. CASE \/ UNCHANGED vars
            \/ \E t \in Transits : PushFeedItem(t)
            \/ MountFeed \/ BackfillReads \/ BackfillFeed \/ FeedViewMessage
            \/ \E cat \in Categories : SetCategory(cat)
            \/ \E c \in cards : CardSetRead(c, TRUE) \/ CardSetRead(c, FALSE)
                                \/ CardActivated(c) \/ CardRevoke(c)
  <2>1. UNCHANGED <<db, badge, refresh, stale>>
    BY <1>10 DEF vars, PushFeedItem, MountFeed, BackfillReads, BackfillFeed,
       FeedViewMessage, SetCategory, CardSetRead, CardActivated, CardRevoke, historyVars
  <2>2. QED
    BY <1>2, <2>1
<1>11. QED
  BY <1>4, <1>5, <1>6, <1>7, <1>8, <1>9, <1>10 DEF Next

(***************************************************************************)
(* With no recount on its way and no rows imported since the last, the     *)
(* bell's number is the number of unread events for the user.              *)
(***************************************************************************)
THEOREM BellIsRight == Spec => []BadgeIsFresh
<1>1. Init => BadgeIsFresh
  BY DEF Init, BadgeIsFresh
<1>2. QED
  BY <1>1, InitType, NextType, NextBadge, PTL DEF Spec

(***************************************************************************)
(* The tables are those of the applied events                              *)
(***************************************************************************)
Affirmations == {<<e.log, e.by>> : e \in OfType(applied, {"AffirmAdded"})}
Inserted ==
  /\ \A e \in OfType(applied, {"InterpAuthored", "Import"}) : HasRow(db, LogId(KEY, e.text))
  /\ \A e \in OfType(applied, {"ResponseAdded"}) :
       HasRow(db, LogId(KEY, e.text)) \/ HasRow(db, LogId(ORPHAN, e.text))
Sourced ==
  \A r \in db.rows :
    \/ \E i \in InitialRows : i.log = r.log /\ i.by = r.by /\ i.parent = r.parent
    \/ \E e \in applied : Source(r, e)
Tombstoned ==
  \A r \in db.rows :
    r.revoked => \/ r \in InitialRows
                 \/ \E e \in OfType(applied, {"InterpRevoked"}) : e.log = r.log /\ e.by = r.by

Material == db.affirmed = Affirmations /\ Inserted /\ Sourced /\ Tombstoned /\ NamesOK

LEMMA NewestIs ==
  ASSUME NEW a, NEW t \in StampsOf(a), StampsOf(a) \subseteq Nat,
         \A u \in StampsOf(a) : u <= t
  PROVE  NewestName(applied, a) = t
<1> DEFINE stamps == StampsOf(a)
           Newest(x) == \A u \in stamps : u <= x
<1>1. t \in stamps /\ stamps \subseteq Nat /\ Newest(t)
  OBVIOUS
<1>2. \A x \in stamps : Newest(x) => x = t
  BY <1>1
<1>3. NewestName(applied, a) = CHOOSE x \in stamps : Newest(x)
  BY <1>1 DEF NewestName, StampsOf
<1> HIDE DEF stamps, Newest
<1>4. QED
  BY <1>1, <1>2, <1>3

LEMMA MaterialIsMaterialised == Material => MaterialisedFromApplied
<1> SUFFICES ASSUME Material
             PROVE  MaterialisedFromApplied
  OBVIOUS
<1> DEFINE init == [EmptyStore EXCEPT !.rows = InitialRows]
<1>1. init.rows = InitialRows /\ init.affirmed = {}
  BY DEF EmptyStore
<1>2. \A a \in Author : db.name[a] = NewestName(applied, a)
  <2> TAKE a \in Author
  <2>1. CASE StampsOf(a) = {}
    BY <2>1 DEF Material, NamesOK, NewestName, StampsOf
  <2>2. CASE StampsOf(a) # {}
    <3>1. /\ StampsOf(a) \subseteq Nat /\ db.name[a] \in StampsOf(a)
          /\ \A u \in StampsOf(a) : u <= db.name[a]
      BY <2>2 DEF Material, NamesOK
    <3>2. QED
      BY <3>1, NewestIs
  <2>3. QED
    BY <2>1, <2>2
<1>3. db.affirmed = init.affirmed \cup {<<e.log, e.by>> : e \in OfType(applied, {"AffirmAdded"})}
  BY <1>1 DEF Material, Affirmations
<1> HIDE DEF init
<1>4. MaterialisedFrom(db, init, applied)
  BY <1>1, <1>2, <1>3 DEF Material, Inserted, Sourced, Tombstoned, MaterialisedFrom
<1>5. QED
  BY <1>4 DEF MaterialisedFromApplied, init

LEMMA InitMaterial == Init => Material
<1> SUFFICES ASSUME Init
             PROVE  Material
  OBVIOUS
<1>1. db.rows = InitialRows /\ db.affirmed = {} /\ db.name = [a \in Author |-> NoName]
  BY DEF Init, EmptyStore
<1>2. applied = {}
  BY DEF Init
<1>3. NamesOK
  BY <1>1, <1>2 DEF NamesOK, StampsOf, OfType
<1>4. QED
  BY <1>1, <1>2, <1>3 DEF Material, Affirmations, Inserted, Sourced, Tombstoned, OfType

\* An inserted row has the event that brought it for a source; the rows before keep theirs.
LEMMA AddsMaterial ==
  ASSUME TypeInv, Material, NEW e, Applies(e),
         NEW log, NEW parent, Adds(db, db', log, e.by, parent),
         Source(NewRow(log, e.by, parent), e),
         e.type \in {"InterpAuthored", "Import"} => log = LogId(KEY, e.text),
         e.type = "ResponseAdded" => log \in {LogId(KEY, e.text), LogId(ORPHAN, e.text)},
         e.type \in {"InterpAuthored", "Import", "ResponseAdded"}
  PROVE  Material'
<1>1. applied' = applied \cup {e}
  BY DEF Applies
<1>2. db.rows \subseteq db'.rows
  BY DEF Adds
<1>3. \A l : HasRow(db, l) => HasRow(db', l)
  BY <1>2 DEF HasRow, RowsOf
<1>4. HasRow(db', log)
  <2>1. CASE HasRow(db, log)
    BY <1>3, <2>1
  <2>2. CASE ~HasRow(db, log)
    <3>1. NewRow(log, e.by, parent) \in db'.rows /\ NewRow(log, e.by, parent).log = log
      BY <2>2 DEF Adds, NewRow
    <3>2. QED
      BY <3>1 DEF HasRow, RowsOf
  <2>3. QED
    BY <2>1, <2>2
<1>5. \A r \in db'.rows : r \in db.rows \/ r = NewRow(log, e.by, parent)
  BY DEF Adds
<1>6. db'.affirmed = Affirmations'
  <2>1. OfType(applied', {"AffirmAdded"}) = OfType(applied, {"AffirmAdded"})
    BY <1>1 DEF OfType
  <2>2. QED
    BY <2>1 DEF Adds, Material, Affirmations
<1>7. Inserted'
  BY <1>1, <1>3, <1>4 DEF Inserted, Material, OfType
<1>8. Sourced'
  <2> SUFFICES ASSUME NEW r \in db'.rows
               PROVE  \/ \E i \in InitialRows : i.log = r.log /\ i.by = r.by /\ i.parent = r.parent
                      \/ \E x \in applied' : Source(r, x)
    BY DEF Sourced
  <2>1. CASE r \in db.rows
    BY <1>1, <2>1 DEF Sourced, Material
  <2>2. CASE r = NewRow(log, e.by, parent)
    BY <1>1, <2>2
  <2>3. QED
    BY <1>5, <2>1, <2>2
<1>9. Tombstoned'
  <2>1. ~NewRow(log, e.by, parent).revoked
    BY DEF NewRow
  <2>2. QED
    BY <1>1, <1>5, <2>1 DEF Tombstoned, Material, OfType
<1>10. NamesOK'
  <2>1. OfType(applied', {"DisplayNameSet"}) = OfType(applied, {"DisplayNameSet"})
    BY <1>1 DEF OfType
  <2>2. db'.name = db.name
    BY DEF Adds
  <2>3. QED
    BY <2>1, <2>2 DEF NamesOK, StampsOf, Material
<1>11. QED
  BY <1>6, <1>7, <1>8, <1>9, <1>10 DEF Material

LEMMA NextMaterial == TypeInv /\ Material /\ [Next]_vars => Material'
<1> SUFFICES ASSUME TypeInv, Material, [Next]_vars
             PROVE  Material'
  OBVIOUS
<1>1. StoreOK(db) /\ events \in Nat
  BY FeedAssumption DEF TypeInv, TypeOK
<1>2. CASE Quiet
  BY <1>2 DEF Quiet, Material, Affirmations, Inserted, Sourced, Tombstoned, NamesOK, StampsOf,
     HasRow, RowsOf
<1>3. ASSUME NEW e, Applies(e)
      PROVE  Material'
  <2>1. applied' = applied \cup {e} /\ e.by \in Author
    BY <1>3 DEF Applies
  <2>2. CASE e.type \in {"InterpAuthored", "Import"}
    <3> DEFINE row == NewRow(LogId(KEY, e.text), e.by, NoParent)
    <3>1. Adds(db, db', LogId(KEY, e.text), e.by, NoParent)
      BY <1>1, <1>3, <2>2, AppliesOK
    <3>2. row.by = e.by /\ row.parent = NoParent /\ row.log = LogId(KEY, e.text)
      BY DEF NewRow
    <3>3. Source(row, e)
      BY <2>2, <3>2 DEF Source
    <3>4. QED
      BY <1>3, <2>2, <3>1, <3>3, AddsMaterial
  <2>3. CASE e.type = "ResponseAdded"
    <3> DEFINE log == ResponseLog(db, e.log, e.text)
               row == NewRow(log, e.by, e.log)
    <3>1. Adds(db, db', log, e.by, e.log)
      BY <1>1, <1>3, <2>3, AppliesOK
    <3>2. log[2] = e.text /\ log \in {LogId(KEY, e.text), LogId(ORPHAN, e.text)}
      BY <1>1, <1>3, <2>3, ResponseLogType DEF Applies
    <3>3. row.by = e.by /\ row.parent = e.log /\ row.log = log
      BY DEF NewRow
    <3>4. Source(row, e)
      BY <2>3, <3>2, <3>3 DEF Source
    <3> HIDE DEF log
    <3>5. QED
      BY <1>3, <2>3, <3>1, <3>2, <3>4, AddsMaterial
  <2>4. CASE e.type = "AffirmAdded"
    <3>1. /\ db'.rows = db.rows /\ db'.name = db.name
          /\ db'.affirmed = db.affirmed \cup {<<e.log, e.by>>}
      BY <1>1, <1>3, <2>4, AffirmInterpOK DEF Applies
    <3>2. OfType(applied', {"AffirmAdded"}) = OfType(applied, {"AffirmAdded"}) \cup {e}
      BY <2>1, <2>4 DEF OfType
    <3>3. db'.affirmed = Affirmations'
      BY <3>1, <3>2 DEF Affirmations, Material
    <3>4. \A t \in {"InterpAuthored", "Import", "ResponseAdded", "DisplayNameSet", "InterpRevoked"} :
            \A x : x.type = t => (x \in applied' <=> x \in applied)
      BY <2>1, <2>4
    <3>5. Inserted' /\ Sourced' /\ Tombstoned'
      BY <2>1, <3>1, <3>4 DEF Material, Inserted, Sourced, Tombstoned, OfType, HasRow, RowsOf
    <3>6. OfType(applied', {"DisplayNameSet"}) = OfType(applied, {"DisplayNameSet"})
      BY <3>4 DEF OfType
    <3>7. NamesOK'
      BY <3>1, <3>6 DEF NamesOK, StampsOf, Material
    <3>8. QED
      BY <3>3, <3>5, <3>7 DEF Material
  <2>5. CASE e.type = "InterpRevoked"
    <3>1. /\ db'.rows = {Revoked(r, e.log, e.by) : r \in db.rows}
          /\ db'.name = db.name /\ db'.affirmed = db.affirmed
      BY <1>1, <1>3, <2>5, RevokeInterpOK DEF Applies, OnlyRows
    <3>2. \A r \in db.rows :
              LET q == Revoked(r, e.log, e.by) IN
              /\ q.log = r.log /\ q.by = r.by /\ q.parent = r.parent
              /\ q.revoked <=> r.revoked \/ (r.log = e.log /\ r.by = e.by)
              /\ r.revoked => q = r
      BY <1>1, <1>3, <2>5, RevokeInterpOK DEF Applies
    <3>3. \A t : t # "InterpRevoked" => OfType(applied', {t}) = OfType(applied, {t})
      BY <2>1, <2>5 DEF OfType
    <3>4. \A l : HasRow(db, l) => HasRow(db', l)
      BY <3>1, <3>2 DEF HasRow, RowsOf
    <3>5. db'.affirmed = Affirmations'
      BY <3>1, <3>3 DEF Affirmations, Material
    <3>6. Inserted'
      BY <2>1, <2>5, <3>4 DEF Inserted, Material, OfType
    <3>7. Sourced'
      <4> SUFFICES ASSUME NEW r \in db.rows, NEW q, q = Revoked(r, e.log, e.by)
                   PROVE  \/ \E i \in InitialRows : i.log = q.log /\ i.by = q.by /\ i.parent = q.parent
                          \/ \E x \in applied' : Source(q, x)
        BY <3>1 DEF Sourced
      <4>1. q.log = r.log /\ q.by = r.by /\ q.parent = r.parent
        BY <3>2
      <4>2. \A x : Source(r, x) => Source(q, x)
        BY <4>1 DEF Source
      <4>3. QED
        BY <2>1, <4>1, <4>2 DEF Sourced, Material
    <3>8. Tombstoned'
      <4> SUFFICES ASSUME NEW r \in db.rows, NEW q, q = Revoked(r, e.log, e.by), q.revoked
                   PROVE  \/ q \in InitialRows
                          \/ \E x \in OfType(applied', {"InterpRevoked"}) : x.log = q.log /\ x.by = q.by
        BY <3>1 DEF Tombstoned
      <4>1. CASE r.revoked
        BY <2>1, <3>2, <4>1 DEF Tombstoned, Material, OfType
      <4>2. CASE r.log = e.log /\ r.by = e.by
        BY <2>1, <2>5, <3>2, <4>2 DEF OfType
      <4>3. QED
        BY <3>2, <4>1, <4>2
    <3>9. NamesOK'
      <4>1. OfType(applied', {"DisplayNameSet"}) = OfType(applied, {"DisplayNameSet"})
        BY <3>3
      <4>2. QED
        BY <3>1, <4>1 DEF NamesOK, StampsOf, Material
    <3>10. QED
      BY <3>5, <3>6, <3>7, <3>8, <3>9 DEF Material
  <2>6. CASE e.type = "DisplayNameSet"
    <3>1. /\ db'.rows = db.rows /\ db'.affirmed = db.affirmed
          /\ \A a \in Author : a # e.by => db'.name[a] = db.name[a]
          /\ IF db.name[e.by] # NoName /\ e.ts <= db.name[e.by] THEN db'.name[e.by] = db.name[e.by]
             ELSE db'.name[e.by] = e.ts
          /\ e.ts \in Nat
      BY <1>1, <1>3, <2>1, <2>6, NameIfNewerOK DEF Applies
    <3>2. \A t : t # "DisplayNameSet" => OfType(applied', {t}) = OfType(applied, {t})
      BY <2>1, <2>6 DEF OfType
    <3>3. db'.affirmed = Affirmations'
      BY <3>1, <3>2 DEF Affirmations, Material
    <3>4. Inserted' /\ Sourced' /\ Tombstoned'
      BY <2>1, <2>6, <3>1 DEF Material, Inserted, Sourced, Tombstoned, OfType, HasRow, RowsOf
    <3>5. NamesOK'
      <4> SUFFICES ASSUME NEW a \in Author
                   PROVE  /\ StampsOf(a)' \subseteq Nat
                          /\ IF StampsOf(a)' = {} THEN db'.name[a] = NoName
                             ELSE /\ db'.name[a] \in StampsOf(a)'
                                  /\ \A u \in StampsOf(a)' : u <= db'.name[a]
        BY DEF NamesOK
      <4>1. /\ StampsOf(a) \subseteq Nat
            /\ IF StampsOf(a) = {} THEN db.name[a] = NoName
               ELSE db.name[a] \in StampsOf(a) /\ \A u \in StampsOf(a) : u <= db.name[a]
        BY DEF Material, NamesOK
      <4>2. CASE a # e.by
        <5>1. StampsOf(a)' = StampsOf(a)
          BY <2>1, <4>2 DEF StampsOf, OfType
        <5>2. QED
          BY <3>1, <4>1, <4>2, <5>1
      <4>3. CASE a = e.by
        <5>1. StampsOf(a)' = StampsOf(a) \cup {e.ts}
          BY <2>1, <2>6, <4>3 DEF StampsOf, OfType
        <5> DEFINE old == StampsOf(a)
                   new == StampsOf(a)'
        <5>2. NoName \notin Nat
          BY FeedAssumption
        <5> HIDE DEF old, new
        <5>3. new = old \cup {e.ts} /\ old \subseteq Nat
              /\ (old = {} => db.name[a] = NoName)
              /\ (old # {} => db.name[a] \in old /\ \A u \in old : u <= db.name[a])
          BY <4>1, <5>1 DEF old, new
        <5>4. new \subseteq Nat /\ new # {}
          BY <3>1, <5>3
        <5>5. db'.name[a] \in new /\ \A u \in new : u <= db'.name[a]
          <6>1. CASE old = {}
            <7>1. db'.name[a] = e.ts
              BY <3>1, <4>3, <5>3, <6>1
            <7>2. QED
              BY <3>1, <5>3, <6>1, <7>1
          <6>2. CASE old # {}
            <7>1. /\ db.name[a] \in old /\ db.name[a] \in Nat /\ db.name[a] # NoName
                  /\ \A u \in old : u \in Nat /\ u <= db.name[a]
              BY <5>2, <5>3, <6>2
            <7>2. IF e.ts <= db.name[a] THEN db'.name[a] = db.name[a] ELSE db'.name[a] = e.ts
              BY <3>1, <4>3, <7>1
            <7>3. CASE e.ts <= db.name[a]
              BY <5>3, <7>1, <7>2, <7>3
            <7>4. CASE ~(e.ts <= db.name[a])
              <8>1. db'.name[a] = e.ts /\ e.ts \in Nat
                BY <3>1, <7>2, <7>4
              <8>2. \A u \in old : u <= e.ts
                BY <3>1, <7>1, <7>4
              <8>3. QED
                BY <5>3, <8>1, <8>2
            <7>5. QED
              BY <7>3, <7>4
          <6>3. QED
            BY <6>1, <6>2
        <5>6. QED
          BY <5>4, <5>5 DEF new
      <4>4. QED
        BY <4>2, <4>3
    <3>6. QED
      BY <3>3, <3>4, <3>5 DEF Material
  <2>7. QED
    BY <1>3, <2>2, <2>3, <2>4, <2>5, <2>6 DEF Applies
<1>4. StoreStep
  BY <1>1, NextIsStoreStep
<1>5. QED
  BY <1>2, <1>3, <1>4 DEF StoreStep

(***************************************************************************)
(* Whatever the order, the repetitions and the equal texts, the readings,  *)
(* affirmations and names in the store are those of the applied events,    *)
(* and only an author's own operation revokes.                             *)
(***************************************************************************)
THEOREM StoreIsMaterialised == Spec => []MaterialisedFromApplied
  BY InitType, NextType, InitMaterial, NextMaterial, MaterialIsMaterialised, PTL DEF Spec

(***************************************************************************)
(* Items and their ids                                                     *)
(***************************************************************************)
LEMMA SameIdSameItem ==
  ASSUME NEW s, StoreOK(s), NEW i \in FeedItem, NEW j \in FeedItem,
         StableIn(i, s.rows), StableIn(j, s.rows), i.id = j.id
  PROVE  i = j
<1>1. i.cat = j.cat
  BY DEF StableIn
<1>2. i.log = j.log
  <2>1. CASE i.id[1] = "op"
    <3>1. PICK o \in Ops : i.id = <<"op", o.hash>> /\ i.log = OpLog(o)
      BY <2>1 DEF StableIn
    <3>2. PICK p \in Ops : j.id = <<"op", p.hash>> /\ j.log = OpLog(p)
      BY <2>1 DEF StableIn
    <3>3. o.hash = p.hash
      <4>1. o.hash = <<"op", o.hash>>[2] /\ p.hash = <<"op", p.hash>>[2]
        OBVIOUS
      <4>2. QED
        BY <3>1, <3>2, <4>1
    <3>4. o = p
      BY <3>3, FeedAssumption
    <3>5. QED
      BY <3>1, <3>2, <3>4
  <2>2. CASE i.id[1] = "log"
    <3>1. PICK r \in s.rows : i.id = LogEvent(r.log) /\ i.log = RowLog(r)
      BY <2>2 DEF StableIn
    <3>2. PICK t \in s.rows : j.id = LogEvent(t.log) /\ j.log = RowLog(t)
      BY <2>2 DEF StableIn
    <3>3. r.log = t.log
      <4>1. LogEvent(r.log)[2] = r.log /\ LogEvent(t.log)[2] = t.log
        BY DEF LogEvent
      <4>2. QED
        BY <3>1, <3>2, <4>1
    <3>4. r = t
      BY <3>3 DEF StoreOK
    <3>5. QED
      BY <3>1, <3>2, <3>4
  <2>3. CASE i.id[1] \notin {"op", "log"}
    BY <2>3 DEF StableIn
  <2>4. QED
    BY <2>1, <2>2, <2>3
<1>3. QED
  BY <1>1, <1>2 DEF FeedItem

LEMMA StableStays ==
  ASSUME StoreOK(db), StoreStep, NEW i, StableIn(i, db.rows)
  PROVE  StableIn(i, db'.rows)
<1>1. ASSUME NEW r \in db.rows
      PROVE  \E q \in db'.rows : q.log = r.log /\ RowLog(q) = RowLog(r)
  <2>1. PICK q \in db'.rows : q.log = r.log /\ q.by = r.by /\ q.parent = r.parent
    BY RowsStay
  <2>2. QED
    BY <2>1 DEF RowLog
<1>2. i.id[1] = "log" => \E r \in db'.rows : i.id = LogEvent(r.log) /\ i.log = RowLog(r)
  <2>1. SUFFICES ASSUME i.id[1] = "log"
                 PROVE  \E r \in db'.rows : i.id = LogEvent(r.log) /\ i.log = RowLog(r)
    OBVIOUS
  <2>2. PICK r \in db.rows : i.id = LogEvent(r.log) /\ i.log = RowLog(r)
    BY <2>1 DEF StableIn
  <2>3. QED
    BY <1>1, <2>2
<1>3. QED
  BY <1>2 DEF StableIn

\* What the feed is filled with from the store.
LEMMA RecentRows ==
  ASSUME NEW s, StoreOK(s)
  PROVE  /\ RecentFeedRows(s) \subseteq FeedItem /\ IsFiniteSet(RecentFeedRows(s))
         /\ \A i \in RecentFeedRows(s) : StableIn(i, s.rows) /\ LiveIn(i, s.rows)
         /\ \A r \in s.rows : r.parent = NoParent /\ ~r.revoked =>
              \E i \in RecentFeedRows(s) : i.log = r.log
<1> DEFINE live == {r \in s.rows : ~r.revoked}
           hearts == {q \in s.affirmed : q[1] \in {r.log : r \in live}}
           RowItem(r) == [id |-> LogEvent(r.log), cat |-> "community", log |-> RowLog(r)]
           HeartItem(p) == [id |-> AffirmEvent(p[1], p[2]), cat |-> "community", log |-> NoParent]
           A == {RowItem(r) : r \in live}
           B == {HeartItem(p) : p \in hearts}
<1>1. RecentFeedRows(s) = A \cup B
  BY DEF RecentFeedRows, RowLog
<1>2. ASSUME NEW r \in s.rows
      PROVE  r.log \in LogIds /\ r.parent \in LogIds \cup {NoParent} /\ r.revoked \in BOOLEAN
  BY DEF StoreOK, Row
<1>3. ASSUME NEW r \in live
      PROVE  /\ RowItem(r) \in FeedItem /\ StableIn(RowItem(r), s.rows) /\ LiveIn(RowItem(r), s.rows)
             /\ RowItem(r).log = RowLog(r)
  <2>1. r.log \in LogIds /\ RowLog(r) \in {NoParent, r.log}
    BY <1>2 DEF RowLog
  <2>2. LogEvent(r.log) \in EventId /\ LogEvent(r.log)[1] = "log"
    BY <2>1 DEF EventId, LogEvent
  <2> DEFINE i == RowItem(r)
  <2>3. i.id = LogEvent(r.log) /\ i.cat = "community" /\ i.log = RowLog(r)
    OBVIOUS
  <2>4. i \in FeedItem
    BY <2>1, <2>2 DEF FeedItem
  <2> HIDE DEF i
  <2>5. StableIn(i, s.rows)
    BY <2>2, <2>3 DEF StableIn
  <2>6. LiveIn(i, s.rows)
    BY <2>1, <2>3 DEF LiveIn
  <2>7. QED
    BY <2>3, <2>4, <2>5, <2>6 DEF i
<1>4. ASSUME NEW p \in hearts
      PROVE  /\ HeartItem(p) \in FeedItem /\ StableIn(HeartItem(p), s.rows)
             /\ LiveIn(HeartItem(p), s.rows)
  <2>1. p[1] \in LogIds /\ p[2] \in Author
    BY DEF StoreOK
  <2>2. AffirmEvent(p[1], p[2]) \in EventId /\ AffirmEvent(p[1], p[2])[1] = "affirm"
    BY <2>1 DEF EventId, AffirmEvent
  <2> DEFINE i == HeartItem(p)
  <2>3. i.id = AffirmEvent(p[1], p[2]) /\ i.cat = "community" /\ i.log = NoParent
    OBVIOUS
  <2>4. i \in FeedItem
    BY <2>2 DEF FeedItem
  <2> HIDE DEF i
  <2>5. StableIn(i, s.rows) /\ LiveIn(i, s.rows)
    BY <2>2, <2>3 DEF StableIn, LiveIn
  <2>6. QED
    BY <2>4, <2>5 DEF i
<1>5. IsFiniteSet(A) /\ IsFiniteSet(B)
  <2>1. IsFiniteSet(live) /\ IsFiniteSet(hearts)
    BY FS_Subset DEF StoreOK
  <2>2. [r \in live |-> RowItem(r)] \in Surjection(live, A)
    BY DEF Surjection
  <2>3. [p \in hearts |-> HeartItem(p)] \in Surjection(hearts, B)
    BY DEF Surjection
  <2> HIDE DEF live, hearts, A, B
  <2>4. QED
    BY <2>1, <2>2, <2>3, FS_Surjection
<1>6. \A r \in s.rows : r.parent = NoParent /\ ~r.revoked => \E i \in A : i.log = r.log
  <2> TAKE r \in s.rows
  <2> HAVE r.parent = NoParent /\ ~r.revoked
  <2>1. r \in live /\ RowLog(r) = r.log
    BY DEF RowLog
  <2>2. RowItem(r) \in A /\ RowItem(r).log = r.log
    BY <2>1
  <2>3. QED
    BY <2>2
<1>7. IsFiniteSet(A \cup B)
  BY <1>5, FS_Union
<1> HIDE DEF A, B, RowItem, HeartItem
<1>8. \A i \in A : \E r \in live : i = RowItem(r)
  BY DEF A
<1>9. \A i \in B : \E p \in hearts : i = HeartItem(p)
  BY DEF B
<1>10. QED
  BY <1>1, <1>3, <1>4, <1>6, <1>7, <1>8, <1>9

(***************************************************************************)
(* What the update loop sends                                              *)
(***************************************************************************)
\* w adds cards that are live, and one for every reading that is new to the feed.
Adding(w) ==
  /\ NoReset(w) /\ raced' = raced
  /\ \A k \in 1 .. Len(w) : \A i \in Carries(w[k]) :
       StableIn(i, db'.rows) /\ LiveIn(i, db'.rows)
  /\ \A r \in db.rows : ~r.revoked => r \in db'.rows
  /\ \A r \in db'.rows : Wanted(r)' =>
       \/ r \in db.rows /\ Wanted(r)
       \/ \E k \in 1 .. Len(w) : \E i \in Carries(w[k]) : i.log = r.log

\* w replaces the backlog by what the store holds after a revocation.
Redrawing(w) ==
  /\ w = <<Reset(RecentFeedRows(db'))>>
  /\ raced' = (raced \/ backfill = "read")

TickerItem(t) == Item(<<"transit", t>>, "personal", NoParent)

LoopStep ==
  /\ UNCHANGED <<mounted, backfill, held, all>>
  /\ \E w \in Seq(Message) : Send(w) /\ (Adding(w) \/ Redrawing(w))
  /\ pending' = pending \/ \E t \in Transits : pending' = pending \cup {TickerItem(t)}

LEMMA PushesOK ==
  /\ \A i \in FeedItem :
       /\ Push(i) \in Message /\ Carries(Push(i)) = {i} /\ Push(i).type = "push"
       /\ <<Push(i)>> \in Seq(Message) /\ NoReset(<<Push(i)>>) /\ Len(<<Push(i)>>) = 1
       /\ <<Push(i)>>[1] = Push(i)
  /\ <<>> \in Seq(Message) /\ NoReset(<<>>) /\ Len(<<>>) = 0
<1>1. ASSUME NEW i \in FeedItem
      PROVE  Push(i) \in Message /\ Carries(Push(i)) = {i} /\ Push(i).type = "push"
  BY DEF Push, Message, Carries
<1>2. QED
  BY <1>1 DEF NoReset

\* Rows untouched: anything live may be added.
LEMMA QuietAdding ==
  ASSUME db'.rows = db.rows, applied \subseteq applied', raced' = raced,
         NEW w, NoReset(w),
         \A k \in 1 .. Len(w) : \A i \in Carries(w[k]) : StableIn(i, db'.rows) /\ LiveIn(i, db'.rows)
  PROVE  Adding(w)
  BY DEF Adding, Wanted

LEMMA QuietNothing ==
  ASSUME db'.rows = db.rows, applied \subseteq applied', raced' = raced
  PROVE  Adding(<<>>) /\ <<>> \in Seq(Message)
<1>1. Len(<<>>) = 0 /\ NoReset(<<>>) /\ <<>> \in Seq(Message)
  BY PushesOK
<1>2. \A k \in 1 .. Len(<<>>) : FALSE
  BY <1>1
<1>3. QED
  BY <1>1, <1>2, QuietAdding

\* Cards of operations that are not readings, of blocks, vetoes and affirmations.
LEMMA PlainItem ==
  ASSUME NEW id \in EventId, id[1] \in {"op", "block", "affirm", "rolled_back"},
         id[1] = "op" => \E op \in Ops : id = <<"op", op.hash>> /\ OpLog(op) = NoParent,
         NEW rows
  PROVE  /\ CommunityItem(id) \in FeedItem /\ StableIn(CommunityItem(id), rows)
         /\ LiveIn(CommunityItem(id), rows)
<1> DEFINE i == CommunityItem(id)
<1>1. i.id = id /\ i.cat = "community" /\ i.log = NoParent /\ i \in FeedItem
  BY DEF CommunityItem, Item, FeedItem
<1> HIDE DEF i
<1>2. StableIn(i, rows) /\ LiveIn(i, rows)
  BY <1>1 DEF StableIn, LiveIn
<1>3. QED
  BY <1>1, <1>2 DEF i

LEMMA TransitItem ==
  ASSUME NEW t \in Transits, NEW rows
  PROVE  /\ TickerItem(t) \in FeedItem /\ StableIn(TickerItem(t), rows)
         /\ LiveIn(TickerItem(t), rows) /\ TickerItem(t).log = NoParent
<1> DEFINE i == TickerItem(t)
<1>1. <<"transit", t>> \in EventId /\ <<"transit", t>>[1] = "transit"
  BY DEF EventId
<1>2. i.id = <<"transit", t>> /\ i.cat = "personal" /\ i.log = NoParent /\ i \in FeedItem
  BY <1>1 DEF TickerItem, Item, FeedItem
<1> HIDE DEF i
<1>3. StableIn(i, rows) /\ LiveIn(i, rows)
  BY <1>1, <1>2 DEF StableIn, LiveIn
<1>4. QED
  BY <1>2, <1>3 DEF i

LEMMA EventIds ==
  /\ \A op \in Ops : /\ <<"op", op.hash>> \in EventId /\ <<"block", op.hash>> \in EventId
                     /\ <<"op", op.hash>>[1] = "op" /\ <<"block", op.hash>>[1] = "block"
  /\ \A log \in LogIds, by \in Author :
       AffirmEvent(log, by) \in EventId /\ AffirmEvent(log, by)[1] = "affirm"
  /\ \A target \in Target, by \in Author :
       /\ <<"rolled_back", target, by>> \in EventId
       /\ <<"rolled_back", target, by>>[1] = "rolled_back"
<1>1. \A op \in Ops : op.hash \in Hash
  BY DEF Hash
<1>2. QED
  BY <1>1 DEF EventId, AffirmEvent

LEMMA UnreadIds ==
  ASSUME NEW s, StoreOK(s), NEW me
  PROVE  FeedTargetingUnreadIds(s, me) \subseteq EventId
<1>1. \A p \in s.affirmed : AffirmEvent(p[1], p[2]) \in EventId
  BY DEF StoreOK, AffirmEvent, EventId
<1>2. \A r \in s.rows : LogEvent(r.log) \in EventId
  BY DEF StoreOK, Row, LogEvent, EventId
<1>3. QED
  BY <1>1, <1>2 DEF FeedTargetingUnreadIds

\* A revocation that took effect redraws, one that did not sends nothing.
LEMMA RevokeLoop ==
  ASSUME TypeInv, QueueInv, NEW log, NEW by, db' = RevokeInterp(db, log, by),
         Send(IF db' # db THEN <<Reset(RecentFeedRows(db'))>> ELSE <<>>),
         raced' = (raced \/ (db' # db /\ backfill = "read")),
         applied \subseteq applied'
  PROVE  \E w \in Seq(Message) : Send(w) /\ (Adding(w) \/ Redrawing(w))
<1>1. StoreOK(db')
  BY RevokeInterpOK DEF TypeInv
<1>2. CASE db' = db
  <2>1. raced' = raced /\ Send(<<>>)
    BY <1>2 DEF TypeInv, TypeOK
  <2>2. Adding(<<>>)
    BY <1>2, <2>1, QuietNothing
  <2>3. QED
    BY <2>1, <2>2, PushesOK
<1>3. CASE db' # db
  <2>1. RecentFeedRows(db') \in SUBSET FeedItem
    BY <1>1, RecentRows
  <2>2. <<Reset(RecentFeedRows(db'))>> \in Seq(Message)
    BY <2>1 DEF Reset, Message
  <2>3. Redrawing(<<Reset(RecentFeedRows(db'))>>)
    BY <1>3 DEF Redrawing
  <2>4. QED
    BY <1>3, <2>2, <2>3
<1>4. QED
  BY <1>2, <1>3

\* A statement that inserted a row whose event is applied too.
LEMMA InsertAdding ==
  ASSUME TypeInv, NEW log, NEW by, NEW parent, Adds(db, db', log, by, parent),
         applied \subseteq applied', raced' = raced, NEW w, NoReset(w),
         \A k \in 1 .. Len(w) : \A i \in Carries(w[k]) : StableIn(i, db'.rows) /\ LiveIn(i, db'.rows),
         \/ parent # NoParent
         \/ \E o \in applied' : o.type = "Import" /\ LogId(KEY, o.text) = log
         \/ \E k \in 1 .. Len(w) : \E i \in Carries(w[k]) : i.log = log
  PROVE  Adding(w)
<1> DEFINE row == NewRow(log, by, parent)
<1>1. \A r \in db'.rows : r \in db.rows \/ r = row
  BY DEF Adds
<1>2. \A r \in db.rows : r \in db'.rows
  BY DEF Adds
<1>3. row.log = log /\ row.parent = parent
  BY DEF NewRow
<1> HIDE DEF row
<1>4. ASSUME NEW r \in db'.rows, Wanted(r)'
      PROVE  \/ r \in db.rows /\ Wanted(r)
             \/ \E k \in 1 .. Len(w) : \E i \in Carries(w[k]) : i.log = r.log
  <2>1. CASE r \in db.rows
    BY <1>4, <2>1 DEF Wanted
  <2>2. CASE r = row
    BY <1>3, <1>4, <2>2 DEF Wanted
  <2>3. QED
    BY <1>1, <2>1, <2>2
<1>5. QED
  BY <1>2, <1>4 DEF Adding

LEMMA SyncIsLoop ==
  ASSUME TypeInv, QueueInv, NEW op \in Ops, SyncStateEvent(op)
  PROVE  LoopStep
<1> DEFINE e == StateEventOf(op, events)
<1>1. /\ StoreOK(db) /\ refresh \in BOOLEAN /\ raced \in BOOLEAN /\ events \in Nat
      /\ view \in Seq(Message)
  BY FeedAssumption DEF TypeInv, TypeOK, QueueInv, QueuesOK
<1>2. /\ e.type = "InterpAuthored" =>
           /\ e.by \in Author /\ e.text \in Text /\ e.id = op.hash
           /\ OpLog(op) = LogId(KEY, e.text)
      /\ e.type = "AffirmAdded" => e.by \in Author /\ e.log \in LogIds
      /\ e.type = "ResponseAdded" =>
           /\ e.by \in Author /\ e.log \in LogIds /\ e.text \in Text /\ e.id = op.hash
           /\ OpLog(op) = NoParent
      /\ e.type = "DisplayNameSet" => e.by \in Author /\ e.ts \in Nat
      /\ e.type \in {"DocEdited", "DocAffirmed", "EditorPresenceChanged"} =>
           e.id = op.hash /\ OpLog(op) = NoParent
      /\ e.type = "DocVetoProposed" => e.by \in Author /\ e.target \in Target
  BY <1>1, EventFacts
<1>3. UNCHANGED <<mounted, backfill, held, all, pending>>
  BY DEF SyncStateEvent, feedVars
<1>4. \/ UNCHANGED <<db, view, applied, raced>>
      \/ InterpAuthored(e) \/ AffirmAdded(e) \/ ResponseAdded(e) \/ InterpRevoked(e)
      \/ DisplayNameSet(e) \/ DocEdited(e) \/ DocVetoProposed(e) \/ DocShown(e)
  BY DEF SyncStateEvent, NotShown, historyVars
<1> HIDE DEF e
<1>5. SUFFICES \E w \in Seq(Message) : Send(w) /\ (Adding(w) \/ Redrawing(w))
  BY <1>3 DEF LoopStep
\* An operation that shows the card of its own hash
<1>6. ASSUME OpLog(op) = NoParent, e.id = op.hash, NEW rows
      PROVE  /\ CommunityItem(OpEvent(e)) \in FeedItem
             /\ StableIn(CommunityItem(OpEvent(e)), rows) /\ LiveIn(CommunityItem(OpEvent(e)), rows)
  <2>1. OpEvent(e) = <<"op", op.hash>> /\ OpEvent(e) \in EventId /\ OpEvent(e)[1] = "op"
    BY <1>6, EventIds DEF OpEvent
  <2>2. QED
    BY <1>6, <2>1, PlainItem
<1>7. CASE UNCHANGED <<db, view, applied, raced>>
  <2>1. Send(<<>>)
    BY <1>1, <1>7, ConcatEmptySeq DEF Send
  <2>2. QED
    BY <1>7, <2>1, QuietNothing
<1>8. CASE InterpAuthored(e)
  <2> DEFINE item == Item(OpEvent(e), "community", LogId(KEY, e.text))
             log == LogId(KEY, e.text)
  <2>1. /\ e.type = "InterpAuthored" /\ db' = InsertFromOp(db, e.text, e.by)
        /\ applied' = applied \cup {e} /\ raced' = raced
        /\ Send(IF db' # db THEN <<Push(item)>> ELSE <<>>)
    BY <1>8 DEF InterpAuthored, Show
  <2>2. Applies(e)
    BY <1>2, <2>1 DEF Applies
  <2>3. StoreOK(db') /\ Adds(db, db', log, e.by, NoParent)
    BY <1>1, <2>1, <2>2, AppliesOK
  <2>4. CASE db' = db
    <3>1. db'.rows = db.rows /\ applied \subseteq applied' /\ raced' = raced /\ Send(<<>>)
      BY <2>1, <2>4
    <3>2. QED
      BY <3>1, QuietNothing
  <2>5. CASE db' # db
    <3>1. log \in LogIds /\ OpEvent(e) = <<"op", op.hash>> /\ OpEvent(e) \in EventId
          /\ OpEvent(e)[1] = "op"
      BY <1>2, <2>1, LogIdType, EventIds DEF OpEvent
    <3>2. item.id = OpEvent(e) /\ item.cat = "community" /\ item.log = log
      BY DEF Item
    <3>3. item \in FeedItem
      BY <3>1 DEF Item, FeedItem
    <3>4. ~HasRow(db, log)
      <4>1. db' = InsertRow(db, log, e.by, NoParent)
        BY <2>1 DEF InsertFromOp
      <4>2. QED
        BY <2>5, <4>1 DEF InsertRow
    <3>5. NewRow(log, e.by, NoParent) \in db'.rows
      BY <2>3, <3>4 DEF Adds
    <3>6. NewRow(log, e.by, NoParent).log = log /\ ~NewRow(log, e.by, NoParent).revoked
      BY DEF NewRow
    <3> HIDE DEF item, log
    <3>7. StableIn(item, db'.rows) /\ LiveIn(item, db'.rows)
      BY <1>2, <2>1, <3>1, <3>2, <3>5, <3>6 DEF StableIn, LiveIn, log
    <3>8. /\ <<Push(item)>> \in Seq(Message) /\ NoReset(<<Push(item)>>)
          /\ Len(<<Push(item)>>) = 1 /\ Carries(<<Push(item)>>[1]) = {item}
      BY <3>3, PushesOK
    <3>9. \A k \in 1 .. Len(<<Push(item)>>) : Carries(<<Push(item)>>[k]) = {item}
      BY <3>8
    <3>10. \E k \in 1 .. Len(<<Push(item)>>) : \E i \in Carries(<<Push(item)>>[k]) : i.log = log
      BY <3>2, <3>8
    <3>11. applied \subseteq applied' /\ raced' = raced
      BY <2>1
    <3> HIDE DEF Push
    <3>12. Adding(<<Push(item)>>)
      BY <2>3, <3>7, <3>8, <3>9, <3>10, <3>11, InsertAdding
    <3>13. QED
      BY <2>1, <2>5, <3>8, <3>12
  <2>6. QED
    BY <2>4, <2>5
<1>9. CASE AffirmAdded(e)
  <2> DEFINE item == CommunityItem(AffirmEvent(e.log, e.by))
  <2>1. /\ e.type = "AffirmAdded" /\ db' = AffirmInterp(db, e.log, e.by)
        /\ applied' = applied \cup {e} /\ raced' = raced
        /\ Send(IF db' # db THEN <<Push(item)>> ELSE <<>>)
    BY <1>9 DEF AffirmAdded, Show
  <2>2. db'.rows = db.rows
    BY <1>1, <1>2, <2>1, AffirmInterpOK
  <2>3. item \in FeedItem /\ StableIn(item, db'.rows) /\ LiveIn(item, db'.rows)
    <3>1. AffirmEvent(e.log, e.by) \in EventId /\ AffirmEvent(e.log, e.by)[1] = "affirm"
      BY <1>2, <2>1, EventIds
    <3>2. QED
      BY <3>1, PlainItem
  <2> HIDE DEF item
  <2>4. /\ <<Push(item)>> \in Seq(Message) /\ NoReset(<<Push(item)>>)
        /\ \A k \in 1 .. Len(<<Push(item)>>) : Carries(<<Push(item)>>[k]) = {item}
    BY <2>3, PushesOK
  <2>5. Adding(<<Push(item)>>) /\ Adding(<<>>)
    BY <2>1, <2>2, <2>3, <2>4, QuietAdding, PushesOK
  <2>6. QED
    BY <2>1, <2>4, <2>5, PushesOK
<1>10. CASE ResponseAdded(e)
  <2> DEFINE item == CommunityItem(OpEvent(e))
             log == ResponseLog(db, e.log, e.text)
  <2>1. /\ e.type = "ResponseAdded" /\ db' = InsertResponseFromOp(db, e.log, e.text, e.by)
        /\ applied' = applied \cup {e} /\ raced' = raced
        /\ Send(IF db' # db THEN <<Push(item)>> ELSE <<>>)
    BY <1>10 DEF ResponseAdded, Show
  <2>2. Applies(e)
    BY <1>2, <2>1 DEF Applies
  <2>3. Adds(db, db', log, e.by, e.log) /\ e.log # NoParent
    BY <1>1, <1>2, <2>1, <2>2, AppliesOK, FeedAssumption
  <2>4. item \in FeedItem /\ StableIn(item, db'.rows) /\ LiveIn(item, db'.rows)
    BY <1>2, <1>6, <2>1
  <2> HIDE DEF item, log
  <2>5. /\ <<Push(item)>> \in Seq(Message) /\ NoReset(<<Push(item)>>)
        /\ \A k \in 1 .. Len(<<Push(item)>>) : Carries(<<Push(item)>>[k]) = {item}
    BY <2>4, PushesOK
  <2>6. applied \subseteq applied' /\ raced' = raced
    BY <2>1
  <2>7. Adding(<<Push(item)>>)
    BY <2>3, <2>4, <2>5, <2>6, InsertAdding
  <2>8. Adding(<<>>)
    BY <2>3, <2>6, InsertAdding, PushesOK
  <2>9. QED
    BY <2>1, <2>5, <2>7, <2>8, PushesOK
<1>11. CASE InterpRevoked(e)
  <2>1. /\ db' = RevokeInterp(db, e.log, e.by)
        /\ Send(IF db' # db THEN <<Reset(RecentFeedRows(db'))>> ELSE <<>>)
        /\ raced' = (raced \/ (db' # db /\ backfill = "read"))
        /\ applied \subseteq applied'
    BY <1>11 DEF InterpRevoked
  <2>2. QED
    BY <2>1, RevokeLoop
<1>12. CASE DisplayNameSet(e)
  <2>1. /\ db' = SetPeerDisplayNameIfNewer(db, e.by, e.ts) /\ e.by \in Author /\ e.ts \in Nat
        /\ view' = view /\ raced' = raced /\ applied \subseteq applied'
    BY <1>2, <1>12 DEF DisplayNameSet
  <2>2. db'.rows = db.rows
    BY <1>1, <2>1, NameIfNewerOK
  <2>3. Send(<<>>)
    BY <1>1, <2>1, ConcatEmptySeq DEF Send
  <2>4. QED
    BY <2>1, <2>2, <2>3, QuietNothing
<1>13. CASE DocEdited(e)
  <2> DEFINE one == CommunityItem(OpEvent(e))
             two == CommunityItem(BlockEvent(e))
             both == <<Push(two), Push(one)>>
  <2>1. /\ e.type = "DocEdited" /\ db' = db /\ raced' = raced /\ applied' = applied
        /\ Send(both) \/ Send(<<Push(one)>>)
    BY <1>13 DEF DocEdited, historyVars
  <2>2. one \in FeedItem /\ StableIn(one, db'.rows) /\ LiveIn(one, db'.rows)
    BY <1>2, <1>6, <2>1
  <2>3. two \in FeedItem /\ StableIn(two, db'.rows) /\ LiveIn(two, db'.rows)
    <3>1. BlockEvent(e) \in EventId /\ BlockEvent(e)[1] = "block"
      BY <1>2, <2>1, EventIds DEF BlockEvent
    <3>2. QED
      BY <3>1, PlainItem
  <2> HIDE DEF one, two
  <2>4. /\ <<Push(one)>> \in Seq(Message) /\ NoReset(<<Push(one)>>)
        /\ \A k \in 1 .. Len(<<Push(one)>>) : Carries(<<Push(one)>>[k]) = {one}
    BY <2>2, PushesOK
  <2>5. both \in Seq(Message) /\ Len(both) = 2 /\ both[1] = Push(two) /\ both[2] = Push(one)
    <3>1. Push(two) \in Message /\ Push(one) \in Message
      BY <2>2, <2>3, PushesOK
    <3> HIDE DEF Push
    <3>2. QED
      BY <3>1
  <2>6. NoReset(both) /\ \A k \in 1 .. Len(both) : Carries(both[k]) \subseteq {one, two}
    <3>1. /\ Push(two).type = "push" /\ Push(one).type = "push"
          /\ Carries(Push(two)) = {two} /\ Carries(Push(one)) = {one}
      BY <2>2, <2>3, PushesOK
    <3> HIDE DEF both
    <3>2. QED
      BY <2>5, <3>1 DEF NoReset
  <2> HIDE DEF both
  <2>7. Adding(both)
    BY <2>1, <2>2, <2>3, <2>6, QuietAdding
  <2>8. Adding(<<Push(one)>>)
    BY <2>1, <2>2, <2>4, QuietAdding
  <2>9. QED
    BY <2>1, <2>4, <2>5, <2>7, <2>8
<1>14. CASE DocVetoProposed(e)
  <2> DEFINE item == CommunityItem(RolledBackEvent(e))
  <2>1. /\ e.type = "DocVetoProposed" /\ db' = db /\ raced' = raced /\ applied' = applied
        /\ Send(<<Push(item)>>) \/ Send(<<>>)
    BY <1>14 DEF DocVetoProposed, historyVars
  <2>2. item \in FeedItem /\ StableIn(item, db'.rows) /\ LiveIn(item, db'.rows)
    <3>1. RolledBackEvent(e) \in EventId /\ RolledBackEvent(e)[1] = "rolled_back"
      BY <1>2, <2>1, EventIds DEF RolledBackEvent
    <3>2. QED
      BY <3>1, PlainItem
  <2> HIDE DEF item
  <2>3. /\ <<Push(item)>> \in Seq(Message) /\ NoReset(<<Push(item)>>)
        /\ \A k \in 1 .. Len(<<Push(item)>>) : Carries(<<Push(item)>>[k]) = {item}
    BY <2>2, PushesOK
  <2>4. Adding(<<Push(item)>>) /\ Adding(<<>>)
    BY <2>1, <2>2, <2>3, QuietAdding, PushesOK
  <2>5. QED
    BY <2>1, <2>3, <2>4, PushesOK
<1>15. CASE DocShown(e)
  <2> DEFINE item == CommunityItem(OpEvent(e))
  <2>1. /\ e.type \in {"DocAffirmed", "EditorPresenceChanged"} /\ db' = db /\ raced' = raced
        /\ applied' = applied /\ Send(<<Push(item)>>)
    BY <1>15 DEF DocShown, historyVars
  <2>2. item \in FeedItem /\ StableIn(item, db'.rows) /\ LiveIn(item, db'.rows)
    BY <1>2, <1>6, <2>1
  <2> HIDE DEF item
  <2>3. /\ <<Push(item)>> \in Seq(Message) /\ NoReset(<<Push(item)>>)
        /\ \A k \in 1 .. Len(<<Push(item)>>) : Carries(<<Push(item)>>[k]) = {item}
    BY <2>2, PushesOK
  <2>4. Adding(<<Push(item)>>)
    BY <2>1, <2>2, <2>3, QuietAdding
  <2>5. QED
    BY <2>1, <2>3, <2>4
<1>16. QED
  BY <1>4, <1>7, <1>8, <1>9, <1>10, <1>11, <1>12, <1>13, <1>14, <1>15

\* The cards of a finite set, and marks of a finite set of ids, as messages.
LEMMA PushSeq ==
  ASSUME NEW S \in SUBSET FeedItem, IsFiniteSet(S), NEW q, q = SetToSeq({Push(i) : i \in S})
  PROVE  /\ q \in Seq(Message) /\ NoReset(q)
         /\ \A k \in 1 .. Len(q) : Carries(q[k]) \subseteq S
         /\ \A i \in S : \E k \in 1 .. Len(q) : i \in Carries(q[k])
<1> DEFINE P == {Push(i) : i \in S}
<1>1. IsFiniteSet(P)
  <2>1. [i \in S |-> Push(i)] \in Surjection(S, P)
    BY DEF Surjection
  <2>2. QED
    BY <2>1, FS_Surjection
<1>2. P \subseteq Message /\ \A m \in P : m.type = "push" /\ Carries(m) \subseteq S
  <2> SUFFICES ASSUME NEW i \in S
               PROVE  Push(i) \in Message /\ Push(i).type = "push" /\ Carries(Push(i)) \subseteq S
    OBVIOUS
  <2> HIDE DEF P
  <2>1. i \in FeedItem
    OBVIOUS
  <2>2. QED
    BY <2>1, PushesOK
<1>3. \A i \in S : Push(i) \in P /\ i \in Carries(Push(i))
  BY PushesOK
<1> HIDE DEF P, Push
<1>4. q \in Seq(P) /\ \A x \in P : \E k \in 1 .. Len(q) : q[k] = x
  BY <1>1, SetToSeqIsOnto DEF P
<1>5. \A k \in 1 .. Len(q) : q[k] \in P
  BY <1>4
<1>6. QED
  BY <1>2, <1>3, <1>4, <1>5, SeqMonotonic DEF NoReset

LEMMA MarkSeq ==
  ASSUME NEW S \in SUBSET EventId, IsFiniteSet(S), NEW q, q = SetToSeq({MarkRead(i) : i \in S})
  PROVE  q \in Seq(Message) /\ NoReset(q) /\ \A k \in 1 .. Len(q) : Carries(q[k]) = {}
<1> DEFINE P == {MarkRead(i) : i \in S}
<1>1. IsFiniteSet(P)
  <2>1. [i \in S |-> MarkRead(i)] \in Surjection(S, P)
    BY DEF Surjection
  <2>2. QED
    BY <2>1, FS_Surjection
<1>2. P \subseteq Message /\ \A m \in P : m.type # "reset" /\ Carries(m) = {}
  BY DEF MarkRead, Message, Carries
<1> HIDE DEF P
<1>3. q \in Seq(P)
  BY <1>1, SetToSeqIsOnto DEF P
<1>4. \A k \in 1 .. Len(q) : q[k] \in P
  BY <1>3
<1>5. QED
  BY <1>2, <1>3, <1>4, SeqMonotonic DEF NoReset

\* The other steps that leave the backlog and what the backfill holds alone.
OtherLoop ==
  \/ \E r \in Handed : ImportInterps(r)
  \/ \E t \in Transits : PushFeedItem(t)
  \/ \E peer \in Author \ {Me} : ToggleMutePeer(peer)
  \/ BellClicked \/ FeedViewOut \/ RefreshBellBadge
  \/ \E cat \in Categories : SetCategory(cat)
  \/ \E c \in cards : CardSetRead(c, TRUE) \/ CardSetRead(c, FALSE)
                      \/ CardActivated(c) \/ CardRevoke(c)
  \/ UNCHANGED vars

LEMMA OtherIsLoop ==
  ASSUME TypeInv, QueueInv, OtherLoop
  PROVE  LoopStep
<1>1. StoreOK(db) /\ view \in Seq(Message)
  BY DEF TypeInv, QueueInv, QueuesOK
<1>2. ASSUME view' = view
      PROVE  Send(<<>>)
  BY <1>1, <1>2, ConcatEmptySeq DEF Send
<1>3. ASSUME NEW r \in Handed, ImportInterps(r)
      PROVE  LoopStep
  <2> DEFINE e == [type |-> "Import", by |-> r.by, text |-> r.text]
             log == LogId(KEY, r.text)
  <2>1. /\ applied' = applied \cup {e} /\ db' = InsertFromOp(db, r.text, r.by)
        /\ UNCHANGED <<mounted, pending, backfill, held, view, all, raced>>
    BY <1>3 DEF ImportInterps, InsertReceived, feedVars
  <2>2. e.type = "Import" /\ e.text = r.text /\ e.by = r.by /\ e \in applied'
    BY <2>1
  <2>3. r.text \in Text /\ r.by \in Author
    BY FeedAssumption
  <2> HIDE DEF e
  <2>4. Adds(db, db', log, r.by, NoParent)
    <3>1. Applies(e)
      BY <2>1, <2>2, <2>3 DEF Applies
    <3>2. QED
      BY <1>1, <2>2, <3>1, AppliesOK
  <2> HIDE DEF log
  <2>5. \E o \in applied' : o.type = "Import" /\ LogId(KEY, o.text) = log
    BY <2>2 DEF log
  <2>6. Adding(<<>>)
    <3>1. Len(<<>>) = 0 /\ NoReset(<<>>)
      BY PushesOK
    <3>2. \A k \in 1 .. Len(<<>>) : FALSE
      BY <3>1
    <3>3. QED
      BY <2>1, <2>4, <2>5, <3>1, <3>2, InsertAdding
  <2>7. QED
    BY <1>2, <2>1, <2>6, PushesOK DEF LoopStep
<1>4. ASSUME NEW t \in Transits, PushFeedItem(t)
      PROVE  LoopStep
  <2> DEFINE i == TickerItem(t)
  <2>1. /\ Send(<<Push(i)>>) /\ pending' \in {pending, pending \cup {i}}
        /\ UNCHANGED <<db, mounted, backfill, held, all, applied, raced>>
    BY <1>4 DEF PushFeedItem, TickerItem, feedVars, historyVars
  <2>2. i \in FeedItem /\ StableIn(i, db'.rows) /\ LiveIn(i, db'.rows)
    BY TransitItem
  <2>3. pending' = pending \/ \E x \in Transits : pending' = pending \cup {TickerItem(x)}
    BY <2>1
  <2> HIDE DEF i
  <2>4. /\ <<Push(i)>> \in Seq(Message) /\ NoReset(<<Push(i)>>)
        /\ \A k \in 1 .. Len(<<Push(i)>>) : Carries(<<Push(i)>>[k]) = {i}
    BY <2>2, PushesOK
  <2>5. Adding(<<Push(i)>>)
    BY <2>1, <2>2, <2>4, QuietAdding
  <2>6. QED
    BY <2>1, <2>3, <2>4, <2>5 DEF LoopStep
<1>5. ASSUME NEW peer \in Author, ToggleMutePeer(peer)
      PROVE  LoopStep
  <2>1. /\ db' = ToggleMute(db, peer)
        /\ UNCHANGED <<mounted, pending, backfill, held, view, all, applied, raced>>
    BY <1>5 DEF ToggleMutePeer, feedVars, historyVars
  <2>2. db'.rows = db.rows
    BY <1>1, <2>1, ToggleMuteOK
  <2>3. QED
    BY <1>2, <2>1, <2>2, QuietNothing DEF LoopStep
<1>6. CASE BellClicked
  <2> DEFINE ids == FeedTargetingUnreadIds(db, Me)
             q == SetToSeq({MarkRead(i) : i \in ids})
  <2>1. /\ db' = BulkMarkRead(db, ids) /\ Send(q)
        /\ UNCHANGED <<mounted, pending, backfill, held, all, applied, raced>>
    BY <1>6 DEF BellClicked, feedVars, historyVars
  <2>2. db'.rows = db.rows
    BY <1>1, <2>1, MarksOK
  <2>3. ids \subseteq EventId /\ IsFiniteSet(ids)
    BY <1>1, UnreadIds, UnreadIsFinite
  <2> HIDE DEF ids
  <2>4. q \in Seq(Message) /\ NoReset(q) /\ \A k \in 1 .. Len(q) : Carries(q[k]) = {}
    BY <2>3, MarkSeq
  <2> HIDE DEF q
  <2>5. Adding(q)
    BY <2>1, <2>2, <2>4, QuietAdding
  <2>6. QED
    BY <2>1, <2>4, <2>5 DEF LoopStep
<1>7. CASE FeedViewOut
  <2> DEFINE m == Head(outbox)
  <2>1. UNCHANGED <<mounted, pending, backfill, held, all>>
    BY <1>7 DEF FeedViewOut, feedVars
  <2>2. CASE SubmitRevoke(m.log)
    <3>1. /\ db' = RevokeInterp(db, m.log, Me)
          /\ Send(IF db' # db THEN <<Reset(RecentFeedRows(db'))>> ELSE <<>>)
          /\ raced' = (raced \/ (db' # db /\ backfill = "read"))
          /\ applied \subseteq applied'
      BY <2>2 DEF SubmitRevoke
    <3>2. QED
      BY <2>1, <3>1, RevokeLoop DEF LoopStep
  <2>3. CASE FeedSetRead(m.id, m.read)
    <3>1. /\ db' \in {MarkEventRead(db, m.id), MarkEventUnread(db, m.id), BulkMarkRead(db, m.id)}
          /\ UNCHANGED <<view, applied, raced>>
      BY <2>3 DEF FeedSetRead, historyVars
    <3>2. db'.rows = db.rows
      BY <1>1, <3>1, MarksOK
    <3>3. QED
      BY <1>2, <2>1, <3>1, <3>2, QuietNothing DEF LoopStep
  <2>4. CASE m.type = "activate" /\ FeedActivated(m.id)
    <3>1. /\ db' \in {MarkEventRead(db, m.id), MarkEventUnread(db, m.id), BulkMarkRead(db, m.id)}
          /\ Send(<<MarkRead(m.id)>>) /\ UNCHANGED <<applied, raced>>
      BY <2>4 DEF FeedActivated, historyVars
    <3>2. db'.rows = db.rows
      BY <1>1, <3>1, MarksOK
    <3>3. m.id \in EventId
      <4>1. outbox # <<>> /\ outbox \in Seq(OutMessage)
        BY <1>7 DEF FeedViewOut, QueueInv, CardsOK
      <4>2. m \in OutMessage
        BY <4>1
      <4> HIDE DEF m
      <4>3. QED
        BY <2>4, <4>2 DEF OutMessage
    <3> DEFINE q == <<MarkRead(m.id)>>
    <3>4. MarkRead(m.id) \in Message /\ MarkRead(m.id).type = "read" /\ Carries(MarkRead(m.id)) = {}
      BY <3>3 DEF MarkRead, Message, Carries
    <3> HIDE DEF MarkRead
    <3>5. q \in Seq(Message) /\ NoReset(q) /\ \A k \in 1 .. Len(q) : Carries(q[k]) = {}
      BY <3>4 DEF NoReset
    <3> HIDE DEF q
    <3>6. Adding(q)
      BY <3>1, <3>2, <3>5, QuietAdding
    <3>7. QED
      BY <2>1, <3>1, <3>5, <3>6 DEF LoopStep, q
  <2>5. QED
    BY <1>7, <2>2, <2>3, <2>4 DEF FeedViewOut
<1>8. CASE \/ RefreshBellBadge
           \/ \E cat \in Categories : SetCategory(cat)
           \/ \E c \in cards : CardSetRead(c, TRUE) \/ CardSetRead(c, FALSE)
                               \/ CardActivated(c) \/ CardRevoke(c)
           \/ UNCHANGED vars
  <2>1. UNCHANGED <<db, mounted, pending, backfill, held, view, all, applied, raced>>
    BY <1>8 DEF RefreshBellBadge, SetCategory, ResetItems, CardSetRead, CardActivated, CardRevoke,
       vars, feedVars, historyVars
  <2>2. QED
    BY <1>2, <2>1, QuietNothing DEF LoopStep
<1>9. QED
  BY <1>3, <1>4, <1>5, <1>6, <1>7, <1>8 DEF OtherLoop

\* Every step is one of the update loop's or one of the four that move cards.
LEMMA NextSteps ==
  ASSUME TypeInv, QueueInv, [Next]_vars
  PROVE  LoopStep \/ MountFeed \/ BackfillReads \/ BackfillFeed \/ FeedViewMessage
  BY SyncIsLoop, OtherIsLoop DEF Next, OtherLoop

(***************************************************************************)
(* The queues keep their types, and the items in them are the store's      *)
(***************************************************************************)
LEMMA ConcatElements ==
  ASSUME NEW v \in Seq(Message), NEW w \in Seq(Message)
  PROVE  /\ v \o w \in Seq(Message)
         /\ \A k \in 1 .. Len(v \o w) :
              \/ \E j \in 1 .. Len(v) : (v \o w)[k] = v[j]
              \/ \E j \in 1 .. Len(w) : (v \o w)[k] = w[j]
<1> DEFINE u == v \o w
<1>1. /\ u \in Seq(Message) /\ Len(u) = Len(v) + Len(w) /\ Len(v) \in Nat /\ Len(w) \in Nat
      /\ \A k \in 1 .. Len(u) : u[k] = IF k <= Len(v) THEN v[k] ELSE w[k - Len(v)]
  BY ConcatProperties, LenProperties
<1> HIDE DEF u
<1>2. ASSUME NEW k \in 1 .. Len(u)
      PROVE  (\E j \in 1 .. Len(v) : u[k] = v[j]) \/ (\E j \in 1 .. Len(w) : u[k] = w[j])
  <2>1. CASE k <= Len(v)
    <3>1. k \in 1 .. Len(v) /\ u[k] = v[k]
      BY <1>1, <2>1
    <3>2. QED
      BY <3>1
  <2>2. CASE ~(k <= Len(v))
    <3>1. k - Len(v) \in 1 .. Len(w) /\ u[k] = w[k - Len(v)]
      BY <1>1, <2>2
    <3>2. QED
      BY <3>1
  <2>3. QED
    BY <2>1, <2>2
<1>3. QED
  BY <1>1, <1>2 DEF u

\* What w may be in a step of the update loop.
LEMMA LoopMessages ==
  ASSUME StoreOK(db'), NEW w \in Seq(Message), Adding(w) \/ Redrawing(w)
  PROVE  \A k \in 1 .. Len(w) : \A i \in Carries(w[k]) : StableIn(i, db'.rows)
<1>1. CASE Adding(w)
  BY <1>1 DEF Adding
<1>2. CASE Redrawing(w)
  <2>1. Len(w) = 1 /\ w[1] = Reset(RecentFeedRows(db'))
    BY <1>2 DEF Redrawing
  <2>2. Carries(w[1]) = RecentFeedRows(db')
    BY <2>1 DEF Carries, Reset
  <2>3. QED
    BY <2>1, <2>2, RecentRows
<1>3. QED
  BY <1>1, <1>2

\* The backlog after a message was taken.
LEMMA ViewMessage ==
  ASSUME TypeInv, QueueInv, FeedViewMessage
  PROVE  /\ view # <<>> /\ Head(view) \in Message /\ view' = Tail(view)
         /\ all' = Taken(all, Head(view))
         /\ Carries(Head(view)) \subseteq FeedItem
         /\ \A i \in Carries(Head(view)) : StableIn(i, db.rows)
         /\ view' \in Seq(Message)
         /\ \A k \in 1 .. Len(view') : \E j \in 1 .. Len(view) : view'[k] = view[j]
         /\ UNCHANGED <<db, mounted, pending, backfill, held, applied, raced>>
<1> DEFINE m == Head(view)
<1>1. view # <<>> /\ view' = Tail(view) /\ view \in Seq(Message)
  BY DEF FeedViewMessage, QueueInv, QueuesOK
<1>2. /\ m \in Message /\ Tail(view) \in Seq(Message) /\ m = view[1] /\ 1 \in 1 .. Len(view)
      /\ Len(Tail(view)) = Len(view) - 1 /\ Len(view) \in Nat
      /\ \A k \in 1 .. Len(Tail(view)) : Tail(view)[k] = view[k + 1]
  BY <1>1, HeadTailProperties, LenProperties, EmptySeq
<1>3. \A k \in 1 .. Len(view') : \E j \in 1 .. Len(view) : view'[k] = view[j]
  <2> TAKE k \in 1 .. Len(view')
  <2>1. k + 1 \in 1 .. Len(view) /\ view'[k] = view[k + 1]
    BY <1>1, <1>2
  <2>2. QED
    BY <2>1
<1>4. \A i \in Carries(m) : StableIn(i, db.rows)
  BY <1>2 DEF QueueInv, AllStable
<1>5. Carries(m) \subseteq FeedItem
  <2>1. /\ m.type = "push" => m.item \in FeedItem
        /\ m.type = "reset" => m.items \subseteq FeedItem
    <3> HIDE DEF m
    <3>1. QED
      BY <1>2 DEF Message
  <2>2. QED
    BY <2>1 DEF Carries
<1>6. all' = Taken(all, m)
  <2>1. CASE m.type = "push" /\ PushItem(m.item)
    <3>1. m.item \in Carries(m)
      BY <2>1 DEF Carries
    <3>2. \A i \in all : i \in FeedItem /\ StableIn(i, db.rows)
      BY DEF QueueInv, QueuesOK, AllStable
    <3>3. \A i \in all : i.id = m.item.id => i = m.item
      BY <1>4, <1>5, <3>1, <3>2, SameIdSameItem DEF TypeInv
    <3>4. all' = {i \in all : i.id # m.item.id} \cup {m.item}
      BY <2>1 DEF PushItem
    <3>5. all' = all \cup {m.item}
      <4> HIDE DEF m
      <4>1. QED
        BY <3>3, <3>4
    <3>6. QED
      BY <2>1, <3>5 DEF Taken
  <2>2. CASE m.type = "reset" /\ ResetItems(m.items, category)
    BY <2>2 DEF ResetItems, Taken
  <2>3. CASE m.type = "read" /\ UNCHANGED <<all, known>>
    BY <2>3 DEF Taken
  <2>4. QED
    BY <2>1, <2>2, <2>3 DEF FeedViewMessage
<1>7. UNCHANGED <<db, mounted, pending, backfill, held, applied, raced>>
  BY DEF FeedViewMessage, historyVars
<1>8. QED
  BY <1>1, <1>2, <1>3, <1>4, <1>5, <1>6, <1>7

\* What a mount hands over, and what the backfill replays.
LEMMA MountMessages ==
  ASSUME QueueInv, MountFeed
  PROVE  \E q \in Seq(Message) :
           /\ NoReset(q) /\ view' = view \o q
           /\ \A k \in 1 .. Len(q) : Carries(q[k]) \subseteq pending
<1> DEFINE q == SetToSeq({Push(i) : i \in pending})
<1>1. view' = view \o q
  BY DEF MountFeed
<1>2. pending \in SUBSET FeedItem /\ IsFiniteSet(pending)
  BY DEF QueueInv, QueuesOK
<1>3. q \in Seq(Message) /\ NoReset(q) /\ \A k \in 1 .. Len(q) : Carries(q[k]) \subseteq pending
  BY <1>2, PushSeq
<1>4. QED
  BY <1>1, <1>3

LEMMA BackfillMessages ==
  ASSUME QueueInv, BackfillFeed
  PROVE  \E q \in Seq(Message) :
           /\ NoReset(q) /\ view' = view \o q
           /\ \A k \in 1 .. Len(q) : Carries(q[k]) \subseteq held
           /\ \A i \in held : \E k \in 1 .. Len(q) : i \in Carries(q[k])
<1> DEFINE q == SetToSeq({Push(i) : i \in held})
<1>1. view' = view \o q
  BY DEF BackfillFeed
<1>2. held \in SUBSET FeedItem /\ IsFiniteSet(held)
  BY DEF QueueInv, QueuesOK
<1>3. /\ q \in Seq(Message) /\ NoReset(q) /\ \A k \in 1 .. Len(q) : Carries(q[k]) \subseteq held
      /\ \A i \in held : \E k \in 1 .. Len(q) : i \in Carries(q[k])
  BY <1>2, PushSeq
<1>4. QED
  BY <1>1, <1>3

LEMMA NextQueues ==
  ASSUME TypeInv, QueueInv, [Next]_vars
  PROVE  QueuesOK' /\ MountOK' /\ AllStable'
<1>1. /\ StoreOK(db) /\ view \in Seq(Message)
      /\ all \subseteq FeedItem /\ pending \subseteq FeedItem /\ held \subseteq FeedItem
      /\ IsFiniteSet(pending) /\ IsFiniteSet(held) /\ \A i \in pending : i.log = NoParent
      /\ mounted \in BOOLEAN
  BY DEF TypeInv, TypeOK, QueueInv, QueuesOK
<1>2. StoreStep /\ StoreOK(db')
  <2>1. events \in Nat
    BY FeedAssumption DEF TypeInv, TypeOK
  <2>2. QED
    BY <1>1, <2>1, NextIsStoreStep, StoreIsOK
<1>3. /\ \A i \in all \cup held \cup pending : StableIn(i, db'.rows)
      /\ \A k \in 1 .. Len(view) : \A i \in Carries(view[k]) : StableIn(i, db'.rows)
  BY <1>1, <1>2, StableStays DEF QueueInv, AllStable
<1>4. /\ mounted <=> backfill # "idle"
      /\ backfill \in {"idle", "reading", "read", "done"}
      /\ ~mounted => view = <<>> /\ all = {}
      /\ backfill # "read" => held = {}
  BY DEF QueueInv, MountOK
<1>5. ASSUME LoopStep
      PROVE  QueuesOK' /\ MountOK' /\ AllStable'
  <2>1. UNCHANGED <<mounted, backfill, held, all>>
    BY <1>5 DEF LoopStep
  <2>2. PICK w \in Seq(Message) : Send(w) /\ (Adding(w) \/ Redrawing(w))
    BY <1>5 DEF LoopStep
  <2>3. \A k \in 1 .. Len(w) : \A i \in Carries(w[k]) : StableIn(i, db'.rows)
    BY <1>2, <2>2, LoopMessages
  <2>4. view' = IF mounted THEN view \o w ELSE view
    BY <2>2 DEF Send
  <2>5. view' \in Seq(Message)
    BY <1>1, <2>4, ConcatElements
  <2>6. \A k \in 1 .. Len(view') : \A i \in Carries(view'[k]) : StableIn(i, db'.rows)
    BY <1>1, <1>3, <2>3, <2>4, ConcatElements
  <2>7. /\ pending' \subseteq FeedItem /\ IsFiniteSet(pending') /\ \A i \in pending' : i.log = NoParent
        /\ \A i \in pending' : StableIn(i, db'.rows)
    <3>1. CASE pending' = pending
      BY <1>1, <1>3, <3>1
    <3>2. ASSUME NEW t \in Transits, pending' = pending \cup {TickerItem(t)}
          PROVE  /\ pending' \subseteq FeedItem /\ IsFiniteSet(pending')
                 /\ \A i \in pending' : i.log = NoParent /\ StableIn(i, db'.rows)
      <4>1. IsFiniteSet(pending \cup {TickerItem(t)})
        BY <1>1, FS_AddElement
      <4>2. TickerItem(t) \in FeedItem /\ TickerItem(t).log = NoParent /\ StableIn(TickerItem(t), db'.rows)
        BY TransitItem
      <4>3. QED
        BY <1>1, <1>3, <3>2, <4>1, <4>2
    <3>3. QED
      BY <1>5, <3>1, <3>2 DEF LoopStep
  <2>8. QED
    BY <1>1, <1>3, <1>4, <2>1, <2>4, <2>5, <2>6, <2>7 DEF QueuesOK, MountOK, AllStable
<1>6. ASSUME MountFeed
      PROVE  QueuesOK' /\ MountOK' /\ AllStable'
  <2>1. /\ mounted' = TRUE /\ pending' = {} /\ backfill' = "reading" /\ UNCHANGED <<held, all, db>>
        /\ ~mounted
    BY <1>6 DEF MountFeed, feedVars
  <2>2. PICK q \in Seq(Message) :
           /\ NoReset(q) /\ view' = view \o q
           /\ \A k \in 1 .. Len(q) : Carries(q[k]) \subseteq pending
    BY <1>6, MountMessages
  <2>3. view' \in Seq(Message)
    BY <1>1, <2>2, ConcatElements
  <2>4. \A k \in 1 .. Len(view') : \A i \in Carries(view'[k]) : StableIn(i, db'.rows)
    <3>1. \A k \in 1 .. Len(q) : \A i \in Carries(q[k]) : StableIn(i, db'.rows)
      BY <1>3, <2>2
    <3>2. \A k \in 1 .. Len(view') : \/ \E j \in 1 .. Len(view) : view'[k] = view[j]
                                    \/ \E j \in 1 .. Len(q) : view'[k] = q[j]
      BY <1>1, <2>2, ConcatElements
    <3>3. QED
      BY <1>3, <3>1, <3>2
  <2>5. IsFiniteSet(pending') /\ held' = {}
    BY <1>4, <2>1, FS_EmptySet
  <2>6. QED
    BY <1>1, <1>3, <2>1, <2>3, <2>4, <2>5 DEF QueuesOK, MountOK, AllStable
<1>7. ASSUME BackfillReads
      PROVE  QueuesOK' /\ MountOK' /\ AllStable'
  <2>1. /\ backfill = "reading" /\ backfill' = "read" /\ held' = RecentFeedRows(db)
        /\ UNCHANGED <<mounted, pending, view, all, db>>
    BY <1>7 DEF BackfillReads, feedVars
  <2>2. /\ held' \subseteq FeedItem /\ IsFiniteSet(held')
        /\ \A i \in held' : StableIn(i, db'.rows)
    BY <1>1, <2>1, RecentRows
  <2>3. QED
    BY <1>1, <1>3, <1>4, <2>1, <2>2 DEF QueuesOK, MountOK, AllStable
<1>8. ASSUME BackfillFeed
      PROVE  QueuesOK' /\ MountOK' /\ AllStable'
  <2>1. /\ backfill = "read" /\ backfill' = "done" /\ held' = {}
        /\ UNCHANGED <<mounted, pending, all, db>>
    BY <1>8 DEF BackfillFeed, feedVars
  <2>2. PICK q \in Seq(Message) :
           /\ NoReset(q) /\ view' = view \o q
           /\ \A k \in 1 .. Len(q) : Carries(q[k]) \subseteq held
    BY <1>8, BackfillMessages
  <2>3. view' \in Seq(Message)
    BY <1>1, <2>2, ConcatElements
  <2>4. \A k \in 1 .. Len(view') : \A i \in Carries(view'[k]) : StableIn(i, db'.rows)
    <3>1. \A k \in 1 .. Len(q) : \A i \in Carries(q[k]) : StableIn(i, db'.rows)
      BY <1>3, <2>2
    <3>2. \A k \in 1 .. Len(view') : \/ \E j \in 1 .. Len(view) : view'[k] = view[j]
                                    \/ \E j \in 1 .. Len(q) : view'[k] = q[j]
      BY <1>1, <2>2, ConcatElements
    <3>3. QED
      BY <1>3, <3>1, <3>2
  <2>5. IsFiniteSet(held')
    BY <2>1, FS_EmptySet
  <2>6. QED
    BY <1>1, <1>3, <1>4, <2>1, <2>3, <2>4, <2>5 DEF QueuesOK, MountOK, AllStable
<1>9. ASSUME FeedViewMessage
      PROVE  QueuesOK' /\ MountOK' /\ AllStable'
  <2> DEFINE m == Head(view)
  <2>1. /\ view # <<>> /\ all' = Taken(all, m)
        /\ Carries(m) \subseteq FeedItem /\ \A i \in Carries(m) : StableIn(i, db.rows)
        /\ view' \in Seq(Message)
        /\ \A k \in 1 .. Len(view') : \E j \in 1 .. Len(view) : view'[k] = view[j]
        /\ UNCHANGED <<db, mounted, pending, backfill, held>>
    BY <1>9, ViewMessage
  <2>2. all' \subseteq all \cup Carries(m)
    BY <2>1 DEF Taken, Carries
  <2> HIDE DEF m
  <2>3. \A k \in 1 .. Len(view') : \A i \in Carries(view'[k]) : StableIn(i, db'.rows)
    BY <1>3, <2>1
  <2>4. QED
    BY <1>1, <1>3, <1>4, <2>1, <2>2, <2>3 DEF QueuesOK, MountOK, AllStable
<1>10. QED
  BY <1>5, <1>6, <1>7, <1>8, <1>9, NextSteps

(***************************************************************************)
(* The cards on screen                                                     *)
(***************************************************************************)
\* The ids of the items of a category.
Visible(items, cat) == {i.id : i \in {x \in items : cat = "all" \/ x.cat = cat}}

\* A reset renders one unread card for each of them.
LEMMA UnreadCards ==
  ASSUME NEW S, NEW rendered, rendered = {[id |-> v, read |-> FALSE] : v \in S}
  PROVE  /\ {c.id : c \in rendered} = S
         /\ \A c, d \in rendered : c.id = d.id => c = d
         /\ \A c \in rendered : c.id \in S /\ c = [id |-> c.id, read |-> FALSE]
<1> DEFINE Unread(v) == [id |-> v, read |-> FALSE]
<1>1. \A v : Unread(v).id = v
  OBVIOUS
<1>2. rendered = {Unread(v) : v \in S}
  OBVIOUS
<1>3. \A c \in rendered : \E v \in S : c = Unread(v)
  BY <1>2
<1> HIDE DEF Unread
<1>4. \A c \in rendered : c.id \in S /\ c = Unread(c.id)
  BY <1>1, <1>3
<1>5. \A v \in S : Unread(v) \in rendered
  BY <1>2
<1>6. {c.id : c \in rendered} = S
  BY <1>1, <1>4, <1>5
<1>7. QED
  BY <1>4, <1>6 DEF Unread

LEMMA NextCards ==
  ASSUME TypeInv, QueueInv, [Next]_vars
  PROVE  CardsOK'
<1> DEFINE Card == [id : EventId, read : BOOLEAN]
<1>1. cards \subseteq Card /\ outbox \in Seq(OutMessage) /\ all \subseteq FeedItem
  BY DEF QueueInv, CardsOK, QueuesOK
<1>2. ASSUME NEW c \in cards
      PROVE  c.id \in EventId
  BY <1>1
<1>3. ASSUME NEW id, NEW read \in BOOLEAN, SetCardRead(id, read)
      PROVE  cards' \subseteq Card
  <2>1. \A c \in cards : [c EXCEPT !.read = read] \in Card /\ c \in Card
    BY <1>1
  <2> HIDE DEF Card
  <2>2. QED
    BY <1>3, <2>1 DEF SetCardRead
<1>4. ASSUME NEW items \in SUBSET FeedItem, NEW cat, ResetItems(items, cat)
      PROVE  cards' \subseteq Card
  <2>1. \A i \in items : i.id \in EventId
    BY DEF FeedItem
  <2>2. Visible(items, cat) \subseteq EventId
    BY <2>1 DEF Visible
  <2>3. cards' = {[id |-> v, read |-> FALSE] : v \in Visible(items, cat)}
    BY <1>4 DEF ResetItems, Visible
  <2>4. \A c \in cards' : c.id \in EventId /\ c = [id |-> c.id, read |-> FALSE]
    BY <2>2, <2>3, UnreadCards
  <2>5. \A c \in cards' : [id |-> c.id, read |-> FALSE] \in Card
    BY <2>4
  <2> HIDE DEF Card
  <2>6. \A c \in cards' : c \in Card
    BY <2>4, <2>5, Zenon
  <2>7. QED
    BY <2>6
<1>5. ASSUME NEW m \in OutMessage
      PROVE  Append(outbox, m) \in Seq(OutMessage)
  BY <1>1, AppendProperties
<1>6. CASE FeedViewMessage
  <2> DEFINE m == Head(view)
  <2>1. m \in Message /\ Carries(m) \subseteq FeedItem /\ outbox' = outbox
    BY <1>6, ViewMessage DEF FeedViewMessage
  <2>2. CASE m.type = "push" /\ PushItem(m.item)
    <3>1. m.item \in FeedItem
      BY <2>1, <2>2 DEF Carries
    <3>2. [id |-> m.item.id, read |-> FALSE] \in Card
      BY <3>1 DEF FeedItem
    <3> HIDE DEF m
    <3>3. cards' \subseteq cards \cup {[id |-> m.item.id, read |-> FALSE]}
      BY <2>2 DEF PushItem
    <3>4. QED
      BY <1>1, <2>1, <3>2, <3>3 DEF CardsOK
  <2>3. CASE m.type = "reset" /\ ResetItems(m.items, category)
    <3>1. m.items \in SUBSET FeedItem
      BY <2>1, <2>3 DEF Carries
    <3>2. QED
      BY <1>1, <1>4, <2>1, <2>3, <3>1 DEF CardsOK
  <2>4. CASE m.type = "read" /\ SetCardRead(m.id, TRUE)
    BY <1>1, <1>3, <2>1, <2>4 DEF CardsOK
  <2>5. QED
    BY <1>6, <2>2, <2>3, <2>4 DEF FeedViewMessage
<1>7. CASE \E cat \in Categories : SetCategory(cat)
  <2>1. PICK cat \in Categories : SetCategory(cat)
    BY <1>7
  <2>2. ResetItems(all, cat) /\ outbox' = outbox
    BY <2>1 DEF SetCategory
  <2>3. QED
    BY <1>1, <1>4, <2>2 DEF CardsOK
<1>8. ASSUME NEW c \in cards, NEW read \in BOOLEAN, CardSetRead(c, read)
      PROVE  CardsOK'
  <2> DEFINE m == [type |-> "set", id |-> c.id, read |-> read]
  <2>1. SetCardRead(c.id, read) /\ outbox' = Append(outbox, m)
    BY <1>8 DEF CardSetRead
  <2>2. m \in OutMessage
    BY <1>2 DEF OutMessage
  <2> HIDE DEF m
  <2>3. QED
    BY <1>3, <1>5, <2>1, <2>2 DEF CardsOK
<1>9. ASSUME NEW c \in cards, CardActivated(c)
      PROVE  CardsOK'
  <2> DEFINE m == [type |-> "activate", id |-> c.id]
  <2>1. SetCardRead(c.id, TRUE) /\ outbox' = Append(outbox, m)
    BY <1>9 DEF CardActivated
  <2>2. m \in OutMessage
    BY <1>2 DEF OutMessage
  <2> HIDE DEF m
  <2>3. QED
    BY <1>3, <1>5, <2>1, <2>2 DEF CardsOK
<1>10. ASSUME NEW c \in cards, CardRevoke(c)
       PROVE  CardsOK'
  <2>1. PICK i \in all : i.log # NoParent /\ outbox' = Append(outbox, [type |-> "revoke", log |-> i.log])
    BY <1>10 DEF CardRevoke
  <2> DEFINE m == [type |-> "revoke", log |-> i.log]
  <2>2. m \in OutMessage
    BY <1>1, <2>1 DEF OutMessage, FeedItem
  <2> HIDE DEF m
  <2>3. cards' = cards
    BY <1>10 DEF CardRevoke, feedVars
  <2>4. QED
    BY <1>1, <1>5, <2>1, <2>2, <2>3 DEF CardsOK, m
<1>11. CASE FeedViewOut
  <2>1. outbox # <<>> /\ outbox' = Tail(outbox) /\ cards' = cards
    BY <1>11 DEF FeedViewOut, feedVars
  <2>2. QED
    BY <1>1, <2>1, HeadTailProperties DEF CardsOK
<1>12. CASE \/ \E op \in Ops : SyncStateEvent(op)
            \/ \E r \in Handed : ImportInterps(r)
            \/ \E t \in Transits : PushFeedItem(t)
            \/ MountFeed \/ BackfillReads \/ BackfillFeed \/ RefreshBellBadge
            \/ \E peer \in Author \ {Me} : ToggleMutePeer(peer)
            \/ BellClicked \/ UNCHANGED vars
  <2>1. UNCHANGED <<cards, outbox>>
    BY <1>12 DEF SyncStateEvent, ImportInterps, PushFeedItem, MountFeed, BackfillReads,
       BackfillFeed, RefreshBellBadge, ToggleMutePeer, BellClicked, vars, feedVars
  <2>2. QED
    BY <1>1, <2>1 DEF CardsOK
<1>13. QED
  BY <1>6, <1>7, <1>8, <1>9, <1>10, <1>11, <1>12 DEF Next

LEMMA InitQueues == Init => QueueInv
<1> SUFFICES ASSUME Init
             PROVE  QueueInv
  OBVIOUS
<1>1. /\ view = <<>> /\ outbox = <<>> /\ all = {} /\ cards = {} /\ pending = {} /\ held = {}
      /\ mounted = FALSE /\ backfill = "idle"
  BY DEF Init
<1>2. Len(view) = 0 /\ view \in Seq(Message) /\ outbox \in Seq(OutMessage)
  BY <1>1, EmptySeq
<1>3. \A k \in 1 .. Len(view) : FALSE
  BY <1>2
<1>4. QED
  BY <1>1, <1>2, <1>3, FS_EmptySet DEF QueueInv, QueuesOK, CardsOK, MountOK, AllStable

LEMMA NextQueueInv == TypeInv /\ QueueInv /\ [Next]_vars => QueueInv'
  BY NextQueues, NextCards DEF QueueInv

(***************************************************************************)
(* Cards and backlog: which card there is depends on ids and categories    *)
(* only, and an item that replaces one has its category.                   *)
(***************************************************************************)
LEMMA NextCardsMatch == TypeInv /\ QueueInv /\ CardsMatchBacklog /\ [Next]_vars => CardsMatchBacklog'
<1> SUFFICES ASSUME TypeInv, QueueInv, CardsMatchBacklog, [Next]_vars
             PROVE  CardsMatchBacklog'
  OBVIOUS
<1> DEFINE Ids(s) == {c.id : c \in s}
           Match(k, s, items, cat) ==
             Ids(s) = Visible(items, cat) /\ k = Ids(s) /\ \A c, d \in s : c.id = d.id => c = d
<1>1. Match(known, cards, all, category)
  BY DEF CardsMatchBacklog, MatchCategory, Visible
<1>2. SUFFICES Match(known', cards', all', category')
  BY DEF CardsMatchBacklog, MatchCategory, Visible
<1>3. cards \subseteq [id : EventId, read : BOOLEAN]
  BY DEF QueueInv, CardsOK
<1>4. ASSUME NEW items, NEW cat, ResetItems(items, cat), category' = cat
      PROVE  Match(known', cards', all', category')
  <2>1. /\ known' = Visible(items, cat) /\ all' = items
        /\ cards' = {[id |-> v, read |-> FALSE] : v \in Visible(items, cat)}
    BY <1>4 DEF ResetItems, Visible
  <2>2. Ids(cards') = Visible(items, cat)
    <3> HIDE DEF Match
    <3>1. QED
      BY <2>1, UnreadCards
  <2>3. \A c, d \in cards' : c.id = d.id => c = d
    <3>1. \A c \in cards' : c = [id |-> c.id, read |-> FALSE]
      BY <2>1, UnreadCards
    <3>2. QED
      BY <3>1
  <2>4. QED
    BY <1>4, <2>1, <2>2, <2>3
<1>5. ASSUME NEW id, NEW read, SetCardRead(id, read), UNCHANGED <<known, all, category>>
      PROVE  Match(known', cards', all', category')
  <2> DEFINE New(c) == IF c.id = id THEN [c EXCEPT !.read = read] ELSE c
  <2>1. cards' = {New(c) : c \in cards}
    BY <1>5 DEF SetCardRead
  <2>2. ASSUME NEW c \in cards
        PROVE  New(c).id = c.id
    BY <1>3
  <2> HIDE DEF New
  <2>3. Ids(cards') = Ids(cards)
    BY <2>1, <2>2
  <2>4. \A c, d \in cards' : c.id = d.id => c = d
    <3> SUFFICES ASSUME NEW c \in cards, NEW d \in cards, New(c).id = New(d).id
                 PROVE  New(c) = New(d)
      BY <2>1
    <3>1. c.id = d.id
      BY <2>2
    <3>2. c = d
      BY <1>1, <3>1
    <3>3. QED
      BY <3>2
  <2>5. QED
    BY <1>1, <1>5, <2>3, <2>4
<1>6. CASE FeedViewMessage
  <2> DEFINE m == Head(view)
  <2>1. /\ Carries(m) \subseteq FeedItem /\ \A i \in Carries(m) : StableIn(i, db.rows)
        /\ all' = Taken(all, m) /\ category' = category
    BY <1>6, ViewMessage DEF FeedViewMessage
  <2>2. CASE m.type = "push" /\ PushItem(m.item)
    <3> DEFINE item == m.item
    <3>1. item \in Carries(m) /\ all' = all \cup {item}
      BY <2>1, <2>2 DEF Carries, Taken
    <3>2. \A i \in all : i.id = item.id => i = item
      BY <2>1, <3>1, SameIdSameItem DEF TypeInv, QueueInv, QueuesOK, AllStable
    <3>3. IF (category = "all" \/ item.cat = category) /\ item.id \notin known
          THEN /\ known' = known \cup {item.id}
               /\ cards' = cards \cup {[id |-> item.id, read |-> FALSE]}
          ELSE UNCHANGED <<known, cards>>
      BY <2>2 DEF PushItem, MatchCategory
    <3> HIDE DEF item, m
    <3>4. CASE (category = "all" \/ item.cat = category) /\ item.id \notin known
      <4> DEFINE new == [id |-> item.id, read |-> FALSE]
      <4>1. known' = known \cup {item.id} /\ cards' = cards \cup {new} /\ new.id = item.id
        BY <3>3, <3>4
      <4> HIDE DEF new
      <4>2. Ids(cards') = Ids(cards) \cup {item.id}
        BY <4>1
      <4>3. Visible(all', category) = Visible(all, category) \cup {item.id}
        BY <3>1, <3>4 DEF Visible
      <4>4. \A c \in cards : c.id # item.id
        BY <1>1, <3>4
      <4>5. \A c, d \in cards' : c.id = d.id => c = d
        BY <1>1, <4>1, <4>4
      <4>6. QED
        BY <1>1, <2>1, <4>1, <4>2, <4>3, <4>5
    <3>5. CASE ~((category = "all" \/ item.cat = category) /\ item.id \notin known)
      <4>1. UNCHANGED <<known, cards>>
        BY <3>3, <3>5
      <4>2. Visible(all', category) = Visible(all, category)
        <5>1. CASE ~(category = "all" \/ item.cat = category)
          BY <3>1, <5>1 DEF Visible
        <5>2. CASE item.id \in known
          <6>1. item.id \in Visible(all, category)
            BY <1>1, <5>2
          <6>2. item \in all
            BY <3>2, <6>1 DEF Visible
          <6>3. QED
            BY <3>1, <6>2
        <5>3. QED
          BY <3>5, <5>1, <5>2
      <4>3. QED
        BY <1>1, <2>1, <4>1, <4>2
    <3>6. QED
      BY <3>4, <3>5
  <2>3. CASE m.type = "reset" /\ ResetItems(m.items, category)
    BY <1>4, <2>1, <2>3
  <2>4. CASE m.type = "read" /\ SetCardRead(m.id, TRUE) /\ UNCHANGED <<all, known>>
    BY <1>5, <2>1, <2>4
  <2>5. QED
    BY <1>6, <2>2, <2>3, <2>4 DEF FeedViewMessage
<1>7. CASE \E cat \in Categories : SetCategory(cat)
  BY <1>4, <1>7 DEF SetCategory
<1>8. CASE \E c \in cards : CardSetRead(c, TRUE) \/ CardSetRead(c, FALSE) \/ CardActivated(c)
  BY <1>5, <1>8 DEF CardSetRead, CardActivated
<1>9. CASE \/ \E op \in Ops : SyncStateEvent(op)
           \/ \E r \in Handed : ImportInterps(r)
           \/ \E t \in Transits : PushFeedItem(t)
           \/ MountFeed \/ BackfillReads \/ BackfillFeed \/ RefreshBellBadge
           \/ \E peer \in Author \ {Me} : ToggleMutePeer(peer)
           \/ \E c \in cards : CardRevoke(c)
           \/ BellClicked \/ FeedViewOut \/ UNCHANGED vars
  <2>1. UNCHANGED <<known, cards, all, category>>
    BY <1>9 DEF SyncStateEvent, ImportInterps, PushFeedItem, MountFeed, BackfillReads,
       BackfillFeed, RefreshBellBadge, ToggleMutePeer, BellClicked, FeedViewOut, CardRevoke,
       vars, feedVars
  <2>2. QED
    BY <1>1, <2>1
<1>10. QED
  BY <1>6, <1>7, <1>8, <1>9 DEF Next

(***************************************************************************)
(* One card per event of the backlog under the filter, whatever was        *)
(* pushed, updated in place, reset or filtered.                            *)
(***************************************************************************)
THEOREM CardsAreTheBacklog == Spec => []CardsMatchBacklog
<1>1. Init => CardsMatchBacklog
  BY DEF Init, CardsMatchBacklog
<1>2. QED
  BY <1>1, InitType, NextType, InitQueues, NextQueueInv, NextCardsMatch, PTL DEF Spec

(***************************************************************************)
(* What the backlog will be: every step changes Coming by what its sender  *)
(* meant                                                                   *)
(***************************************************************************)
\* A step of the update loop that adds cards: Coming grows by what they carry.
LEMMA ComingAdds ==
  ASSUME TypeInv, QueueInv, NEW w \in Seq(Message), NoReset(w), Send(w),
         UNCHANGED <<mounted, held, all>>
  PROVE  /\ \A i \in Coming : i \in Coming'
         /\ \A i \in Coming' : i \in Coming \/ \E k \in 1 .. Len(w) : i \in Carries(w[k])
         /\ mounted => \A k \in 1 .. Len(w) : \A i \in Carries(w[k]) : i \in Coming'
<1>1. view \in Seq(Message) /\ mounted \in BOOLEAN
  BY DEF TypeInv, TypeOK, QueueInv, QueuesOK
<1>2. CASE mounted
  <2>1. view' = view \o w
    BY <1>2 DEF Send
  <2>2. \A i : i \in Drained(all', view') <=>
               i \in Drained(all, view) \/ \E k \in 1 .. Len(w) : i \in Carries(w[k])
    BY <1>1, <2>1, DrainedConcat
  <2>3. QED
    BY <2>2 DEF Coming
<1>3. CASE ~mounted
  <2>1. Coming' = Coming
    BY <1>3 DEF Send, Coming
  <2>2. QED
    BY <1>3, <2>1
<1>4. QED
  BY <1>1, <1>2, <1>3

\* One that redraws: Coming is what the store holds, but for what the backfill holds.
LEMMA ComingRedrawn ==
  ASSUME TypeInv, QueueInv, StoreOK(db'), NEW w, Redrawing(w), Send(w),
         UNCHANGED <<mounted, held, all>>
  PROVE  Coming' = (IF mounted THEN RecentFeedRows(db') ELSE {}) \cup held
<1>1. view \in Seq(Message) /\ RecentFeedRows(db') \in SUBSET FeedItem /\ mounted \in BOOLEAN
  BY RecentRows DEF TypeInv, TypeOK, QueueInv, QueuesOK
<1>2. CASE mounted
  <2>1. view' = view \o <<Reset(RecentFeedRows(db'))>>
    BY <1>2 DEF Send, Redrawing
  <2>2. view' = Append(view, Reset(RecentFeedRows(db')))
    BY <1>1, <2>1, DrainedReset
  <2>3. Drained(all', view') = RecentFeedRows(db')
    BY <1>1, <2>2, DrainedReset
  <2>4. QED
    BY <1>2, <2>3 DEF Coming
<1>3. CASE ~mounted
  <2>1. view' = <<>> /\ all' = {}
    BY <1>3 DEF Send, QueueInv, MountOK
  <2>2. QED
    BY <1>3, <2>1, DrainedEmpty DEF Coming
<1>4. QED
  BY <1>1, <1>2, <1>3

\* The mount adds what waited, which is not of the store.
LEMMA ComingMounted ==
  ASSUME QueueInv, MountFeed
  PROVE  \A i \in Coming' : i \in Coming \/ i.log = NoParent
<1>1. view \in Seq(Message) /\ \A i \in pending : i.log = NoParent
  BY DEF QueueInv, QueuesOK
<1>2. PICK q \in Seq(Message) :
         /\ NoReset(q) /\ view' = view \o q
         /\ \A k \in 1 .. Len(q) : Carries(q[k]) \subseteq pending
  BY MountMessages
<1>3. UNCHANGED <<all, held>>
  BY DEF MountFeed, feedVars
<1>4. \A i : i \in Drained(all', view') <=>
             i \in Drained(all, view) \/ \E k \in 1 .. Len(q) : i \in Carries(q[k])
  BY <1>1, <1>2, <1>3, DrainedConcat
<1>5. QED
  BY <1>1, <1>2, <1>3, <1>4 DEF Coming

\* The replay of the backfill and the feed component's own steps change nothing.
LEMMA ComingKept ==
  ASSUME TypeInv, QueueInv, BackfillFeed \/ FeedViewMessage
  PROVE  Coming' = Coming
<1>1. view \in Seq(Message)
  BY DEF QueueInv, QueuesOK
<1>2. CASE BackfillFeed
  <2>1. PICK q \in Seq(Message) :
           /\ NoReset(q) /\ view' = view \o q
           /\ \A k \in 1 .. Len(q) : Carries(q[k]) \subseteq held
           /\ \A i \in held : \E k \in 1 .. Len(q) : i \in Carries(q[k])
    BY <1>2, BackfillMessages
  <2>2. all' = all /\ held' = {}
    BY <1>2 DEF BackfillFeed, feedVars
  <2>3. \A i : i \in Drained(all', view') <=>
               i \in Drained(all, view) \/ \E k \in 1 .. Len(q) : i \in Carries(q[k])
    BY <1>1, <2>1, <2>2, DrainedConcat
  <2>4. QED
    BY <2>1, <2>2, <2>3 DEF Coming
<1>3. CASE FeedViewMessage
  <2>1. view # <<>> /\ view' = Tail(view) /\ all' = Taken(all, Head(view)) /\ held' = held
    BY <1>3, ViewMessage
  <2>2. Drained(all', view') = Drained(all, view)
    BY <1>1, <2>1, DrainedTail
  <2>3. QED
    BY <2>1, <2>2 DEF Coming
<1>4. QED
  BY <1>2, <1>3

LEMMA NextNoneRevoked == TypeInv /\ QueueInv /\ NoneRevoked /\ [Next]_vars => NoneRevoked'
<1> SUFFICES ASSUME TypeInv, QueueInv, NoneRevoked, [Next]_vars, ~raced', NEW i \in Coming'
             PROVE  LiveIn(i, db'.rows)
  BY DEF NoneRevoked
<1>1. StoreOK(db) /\ StoreOK(db')
  BY NextType DEF TypeInv
<1>2. ASSUME LoopStep
      PROVE  LiveIn(i, db'.rows)
  <2>1. UNCHANGED <<mounted, backfill, held, all>>
    BY <1>2 DEF LoopStep
  <2>2. PICK w \in Seq(Message) : Send(w) /\ (Adding(w) \/ Redrawing(w))
    BY <1>2 DEF LoopStep
  <2>3. CASE Adding(w)
    <3>1. i \in Coming \/ \E k \in 1 .. Len(w) : i \in Carries(w[k])
      BY <2>1, <2>2, <2>3, ComingAdds DEF Adding
    <3>2. CASE i \in Coming
      <4>1. LiveIn(i, db.rows)
        BY <2>3, <3>2 DEF Adding, NoneRevoked
      <4>2. QED
        BY <2>3, <4>1 DEF Adding, LiveIn
    <3>3. QED
      BY <2>3, <3>1, <3>2 DEF Adding
  <2>4. CASE Redrawing(w)
    <3>1. held = {}
      BY <2>4 DEF Redrawing, QueueInv, MountOK
    <3>2. i \in RecentFeedRows(db')
      BY <1>1, <2>1, <2>2, <2>4, <3>1, ComingRedrawn
    <3>3. QED
      BY <1>1, <3>2, RecentRows
  <2>5. QED
    BY <2>2, <2>3, <2>4
<1>3. CASE MountFeed
  <2>1. UNCHANGED <<db, raced>>
    BY <1>3 DEF MountFeed, historyVars
  <2>2. i \in Coming \/ i.log = NoParent
    BY <1>3, ComingMounted
  <2>3. QED
    BY <2>1, <2>2 DEF NoneRevoked, LiveIn
<1>4. CASE BackfillReads
  <2>1. UNCHANGED <<db, raced, all, view>> /\ held' = RecentFeedRows(db)
    BY <1>4 DEF BackfillReads, feedVars, historyVars
  <2>2. i \in Coming \/ i \in RecentFeedRows(db)
    BY <2>1 DEF Coming
  <2>3. QED
    BY <1>1, <2>1, <2>2, RecentRows DEF NoneRevoked
<1>5. CASE BackfillFeed \/ FeedViewMessage
  <2>1. UNCHANGED <<db, raced>>
    BY <1>5 DEF BackfillFeed, FeedViewMessage, historyVars
  <2>2. QED
    BY <1>5, <2>1, ComingKept DEF NoneRevoked
<1>6. QED
  BY <1>2, <1>3, <1>4, <1>5, NextSteps

LEMMA NextNoneMissing == TypeInv /\ QueueInv /\ NoneMissing /\ [Next]_vars => NoneMissing'
<1> SUFFICES ASSUME TypeInv, QueueInv, NoneMissing, [Next]_vars,
                    backfill' \in {"read", "done"}, NEW r \in db'.rows, Wanted(r)'
             PROVE  \E i \in Coming' : i.log = r.log
  BY DEF NoneMissing
<1>1. StoreOK(db) /\ StoreOK(db')
  BY NextType DEF TypeInv
<1>2. r.parent = NoParent /\ ~r.revoked
  BY DEF Wanted
<1>3. ASSUME LoopStep
      PROVE  \E i \in Coming' : i.log = r.log
  <2>1. UNCHANGED <<mounted, backfill, held, all>> /\ mounted
    BY <1>3 DEF LoopStep, QueueInv, MountOK
  <2>2. PICK w \in Seq(Message) : Send(w) /\ (Adding(w) \/ Redrawing(w))
    BY <1>3 DEF LoopStep
  <2>3. CASE Adding(w)
    <3>1. /\ \A i \in Coming : i \in Coming'
          /\ \A k \in 1 .. Len(w) : \A i \in Carries(w[k]) : i \in Coming'
      BY <2>1, <2>2, <2>3, ComingAdds DEF Adding
    <3>2. \/ r \in db.rows /\ Wanted(r)
          \/ \E k \in 1 .. Len(w) : \E i \in Carries(w[k]) : i.log = r.log
      BY <2>3 DEF Adding
    <3>3. QED
      BY <2>1, <3>1, <3>2 DEF NoneMissing
  <2>4. CASE Redrawing(w)
    <3>1. Coming' = RecentFeedRows(db') \cup held
      BY <1>1, <2>1, <2>2, <2>4, ComingRedrawn
    <3>2. QED
      BY <1>1, <1>2, <3>1, RecentRows
  <2>5. QED
    BY <2>2, <2>3, <2>4
<1>4. CASE MountFeed
  BY <1>4 DEF MountFeed
<1>5. CASE BackfillReads
  <2>1. db' = db /\ held' = RecentFeedRows(db)
    BY <1>5 DEF BackfillReads
  <2>2. QED
    BY <1>1, <1>2, <2>1, RecentRows DEF Coming
<1>6. CASE BackfillFeed \/ FeedViewMessage
  <2>1. UNCHANGED <<db, applied>> /\ backfill \in {"read", "done"}
    BY <1>6 DEF BackfillFeed, FeedViewMessage, historyVars
  <2>2. Wanted(r)
    BY <2>1 DEF Wanted
  <2>3. QED
    BY <1>6, <2>1, <2>2, ComingKept DEF NoneMissing
<1>7. QED
  BY <1>3, <1>4, <1>5, <1>6, NextSteps

LEMMA InitComing == Init => NoneRevoked /\ NoneMissing
<1> SUFFICES ASSUME Init
             PROVE  NoneRevoked /\ NoneMissing
  OBVIOUS
<1>1. all = {} /\ view = <<>> /\ held = {} /\ backfill = "idle"
  BY DEF Init
<1>2. Coming = {}
  BY <1>1, DrainedEmpty DEF Coming
<1>3. QED
  BY <1>1, <1>2 DEF NoneRevoked, NoneMissing

\* Nothing between store and feed: what is coming is there.
LEMMA ComingIsThere == QueueInv /\ Settled => Coming = all
<1> SUFFICES ASSUME QueueInv, Settled
             PROVE  Coming = all
  OBVIOUS
<1>1. held = {} /\ view = <<>>
  BY DEF QueueInv, MountOK, Settled
<1>2. QED
  BY <1>1, DrainedEmpty DEF Coming

(***************************************************************************)
(* A revoked reading is in no list, whatever was pushed, replayed or       *)
(* filtered since, unless the backfill held it when it was revoked.        *)
(***************************************************************************)
THEOREM RevokedLeaves == Spec => []RevokedIsGone
<1>1. QueueInv /\ NoneRevoked => RevokedIsGone
  BY ComingIsThere DEF NoneRevoked, RevokedIsGone, LiveIn, RowsOf
<1>2. QED
  BY <1>1, InitType, NextType, InitQueues, NextQueueInv, InitComing, NextNoneRevoked, PTL DEF Spec

(***************************************************************************)
(* A reading an operation brought reaches the backlog, also when it came   *)
(* before the feed was mounted or while the backfill was reading.          *)
(***************************************************************************)
THEOREM AuthoredArrives == Spec => []AuthoredIsShown
<1>1. QueueInv /\ NoneMissing => AuthoredIsShown
  BY ComingIsThere DEF NoneMissing, AuthoredIsShown, Wanted, Settled
<1>2. QED
  BY <1>1, InitType, NextType, InitQueues, NextQueueInv, InitComing, NextNoneMissing, PTL DEF Spec
=============================================================================
