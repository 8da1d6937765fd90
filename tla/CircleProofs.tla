---------------------------- MODULE CircleProofs ----------------------------
(***************************************************************************)
(* Proofs about Circle, for any devices and guests and logs of any length: *)
(* the types, that a revoked member reads nothing of what the owner shares *)
(* afterwards, and that a member reads all that is meant for it.           *)
(***************************************************************************)
EXTENDS Circle, TLAPS

\* The numbers of what a device holds of a log run from 1 without a hole.
Numbered == \A d, a \in Device : \E n \in Nat : Seqs(d, a) = 1 .. n

(***************************************************************************)
(* Whoever holds an operation, its author holds it too.  Only the owner    *)
(* creates and adds; the owner removes others, a guest only itself.        *)
(***************************************************************************)
MaySign(op) ==
  /\ op.kind \in {"create", "add"} => op.author = Owner
  /\ op.kind = "remove" => IF op.author = Owner THEN op.who # Owner ELSE op.who = op.author
Signed == \A d \in Device : \A op \in store[d] : op \in store[op.author] /\ MaySign(op)
\* A forwarder works on what came from others; what surfaced came from others,
\* for the device that read it.
FromOthers ==
  /\ \A d \in Device : \A t \in Topic :
       Busy(d, t) => /\ task[d][t].op \in store[d]
                     /\ task[d][t].op.author # d
  /\ \A d \in Device : \A s \in surfaced[d] :
       s \in store[s.author] /\ s.author # d /\ d \in s.to /\ s.kind = "share"

(***************************************************************************)
(* The owner's log and what it says of a member: after each removal it was *)
(* added again.                                                            *)
(***************************************************************************)
OwnLog == {op \in store[Owner] : op.author = Owner}
Regained(m) ==
  \A r \in OwnLog : r.kind = "remove" /\ r.who = m =>
    \E a \in OwnLog : a.kind = "add" /\ a.who = m /\ a.seq >= r.seq
Unwritten(k) == Busy(Owner, k) /\ task[Owner][k].at \in {"groups", "space"}
Removing == Unwritten(Command) /\ task[Owner][Command].op.kind = "remove"

Alone == \A j, k \in Task : Busy(Owner, j) /\ Busy(Owner, k) => j = k
MembersOK == ~Removing => \A m \in spaces[Owner] : Regained(m)
HandsOK == \A k \in Task : Unwritten(k) => \A m \in task[Owner][k].spaces : Regained(m)
SharesOK ==
  \A s \in OwnLog : s.kind = "share" => \A m \in s.to : \A r \in OwnLog :
    r.kind = "remove" /\ r.who = m /\ r.seq < s.seq =>
      \E a \in OwnLog : a.kind = "add" /\ a.who = m /\ a.seq \in r.seq .. s.seq
OwnerInv == ~torn[Owner] => Alone /\ MembersOK /\ HandsOK /\ SharesOK

Inv == TypeOK /\ Numbered /\ Signed /\ FromOthers /\ OwnerInv

-----------------------------------------------------------------------------
(***************************************************************************)
(* Logs.                                                                   *)
(***************************************************************************)
LEMMA TipFacts ==
  ASSUME TypeOK, Numbered, NEW d \in Device, NEW a \in Device
  PROVE  /\ Tip(d, a) \in Nat /\ Seqs(d, a) = 1 .. Tip(d, a)
         /\ \A op \in store[d] : op.author = a => op.seq <= Tip(d, a)
<1>1. PICK n \in Nat : Seqs(d, a) = 1 .. n
  BY DEF Numbered
<1>2. Tip(d, a) = n
  <2>1. CASE n = 0
    BY <1>1, <2>1 DEF Tip
  <2>2. CASE n # 0
    <3>1. n \in Seqs(d, a) /\ \A m \in Seqs(d, a) : m <= n
      BY <1>1, <2>2
    <3>2. \A x \in Seqs(d, a) : (\A m \in Seqs(d, a) : m <= x) => x = n
      BY <1>1, <3>1
    <3>3. QED
      BY <3>1, <3>2 DEF Tip
  <2>3. QED
    BY <2>1, <2>2
<1>3. \A op \in store[d] : op.author = a => op.seq \in Seqs(d, a)
  BY DEF Seqs
<1>4. QED
  BY <1>1, <1>2, <1>3

\* A device takes the next operation of a log: its own, or one it receives.
LEMMA LogExtended ==
  ASSUME TypeOK, Numbered, NEW d \in Device, NEW op \in Op,
         op.seq = Tip(d, op.author) + 1,
         store' = [store EXCEPT ![d] = @ \cup {op}]
  PROVE  /\ store' \in [Device -> SUBSET Op]
         /\ \A e \in Device : \A p, q \in store'[e] :
              p.author = q.author /\ p.seq = q.seq => p = q
         /\ Numbered'
         /\ store'[d] = store[d] \cup {op}
         /\ \A e \in Device : e # d => store'[e] = store[e]
         /\ \A p \in store[d] : p.author = op.author => p.seq < op.seq
<1>1. /\ store' \in [Device -> SUBSET Op] /\ store'[d] = store[d] \cup {op}
      /\ \A e \in Device : e # d => store'[e] = store[e]
  BY DEF TypeOK
<1>2. op.author \in Device
  BY DEF Op
<1>3. /\ Tip(d, op.author) \in Nat /\ Seqs(d, op.author) = 1 .. Tip(d, op.author)
      /\ \A p \in store[d] : p.author = op.author => p.seq <= Tip(d, op.author)
  BY <1>2, TipFacts
<1>4. \A p \in store[d] : p.author = op.author => p.seq < op.seq
  BY <1>3 DEF TypeOK, Op
<1>5. ASSUME NEW e \in Device, NEW p \in store'[e], NEW q \in store'[e],
             p.author = q.author, p.seq = q.seq
      PROVE  p = q
  <2>1. CASE e # d
    BY <1>1, <1>5, <2>1 DEF TypeOK
  <2>2. CASE e = d
    <3>1. CASE p \in store[d] /\ q \in store[d]
      BY <1>5, <3>1 DEF TypeOK
    <3>2. CASE p = op /\ q \in store[d]
      BY <1>4, <1>5, <3>2 DEF TypeOK, Op
    <3>3. CASE q = op /\ p \in store[d]
      BY <1>4, <1>5, <3>3 DEF TypeOK, Op
    <3>4. QED
      BY <1>1, <2>2, <3>1, <3>2, <3>3
  <2>3. QED
    BY <2>1, <2>2
<1>6. Numbered'
  <2> SUFFICES ASSUME NEW e \in Device, NEW a \in Device
               PROVE  \E n \in Nat : Seqs(e, a)' = 1 .. n
    BY DEF Numbered
  <2>1. CASE e = d /\ a = op.author
    <3>1. Seqs(e, a)' = Seqs(d, a) \cup {op.seq}
      BY <1>1, <2>1 DEF Seqs
    <3>2. Seqs(e, a)' = 1 .. Tip(d, a) + 1
      BY <1>3, <2>1, <3>1
    <3>3. QED
      BY <1>3, <2>1, <3>2
  <2>2. CASE ~(e = d /\ a = op.author)
    <3>1. {o \in store'[e] : o.author = a} = {o \in store[e] : o.author = a}
      BY <1>1, <2>2
    <3>2. Seqs(e, a)' = Seqs(e, a)
      BY <3>1 DEF Seqs
    <3>3. QED
      BY <3>2 DEF Numbered
  <2>3. QED
    BY <2>1, <2>2
<1>7. QED
  BY <1>1, <1>4, <1>5, <1>6

\* Authors keep what they signed, so holding an operation stays justified.
LEMMA SignedExtended ==
  ASSUME Signed, TypeOK, NEW d \in Device, NEW op \in Op, MaySign(op),
         op.author = d \/ op \in store[op.author],
         store' \in [Device -> SUBSET Op], store'[d] = store[d] \cup {op},
         \A e \in Device : e # d => store'[e] = store[e]
  PROVE  Signed'
<1>1. \A e \in Device : store[e] \subseteq store'[e]
  OBVIOUS
<1>2. \A p \in Op : p.author \in Device
  BY DEF Op
<1>3. store \in [Device -> SUBSET Op]
  BY DEF TypeOK
<1> SUFFICES ASSUME NEW e \in Device, NEW p \in store'[e]
             PROVE  p \in store'[p.author] /\ MaySign(p)
  BY DEF Signed, MaySign
<1>4. CASE p \in store[e]
  <2>1. p \in Op /\ p \in store[p.author] /\ MaySign(p)
    BY <1>3, <1>4 DEF Signed
  <2>2. QED
    BY <1>1, <1>2, <2>1
<1>5. CASE p \notin store[e]
  <2>1. e = d /\ p = op
    BY <1>5
  <2>2. op \in store'[op.author]
    BY <1>1, <1>2, <2>1
  <2>3. QED
    BY <2>1, <2>2
<1>6. QED
  BY <1>4, <1>5

\* An operation signed by the device itself.
LEMMA OwnOperation ==
  ASSUME TypeOK, Numbered, NEW d \in Device, NEW kind \in Kind, NEW who \in Device,
         NEW to \in SUBSET Device, NEW op, op = NextOp(d, kind, who, to)
  PROVE  /\ op \in Op /\ op.author = d /\ op.seq = Tip(d, d) + 1
         /\ op.kind = kind /\ op.who = who /\ op.to = to
<1>1. Tip(d, d) \in Nat
  BY TipFacts
<1>2. QED
  BY <1>1 DEF NextOp, Forged, Op

\* What is kept about the logs, and about everything else.
StoreOK ==
  /\ store \in [Device -> SUBSET Op]
  /\ \A d \in Device : \A p, q \in store[d] : p.author = q.author /\ p.seq = q.seq => p = q
  /\ Numbered /\ Signed
RestOK ==
  /\ assoc \in [Device -> SUBSET (Topic \X Device)]
  /\ open \in [Device -> SUBSET Topic]
  /\ bundles \in [Device -> SUBSET Device]
  /\ groups \in [Device -> SUBSET Device]
  /\ spaces \in [Device -> SUBSET Device]
  /\ task \in [Device -> [Task -> Hand \cup {Nothing}]]
  /\ invited \in [Device -> BOOLEAN]
  /\ circles \in [Device -> BOOLEAN]
  /\ surfaced \in [Device -> SUBSET Op]
  /\ torn \in [Device -> BOOLEAN]
  /\ faults \in 0 .. MaxFaults

LEMMA InvParts ==
  /\ Inv => StoreOK /\ RestOK /\ FromOthers /\ OwnerInv
  /\ StoreOK /\ RestOK /\ FromOthers /\ OwnerInv => Inv
  BY DEF Inv, TypeOK, StoreOK, RestOK

LEMMA InvParts2 ==
  ASSUME StoreOK', RestOK', FromOthers', OwnerInv'
  PROVE  Inv'
  BY DEF Inv, TypeOK, StoreOK, RestOK

LEMMA StoreSame == ASSUME StoreOK, UNCHANGED store PROVE StoreOK'
<1>1. \A d, a : Seqs(d, a)' = Seqs(d, a)
  BY DEF Seqs
<1>2. QED
  BY <1>1 DEF StoreOK, Numbered, Signed, MaySign

\* A device signs an operation, or receives the next one of a log.
LEMMA StoreExtended ==
  ASSUME Inv, NEW d \in Device, NEW op \in Op, op.seq = Tip(d, op.author) + 1,
         MaySign(op), op.author = d \/ op \in store[op.author],
         store' = [store EXCEPT ![d] = @ \cup {op}]
  PROVE  /\ StoreOK'
         /\ store'[d] = store[d] \cup {op}
         /\ \A e \in Device : e # d => store'[e] = store[e]
         /\ \A p \in store[d] : p.author = op.author => p.seq < op.seq
<1>1. /\ store' \in [Device -> SUBSET Op]
      /\ \A e \in Device : \A p, q \in store'[e] :
           p.author = q.author /\ p.seq = q.seq => p = q
      /\ Numbered'
      /\ store'[d] = store[d] \cup {op}
      /\ \A e \in Device : e # d => store'[e] = store[e]
      /\ \A p \in store[d] : p.author = op.author => p.seq < op.seq
  BY LogExtended DEF Inv
<1>2. Signed'
  BY <1>1, SignedExtended DEF Inv
<1>3. QED
  BY <1>1, <1>2 DEF StoreOK

SetTask(d, k, h) == task' = [task EXCEPT ![d][k] = h]

\* Task k of d goes on to h and every other task stays as it is.
LEMMA TaskSet ==
  ASSUME RestOK, NEW d \in Device, NEW k \in Task, NEW h \in Hand \cup {Nothing},
         SetTask(d, k, h)
  PROVE  /\ task' \in [Device -> [Task -> Hand \cup {Nothing}]]
         /\ task'[d][k] = h
         /\ \A e \in Device : \A j \in Task :
              e # d \/ j # k => task'[e][j] = task[e][j]
         /\ \A e \in Device : e # d => task'[e] = task[e]
<1>1. task[d] \in [Task -> Hand \cup {Nothing}]
  BY DEF RestOK
<1>2. task' = [task EXCEPT ![d] = [task[d] EXCEPT ![k] = h]]
  BY DEF SetTask
<1>3. [task[d] EXCEPT ![k] = h] \in [Task -> Hand \cup {Nothing}]
  BY <1>1
<1>4. task'[d] = [task[d] EXCEPT ![k] = h] /\ \A e \in Device : e # d => task'[e] = task[e]
  BY <1>2 DEF RestOK
<1>5. QED
  BY <1>1, <1>2, <1>3, <1>4 DEF RestOK

LEMMA HandMoved ==
  ASSUME RestOK, NEW d \in Device, NEW k \in Task, Busy(d, k),
         NEW at \in {"process", "groups", "space", "send", "share", "notify"},
         GoOn(d, k, at)
  PROVE  \E h \in Hand :
           /\ h.op = task[d][k].op /\ h.at = at
           /\ h.groups = task[d][k].groups /\ h.spaces = task[d][k].spaces
           /\ SetTask(d, k, h)
<1>1. task[d][k] \in Hand
  BY DEF RestOK, Busy
<1> DEFINE h == [task[d][k] EXCEPT !.at = at]
<1>2. h \in Hand /\ h.op = task[d][k].op /\ h.at = at
      /\ h.groups = task[d][k].groups /\ h.spaces = task[d][k].spaces
  BY <1>1 DEF Hand
<1>3. SetTask(d, k, h)
  BY DEF GoOn, SetTask
<1> HIDE DEF h
<1>4. QED
  BY <1>2, <1>3

-----------------------------------------------------------------------------
(***************************************************************************)
(* The owner's members.                                                    *)
(***************************************************************************)
LEMMA RegainedStays ==
  ASSUME OwnLog \subseteq OwnLog', NEW m,
         \A op \in OwnLog' : op \in OwnLog \/ ~(op.kind = "remove" /\ op.who = m),
         Regained(m)
  PROVE  Regained(m)'
  BY DEF Regained

\* A step that neither removes nor shares, nor writes a space state.
LEMMA OwnerQuiet ==
  ASSUME OwnerInv,
         ~torn'[Owner] =>
           /\ ~torn[Owner] /\ Alone'
           /\ OwnLog \subseteq OwnLog'
           /\ \A op \in OwnLog' : op \in OwnLog \/ op.kind \notin {"remove", "share"}
           /\ spaces'[Owner] = spaces[Owner]
           /\ \A k \in Task : Unwritten(k)' =>
                Unwritten(k) /\ task'[Owner][k].spaces = task[Owner][k].spaces
           /\ Removing => Removing'
  PROVE  OwnerInv'
<1> SUFFICES ASSUME ~torn'[Owner] PROVE (Alone /\ MembersOK /\ HandsOK /\ SharesOK)'
  BY DEF OwnerInv
<1>1. Alone' /\ MembersOK /\ HandsOK /\ SharesOK
  BY DEF OwnerInv
<1>2. \A m : Regained(m) => Regained(m)'
  BY RegainedStays
<1>3. MembersOK'
  BY <1>1, <1>2 DEF MembersOK
<1>4. HandsOK'
  BY <1>1, <1>2 DEF HandsOK
<1>5. SharesOK'
  BY <1>1 DEF SharesOK
<1>6. QED
  BY <1>1, <1>3, <1>4, <1>5

\* What other devices do does not concern the owner's members.
LEMMA OwnerElse ==
  ASSUME OwnerInv, store'[Owner] = store[Owner], spaces'[Owner] = spaces[Owner],
         task'[Owner] = task[Owner], torn'[Owner] = torn[Owner]
  PROVE  OwnerInv'
<1>1. OwnLog' = OwnLog
  BY DEF OwnLog
<1>2. \A k : (Busy(Owner, k)' <=> Busy(Owner, k)) /\ (Unwritten(k)' <=> Unwritten(k))
  BY DEF Busy, Unwritten
<1>3. Removing' <=> Removing
  BY <1>2 DEF Removing
<1>4. ~torn[Owner] => Alone'
  BY <1>2 DEF OwnerInv, Alone
<1>5. QED
  BY <1>1, <1>2, <1>3, <1>4, OwnerQuiet

\* Logs only grow, and forwarders keep what they work on.
LEMMA FromOthersKept ==
  ASSUME FromOthers, RestOK, surfaced' = surfaced,
         \A e \in Device : store[e] \subseteq store'[e],
         \A e \in Device : \A t \in Topic :
           Busy(e, t)' => Busy(e, t) /\ task'[e][t].op = task[e][t].op
  PROVE  FromOthers'
<1>1. ASSUME NEW e \in Device, NEW t \in Topic, Busy(e, t)'
      PROVE  task'[e][t].op \in store'[e] /\ task'[e][t].op.author # e
  BY <1>1 DEF FromOthers
<1>2. ASSUME NEW e \in Device, NEW o \in surfaced'[e]
      PROVE  o \in store'[o.author] /\ o.author # e /\ e \in o.to /\ o.kind = "share"
  <2>1. o \in store[o.author] /\ o.author # e /\ e \in o.to /\ o.kind = "share"
    BY DEF FromOthers
  <2>2. o.author \in Device
    BY DEF RestOK, Op
  <2>3. QED
    BY <2>1, <2>2
<1>3. QED
  BY <1>1, <1>2 DEF FromOthers

\* A task goes on, or ends, with what it holds; its log may grow meanwhile.
LEMMA TaskMoves ==
  ASSUME Inv, NEW d \in Device, NEW k \in Task, NEW h \in Hand \cup {Nothing}, Busy(d, k),
         task'[d][k] = h,
         \A e \in Device : \A j \in Task : e # d \/ j # k => task'[e][j] = task[e][j],
         h # Nothing => h.op = task[d][k].op /\ h.spaces = task[d][k].spaces,
         task[d][k].at \in {"groups", "space"} <=> h # Nothing /\ h.at \in {"groups", "space"},
         UNCHANGED <<torn, spaces, surfaced>>,
         \A e \in Device : store[e] \subseteq store'[e],
         \A op \in OwnLog' : op \in OwnLog \/ op.kind \notin {"remove", "share"}
  PROVE  FromOthers' /\ OwnerInv'
<1>1. StoreOK /\ RestOK /\ FromOthers /\ OwnerInv
  BY InvParts
<1>3. \A e \in Device : \A j \in Task :
        Busy(e, j)' => Busy(e, j) /\ task'[e][j].op = task[e][j].op
                       /\ task'[e][j].spaces = task[e][j].spaces
  BY DEF Busy
<1>4. FromOthers'
  BY <1>1, <1>3, FromOthersKept DEF Task
<1>5. Owner \in Device
  BY CircleAssumption
<1>6. \A j \in Task : Unwritten(j)' <=> Unwritten(j)
  BY <1>5 DEF Unwritten, Busy
<1>7. Removing => Removing'
  BY <1>3, <1>5, <1>6 DEF Removing, Unwritten, Task
<1>8. ~torn[Owner] => Alone'
  BY <1>1, <1>3, <1>5 DEF OwnerInv, Alone
<1>9. OwnLog \subseteq OwnLog'
  BY <1>5 DEF OwnLog
<1>10. OwnerInv'
  BY <1>1, <1>3, <1>5, <1>6, <1>7, <1>8, <1>9, OwnerQuiet DEF Unwritten
<1>11. QED
  BY <1>4, <1>10

\* An operation other than a removal or a share tells nothing new of members.
LEMMA InertAppend ==
  ASSUME Inv, NEW d \in Device, NEW op \in Op, op.author = d, op.seq = Tip(d, d) + 1,
         op.kind \notin {"create", "add", "remove", "share"},
         store' = [store EXCEPT ![d] = @ \cup {op}]
  PROVE  /\ StoreOK'
         /\ \A e \in Device : store[e] \subseteq store'[e]
         /\ \A o \in OwnLog' : o \in OwnLog \/ o.kind \notin {"remove", "share"}
         /\ OwnLog \subseteq OwnLog'
<1>1. MaySign(op)
  BY DEF MaySign
<1>2. /\ StoreOK' /\ store'[d] = store[d] \cup {op}
      /\ \A e \in Device : e # d => store'[e] = store[e]
  BY <1>1, StoreExtended
<1>3. \A e \in Device : store[e] \subseteq store'[e]
  BY <1>2
<1>4. QED
  BY <1>2, <1>3, CircleAssumption DEF OwnLog

-----------------------------------------------------------------------------
(***************************************************************************)
(* Steps that leave members and shares alone.                              *)
(***************************************************************************)
LEMMA CirclesOnlyInv ==
  ASSUME Inv, circles' \in [Device -> BOOLEAN],
         UNCHANGED <<store, assoc, bundles, groups, spaces, open, task, invited,
                     surfaced, torn, faults>>
  PROVE  Inv'
<1>1. StoreOK /\ RestOK /\ FromOthers /\ OwnerInv
  BY InvParts
<1>2. StoreOK'
  BY <1>1, StoreSame
<1>3. RestOK'
  BY <1>1 DEF RestOK
<1>4. FromOthers'
  BY <1>1, FromOthersKept DEF Busy
<1>5. OwnerInv'
  BY <1>1, OwnerElse
<1>6. QED
  BY <1>2, <1>3, <1>4, <1>5, InvParts2

LEMMA PersistGroupsStateInv ==
  ASSUME Inv, NEW d \in Device, NEW k \in Task, PersistGroupsState(d, k)
  PROVE  Inv'
<1>1. StoreOK /\ RestOK /\ FromOthers /\ OwnerInv
  BY InvParts
<1>2. Busy(d, k) /\ task[d][k].at = "groups" /\ GoOn(d, k, "space")
      /\ groups' = [groups EXCEPT ![d] = task[d][k].groups]
      /\ UNCHANGED <<store, assoc, bundles, spaces, circles, open, invited,
                     surfaced, torn, faults>>
  BY DEF PersistGroupsState
<1>3. PICK h \in Hand :
        /\ h.op = task[d][k].op /\ h.at = "space"
        /\ h.groups = task[d][k].groups /\ h.spaces = task[d][k].spaces
        /\ SetTask(d, k, h)
  BY <1>1, <1>2, HandMoved
<1>4. /\ task' \in [Device -> [Task -> Hand \cup {Nothing}]]
      /\ task'[d][k] = h
      /\ \A e \in Device : \A j \in Task : e # d \/ j # k => task'[e][j] = task[e][j]
  BY <1>1, <1>3, TaskSet
<1>5. FromOthers' /\ OwnerInv'
  <2>1. h # Nothing
    BY CircleAssumption
  <2>2. \A op \in OwnLog' : op \in OwnLog
    BY <1>2 DEF OwnLog
  <2>3. QED
    BY <1>2, <1>3, <1>4, <2>1, <2>2, TaskMoves
<1>6. task[d][k].groups \in SUBSET Device
  BY <1>3 DEF Hand
<1>7. RestOK'
  BY <1>1, <1>2, <1>4, <1>6 DEF RestOK
<1>8. QED
  BY <1>1, <1>2, <1>5, <1>7, StoreSame, InvParts2

\* A command has written its states: it goes on to a follow-up, or ends.
LEMMA CommandMoves ==
  ASSUME Inv, NEW d \in Device, Busy(d, Command),
         task[d][Command].at \notin {"groups", "space"},
         \/ Finish(d, Command)
         \/ \E at \in {"share", "notify"} : GoOn(d, Command, at),
         UNCHANGED <<torn, spaces, surfaced>>,
         \A e \in Device : store[e] \subseteq store'[e],
         \A op \in OwnLog' : op \in OwnLog \/ op.kind \notin {"remove", "share"}
  PROVE  FromOthers' /\ OwnerInv' /\ task' \in [Device -> [Task -> Hand \cup {Nothing}]]
<1>1. RestOK /\ Command \in Task
  BY InvParts DEF Task
<1>2. CASE Finish(d, Command)
  <2>1. SetTask(d, Command, Nothing)
    BY <1>2 DEF Finish, SetTask
  <2>2. /\ task' \in [Device -> [Task -> Hand \cup {Nothing}]]
        /\ task'[d][Command] = Nothing
        /\ \A e \in Device : \A j \in Task : e # d \/ j # Command => task'[e][j] = task[e][j]
    BY <1>1, <2>1, TaskSet
  <2>3. QED
    BY <1>1, <2>2, TaskMoves
<1>3. CASE \E at \in {"share", "notify"} : GoOn(d, Command, at)
  <2>1. PICK at \in {"share", "notify"} : GoOn(d, Command, at)
    BY <1>3
  <2>2. PICK h \in Hand :
          /\ h.op = task[d][Command].op /\ h.at = at
          /\ h.groups = task[d][Command].groups /\ h.spaces = task[d][Command].spaces
          /\ SetTask(d, Command, h)
    BY <1>1, <2>1, HandMoved
  <2>3. /\ task' \in [Device -> [Task -> Hand \cup {Nothing}]]
        /\ task'[d][Command] = h
        /\ \A e \in Device : \A j \in Task : e # d \/ j # Command => task'[e][j] = task[e][j]
    BY <1>1, <2>2, TaskSet
  <2>4. FromOthers' /\ OwnerInv'
    BY <1>1, <2>2, <2>3, TaskMoves
  <2>5. QED
    BY <2>3, <2>4
<1>4. QED
  BY <1>2, <1>3

LEMMA BroadcastCircleOpInv ==
  ASSUME Inv, NEW d \in Device, BroadcastCircleOp(d) PROVE Inv'
<1>1. StoreOK /\ RestOK
  BY InvParts
<1>2. /\ Busy(d, Command) /\ task[d][Command].at = "send"
      /\ assoc' = [assoc EXCEPT ![d] = @ \cup {<<Shared, d>>}]
      /\ UNCHANGED <<store, bundles, groups, spaces, open, invited, surfaced, torn, faults>>
  BY DEF BroadcastCircleOp
<1>3. Finish(d, Command) \/ \E at \in {"share", "notify"} : GoOn(d, Command, at)
  BY DEF BroadcastCircleOp
<1>4. circles' \in [Device -> BOOLEAN]
  <2>1. PICK c \in BOOLEAN : circles' = [circles EXCEPT ![d] = c]
    <3>1. circles[d] \in BOOLEAN
      BY <1>1 DEF RestOK
    <3>2. QED
      BY <3>1 DEF BroadcastCircleOp
  <2>2. QED
    BY <1>1, <2>1 DEF RestOK
<1>5. FromOthers' /\ OwnerInv' /\ task' \in [Device -> [Task -> Hand \cup {Nothing}]]
  <2>1. \A op \in OwnLog' : op \in OwnLog
    BY <1>2 DEF OwnLog
  <2>2. QED
    BY <1>2, <1>3, <2>1, CommandMoves
<1>6. RestOK'
  <2>1. assoc' \in [Device -> SUBSET (Topic \X Device)]
    BY <1>1, <1>2 DEF RestOK, Topic
  <2>2. QED
    BY <1>1, <1>2, <1>4, <1>5, <2>1 DEF RestOK
<1>7. QED
  BY <1>1, <1>2, <1>5, <1>6, StoreSame, InvParts2

\* A legacy operation on log 0.
LEMMA PublishKeeps ==
  ASSUME Inv, NEW d \in Device, NEW kind \in {"invite", "join"}, NEW who \in Device,
         Publish(d, kind, who)
  PROVE  /\ StoreOK' /\ assoc' \in [Device -> SUBSET (Topic \X Device)]
         /\ \A e \in Device : store[e] \subseteq store'[e]
         /\ \A o \in OwnLog' : o \in OwnLog \/ o.kind \notin {"remove", "share"}
         /\ OwnLog \subseteq OwnLog'
<1> PICK op : op = NextOp(d, kind, who, {})
  OBVIOUS
<1>1. op \in Op /\ op.author = d /\ op.seq = Tip(d, d) + 1 /\ op.kind = kind
  <2>1. kind \in Kind /\ {} \in SUBSET Device
    BY DEF Kind
  <2>2. QED
    BY <2>1, OwnOperation DEF Inv
<1>2. store' = [store EXCEPT ![d] = @ \cup {op}]
  BY DEF Publish
<1>3. /\ StoreOK'
      /\ \A e \in Device : store[e] \subseteq store'[e]
      /\ \A o \in OwnLog' : o \in OwnLog \/ o.kind \notin {"remove", "share"}
      /\ OwnLog \subseteq OwnLog'
  BY <1>1, <1>2, InertAppend
<1>4. assoc' \in [Device -> SUBSET (Topic \X Device)]
  BY DEF Publish, Inv, TypeOK, Topic
<1>5. QED
  BY <1>3, <1>4

LEMMA NotifyCircleInviteInv ==
  ASSUME Inv, NEW d \in Device, NotifyCircleInvite(d) PROVE Inv'
<1>1. StoreOK /\ RestOK /\ Command \in Task
  BY InvParts DEF Task
<1>2. /\ Busy(d, Command) /\ task[d][Command].at = "notify"
      /\ Publish(d, "invite", task[d][Command].op.who) /\ Finish(d, Command)
      /\ UNCHANGED <<bundles, groups, spaces, circles, open, invited, surfaced, torn, faults>>
  BY DEF NotifyCircleInvite
<1>3. task[d][Command].op.who \in Device
  BY <1>1, <1>2 DEF RestOK, Busy, Hand, Op
<1>4. /\ StoreOK' /\ assoc' \in [Device -> SUBSET (Topic \X Device)]
      /\ \A e \in Device : store[e] \subseteq store'[e]
      /\ \A o \in OwnLog' : o \in OwnLog \/ o.kind \notin {"remove", "share"}
  BY <1>2, <1>3, PublishKeeps
<1>5. FromOthers' /\ OwnerInv' /\ task' \in [Device -> [Task -> Hand \cup {Nothing}]]
  BY <1>2, <1>4, CommandMoves
<1>6. RestOK'
  BY <1>1, <1>2, <1>4, <1>5 DEF RestOK
<1>7. QED
  BY <1>4, <1>5, <1>6, InvParts2

LEMMA FollowUpFailsInv ==
  ASSUME Inv, NEW d \in Device, FollowUpFails(d) PROVE Inv'
<1>1. StoreOK /\ RestOK
  BY InvParts
<1>2. /\ Busy(d, Command) /\ task[d][Command].at \in {"share", "notify"}
      /\ Finish(d, Command) /\ faults < MaxFaults /\ faults' = faults + 1
      /\ UNCHANGED <<store, assoc, bundles, groups, spaces, circles, open, invited,
                     surfaced, torn>>
  BY DEF FollowUpFails, durable
<1>3. FromOthers' /\ OwnerInv' /\ task' \in [Device -> [Task -> Hand \cup {Nothing}]]
  <2>1. \A op \in OwnLog' : op \in OwnLog
    BY <1>2 DEF OwnLog
  <2>2. QED
    BY <1>2, <2>1, CommandMoves
<1>4. faults' \in 0 .. MaxFaults
  BY <1>1, <1>2, CircleAssumption DEF RestOK
<1>5. RestOK'
  BY <1>1, <1>2, <1>3, <1>4 DEF RestOK
<1>6. QED
  BY <1>1, <1>2, <1>3, <1>5, StoreSame, InvParts2

LEMMA JoinCircleInv ==
  ASSUME Inv, NEW d \in Device, JoinCircle(d) PROVE Inv'
<1>1. StoreOK /\ RestOK /\ FromOthers /\ OwnerInv
  BY InvParts
<1>2. /\ Publish(d, "join", d)
      /\ open' = [open EXCEPT ![d] = @ \cup {Shared}]
      /\ invited' = [invited EXCEPT ![d] = FALSE]
      /\ UNCHANGED <<bundles, groups, spaces, circles, task, surfaced, torn, faults>>
  BY DEF JoinCircle
<1>3. /\ StoreOK' /\ assoc' \in [Device -> SUBSET (Topic \X Device)]
      /\ \A e \in Device : store[e] \subseteq store'[e]
      /\ \A o \in OwnLog' : o \in OwnLog \/ o.kind \notin {"remove", "share"}
      /\ OwnLog \subseteq OwnLog'
  BY <1>2, PublishKeeps
<1>4. FromOthers'
  BY <1>1, <1>2, <1>3, FromOthersKept DEF Busy
<1>5. OwnerInv'
  <2>1. \A j : (Busy(Owner, j)' <=> Busy(Owner, j)) /\ (Unwritten(j)' <=> Unwritten(j))
    BY <1>2 DEF Busy, Unwritten
  <2>2. Removing' <=> Removing
    BY <1>2, <2>1 DEF Removing
  <2>3. ~torn[Owner] => Alone'
    BY <1>1, <2>1 DEF OwnerInv, Alone
  <2>4. QED
    BY <1>1, <1>2, <1>3, <2>1, <2>2, <2>3, OwnerQuiet
<1>6. RestOK'
  BY <1>1, <1>2, <1>3 DEF RestOK, Topic
<1>7. QED
  BY <1>3, <1>4, <1>5, <1>6, InvParts2

LEMMA RestartInv ==
  ASSUME Inv, NEW d \in Device, Restart(d) PROVE Inv'
<1>1. StoreOK /\ RestOK /\ FromOthers /\ OwnerInv /\ Owner \in Device
  BY InvParts, CircleAssumption
<1> PICK op : op = NextOp(d, "bundle", d, {})
  OBVIOUS
<1>2. /\ faults < MaxFaults /\ faults' = faults + 1
      /\ store' = [store EXCEPT ![d] = @ \cup {op}]
      /\ assoc' = [assoc EXCEPT ![d] = @ \cup SpawnAssociates(d)]
      /\ open' = [open EXCEPT ![d] = {Always}]
      /\ task' = [task EXCEPT ![d] = [k \in Task |-> Nothing]]
      /\ torn' = [torn EXCEPT ![d] = @ \/ ~Idle(d)]
      /\ invited' = [invited EXCEPT ![d] = FALSE]
      /\ UNCHANGED <<bundles, groups, spaces, circles, surfaced>>
  BY DEF Restart, Bundle, NextOp
<1>3. op \in Op /\ op.author = d /\ op.seq = Tip(d, d) + 1 /\ op.kind = "bundle"
  <2>1. "bundle" \in Kind /\ {} \in SUBSET Device
    BY DEF Kind
  <2>2. QED
    BY <2>1, OwnOperation DEF Inv
<1>4. /\ StoreOK'
      /\ \A e \in Device : store[e] \subseteq store'[e]
      /\ \A o \in OwnLog' : o \in OwnLog \/ o.kind \notin {"remove", "share"}
      /\ OwnLog \subseteq OwnLog'
  BY <1>2, <1>3, InertAppend
<1>5. /\ task' \in [Device -> [Task -> Hand \cup {Nothing}]]
      /\ \A k \in Task : task'[d][k] = Nothing
      /\ \A e \in Device : e # d => task'[e] = task[e]
  BY <1>1, <1>2 DEF RestOK
<1>6. FromOthers'
  <2>1. \A e \in Device : \A t \in Topic :
          Busy(e, t)' => Busy(e, t) /\ task'[e][t].op = task[e][t].op
    BY <1>5 DEF Busy, Task
  <2>2. QED
    BY <1>1, <1>2, <1>4, <2>1, FromOthersKept
<1>7. OwnerInv'
  <2>1. CASE d # Owner
    <3>1. task'[Owner] = task[Owner] /\ torn'[Owner] = torn[Owner]
      BY <1>1, <1>2, <1>5, <2>1 DEF RestOK
    <3>2. \A j : (Busy(Owner, j)' <=> Busy(Owner, j)) /\ (Unwritten(j)' <=> Unwritten(j))
      BY <3>1 DEF Busy, Unwritten
    <3>3. Removing' <=> Removing
      BY <3>1, <3>2 DEF Removing
    <3>4. ~torn[Owner] => Alone'
      BY <1>1, <3>2 DEF OwnerInv, Alone
    <3>5. QED
      BY <1>1, <1>2, <1>4, <3>1, <3>2, <3>3, <3>4, OwnerQuiet
  <2>2. CASE d = Owner
    <3>1. \A k \in Task : ~Busy(Owner, k)' /\ ~Unwritten(k)'
      BY <1>5, <2>2 DEF Busy, Unwritten
    <3>2. ~torn'[Owner] => ~torn[Owner] /\ \A k \in Task : ~Busy(Owner, k)
      BY <1>1, <1>2, <2>2 DEF RestOK, Idle
    <3>3. Alone'
      BY <3>1 DEF Alone
    <3>4. ~torn'[Owner] => ~Removing
      BY <3>2 DEF Removing, Unwritten, Task
    <3>5. QED
      BY <1>1, <1>2, <1>4, <3>1, <3>2, <3>3, <3>4, OwnerQuiet
  <2>3. QED
    BY <2>1, <2>2
<1>8. RestOK'
  <2>1. faults' \in 0 .. MaxFaults
    BY <1>1, <1>2, CircleAssumption DEF RestOK
  <2>2. torn' \in [Device -> BOOLEAN]
    BY <1>1, <1>2 DEF RestOK
  <2>3. /\ assoc' \in [Device -> SUBSET (Topic \X Device)]
        /\ open' \in [Device -> SUBSET Topic]
    BY <1>1, <1>2 DEF RestOK, SpawnAssociates, Topic
  <2>4. QED
    BY <1>1, <1>2, <1>5, <2>1, <2>2, <2>3 DEF RestOK
<1>9. QED
  BY <1>4, <1>6, <1>7, <1>8, InvParts2

-----------------------------------------------------------------------------
(***************************************************************************)
(* The forwarder tasks.                                                    *)
(***************************************************************************)
LEMMA ReceiveInv ==
  ASSUME Inv, NEW d \in Device, NEW e \in Device, NEW t \in Topic, Receive(d, e, t)
  PROVE  Inv'
<1>1. /\ StoreOK /\ RestOK /\ FromOthers /\ OwnerInv /\ Owner \in Device
      /\ t \in Task /\ t # Command
  BY InvParts, CircleAssumption DEF Task, Topic, Always, Shared, Command
<1>2. PICK op \in store[e] :
        /\ op.author # d
        /\ op.seq = Tip(d, op.author) + 1
        /\ store' = [store EXCEPT ![d] = @ \cup {op}]
        /\ assoc' = [assoc EXCEPT ![d] = @ \cup {<<t, op.author>>}]
        /\ Start(d, t, [op |-> op, at |-> "process", groups |-> {}, spaces |-> {}])
  BY DEF Receive
<1>3. UNCHANGED <<bundles, groups, spaces, circles, open, invited, surfaced, faults>>
  BY DEF Receive
<1> PICK h : h = [op |-> op, at |-> "process", groups |-> {}, spaces |-> {}]
  OBVIOUS
<1>4. op \in Op /\ op.author \in Device /\ op \in store[op.author] /\ MaySign(op)
  BY <1>1 DEF StoreOK, Signed, Op
<1>5. h \in Hand /\ h.op = op /\ h.at = "process"
  BY <1>4 DEF Hand
<1>6. SetTask(d, t, h) /\ torn' = [torn EXCEPT ![d] = @ \/ \E j \in Task \ {t} : Busy(d, j)]
  BY <1>2 DEF Start, SetTask
<1>7. /\ StoreOK' /\ store'[d] = store[d] \cup {op}
      /\ \A x \in Device : x # d => store'[x] = store[x]
  BY <1>2, <1>4, StoreExtended
<1>8. /\ task' \in [Device -> [Task -> Hand \cup {Nothing}]]
      /\ task'[d][t] = h
      /\ \A x \in Device : \A j \in Task : x # d \/ j # t => task'[x][j] = task[x][j]
      /\ \A x \in Device : x # d => task'[x] = task[x]
  BY <1>1, <1>5, <1>6, TaskSet
<1>9. FromOthers'
  <2>1. ASSUME NEW x \in Device, NEW u \in Topic, Busy(x, u)'
        PROVE  task'[x][u].op \in store'[x] /\ task'[x][u].op.author # x
    <3>1. CASE x = d /\ u = t
      BY <1>2, <1>5, <1>7, <1>8, <3>1
    <3>2. CASE ~(x = d /\ u = t)
      <4>1. u \in Task
        BY DEF Task
      <4>2. task'[x][u] = task[x][u]
        BY <1>8, <3>2, <4>1
      <4>3. Busy(x, u)
        BY <2>1, <4>2 DEF Busy
      <4>4. QED
        BY <1>1, <1>7, <4>2, <4>3 DEF FromOthers
    <3>3. QED
      BY <3>1, <3>2
  <2>2. ASSUME NEW x \in Device, NEW o \in surfaced'[x]
        PROVE  o \in store'[o.author] /\ o.author # x /\ x \in o.to /\ o.kind = "share"
    <3>1. o \in store[o.author] /\ o.author # x /\ x \in o.to /\ o.kind = "share"
      BY <1>1, <1>3 DEF FromOthers
    <3>2. o.author \in Device
      BY <1>1, <1>3 DEF RestOK, Op
    <3>3. QED
      BY <1>7, <3>1, <3>2
  <2>3. QED
    BY <2>1, <2>2 DEF FromOthers
<1>10. OwnerInv'
  <2>1. CASE d # Owner
    BY <1>1, <1>3, <1>6, <1>7, <1>8, <2>1, OwnerElse DEF RestOK
  <2>2. CASE d = Owner
    <3>1. OwnLog' = OwnLog
      BY <1>2, <1>7, <2>2 DEF OwnLog
    <3>2. ~torn'[Owner] => ~torn[Owner] /\ \A j \in Task \ {t} : ~Busy(Owner, j)
      BY <1>1, <1>6, <2>2 DEF RestOK
    <3>3. \A j \in Task : j # t => (Busy(Owner, j)' <=> Busy(Owner, j))
      BY <1>8, <2>2 DEF Busy
    <3>4. ~torn'[Owner] => Alone'
      BY <3>2, <3>3 DEF Alone
    <3>5. ASSUME NEW j \in Task, Unwritten(j)'
          PROVE  Unwritten(j) /\ task'[Owner][j].spaces = task[Owner][j].spaces
      <4>1. j # t
        BY <1>5, <1>8, <2>2, <3>5 DEF Unwritten
      <4>2. QED
        BY <1>8, <2>2, <3>3, <3>5, <4>1 DEF Unwritten
    <3>6. ~torn'[Owner] => ~Removing
      BY <1>1, <3>2 DEF Removing, Unwritten, Task
    <3>7. QED
      BY <1>1, <1>3, <3>1, <3>2, <3>4, <3>5, <3>6, OwnerQuiet
  <2>3. QED
    BY <2>1, <2>2
<1>11. RestOK'
  <2>1. assoc' \in [Device -> SUBSET (Topic \X Device)]
    BY <1>1, <1>2, <1>4 DEF RestOK
  <2>2. torn' \in [Device -> BOOLEAN]
    BY <1>1, <1>6 DEF RestOK
  <2>3. QED
    BY <1>1, <1>3, <1>8, <2>1, <2>2 DEF RestOK
<1>12. QED
  BY <1>7, <1>9, <1>10, <1>11, InvParts2

Computes(d, t, g, s) ==
  task' = [task EXCEPT ![d][t].at = "groups", ![d][t].groups = g, ![d][t].spaces = s]
\* A forwarder has computed the two states of a membership change.
LEMMA HandComputed ==
  ASSUME RestOK, NEW d \in Device, NEW t \in Topic, Busy(d, t),
         NEW g \in SUBSET Device, NEW s \in SUBSET Device, Computes(d, t, g, s)
  PROVE  \E h \in Hand : /\ h.op = task[d][t].op /\ h.at = "groups" /\ h.groups = g
                         /\ h.spaces = s /\ SetTask(d, t, h)
<1>0. t \in Task
  BY DEF Task
<1>01. task[d] \in [Task -> Hand \cup {Nothing}]
  BY DEF RestOK
<1>1. t \in Task /\ task[d] \in [Task -> Hand \cup {Nothing}] /\ task[d][t] \in Hand
  BY <1>0, <1>01 DEF Busy
<1> DEFINE h == [task[d][t] EXCEPT !.at = "groups", !.groups = g, !.spaces = s]
<1>2. /\ h \in Hand /\ h.op = task[d][t].op /\ h.at = "groups" /\ h.groups = g
      /\ h.spaces = s
  BY <1>1 DEF Hand
<1>3. SetTask(d, t, h)
  BY <1>1 DEF Computes, SetTask, RestOK
<1> HIDE DEF h
<1>4. QED
  BY <1>2, <1>3

LEMMA MembersTyped ==
  ASSUME NEW S \in SUBSET Device, NEW kind, NEW who \in Device
  PROVE  /\ MembersAfter(S, kind, who) \in SUBSET Device
         /\ kind = "create" => MembersAfter(S, kind, who) = {who}
         /\ kind = "add" => MembersAfter(S, kind, who) = S \cup {who}
         /\ kind = "remove" => MembersAfter(S, kind, who) = S \ {who}
         /\ kind \notin Membership => MembersAfter(S, kind, who) = S
  BY DEF MembersAfter, Membership

LEMMA ProcessInv ==
  ASSUME Inv, NEW d \in Device, NEW t \in Topic, Process(d, t) PROVE Inv'
<1>1. /\ StoreOK /\ RestOK /\ FromOthers /\ OwnerInv /\ Owner \in Device
      /\ t \in Task /\ t # Command
  BY InvParts, CircleAssumption DEF Task, Topic, Always, Shared, Command
<1> PICK op : op = task[d][t].op
  OBVIOUS
<1> PICK g : g = MembersAfter(groups[d], op.kind, op.who)
  OBVIOUS
<1> PICK s : s = MembersAfter(spaces[d], op.kind, op.who)
  OBVIOUS
<1>2. /\ Busy(d, t) /\ task[d][t].at = "process"
      /\ IF op.kind \in Membership /\ ~Fails(d, op)
         THEN task' = [task EXCEPT ![d][t].at = "groups", ![d][t].groups = g,
                                   ![d][t].spaces = s]
         ELSE Finish(d, t)
      /\ bundles' = IF op.kind = "bundle"
                    THEN [bundles EXCEPT ![d] = @ \cup {op.author}] ELSE bundles
      /\ surfaced' = IF ~Fails(d, op) /\ Reports(d, t, op)
                     THEN [surfaced EXCEPT ![d] = @ \cup {op}] ELSE surfaced
      /\ invited' = IF op.kind = "invite" /\ op.who = d
                    THEN [invited EXCEPT ![d] = TRUE] ELSE invited
      /\ UNCHANGED <<store, assoc, groups, spaces, circles, open, torn, faults>>
  BY DEF Process
<1>3. /\ op \in Op /\ op.author \in Device /\ op.author # d /\ op \in store[d]
      /\ op \in store[op.author] /\ MaySign(op)
  <2>1. op \in store[d] /\ op.author # d
    <3>1. t \in Topic
      OBVIOUS
    <3>2. QED
      BY <1>1, <1>2, <3>1 DEF FromOthers
  <2>2. op \in Op
    BY <1>1, <2>1 DEF StoreOK
  <2>3. op.author \in Device
    BY <2>2 DEF Op
  <2>4. op \in store[op.author] /\ MaySign(op)
    BY <1>1, <2>1 DEF StoreOK, Signed
  <2>5. QED
    BY <2>1, <2>2, <2>3, <2>4
<1>4. g \in SUBSET Device /\ s \in SUBSET Device
  BY <1>1, <1>3, MembersTyped DEF RestOK, Op
<1>5. PICK h \in Hand \cup {Nothing} :
        /\ SetTask(d, t, h)
        /\ h # Nothing => /\ op.kind \in Membership
                          /\ h.op = op /\ h.at = "groups" /\ h.spaces = s
  <2>1. CASE op.kind \in Membership /\ ~Fails(d, op)
    <3>1. Computes(d, t, g, s)
      BY <1>2, <2>1 DEF Computes
    <3>2. \E h \in Hand : /\ h.op = task[d][t].op /\ h.at = "groups" /\ h.groups = g
                          /\ h.spaces = s /\ SetTask(d, t, h)
      <4>1. RestOK /\ Busy(d, t)
        BY <1>1, <1>2
      <4>2. \E h \in Hand : /\ h.op = task[d][t].op /\ h.at = "groups"
                            /\ h.groups = g /\ h.spaces = s /\ SetTask(d, t, h)
        BY ONLY <1>4, <3>1, <4>1, HandComputed, d \in Device, t \in Topic
      <4>3. QED
        BY <4>2
    <3>3. QED
      BY <2>1, <3>2
  <2>2. CASE ~(op.kind \in Membership /\ ~Fails(d, op))
    BY <1>2, <2>2 DEF Finish, SetTask
  <2>3. QED
    BY <2>1, <2>2
<1>6. /\ task' \in [Device -> [Task -> Hand \cup {Nothing}]]
      /\ task'[d][t] = h
      /\ \A x \in Device : \A j \in Task : x # d \/ j # t => task'[x][j] = task[x][j]
      /\ \A x \in Device : x # d => task'[x] = task[x]
  BY <1>1, <1>5, TaskSet
<1>7. /\ surfaced' \in [Device -> SUBSET Op]
      /\ \A x \in Device : \A o \in surfaced'[x] :
           \/ o \in surfaced[x]
           \/ x = d /\ o = op /\ op.kind = "share" /\ d \in op.to
  BY <1>1, <1>2, <1>3 DEF RestOK, Reports, Readable
<1>8. FromOthers'
  <2>1. ASSUME NEW x \in Device, NEW u \in Topic, Busy(x, u)'
        PROVE  task'[x][u].op \in store'[x] /\ task'[x][u].op.author # x
    <3>1. CASE x = d /\ u = t
      BY <1>2, <1>3, <1>5, <1>6, <2>1, <3>1 DEF Busy
    <3>2. CASE ~(x = d /\ u = t)
      <4>1. task'[x][u] = task[x][u]
        BY <1>6, <3>2 DEF Task
      <4>2. Busy(x, u)
        BY <2>1, <4>1 DEF Busy
      <4>3. QED
        BY <1>1, <1>2, <4>1, <4>2 DEF FromOthers
    <3>3. QED
      BY <3>1, <3>2
  <2>2. ASSUME NEW x \in Device, NEW o \in surfaced'[x]
        PROVE  o \in store'[o.author] /\ o.author # x /\ x \in o.to /\ o.kind = "share"
    <3>1. CASE o \in surfaced[x]
      BY <1>1, <1>2, <3>1 DEF FromOthers
    <3>2. CASE x = d /\ o = op /\ op.kind = "share" /\ d \in op.to
      BY <1>2, <1>3, <3>2
    <3>3. QED
      BY <1>7, <3>1, <3>2
  <2>3. QED
    BY <2>1, <2>2 DEF FromOthers
<1>9. OwnerInv'
  <2>1. CASE d # Owner
    BY <1>1, <1>2, <1>6, <2>1, OwnerElse
  <2>2. CASE d = Owner
    <3> SUFFICES ASSUME ~torn'[Owner] PROVE (Alone /\ MembersOK /\ HandsOK /\ SharesOK)'
      BY DEF OwnerInv
    <3>1. Alone /\ MembersOK /\ HandsOK /\ SharesOK
      BY <1>1, <1>2 DEF OwnerInv
    <3>2. OwnLog' = OwnLog
      BY <1>2 DEF OwnLog
    <3>3. \A m : Regained(m)' <=> Regained(m)
      BY <3>2 DEF Regained
    <3>4. \A j \in Task : j # t => ~Busy(Owner, j) /\ ~Busy(Owner, j)'
      BY <1>1, <1>2, <1>6, <2>2, <3>1 DEF Alone, Busy
    <3>5. ~Removing /\ ~Removing'
      BY <1>1, <3>4 DEF Removing, Unwritten, Task
    <3>6. \A m \in spaces[Owner] : Regained(m)
      BY <3>1, <3>5 DEF MembersOK
    <3>7. Alone'
      BY <3>4 DEF Alone
    <3>8. MembersOK'
      BY <1>2, <3>3, <3>6 DEF MembersOK
    <3>9. HandsOK'
      <4> SUFFICES ASSUME NEW k \in Task, Unwritten(k)', NEW m \in task'[Owner][k].spaces
                   PROVE  Regained(m)'
        BY DEF HandsOK
      <4>1. k = t /\ Busy(Owner, k)'
        BY <3>4 DEF Unwritten
      <4>2. op.kind \in Membership /\ task'[Owner][k].spaces = s
        BY <1>5, <1>6, <2>2, <4>1 DEF Busy
      <4>3. op.kind = "remove"
        BY <1>3, <2>2, <4>2 DEF MaySign, Membership
      <4>4. s \subseteq spaces[Owner]
        BY <1>1, <1>3, <2>2, <4>3, MembersTyped DEF RestOK, Op
      <4>5. QED
        BY <3>3, <3>6, <4>2, <4>4
    <3>10. SharesOK'
      BY <3>1, <3>2 DEF SharesOK
    <3>11. QED
      BY <3>7, <3>8, <3>9, <3>10
  <2>3. QED
    BY <2>1, <2>2
<1>10. RestOK'
  <2>1. bundles' \in [Device -> SUBSET Device]
    BY <1>1, <1>2, <1>3 DEF RestOK
  <2>2. invited' \in [Device -> BOOLEAN]
    BY <1>1, <1>2 DEF RestOK
  <2>3. QED
    BY <1>1, <1>2, <1>6, <1>7, <2>1, <2>2 DEF RestOK
<1>11. QED
  BY <1>1, <1>2, <1>8, <1>9, <1>10, StoreSame, InvParts2

LEMMA PersistSpaceStateInv ==
  ASSUME Inv, NEW d \in Device, NEW k \in Task, PersistSpaceState(d, k) PROVE Inv'
<1>1. StoreOK /\ RestOK /\ FromOthers /\ OwnerInv /\ Owner \in Device
  BY InvParts, CircleAssumption
<1> PICK s : s = task[d][k].spaces
  OBVIOUS
<1>2. /\ Busy(d, k) /\ task[d][k].at = "space"
      /\ spaces' = [spaces EXCEPT ![d] = s]
      /\ GoOn(d, k, "send") \/ Finish(d, k)
      /\ UNCHANGED <<store, assoc, bundles, groups, circles, open, invited,
                     surfaced, torn, faults>>
  BY DEF PersistSpaceState, SpaceWritten
<1>3. s \in SUBSET Device
  BY <1>1, <1>2 DEF RestOK, Busy, Hand
<1>4. PICK h \in Hand \cup {Nothing} :
        /\ SetTask(d, k, h)
        /\ h # Nothing => h.op = task[d][k].op /\ h.at = "send"
  <2>1. CASE GoOn(d, k, "send")
    BY <1>1, <1>2, <2>1, HandMoved
  <2>2. CASE Finish(d, k)
    BY <2>2 DEF Finish, SetTask
  <2>3. QED
    BY <1>2, <2>1, <2>2
<1>5. /\ task' \in [Device -> [Task -> Hand \cup {Nothing}]]
      /\ task'[d][k] = h
      /\ \A x \in Device : \A j \in Task : x # d \/ j # k => task'[x][j] = task[x][j]
      /\ \A x \in Device : x # d => task'[x] = task[x]
  BY <1>1, <1>4, TaskSet
<1>6. FromOthers'
  <2>1. \A e \in Device : \A t \in Topic :
          Busy(e, t)' => Busy(e, t) /\ task'[e][t].op = task[e][t].op
    <3> SUFFICES ASSUME NEW e \in Device, NEW t \in Topic, Busy(e, t)'
                 PROVE  Busy(e, t) /\ task'[e][t].op = task[e][t].op
      OBVIOUS
    <3>1. t \in Task
      BY DEF Task
    <3>2. CASE e = d /\ t = k
      BY <1>2, <1>4, <1>5, <3>2 DEF Busy
    <3>3. CASE ~(e = d /\ t = k)
      BY <1>5, <3>1, <3>3 DEF Busy
    <3>4. QED
      BY <3>2, <3>3
  <2>2. QED
    BY <1>1, <1>2, <2>1, FromOthersKept
<1>7. OwnerInv'
  <2>1. CASE d # Owner
    BY <1>1, <1>2, <1>5, <2>1, OwnerElse DEF RestOK
  <2>2. CASE d = Owner
    <3> SUFFICES ASSUME ~torn'[Owner] PROVE (Alone /\ MembersOK /\ HandsOK /\ SharesOK)'
      BY DEF OwnerInv
    <3>1. Alone /\ MembersOK /\ HandsOK /\ SharesOK
      BY <1>1, <1>2 DEF OwnerInv
    <3>2. OwnLog' = OwnLog
      BY <1>2 DEF OwnLog
    <3>3. \A m : Regained(m)' <=> Regained(m)
      BY <3>2 DEF Regained
    <3>4. \A j \in Task : j # k => ~Busy(Owner, j)'
      BY <1>2, <1>5, <2>2, <3>1 DEF Alone, Busy
    <3>5. \A j \in Task : ~Unwritten(j)'
      BY <1>4, <1>5, <2>2, <3>4 DEF Unwritten, Busy
    <3>6. \A m \in s : Regained(m)
      BY <1>2, <2>2, <3>1 DEF HandsOK, Unwritten
    <3>7. spaces'[Owner] = s
      BY <1>1, <1>2, <2>2 DEF RestOK
    <3>8. Alone'
      BY <3>4 DEF Alone
    <3>9. MembersOK' /\ HandsOK'
      BY <3>3, <3>5, <3>6, <3>7 DEF MembersOK, HandsOK
    <3>10. SharesOK'
      BY <3>1, <3>2 DEF SharesOK
    <3>11. QED
      BY <3>8, <3>9, <3>10
  <2>3. QED
    BY <2>1, <2>2
<1>8. RestOK'
  BY <1>1, <1>2, <1>3, <1>5 DEF RestOK
<1>9. QED
  BY <1>1, <1>2, <1>6, <1>7, <1>8, StoreSame, InvParts2

-----------------------------------------------------------------------------
(***************************************************************************)
(* The commands that sign a circle operation.  After the removal of m the  *)
(* space state written next lacks m; after any other change whoever is in  *)
(* it was there before, or is the one just added, or is the owner.         *)
(***************************************************************************)
LEMMA ForgedKeepsMembers ==
  ASSUME NEW op \in Op, NEW S, NEW T, op.author = Owner, MaySign(op),
         OwnLog' = OwnLog \cup {op}, \A o \in OwnLog : o \in Op /\ MaySign(o) /\ o.seq < op.seq,
         op.kind \in {"create", "add", "remove", "share"},
         op.kind = "create" => op.who = Owner,
         \A m \in S : Regained(m),
         T \in SUBSET Device, S \in SUBSET Device, T = MembersAfter(S, op.kind, op.who)
  PROVE  /\ \A m \in T : Regained(m)'
         /\ op.kind # "remove" => \A m \in S : Regained(m)'
<1>1. /\ op.kind = "create" => T = {op.who}
      /\ op.kind = "add" => T = S \cup {op.who}
      /\ op.kind = "remove" => T = S \ {op.who}
      /\ op.kind = "share" => T = S
  BY MembersTyped DEF Op, Membership
<1>2. ASSUME NEW m \in S, op.kind # "remove" \/ op.who # m PROVE Regained(m)'
  <2>1. Regained(m)
    OBVIOUS
  <2>2. OwnLog \subseteq OwnLog' /\ \A o \in OwnLog' : o \in OwnLog \/ ~(o.kind = "remove" /\ o.who = m)
    BY <1>2
  <2>3. QED
    BY <2>1, <2>2, RegainedStays
<1>3. CASE op.kind = "create"
  <2>1. \A r \in OwnLog' : ~(r.kind = "remove" /\ r.who = Owner)
    BY <1>3 DEF MaySign, OwnLog
  <2>2. Regained(Owner)'
    BY <2>1 DEF Regained
  <2>3. QED
    BY <1>1, <1>2, <1>3, <2>2
<1>4. CASE op.kind = "add"
  <2>1. op \in OwnLog' /\ \A r \in OwnLog' : op.seq >= r.seq
    BY DEF Op
  <2>2. Regained(op.who)'
    BY <1>4, <2>1 DEF Regained
  <2>3. QED
    BY <1>1, <1>2, <1>4, <2>2
<1>5. CASE op.kind \in {"remove", "share"}
  BY <1>1, <1>2, <1>5
<1>6. QED
  BY <1>3, <1>4, <1>5

\* A share goes to members that each were added again after every removal.
LEMMA ForgedKeepsShares ==
  ASSUME NEW op \in Op, OwnLog' = OwnLog \cup {op}, SharesOK,
         \A o \in OwnLog : o \in Op /\ o.seq < op.seq,
         op.kind = "share" => \A m \in op.to : Regained(m)
  PROVE  SharesOK'
<1> SUFFICES ASSUME NEW s \in OwnLog', s.kind = "share", NEW m \in s.to, NEW r \in OwnLog',
                    r.kind = "remove", r.who = m, r.seq < s.seq
             PROVE  \E a \in OwnLog' : a.kind = "add" /\ a.who = m /\ a.seq \in r.seq .. s.seq
  BY DEF SharesOK
<1>1. r \in OwnLog
  BY DEF Op
<1>2. CASE s \in OwnLog
  BY <1>1, <1>2 DEF SharesOK
<1>3. CASE s = op
  <2>1. PICK a \in OwnLog : a.kind = "add" /\ a.who = m /\ a.seq >= r.seq
    BY <1>1, <1>3 DEF Regained
  <2>2. a.seq < s.seq
    BY <1>3
  <2>3. a.seq \in Nat /\ r.seq \in Nat /\ s.seq \in Nat
    BY <1>1, <1>3 DEF Op
  <2>4. a.seq \in r.seq .. s.seq
    BY <2>1, <2>2, <2>3
  <2>5. QED
    BY <2>1, <2>4
<1>4. QED
  BY <1>2, <1>3

LEMMA ForgeInv ==
  ASSUME Inv, NEW d \in Device, NEW kind \in {"create", "add", "remove", "share"},
         NEW who \in Device, NEW to \in SUBSET Device, NEW at \in {"groups", "space"},
         Forge(d, kind, who, to, at),
         Busy(d, Command) => task[d][Command].at = "share",
         kind \in {"create", "add"} => d = Owner,
         kind = "create" => who = d,
         kind = "remove" => IF d = Owner THEN who # Owner ELSE who = d,
         kind = "share" => to = spaces[d]
  PROVE  Inv'
<1>1. /\ StoreOK /\ RestOK /\ FromOthers /\ OwnerInv /\ Owner \in Device
      /\ Command \in Task /\ \A t \in Topic : t \in Task /\ t # Command
  BY InvParts, CircleAssumption DEF Task, Topic, Always, Shared, Command
<1> PICK op : op = NextOp(d, kind, who, to)
  OBVIOUS
<1> PICK g : g = MembersAfter(groups[d], kind, who)
  OBVIOUS
<1> PICK s : s = MembersAfter(spaces[d], kind, who)
  OBVIOUS
<1> PICK h : h = [op |-> op, at |-> at, groups |-> g, spaces |-> s]
  OBVIOUS
<1>2. /\ store' = [store EXCEPT ![d] = @ \cup {op}]
      /\ open' = [open EXCEPT ![d] = @ \cup {Shared}]
      /\ SetTask(d, Command, h)
      /\ torn' = [torn EXCEPT ![d] = @ \/ \E j \in Task \ {Command} : Busy(d, j)]
      /\ UNCHANGED <<assoc, bundles, groups, spaces, circles, invited, surfaced, faults>>
  BY DEF Forge, Start, SetTask
<1>3. /\ op \in Op /\ op.author = d /\ op.seq = Tip(d, d) + 1
      /\ op.kind = kind /\ op.who = who /\ op.to = to
  <2>1. kind \in Kind
    BY DEF Kind, Membership
  <2>2. QED
    BY <2>1, OwnOperation DEF Inv
<1>4. MaySign(op)
  BY <1>3 DEF MaySign
<1>5. g \in SUBSET Device /\ s \in SUBSET Device
  BY <1>1, MembersTyped DEF RestOK
<1>6. h \in Hand /\ h.op = op /\ h.at = at /\ h.spaces = s
  BY <1>3, <1>5 DEF Hand
<1>7. /\ StoreOK' /\ store'[d] = store[d] \cup {op}
      /\ \A x \in Device : x # d => store'[x] = store[x]
      /\ \A p \in store[d] : p.author = op.author => p.seq < op.seq
  BY <1>2, <1>3, <1>4, StoreExtended
<1>8. /\ task' \in [Device -> [Task -> Hand \cup {Nothing}]]
      /\ task'[d][Command] = h
      /\ \A x \in Device : \A j \in Task : x # d \/ j # Command => task'[x][j] = task[x][j]
      /\ \A x \in Device : x # d => task'[x] = task[x]
  BY <1>1, <1>2, <1>6, TaskSet
<1>9. FromOthers'
  <2>1. \A e \in Device : \A t \in Topic :
          Busy(e, t)' => Busy(e, t) /\ task'[e][t].op = task[e][t].op
    BY <1>1, <1>8 DEF Busy
  <2>2. \A e \in Device : store[e] \subseteq store'[e]
    BY <1>7
  <2>3. QED
    BY <1>1, <1>2, <2>1, <2>2, FromOthersKept
<1>10. OwnerInv'
  <2>1. CASE d # Owner
    BY <1>1, <1>2, <1>7, <1>8, <2>1, OwnerElse DEF RestOK
  <2>2. CASE d = Owner
    <3> SUFFICES ASSUME ~torn'[Owner] PROVE (Alone /\ MembersOK /\ HandsOK /\ SharesOK)'
      BY DEF OwnerInv
    <3>1. ~torn[Owner] /\ \A j \in Task : j # Command => ~Busy(Owner, j)
      BY <1>1, <1>2, <2>2 DEF RestOK
    <3>2. Alone /\ MembersOK /\ HandsOK /\ SharesOK
      BY <1>1, <3>1 DEF OwnerInv
    <3>3. \A j \in Task : j # Command => ~Busy(Owner, j)'
      BY <1>8, <2>2, <3>1 DEF Busy
    <3>4. Alone'
      BY <3>3 DEF Alone
    <3>5. \A m \in spaces[Owner] : Regained(m)
      BY <2>2, <3>2 DEF MembersOK, Removing, Unwritten
    <3>6. /\ OwnLog' = OwnLog \cup {op}
          /\ \A o \in OwnLog : o \in Op /\ MaySign(o) /\ o.seq < op.seq
      BY <1>1, <1>3, <1>7, <2>2 DEF OwnLog, StoreOK, Signed
    <3>7. /\ \A m \in s : Regained(m)'
          /\ kind # "remove" => \A m \in spaces[Owner] : Regained(m)'
      <4>1. spaces[Owner] \in SUBSET Device /\ s = MembersAfter(spaces[Owner], op.kind, op.who)
        BY <1>1, <1>3, <2>2 DEF RestOK
      <4>2. op.author = Owner /\ (op.kind = "create" => op.who = Owner)
        BY <1>3, <2>2
      <4>3. op.kind \in {"create", "add", "remove", "share"}
        BY <1>3
      <4>4. op \in Op /\ MaySign(op) /\ s \in SUBSET Device
        BY <1>3, <1>4, <1>5
      <4>5. /\ \A m \in s : Regained(m)'
            /\ op.kind # "remove" => \A m \in spaces[Owner] : Regained(m)'
        BY <3>5, <3>6, <4>1, <4>2, <4>3, <4>4, ForgedKeepsMembers
      <4>6. QED
        BY <1>3, <4>5
    <3>8. MembersOK'
      <4>1. CASE kind = "remove"
        <5>1. Removing'
          BY <1>3, <1>6, <1>8, <2>2, <4>1, CircleAssumption DEF Removing, Unwritten, Busy
        <5>2. QED
          BY <5>1 DEF MembersOK
      <4>2. CASE kind # "remove"
        BY <1>2, <3>7, <4>2 DEF MembersOK
      <4>3. QED
        BY <4>1, <4>2
    <3>9. HandsOK'
      <4>1. \A k \in Task : Unwritten(k)' => task'[Owner][k].spaces = s
        BY <1>6, <1>8, <2>2, <3>3 DEF Unwritten
      <4>2. QED
        BY <3>7, <4>1 DEF HandsOK
    <3>10. SharesOK'
      BY <1>3, <2>2, <3>2, <3>5, <3>6, ForgedKeepsShares
    <3>11. QED
      BY <3>4, <3>8, <3>9, <3>10
  <2>3. QED
    BY <2>1, <2>2
<1>11. RestOK'
  <2>1. open' \in [Device -> SUBSET Topic]
    BY <1>1, <1>2 DEF RestOK, Topic
  <2>2. torn' \in [Device -> BOOLEAN]
    BY <1>1, <1>2 DEF RestOK
  <2>3. QED
    BY <1>1, <1>2, <1>8, <2>1, <2>2 DEF RestOK
<1>12. QED
  BY <1>7, <1>9, <1>10, <1>11, InvParts2

LEMMA MembershipInv ==
  ASSUME Inv, NEW d \in Device, NEW m \in Device,
         CreateCircle(d) \/ InviteToCircle(d, m) \/ RevokeFromCircle(d, m)
  PROVE  Inv'
<1>1. {} \in SUBSET Device /\ "groups" \in {"groups", "space"}
  OBVIOUS
<1>2. CASE CreateCircle(d)
  <2>1. d = Owner /\ ~Busy(d, Command) /\ Forge(d, "create", d, {}, "groups")
    BY <1>2 DEF CreateCircle
  <2>2. QED
    BY <1>1, <2>1, ForgeInv
<1>3. CASE InviteToCircle(d, m)
  <2>1. d = Owner /\ ~Busy(d, Command) /\ Forge(d, "add", m, {}, "groups")
    BY <1>3 DEF InviteToCircle
  <2>2. QED
    BY <1>1, <2>1, ForgeInv
<1>4. CASE RevokeFromCircle(d, m)
  <2>1. /\ ~Busy(d, Command) /\ Forge(d, "remove", m, {}, "groups")
        /\ IF d = Owner THEN m # Owner ELSE m = d
    BY <1>4 DEF RevokeFromCircle
  <2>2. QED
    BY <1>1, <2>1, ForgeInv
<1>5. QED
  BY <1>2, <1>3, <1>4

LEMMA ShareToCircleInv ==
  ASSUME Inv, NEW d \in Device, ShareToCircle(d) PROVE Inv'
<1>1. Forge(d, "share", d, spaces[d], "space")
      /\ (Busy(d, Command) => task[d][Command].at = "share")
  BY DEF ShareToCircle
<1>2. spaces[d] \in SUBSET Device
  BY DEF Inv, TypeOK
<1>3. QED
  BY <1>1, <1>2, ForgeInv

-----------------------------------------------------------------------------
LEMMA InvInit == Init => Inv
<1> SUFFICES ASSUME Init PROVE Inv
  OBVIOUS
<1>1. \A d \in Device : Bundle(d, 1) \in Op /\ Bundle(d, 1).author = d
                        /\ Bundle(d, 1).seq = 1 /\ Bundle(d, 1).kind = "bundle"
  BY DEF Bundle, Forged, Op, Kind
<1>2. \A d \in Device : store[d] = {Bundle(d, 1)}
  BY DEF Init
<1>3. Numbered
  <2> SUFFICES ASSUME NEW d \in Device, NEW a \in Device
               PROVE  \E n \in Nat : Seqs(d, a) = 1 .. n
    BY DEF Numbered
  <2>1. CASE a = d
    <3>1. Seqs(d, a) = {1}
      BY <1>1, <1>2, <2>1 DEF Seqs
    <3>2. {1} = 1 .. 1 /\ 1 \in Nat
      OBVIOUS
    <3>3. QED
      BY <3>1, <3>2
  <2>2. CASE a # d
    <3>1. Seqs(d, a) = {}
      BY <1>1, <1>2, <2>2 DEF Seqs
    <3>2. {} = 1 .. 0 /\ 0 \in Nat
      OBVIOUS
    <3>3. QED
      BY <3>1, <3>2
  <2>3. QED
    BY <2>1, <2>2
<1>4. Signed
  BY <1>1, <1>2 DEF Signed, MaySign
<1>5. StoreOK
  <2>1. store \in [Device -> SUBSET Op]
    BY <1>1 DEF Init
  <2>2. QED
    BY <1>2, <1>3, <1>4, <2>1 DEF StoreOK
<1>6. RestOK
  <2>1. /\ assoc \in [Device -> SUBSET (Topic \X Device)]
        /\ open \in [Device -> SUBSET Topic]
    BY DEF Init, SpawnAssociates, Topic
  <2>2. faults \in 0 .. MaxFaults
    BY CircleAssumption DEF Init
  <2>3. QED
    BY <2>1, <2>2 DEF Init, RestOK
<1>7. \A d \in Device : \A k \in Task : ~Busy(d, k)
  BY DEF Init, Busy
<1>8. FromOthers
  BY <1>7 DEF FromOthers, Init, Task
<1>9. OwnerInv
  <2>1. Owner \in Device
    BY CircleAssumption
  <2>2. \A o \in OwnLog : o.kind = "bundle"
    BY <1>1, <1>2, <2>1 DEF OwnLog
  <2>3. Alone /\ \A k \in Task : ~Unwritten(k)
    BY <1>7, <2>1 DEF Alone, Unwritten
  <2>4. QED
    BY <2>1, <2>2, <2>3 DEF OwnerInv, MembersOK, HandsOK, SharesOK, Regained
<1>10. QED
  BY <1>5, <1>6, <1>8, <1>9, InvParts

LEMMA InvNext == Inv /\ [Next]_vars => Inv'
<1> SUFFICES ASSUME Inv, [Next]_vars PROVE Inv'
  OBVIOUS
<1>1. CASE UNCHANGED vars
  <2>1. UNCHANGED <<store, assoc, bundles, groups, spaces, circles, open, task, invited,
                    surfaced, torn, faults>>
    BY <1>1 DEF vars, durable
  <2>2. StoreOK /\ RestOK /\ FromOthers /\ OwnerInv
    BY InvParts
  <2>3. StoreOK' /\ RestOK'
    BY <2>1, <2>2, StoreSame DEF RestOK
  <2>4. FromOthers'
    BY <2>1, <2>2, FromOthersKept DEF Busy
  <2>5. OwnerInv'
    BY <2>1, <2>2, OwnerElse
  <2>6. QED
    BY <2>3, <2>4, <2>5, InvParts2
<1>2. CASE Next
  <2>1. PICK d \in Device :
          \/ CreateCircle(d)
          \/ \E m \in Device : InviteToCircle(d, m) \/ RevokeFromCircle(d, m)
          \/ LeaveWithoutRevoke(d)
          \/ ShareToCircle(d)
          \/ \E k \in Task : PersistGroupsState(d, k) \/ PersistSpaceState(d, k)
          \/ BroadcastCircleOp(d)
          \/ NotifyCircleInvite(d)
          \/ FollowUpFails(d)
          \/ JoinCircle(d)
          \/ NameJoinedCircle(d)
          \/ \E e \in Device, t \in Topic : Receive(d, e, t)
          \/ \E t \in Topic : Process(d, t)
          \/ Restart(d)
    BY <1>2 DEF Next
  <2>2. CASE CreateCircle(d)
    BY <2>2, MembershipInv
  <2>3. CASE \E m \in Device : InviteToCircle(d, m) \/ RevokeFromCircle(d, m)
    BY <2>3, MembershipInv
  <2>4. CASE LeaveWithoutRevoke(d) \/ NameJoinedCircle(d)
    <3>1. UNCHANGED <<store, assoc, bundles, groups, spaces, open, task, invited,
                      surfaced, torn, faults>>
      BY <2>4 DEF LeaveWithoutRevoke, NameJoinedCircle
    <3>2. circles' \in [Device -> BOOLEAN]
      <4>1. circles \in [Device -> BOOLEAN]
        BY DEF Inv, TypeOK
      <4>2. PICK c \in BOOLEAN : circles' = [circles EXCEPT ![d] = c]
        BY <2>4 DEF LeaveWithoutRevoke, NameJoinedCircle
      <4>3. QED
        BY <4>1, <4>2
    <3>3. QED
      BY <3>1, <3>2, CirclesOnlyInv
  <2>5. CASE ShareToCircle(d)
    BY <2>5, ShareToCircleInv
  <2>6. CASE \E k \in Task : PersistGroupsState(d, k) \/ PersistSpaceState(d, k)
    BY <2>6, PersistGroupsStateInv, PersistSpaceStateInv
  <2>7. CASE BroadcastCircleOp(d)
    BY <2>7, BroadcastCircleOpInv
  <2>8. CASE NotifyCircleInvite(d)
    BY <2>8, NotifyCircleInviteInv
  <2>9. CASE FollowUpFails(d)
    BY <2>9, FollowUpFailsInv
  <2>10. CASE JoinCircle(d)
    BY <2>10, JoinCircleInv
  <2>11. CASE \E e \in Device, t \in Topic : Receive(d, e, t)
    BY <2>11, ReceiveInv
  <2>12. CASE \E t \in Topic : Process(d, t)
    BY <2>12, ProcessInv
  <2>13. CASE Restart(d)
    BY <2>13, RestartInv
  <2>14. QED
    BY <2>1, <2>2, <2>3, <2>4, <2>5, <2>6, <2>7, <2>8, <2>9, <2>10, <2>11, <2>12, <2>13
<1>3. QED
  BY <1>1, <1>2

\* The owner's logs, hands and members stay as the invariant says, for any
\* devices, through restarts, failed follow-ups and overlapping changes.
THEOREM CircleInvariance == Spec => []Inv
  BY InvInit, InvNext, PTL DEF Spec

\* Every variable keeps its type, and a stored log has one operation for each
\* number: what publish and the forwarders append never forks a log.
THEOREM CircleTypes == Spec => []TypeOK
<1>1. Inv => TypeOK
  BY DEF Inv
<1>2. QED
  BY <1>1, CircleInvariance, PTL

\* What a member read was shared by an author that, after each removal of the
\* member before the share, added it again: a guest removes only itself and
\* reads only what others share, so the owner's invariant decides.
LEMMA InvRevoked == Inv => RevokedReadsNothing
<1> SUFFICES ASSUME Inv, NEW d \in Device, NEW s \in surfaced[d],
                    NEW r \in store[s.author], ~torn[s.author], r.author = s.author,
                    r.kind = "remove", r.who = d, r.seq < s.seq
             PROVE  \E a \in store[s.author] :
                      a.author = s.author /\ a.kind = "add" /\ a.who = d
                        /\ a.seq \in r.seq .. s.seq
  BY DEF RevokedReadsNothing
<1>1. s \in store[s.author] /\ s.author # d /\ d \in s.to /\ s.kind = "share"
  BY DEF Inv, FromOthers
<1>2. s.author \in Device
  BY DEF Inv, TypeOK, Op
<1>3. MaySign(r)
  BY <1>2 DEF Inv, Signed
<1>4. s.author = Owner
  BY <1>1, <1>3 DEF MaySign
<1>5. SharesOK
  BY <1>4 DEF Inv, OwnerInv
<1>6. s \in OwnLog /\ r \in OwnLog
  BY <1>1, <1>4 DEF OwnLog
<1>7. PICK a \in OwnLog : a.kind = "add" /\ a.who = d /\ a.seq \in r.seq .. s.seq
  BY <1>1, <1>5, <1>6 DEF SharesOK
<1>8. QED
  BY <1>4, <1>7 DEF OwnLog

\* A revoked member reads nothing that is shared after its revocation, unless
\* two changes of the sharer overlapped or a restart cut one short.
THEOREM RevokedStaysOut == Spec => []RevokedReadsNothing
  BY CircleInvariance, InvRevoked, PTL

-----------------------------------------------------------------------------
(***************************************************************************)
(* What the owner's log says, and what the owner knows.                    *)
(*                                                                         *)
(* The owner's first operation is a key bundle.  It creates the circle     *)
(* once, and before it changes it or shares to it; it adds a member before *)
(* it encrypts a share for it.                                             *)
(***************************************************************************)
Begins == \E b \in OwnLog : b.seq = 1 /\ b.kind = "bundle"
CreatedOnce ==
  \A c \in OwnLog : c.kind = "create" =>
    c.who = Owner /\ \A o \in OwnLog : o.kind = "create" => o = c
CreatedFirst ==
  \A op \in OwnLog : op.kind \in {"add", "remove", "share"} =>
    \E c \in OwnLog : c.kind = "create" /\ c.seq < op.seq
AddedFirst ==
  \A op \in OwnLog : op.kind = "share" => \A m \in op.to \ {Owner} :
    \E a \in OwnLog : a.kind = "add" /\ a.who = m /\ a.seq < op.seq
LogOrder == Begins /\ CreatedOnce /\ CreatedFirst /\ AddedFirst

\* The members some state names: the log has created the circle and added them.
Recorded(members) ==
  /\ members # {} => \E c \in OwnLog : c.kind = "create"
  /\ \A m \in members \ {Owner} : \E a \in OwnLog : a.kind = "add" /\ a.who = m
OwnerKnows ==
  /\ Recorded(groups[Owner]) /\ Recorded(spaces[Owner])
  /\ \A k \in Task : Busy(Owner, k) =>
       Recorded(task[Owner][k].groups) /\ Recorded(task[Owner][k].spaces)

(***************************************************************************)
(* What a member makes of the owner's log.  Done is what it has processed: *)
(* all it holds but the operation in hand.  Its members follow what was    *)
(* done: the owner is one, and so is the device itself unless the last     *)
(* word of the owner about it is its removal.                              *)
(***************************************************************************)
Processing(d, t, op) == Busy(d, t) /\ task[d][t].at = "process" /\ task[d][t].op = op
Done(d) == {op \in store[d] : op.author = Owner /\ \A t \in Topic : ~Processing(d, t, op)}
Writing(d, k) == Busy(d, k) /\ task[d][k].at \in {"groups", "space"}

Follows(d, done, members) ==
  /\ (\E c \in done : c.kind = "create") => Owner \in members
  /\ \/ d \in members
     \/ \A a \in done : ~(a.kind = "add" /\ a.who = d)
     \/ \E r \in done : /\ r.kind = "remove" /\ r.who = d
                        /\ \A a \in done : a.kind = "add" /\ a.who = d => a.seq < r.seq
Undisturbed(d) == ~torn[d] /\ ~HasLeft(d)

OneTask(d) == \A j, k \in Task : Busy(d, j) /\ Busy(d, k) => j = k
\* The operation of the owner in hand is the last one held.
LastInHand(d) ==
  \A t \in Topic, op \in store[d] : Processing(d, t, op) /\ op.author = Owner =>
    \A p \in store[d] : p.author = Owner => p.seq <= op.seq
MembersFollow(d) ==
  /\ (\A k \in Task : ~Writing(d, k)) => Follows(d, Done(d), spaces[d])
  /\ \A k \in Task : Writing(d, k) => Follows(d, Done(d), task[d][k].spaces)
OwnerIsKnown(d) == (\E b \in Done(d) : b.seq = 1) => Owner \in bundles[d]
SharesAreRead(d) ==
  ~torn[Owner] => \A s \in Done(d) : s.kind = "share" /\ d \in s.to => s \in surfaced[d]
MemberOK(d) ==
  Undisturbed(d) => /\ OneTask(d) /\ LastInHand(d) /\ MembersFollow(d)
                    /\ OwnerIsKnown(d) /\ SharesAreRead(d)

Reads == LogOrder /\ OwnerKnows /\ \A d \in Device \ {Owner} : MemberOK(d)

-----------------------------------------------------------------------------
\* A step of one device: its log grows, what was torn stays so, and the other
\* devices keep all they have.
StepOf(d) ==
  /\ store[d] \subseteq store'[d]
  /\ torn[d] => torn'[d]
  /\ \A e \in Device : e # d =>
       /\ store'[e] = store[e] /\ task'[e] = task[e] /\ torn'[e] = torn[e]
       /\ groups'[e] = groups[e] /\ spaces'[e] = spaces[e]
       /\ bundles'[e] = bundles[e] /\ surfaced'[e] = surfaced[e]

LEMMA RecordedStays ==
  ASSUME OwnLog \subseteq OwnLog', NEW S, Recorded(S)
  PROVE  Recorded(S)'
  BY DEF Recorded

\* Someone else's step leaves what the owner signed and knows.
LEMMA OwnerElsewhere ==
  ASSUME NEW d \in Device, d # Owner, StepOf(d), LogOrder, OwnerKnows
  PROVE  LogOrder' /\ OwnerKnows'
<1>1. /\ store'[Owner] = store[Owner] /\ task'[Owner] = task[Owner]
      /\ groups'[Owner] = groups[Owner] /\ spaces'[Owner] = spaces[Owner]
  BY CircleAssumption DEF StepOf
<1>2. OwnLog' = OwnLog
  BY <1>1 DEF OwnLog
<1>3. LogOrder'
  BY <1>2 DEF LogOrder, Begins, CreatedOnce, CreatedFirst, AddedFirst
<1>4. OwnerKnows'
  BY <1>1, <1>2 DEF OwnerKnows, Recorded, Busy
<1>5. QED
  BY <1>3, <1>4

\* Someone else's step leaves what a member holds and has made of it.
LEMMA MemberElsewhere ==
  ASSUME NEW d \in Device, NEW e \in Device, e # d, StepOf(d), MemberOK(e)
  PROVE  MemberOK(e)'
<1>1. /\ store'[e] = store[e] /\ task'[e] = task[e] /\ torn'[e] = torn[e]
      /\ spaces'[e] = spaces[e] /\ bundles'[e] = bundles[e] /\ surfaced'[e] = surfaced[e]
      /\ torn[Owner] => torn'[Owner]
  BY CircleAssumption DEF StepOf
<1>2. /\ \A k : (Busy(e, k)' <=> Busy(e, k)) /\ (Writing(e, k)' <=> Writing(e, k))
      /\ \A t, op : Processing(e, t, op)' <=> Processing(e, t, op)
  BY <1>1 DEF Busy, Writing, Processing
<1>3. Done(e)' = Done(e)
  BY <1>1, <1>2 DEF Done
<1>4. Undisturbed(e)' <=> Undisturbed(e)
  BY <1>1 DEF Undisturbed, HasLeft
<1>5. /\ OneTask(e)' <=> OneTask(e)
      /\ LastInHand(e)' <=> LastInHand(e)
  BY <1>1, <1>2 DEF OneTask, LastInHand
<1>6. MembersFollow(e)' <=> MembersFollow(e)
  BY <1>1, <1>2, <1>3 DEF MembersFollow, Follows
<1>7. /\ OwnerIsKnown(e)' <=> OwnerIsKnown(e)
      /\ SharesAreRead(e) => SharesAreRead(e)'
  BY <1>1, <1>3 DEF OwnerIsKnown, SharesAreRead
<1>8. QED
  BY <1>4, <1>5, <1>6, <1>7 DEF MemberOK

\* So only the device that makes the step has to be looked at.
LEMMA ReadsByStep ==
  ASSUME NEW d \in Device, StepOf(d), Reads,
         d = Owner => LogOrder' /\ OwnerKnows',
         d # Owner => MemberOK(d)'
  PROVE  Reads'
<1>1. LogOrder' /\ OwnerKnows'
  BY OwnerElsewhere DEF Reads
<1>2. \A e \in Device \ {Owner} : MemberOK(e)'
  BY MemberElsewhere DEF Reads
<1>3. QED
  BY <1>1, <1>2 DEF Reads

-----------------------------------------------------------------------------
(***************************************************************************)
(* The owner's log grows.                                                  *)
(***************************************************************************)
LEMMA LogOrderGrows ==
  ASSUME LogOrder, NEW op, OwnLog' = OwnLog \cup {op},
         \A o \in OwnLog : o.seq < op.seq,
         op.kind = "create" => op.who = Owner /\ \A c \in OwnLog : c.kind # "create",
         op.kind \in {"add", "remove", "share"} => \E c \in OwnLog : c.kind = "create",
         op.kind = "share" => \A m \in op.to \ {Owner} :
                                \E a \in OwnLog : a.kind = "add" /\ a.who = m
  PROVE  LogOrder'
<1>1. Begins'
  BY DEF LogOrder, Begins
<1>2. CreatedOnce'
  BY DEF LogOrder, CreatedOnce
<1>3. CreatedFirst'
  BY DEF LogOrder, CreatedFirst
<1>4. AddedFirst'
  BY DEF LogOrder, AddedFirst
<1>5. QED
  BY <1>1, <1>2, <1>3, <1>4 DEF LogOrder

\* A state computed from a recorded one is recorded, once its change is signed.
LEMMA RecordedAfter ==
  ASSUME NEW S \in SUBSET Device, NEW kind, NEW who \in Device, Recorded(S),
         OwnLog \subseteq OwnLog',
         kind = "create" => who = Owner /\ \E c \in OwnLog' : c.kind = "create",
         kind = "add" => /\ \E c \in OwnLog' : c.kind = "create"
                         /\ \E a \in OwnLog' : a.kind = "add" /\ a.who = who
  PROVE  Recorded(MembersAfter(S, kind, who))'
<1>0. Recorded(S)'
  BY RecordedStays
<1> PICK T : T = MembersAfter(S, kind, who)
  OBVIOUS
<1>1. CASE kind = "create"
  <2>1. T = {Owner}
    BY <1>1, MembersTyped
  <2>2. Recorded(T)'
    BY <1>1, <2>1 DEF Recorded
  <2>3. QED
    BY <2>2 DEF MembersAfter
<1>2. CASE kind = "add"
  <2>1. T = S \cup {who}
    BY <1>2, MembersTyped
  <2>2. Recorded(T)'
    BY <1>0, <1>2, <2>1 DEF Recorded
  <2>3. QED
    BY <2>2 DEF MembersAfter
<1>3. CASE kind \notin {"create", "add"}
  <2>1. T \subseteq S
    BY <1>3 DEF MembersAfter
  <2>2. Recorded(T)'
    BY <1>0, <2>1 DEF Recorded
  <2>3. QED
    BY <2>2 DEF MembersAfter
<1>4. QED
  BY <1>1, <1>2, <1>3

-----------------------------------------------------------------------------
(***************************************************************************)
(* Steps that compute nothing: a task goes on or ends with what it holds,  *)
(* a computed state is written, the device signs something else.           *)
(***************************************************************************)
Signs(d) ==
  \/ store'[d] = store[d]
  \/ \E op : /\ store'[d] = store[d] \cup {op}
             /\ op.author = d /\ op.kind \in {"bundle", "invite", "join"}
             /\ \A p \in store[d] : p.author = d => p.seq < op.seq
KeepsHands(d) ==
  \A k \in Task : Busy(d, k)' =>
    /\ Busy(d, k)
    /\ task'[d][k].op = task[d][k].op
    /\ task'[d][k].groups = task[d][k].groups
    /\ task'[d][k].spaces = task[d][k].spaces
Writes(d) ==
  /\ \/ groups'[d] = groups[d]
     \/ \E k \in Task : Busy(d, k) /\ groups'[d] = task[d][k].groups
  /\ \/ spaces'[d] = spaces[d]
     \/ \E k \in Task : Busy(d, k) /\ spaces'[d] = task[d][k].spaces
\* Unless the step is a restart that cuts a task short.
Orderly(d) ==
  ~torn'[d] =>
    /\ \A t \in Topic : \A op : Processing(d, t, op)' <=> Processing(d, t, op)
    /\ \/ spaces'[d] = spaces[d] /\ \A k \in Task : Writing(d, k)' <=> Writing(d, k)
       \/ \E k \in Task : Writing(d, k) /\ spaces'[d] = task[d][k].spaces /\ ~Writing(d, k)'
Moves(d) ==
  /\ StepOf(d) /\ Signs(d) /\ KeepsHands(d) /\ Writes(d) /\ Orderly(d)
  /\ bundles'[d] = bundles[d] /\ surfaced'[d] = surfaced[d]

LEMMA MovesOwner ==
  ASSUME Moves(Owner), LogOrder, OwnerKnows PROVE LogOrder' /\ OwnerKnows'
<1>1. LogOrder'
  <2>1. CASE store'[Owner] = store[Owner]
    <3>1. OwnLog' = OwnLog
      BY <2>1 DEF OwnLog
    <3>2. QED
      BY <3>1 DEF LogOrder, Begins, CreatedOnce, CreatedFirst, AddedFirst
  <2>2. CASE store'[Owner] # store[Owner]
    <3>1. PICK op : /\ store'[Owner] = store[Owner] \cup {op}
                    /\ op.author = Owner /\ op.kind \in {"bundle", "invite", "join"}
                    /\ \A p \in store[Owner] : p.author = Owner => p.seq < op.seq
      BY <2>2 DEF Moves, Signs
    <3>2. OwnLog' = OwnLog \cup {op} /\ \A o \in OwnLog : o.seq < op.seq
      BY <3>1 DEF OwnLog
    <3>3. QED
      BY <3>1, <3>2, LogOrderGrows
  <2>3. QED
    BY <2>1, <2>2
<1>2. OwnerKnows'
  <2>1. OwnLog \subseteq OwnLog'
    BY DEF OwnLog, Moves, StepOf
  <2>2. Recorded(groups'[Owner]) /\ Recorded(spaces'[Owner])
    BY DEF OwnerKnows, Moves, Writes
  <2>3. \A k \in Task : Busy(Owner, k)' =>
          Recorded(task'[Owner][k].groups) /\ Recorded(task'[Owner][k].spaces)
    BY DEF OwnerKnows, Moves, KeepsHands
  <2>4. \A S : Recorded(S) => Recorded(S)'
    BY <2>1, RecordedStays
  <2>5. QED
    BY <2>2, <2>3, <2>4 DEF OwnerKnows, Recorded
<1>3. QED
  BY <1>1, <1>2

LEMMA MovesMember ==
  ASSUME NEW d \in Device, d # Owner, Moves(d), MemberOK(d)
  PROVE  MemberOK(d)'
<1> SUFFICES ASSUME Undisturbed(d)'
             PROVE  (OneTask(d) /\ LastInHand(d) /\ MembersFollow(d)
                       /\ OwnerIsKnown(d) /\ SharesAreRead(d))'
  BY DEF MemberOK
<1>1. /\ StepOf(d) /\ Signs(d) /\ KeepsHands(d) /\ Orderly(d)
      /\ bundles'[d] = bundles[d] /\ surfaced'[d] = surfaced[d]
  BY DEF Moves
<1>2. Undisturbed(d) /\ ~torn'[d] /\ (torn[Owner] => torn'[Owner])
  BY <1>1, CircleAssumption DEF StepOf, Undisturbed, HasLeft
<1>3. OneTask(d) /\ LastInHand(d) /\ MembersFollow(d) /\ OwnerIsKnown(d) /\ SharesAreRead(d)
  BY <1>2 DEF MemberOK
<1>4. \A t \in Topic : \A op : Processing(d, t, op)' <=> Processing(d, t, op)
  BY <1>1, <1>2 DEF Orderly
<1>5. \A op \in store'[d] : op.author = Owner <=> op \in store[d] /\ op.author = Owner
  BY <1>1 DEF StepOf, Signs
<1>6. Done(d)' = Done(d)
  BY <1>1, <1>4, <1>5 DEF Done, StepOf
<1>7. OneTask(d)'
  BY <1>1, <1>3 DEF OneTask, KeepsHands
<1>8. LastInHand(d)'
  BY <1>3, <1>4, <1>5 DEF LastInHand
<1>9. MembersFollow(d)'
  <2>1. CASE spaces'[d] = spaces[d] /\ \A k \in Task : Writing(d, k)' <=> Writing(d, k)
    <3>1. \A k \in Task : Writing(d, k)' => task'[d][k].spaces = task[d][k].spaces
      BY <1>1 DEF KeepsHands, Writing
    <3>2. QED
      BY <1>3, <1>6, <2>1, <3>1 DEF MembersFollow, Follows
  <2>2. ASSUME NEW k \in Task, Writing(d, k), spaces'[d] = task[d][k].spaces, ~Writing(d, k)'
        PROVE  MembersFollow(d)'
    <3>1. \A j \in Task : ~Writing(d, j)'
      BY <1>1, <1>3, <2>2 DEF KeepsHands, Writing, OneTask
    <3>2. Follows(d, Done(d), task[d][k].spaces)
      BY <1>3, <2>2 DEF MembersFollow
    <3>3. QED
      BY <1>6, <2>2, <3>1, <3>2 DEF MembersFollow, Follows
  <2>3. QED
    BY <1>1, <1>2, <2>1, <2>2 DEF Orderly
<1>10. OwnerIsKnown(d)' /\ SharesAreRead(d)'
  BY <1>1, <1>2, <1>3, <1>6 DEF OwnerIsKnown, SharesAreRead
<1>11. QED
  BY <1>7, <1>8, <1>9, <1>10

LEMMA MovesReads ==
  ASSUME NEW d \in Device, Moves(d), Reads PROVE Reads'
<1>1. StepOf(d)
  BY DEF Moves
<1>2. d = Owner => LogOrder' /\ OwnerKnows'
  BY MovesOwner DEF Reads
<1>3. d # Owner => MemberOK(d)'
  BY MovesMember DEF Reads
<1>4. QED
  BY <1>1, <1>2, <1>3, ReadsByStep

\* Task k of d goes on or ends with what it holds.
LEMMA TaskGoesOn ==
  ASSUME RestOK, NEW d \in Device, NEW k \in Task, Busy(d, k),
         NEW at \in {"process", "groups", "space", "send", "share", "notify"},
         GoOn(d, k, at) \/ Finish(d, k)
  PROVE  /\ \A e \in Device : e # d => task'[e] = task[e]
         /\ \A j \in Task : j # k => task'[d][j] = task[d][j]
         /\ \/ task'[d][k] = Nothing
            \/ /\ task'[d][k] # Nothing /\ GoOn(d, k, at) /\ task'[d][k].at = at
               /\ task'[d][k].op = task[d][k].op
               /\ task'[d][k].groups = task[d][k].groups
               /\ task'[d][k].spaces = task[d][k].spaces
<1>1. CASE Finish(d, k)
  <2>1. SetTask(d, k, Nothing)
    BY <1>1 DEF Finish, SetTask
  <2>2. QED
    BY <2>1, TaskSet
<1>2. CASE GoOn(d, k, at)
  <2>1. PICK h \in Hand :
          /\ h.op = task[d][k].op /\ h.at = at
          /\ h.groups = task[d][k].groups /\ h.spaces = task[d][k].spaces
          /\ SetTask(d, k, h)
    BY <1>2, HandMoved
  <2>2. h # Nothing
    BY CircleAssumption
  <2>3. /\ task'[d][k] = h
        /\ \A e \in Device : \A j \in Task : e # d \/ j # k => task'[e][j] = task[e][j]
        /\ \A e \in Device : e # d => task'[e] = task[e]
    BY <2>1, TaskSet
  <2>4. QED
    BY <1>2, <2>1, <2>2, <2>3
<1>3. QED
  BY <1>1, <1>2

\* Only the device's own forwarders process; a task past that point neither
\* starts nor stops processing.
LEMMA TaskMoveIsOrderly ==
  ASSUME RestOK, NEW d \in Device, NEW k \in Task, Busy(d, k), task[d][k].at # "process",
         NEW at \in {"space", "send", "share", "notify"},
         GoOn(d, k, at) \/ Finish(d, k),
         \/ spaces'[d] = spaces[d] /\ (Writing(d, k) <=> at = "space" /\ GoOn(d, k, at))
         \/ Writing(d, k) /\ spaces'[d] = task[d][k].spaces /\ at # "space"
  PROVE  KeepsHands(d) /\ Orderly(d) /\ \A e \in Device : e # d => task'[e] = task[e]
<1>1. /\ \A e \in Device : e # d => task'[e] = task[e]
      /\ \A j \in Task : j # k => task'[d][j] = task[d][j]
      /\ \/ task'[d][k] = Nothing
         \/ /\ task'[d][k] # Nothing /\ GoOn(d, k, at) /\ task'[d][k].at = at
            /\ task'[d][k].op = task[d][k].op
            /\ task'[d][k].groups = task[d][k].groups
            /\ task'[d][k].spaces = task[d][k].spaces
  BY TaskGoesOn
<1>2. KeepsHands(d)
  BY <1>1 DEF KeepsHands, Busy
<1>3. \A t \in Topic : \A op : Processing(d, t, op)' <=> Processing(d, t, op)
  <2>1. \A t \in Topic : t \in Task
    BY DEF Task
  <2>2. QED
    BY <1>1, <2>1 DEF Processing, Busy
<1>4. \A j \in Task : j # k => (Writing(d, j)' <=> Writing(d, j))
  BY <1>1 DEF Writing, Busy
<1>5. CASE spaces'[d] = spaces[d] /\ (Writing(d, k) <=> at = "space" /\ GoOn(d, k, at))
  <2>1. Writing(d, k)' <=> Writing(d, k)
    <3>1. CASE task'[d][k] = Nothing
      <4>1. ~Writing(d, k)'
        BY <3>1 DEF Writing, Busy
      <4>2. at = "space" /\ GoOn(d, k, at) => FALSE
        <5>1. SUFFICES ASSUME GoOn(d, k, at) PROVE FALSE
          OBVIOUS
        <5>2. PICK h \in Hand : SetTask(d, k, h)
          BY <5>1, HandMoved
        <5>3. task'[d][k] = h /\ h # Nothing
          BY <5>2, TaskSet, CircleAssumption
        <5>4. QED
          BY <3>1, <5>3
      <4>3. QED
        BY <1>5, <4>1, <4>2
    <3>2. CASE task'[d][k] # Nothing
      BY <1>1, <1>5, <3>2 DEF Writing, Busy
    <3>3. QED
      BY <3>1, <3>2
  <2>2. \A j \in Task : Writing(d, j)' <=> Writing(d, j)
    BY <1>4, <2>1
  <2>3. QED
    BY <1>1, <1>2, <1>3, <1>5, <2>2 DEF Orderly
<1>6. CASE Writing(d, k) /\ spaces'[d] = task[d][k].spaces /\ at # "space"
  <2>1. ~Writing(d, k)'
    BY <1>1, <1>6 DEF Writing, Busy
  <2>2. QED
    BY <1>1, <1>2, <1>3, <1>6, <2>1 DEF Orderly
<1>7. QED
  BY <1>5, <1>6

LEMMA PersistReads ==
  ASSUME Inv, NEW d \in Device, NEW k \in Task, Reads,
         PersistGroupsState(d, k) \/ PersistSpaceState(d, k)
  PROVE  Reads'
<1>1. RestOK
  BY InvParts
<1>2. CASE PersistGroupsState(d, k)
  <2>1. /\ Busy(d, k) /\ task[d][k].at = "groups" /\ GoOn(d, k, "space")
        /\ groups' = [groups EXCEPT ![d] = task[d][k].groups]
        /\ UNCHANGED <<store, bundles, spaces, surfaced, torn>>
    BY <1>2 DEF PersistGroupsState
  <2>2. KeepsHands(d) /\ Orderly(d) /\ \A e \in Device : e # d => task'[e] = task[e]
    BY <1>1, <2>1, TaskMoveIsOrderly DEF Writing
  <2>3. /\ groups'[d] = task[d][k].groups
        /\ \A e \in Device : e # d => groups'[e] = groups[e]
    BY <1>1, <2>1 DEF RestOK
  <2>4. StepOf(d) /\ Signs(d) /\ Writes(d)
    BY <2>1, <2>2, <2>3 DEF StepOf, Signs, Writes
  <2>5. QED
    BY <2>1, <2>2, <2>4, MovesReads DEF Moves
<1>3. CASE PersistSpaceState(d, k)
  <2>1. /\ Busy(d, k) /\ task[d][k].at = "space"
        /\ GoOn(d, k, "send") \/ Finish(d, k)
        /\ spaces' = [spaces EXCEPT ![d] = task[d][k].spaces]
        /\ UNCHANGED <<store, bundles, groups, surfaced, torn>>
    BY <1>3 DEF PersistSpaceState, SpaceWritten
  <2>2. /\ spaces'[d] = task[d][k].spaces
        /\ \A e \in Device : e # d => spaces'[e] = spaces[e]
    BY <1>1, <2>1 DEF RestOK
  <2>3. KeepsHands(d) /\ Orderly(d) /\ \A e \in Device : e # d => task'[e] = task[e]
    BY <1>1, <2>1, <2>2, TaskMoveIsOrderly DEF Writing
  <2>4. StepOf(d) /\ Signs(d) /\ Writes(d)
    BY <2>1, <2>2, <2>3 DEF StepOf, Signs, Writes
  <2>5. QED
    BY <2>1, <2>3, <2>4, MovesReads DEF Moves
<1>4. QED
  BY <1>2, <1>3

\* A legacy operation on the device's log.
LEMMA PublishSigns ==
  ASSUME Inv, NEW d \in Device, NEW kind \in {"invite", "join"}, NEW who \in Device,
         Publish(d, kind, who)
  PROVE  Signs(d) /\ store[d] \subseteq store'[d]
         /\ \A e \in Device : e # d => store'[e] = store[e]
<1> PICK op : op = NextOp(d, kind, who, {})
  OBVIOUS
<1>1. op \in Op /\ op.author = d /\ op.seq = Tip(d, d) + 1 /\ op.kind = kind
  <2>1. kind \in Kind /\ {} \in SUBSET Device
    BY DEF Kind
  <2>2. QED
    BY <2>1, OwnOperation DEF Inv
<1>2. store' = [store EXCEPT ![d] = @ \cup {op}] /\ MaySign(op)
  BY <1>1 DEF Publish, MaySign
<1>3. /\ store'[d] = store[d] \cup {op}
      /\ \A e \in Device : e # d => store'[e] = store[e]
      /\ \A p \in store[d] : p.author = op.author => p.seq < op.seq
  BY <1>1, <1>2, StoreExtended
<1>4. QED
  BY <1>1, <1>3 DEF Signs

LEMMA CommandReads ==
  ASSUME Inv, NEW d \in Device, Reads,
         BroadcastCircleOp(d) \/ NotifyCircleInvite(d) \/ FollowUpFails(d)
  PROVE  Reads'
<1>1. RestOK /\ Command \in Task
  BY InvParts DEF Task
<1>2. /\ Busy(d, Command) /\ task[d][Command].at \in {"send", "share", "notify"}
      /\ UNCHANGED <<bundles, groups, spaces, surfaced, torn>>
  BY DEF BroadcastCircleOp, NotifyCircleInvite, FollowUpFails, durable
<1>3. PICK at \in {"share", "notify"} : GoOn(d, Command, at) \/ Finish(d, Command)
  BY DEF BroadcastCircleOp, NotifyCircleInvite, FollowUpFails
<1>4. KeepsHands(d) /\ Orderly(d) /\ \A e \in Device : e # d => task'[e] = task[e]
  BY <1>1, <1>2, <1>3, TaskMoveIsOrderly DEF Writing
<1>5. Signs(d) /\ store[d] \subseteq store'[d] /\ \A e \in Device : e # d => store'[e] = store[e]
  <2>1. CASE NotifyCircleInvite(d)
    <3>1. task[d][Command].op.who \in Device
      BY <1>1, <1>2 DEF RestOK, Busy, Hand, Op
    <3>2. QED
      BY <2>1, <3>1, PublishSigns DEF NotifyCircleInvite
  <2>2. CASE BroadcastCircleOp(d) \/ FollowUpFails(d)
    BY <2>2 DEF BroadcastCircleOp, FollowUpFails, durable, Signs
  <2>3. QED
    BY <2>1, <2>2
<1>6. StepOf(d) /\ Writes(d)
  BY <1>2, <1>4, <1>5 DEF StepOf, Writes
<1>7. QED
  BY <1>2, <1>4, <1>5, <1>6, MovesReads DEF Moves

\* Joining and naming a circle leave the tasks alone; a restart ends them all,
\* and is only noted as torn when there was one.
LEMMA TasksRestReads ==
  ASSUME Inv, NEW d \in Device, Reads,
         JoinCircle(d) \/ LeaveWithoutRevoke(d) \/ NameJoinedCircle(d) \/ Restart(d)
  PROVE  Reads'
<1>1. RestOK
  BY InvParts
<1>2. CASE JoinCircle(d) \/ LeaveWithoutRevoke(d) \/ NameJoinedCircle(d)
  <2>1. UNCHANGED <<task, bundles, groups, spaces, surfaced, torn>>
    BY <1>2 DEF JoinCircle, LeaveWithoutRevoke, NameJoinedCircle
  <2>2. Signs(d) /\ store[d] \subseteq store'[d]
        /\ \A e \in Device : e # d => store'[e] = store[e]
    <3>1. CASE JoinCircle(d)
      BY <3>1, PublishSigns DEF JoinCircle
    <3>2. CASE LeaveWithoutRevoke(d) \/ NameJoinedCircle(d)
      BY <3>2 DEF LeaveWithoutRevoke, NameJoinedCircle, Signs
    <3>3. QED
      BY <1>2, <3>1, <3>2
  <2>3. StepOf(d) /\ Writes(d) /\ KeepsHands(d) /\ Orderly(d)
    BY <2>1, <2>2 DEF StepOf, Writes, KeepsHands, Orderly, Busy, Writing, Processing
  <2>4. QED
    BY <2>1, <2>2, <2>3, MovesReads DEF Moves
<1>3. CASE Restart(d)
  <2> PICK op : op = NextOp(d, "bundle", d, {})
    OBVIOUS
  <2>1. /\ store' = [store EXCEPT ![d] = @ \cup {op}]
        /\ task' = [task EXCEPT ![d] = [k \in Task |-> Nothing]]
        /\ torn' = [torn EXCEPT ![d] = @ \/ ~Idle(d)]
        /\ UNCHANGED <<bundles, groups, spaces, surfaced>>
    BY <1>3 DEF Restart, Bundle, NextOp
  <2>2. op \in Op /\ op.author = d /\ op.seq = Tip(d, d) + 1 /\ op.kind = "bundle" /\ MaySign(op)
    <3>1. "bundle" \in Kind /\ {} \in SUBSET Device
      BY DEF Kind
    <3>2. QED
      BY <3>1, OwnOperation DEF Inv, MaySign
  <2>3. /\ store'[d] = store[d] \cup {op}
        /\ \A e \in Device : e # d => store'[e] = store[e]
        /\ \A p \in store[d] : p.author = op.author => p.seq < op.seq
    BY <2>1, <2>2, StoreExtended
  <2>4. /\ \A k \in Task : task'[d][k] = Nothing
        /\ \A e \in Device : e # d => task'[e] = task[e] /\ torn'[e] = torn[e]
        /\ torn'[d] <=> torn[d] \/ ~Idle(d)
    BY <1>1, <2>1 DEF RestOK
  <2>5. StepOf(d) /\ Signs(d) /\ Writes(d) /\ KeepsHands(d)
    BY <2>1, <2>2, <2>3, <2>4 DEF StepOf, Signs, Writes, KeepsHands, Busy
  <2>6. Orderly(d)
    <3>1. \A t \in Topic : t \in Task
      BY DEF Task
    <3>2. QED
      BY <2>1, <2>4, <3>1 DEF Orderly, Idle, Busy, Processing, Writing
  <2>7. QED
    BY <2>1, <2>5, <2>6, MovesReads DEF Moves
<1>4. QED
  BY <1>2, <1>3

-----------------------------------------------------------------------------
(***************************************************************************)
(* The commands that sign a circle operation.                              *)
(***************************************************************************)
LEMMA ForgeReads ==
  ASSUME Inv, Reads, NEW d \in Device, NEW kind \in {"create", "add", "remove", "share"},
         NEW who \in Device, NEW to \in SUBSET Device, NEW at \in {"groups", "space"},
         Forge(d, kind, who, to, at),
         Busy(d, Command) => task[d][Command].at = "share",
         kind \in {"create", "add"} => d = Owner,
         kind = "create" => who = d /\ \A o \in store[d] : o.kind # "create",
         kind \in {"add", "remove"} => groups[d] # {},
         kind = "remove" => IF d = Owner THEN who # Owner ELSE who = d,
         kind = "share" => to = spaces[d] /\ spaces[d] # {}
  PROVE  Reads'
<1>1. /\ RestOK /\ Owner \in Device
      /\ Command \in Task /\ \A t \in Topic : t \in Task /\ t # Command
  BY InvParts, CircleAssumption DEF Task, Topic, Always, Shared, Command
<1> PICK op : op = NextOp(d, kind, who, to)
  OBVIOUS
<1> PICK g0, s0 : g0 = groups[d] /\ s0 = spaces[d]
  OBVIOUS
<1> PICK g, s : g = MembersAfter(g0, kind, who) /\ s = MembersAfter(s0, kind, who)
  OBVIOUS
<1> PICK h : h = [op |-> op, at |-> at, groups |-> g, spaces |-> s]
  OBVIOUS
<1>2. /\ store' = [store EXCEPT ![d] = @ \cup {op}]
      /\ SetTask(d, Command, h)
      /\ torn' = [torn EXCEPT ![d] = @ \/ \E j \in Task \ {Command} : Busy(d, j)]
      /\ UNCHANGED <<bundles, groups, spaces, surfaced>>
  BY DEF Forge, Start, SetTask
<1>3. /\ op \in Op /\ op.author = d /\ op.seq = Tip(d, d) + 1
      /\ op.kind = kind /\ op.who = who /\ op.to = to
  <2>1. kind \in Kind
    BY DEF Kind, Membership
  <2>2. QED
    BY <2>1, OwnOperation DEF Inv
<1>4. MaySign(op)
  BY <1>3 DEF MaySign
<1>5. g0 \in SUBSET Device /\ s0 \in SUBSET Device
  BY <1>1 DEF RestOK
<1>6. h \in Hand /\ h # Nothing /\ h.op = op /\ h.at = at /\ h.groups = g /\ h.spaces = s
  <2>1. g \in SUBSET Device /\ s \in SUBSET Device
    BY <1>5, MembersTyped
  <2>2. QED
    BY <1>3, <2>1, CircleAssumption DEF Hand
<1>7. /\ store'[d] = store[d] \cup {op}
      /\ \A x \in Device : x # d => store'[x] = store[x]
      /\ \A p \in store[d] : p.author = op.author => p.seq < op.seq
  BY <1>2, <1>3, <1>4, StoreExtended
<1>8. /\ task'[d][Command] = h
      /\ \A j \in Task : j # Command => task'[d][j] = task[d][j]
      /\ \A x \in Device : x # d => task'[x] = task[x]
  BY <1>1, <1>2, <1>6, TaskSet
<1>9. /\ torn'[d] <=> torn[d] \/ \E j \in Task \ {Command} : Busy(d, j)
      /\ \A e \in Device : e # d => torn'[e] = torn[e]
  BY <1>1, <1>2 DEF RestOK
<1>10. StepOf(d)
  BY <1>2, <1>7, <1>8, <1>9 DEF StepOf
<1>11. ASSUME d = Owner PROVE LogOrder' /\ OwnerKnows'
  <2>1. LogOrder /\ OwnerKnows /\ Recorded(g0) /\ Recorded(s0)
    BY <1>11 DEF Reads, OwnerKnows
  <2>2. OwnLog' = OwnLog \cup {op} /\ \A o \in OwnLog : o.seq < op.seq
    BY <1>3, <1>7, <1>11 DEF OwnLog
  <2>3. LogOrder'
    <3>1. op.kind = "create" => op.who = Owner /\ \A c \in OwnLog : c.kind # "create"
      BY <1>3, <1>11 DEF OwnLog
    <3>2. op.kind \in {"add", "remove", "share"} => \E c \in OwnLog : c.kind = "create"
      BY <1>3, <2>1 DEF Recorded
    <3>3. op.kind = "share" => \A m \in op.to \ {Owner} :
                                  \E a \in OwnLog : a.kind = "add" /\ a.who = m
      BY <1>3, <2>1 DEF Recorded
    <3>4. QED
      BY <2>1, <2>2, <3>1, <3>2, <3>3, LogOrderGrows
  <2>4. Recorded(g)' /\ Recorded(s)'
    <3>1. kind = "create" => who = Owner /\ \E c \in OwnLog' : c.kind = "create"
      BY <1>3, <1>11, <2>2
    <3>2. kind = "add" => /\ \E c \in OwnLog' : c.kind = "create"
                          /\ \E a \in OwnLog' : a.kind = "add" /\ a.who = who
      <4>1. kind = "add" => \E c \in OwnLog : c.kind = "create"
        BY <2>1 DEF Recorded
      <4>2. QED
        BY <1>3, <2>2, <4>1
    <3>3. QED
      BY <1>5, <2>1, <2>2, <3>1, <3>2, RecordedAfter
  <2>5. Recorded(g0)' /\ Recorded(s0)'
    BY <2>1, <2>2, RecordedStays
  <2>6. ASSUME NEW k \in Task, Busy(Owner, k)'
        PROVE  Recorded(task[Owner][k].groups)' /\ Recorded(task[Owner][k].spaces)'
    <3>1. CASE k = Command
      BY <1>6, <1>8, <1>11, <2>4, <3>1 DEF Recorded
    <3>2. CASE k # Command
      <4> PICK gk, sk : gk = task[Owner][k].groups /\ sk = task[Owner][k].spaces
        OBVIOUS
      <4>1. task'[Owner][k] = task[Owner][k] /\ Busy(Owner, k)
        BY <1>8, <1>11, <2>6, <3>2 DEF Busy
      <4>2. Recorded(gk) /\ Recorded(sk)
        BY <2>1, <4>1 DEF OwnerKnows
      <4>3. Recorded(gk)' /\ Recorded(sk)'
        BY <2>2, <4>2, RecordedStays
      <4>4. QED
        BY <4>1, <4>3 DEF Recorded
    <3>3. QED
      BY <3>1, <3>2
  <2>7. Recorded(groups[Owner])' /\ Recorded(spaces[Owner])'
    BY <1>2, <1>11, <2>5 DEF Recorded
  <2>8. OwnerKnows'
    BY <2>6, <2>7 DEF OwnerKnows
  <2>9. QED
    BY <2>3, <2>8
<1>12. ASSUME d # Owner PROVE MemberOK(d)'
  <2> SUFFICES ASSUME Undisturbed(d)'
               PROVE  (OneTask(d) /\ LastInHand(d) /\ MembersFollow(d)
                         /\ OwnerIsKnown(d) /\ SharesAreRead(d))'
    BY DEF MemberOK
  <2>1. kind = "share"
    <3>1. kind = "remove" => HasLeft(d)'
      BY <1>3, <1>7 DEF HasLeft
    <3>2. QED
      BY <1>12, <3>1 DEF Undisturbed
  <2>2. Undisturbed(d) /\ (torn[Owner] => torn'[Owner])
    BY <1>1, <1>7, <1>9, <1>12 DEF Undisturbed, HasLeft
  <2>3. MembersFollow(d) /\ OwnerIsKnown(d) /\ SharesAreRead(d)
    BY <1>12, <2>2 DEF Reads, MemberOK
  <2>4. \A k \in Task : k # Command => ~Busy(d, k) /\ ~Busy(d, k)'
    BY <1>8, <1>9 DEF Undisturbed, Busy
  <2>5. \A t \in Topic : \A o : ~Processing(d, t, o) /\ ~Processing(d, t, o)'
    BY <1>1, <2>4 DEF Processing
  <2>6. Done(d)' = Done(d)
    BY <1>3, <1>7, <1>12, <2>5 DEF Done
  <2>7. OneTask(d)'
    BY <2>4 DEF OneTask
  <2>8. LastInHand(d)'
    BY <2>5 DEF LastInHand
  <2>9. MembersFollow(d)'
    <3>1. \A k \in Task : ~Writing(d, k)
      BY <1>1, <2>4 DEF Writing
    <3>2. Follows(d, Done(d), s0)
      BY <2>3, <3>1 DEF MembersFollow
    <3>3. s = s0
      BY <2>1 DEF MembersAfter
    <3>4. Writing(d, Command)' /\ task'[d][Command].spaces = s
      BY <1>6, <1>8 DEF Writing, Busy
    <3>5. \A k \in Task : Writing(d, k)' => k = Command
      BY <2>4 DEF Writing
    <3>6. QED
      BY <1>1, <2>6, <3>2, <3>3, <3>4, <3>5 DEF MembersFollow, Follows
  <2>10. OwnerIsKnown(d)' /\ SharesAreRead(d)'
    BY <1>2, <2>2, <2>3, <2>6 DEF OwnerIsKnown, SharesAreRead
  <2>11. QED
    BY <2>7, <2>8, <2>9, <2>10
<1>13. QED
  BY <1>10, <1>11, <1>12, ReadsByStep

LEMMA SigningReads ==
  ASSUME Inv, Reads, NEW d \in Device, NEW m \in Device,
         \/ CreateCircle(d) \/ InviteToCircle(d, m) \/ RevokeFromCircle(d, m)
         \/ ShareToCircle(d)
  PROVE  Reads'
<1>1. {} \in SUBSET Device /\ "groups" \in {"groups", "space"}
  OBVIOUS
<1>2. CASE CreateCircle(d)
  <2>1. /\ d = Owner /\ ~Busy(d, Command) /\ Forge(d, "create", d, {}, "groups")
        /\ \A o \in store[d] : o.kind # "create"
    BY <1>2 DEF CreateCircle
  <2>2. QED
    BY <1>1, <2>1, ForgeReads
<1>3. CASE InviteToCircle(d, m)
  <2>1. /\ d = Owner /\ ~Busy(d, Command) /\ Forge(d, "add", m, {}, "groups")
        /\ groups[d] # {}
    BY <1>3 DEF InviteToCircle
  <2>2. QED
    BY <1>1, <2>1, ForgeReads
<1>4. CASE RevokeFromCircle(d, m)
  <2>1. /\ ~Busy(d, Command) /\ Forge(d, "remove", m, {}, "groups")
        /\ IF d = Owner THEN m # Owner ELSE m = d
        /\ groups[d] # {}
    BY <1>4 DEF RevokeFromCircle
  <2>2. QED
    BY <1>1, <2>1, ForgeReads
<1>5. CASE ShareToCircle(d)
  <2>1. /\ Forge(d, "share", d, spaces[d], "space") /\ spaces[d] # {}
        /\ Busy(d, Command) => task[d][Command].at = "share"
    BY <1>5 DEF ShareToCircle
  <2>2. spaces[d] \in SUBSET Device
    BY DEF Inv, TypeOK
  <2>3. QED
    BY <2>1, <2>2, ForgeReads
<1>6. QED
  BY <1>2, <1>3, <1>4, <1>5

-----------------------------------------------------------------------------
(***************************************************************************)
(* The forwarder tasks.                                                    *)
(***************************************************************************)
LEMMA ReceiveReads ==
  ASSUME Inv, Reads, NEW d \in Device, NEW e \in Device, NEW t \in Topic, Receive(d, e, t)
  PROVE  Reads'
<1>1. /\ RestOK /\ Owner \in Device /\ t \in Task /\ ~Busy(d, t)
      /\ \A u \in Topic : u \in Task
  BY InvParts, CircleAssumption DEF Task, Receive
<1>2. PICK op \in store[e] :
        /\ op.author # d
        /\ op.seq = Tip(d, op.author) + 1
        /\ store' = [store EXCEPT ![d] = @ \cup {op}]
        /\ Start(d, t, [op |-> op, at |-> "process", groups |-> {}, spaces |-> {}])
  BY DEF Receive
<1>3. UNCHANGED <<bundles, groups, spaces, surfaced>>
  BY DEF Receive
<1> PICK h : h = [op |-> op, at |-> "process", groups |-> {}, spaces |-> {}]
  OBVIOUS
<1>4. op \in Op /\ op \in store[op.author] /\ MaySign(op)
  BY DEF Inv, TypeOK, Signed
<1>5. h \in Hand /\ h # Nothing /\ h.op = op /\ h.at = "process"
      /\ h.groups = {} /\ h.spaces = {}
  BY <1>4, CircleAssumption DEF Hand
<1>6. SetTask(d, t, h) /\ torn' = [torn EXCEPT ![d] = @ \/ \E j \in Task \ {t} : Busy(d, j)]
  BY <1>2 DEF Start, SetTask
<1>7. /\ store'[d] = store[d] \cup {op}
      /\ \A x \in Device : x # d => store'[x] = store[x]
      /\ \A p \in store[d] : p.author = op.author => p.seq < op.seq
  BY <1>2, <1>4, StoreExtended
<1>8. /\ task'[d][t] = h
      /\ \A j \in Task : j # t => task'[d][j] = task[d][j]
      /\ \A x \in Device : x # d => task'[x] = task[x]
  BY <1>1, <1>5, <1>6, TaskSet
<1>9. /\ torn'[d] <=> torn[d] \/ \E j \in Task \ {t} : Busy(d, j)
      /\ \A x \in Device : x # d => torn'[x] = torn[x]
  BY <1>1, <1>6 DEF RestOK
<1>10. StepOf(d)
  BY <1>3, <1>7, <1>8, <1>9 DEF StepOf
<1>11. ASSUME d = Owner PROVE LogOrder' /\ OwnerKnows'
  <2>1. OwnLog' = OwnLog
    BY <1>2, <1>7, <1>11 DEF OwnLog
  <2>2. LogOrder'
    BY <2>1 DEF Reads, LogOrder, Begins, CreatedOnce, CreatedFirst, AddedFirst
  <2>3. ASSUME NEW k \in Task, Busy(Owner, k)'
        PROVE  Recorded(task[Owner][k].groups)' /\ Recorded(task[Owner][k].spaces)'
    <3>1. CASE k = t
      BY <1>5, <1>8, <1>11, <3>1 DEF Recorded
    <3>2. CASE k # t
      <4>1. task'[Owner][k] = task[Owner][k] /\ Busy(Owner, k)
        BY <1>8, <1>11, <2>3, <3>2 DEF Busy
      <4>2. QED
        BY <2>1, <4>1 DEF Reads, OwnerKnows, Recorded
    <3>3. QED
      BY <3>1, <3>2
  <2>4. Recorded(groups[Owner])' /\ Recorded(spaces[Owner])'
    BY <1>3, <2>1 DEF Reads, OwnerKnows, Recorded
  <2>5. QED
    BY <2>2, <2>3, <2>4 DEF OwnerKnows
<1>12. ASSUME d # Owner PROVE MemberOK(d)'
  <2> SUFFICES ASSUME Undisturbed(d)'
               PROVE  (OneTask(d) /\ LastInHand(d) /\ MembersFollow(d)
                         /\ OwnerIsKnown(d) /\ SharesAreRead(d))'
    BY DEF MemberOK
  <2>1. Undisturbed(d) /\ (torn[Owner] => torn'[Owner])
    BY <1>1, <1>7, <1>9, <1>12 DEF Undisturbed, HasLeft
  <2>2. MembersFollow(d) /\ OwnerIsKnown(d) /\ SharesAreRead(d)
    BY <1>12, <2>1 DEF Reads, MemberOK
  <2>3. /\ \A k \in Task : ~Busy(d, k)
        /\ \A k \in Task : k # t => ~Busy(d, k)'
    BY <1>1, <1>8, <1>9 DEF Undisturbed, Busy
  <2>4. /\ \A u \in Topic : \A o : ~Processing(d, u, o)
        /\ \A u \in Topic : \A o : Processing(d, u, o)' <=> u = t /\ o = op
    BY <1>1, <1>5, <1>8, <2>3 DEF Processing, Busy
  <2>5. op \notin store[d]
    <3>1. op \in store[d] => op.seq < op.seq
      BY <1>7
    <3>2. op.seq \in Nat
      BY <1>4 DEF Op
    <3>3. QED
      BY <3>1, <3>2
  <2>6. Done(d)' = Done(d)
    BY <1>7, <2>4, <2>5 DEF Done
  <2>7. OneTask(d)'
    BY <2>3 DEF OneTask
  <2>8. LastInHand(d)'
    BY <1>4, <1>7, <2>4 DEF LastInHand, Op, Inv, TypeOK
  <2>9. MembersFollow(d)'
    <3>1. \A k \in Task : ~Writing(d, k) /\ ~Writing(d, k)'
      BY <1>5, <1>8, <2>3 DEF Writing
    <3>2. Follows(d, Done(d), spaces[d])
      BY <2>2, <3>1 DEF MembersFollow
    <3>3. QED
      BY <1>3, <2>6, <3>1, <3>2 DEF MembersFollow, Follows
  <2>10. OwnerIsKnown(d)' /\ SharesAreRead(d)'
    BY <1>3, <2>1, <2>2, <2>6 DEF OwnerIsKnown, SharesAreRead
  <2>11. QED
    BY <2>7, <2>8, <2>9, <2>10
<1>13. QED
  BY <1>10, <1>11, <1>12, ReadsByStep

\* Processing the owner's next operation keeps up with it.
LEMMA FollowsNext ==
  ASSUME NEW d \in Device, d # Owner, NEW done, NEW S \in SUBSET Device,
         Follows(d, done, S), NEW op \in Op,
         \A o \in done : o.seq < op.seq,
         op.kind = "create" => op.who = Owner /\ \A a \in done : a.kind # "add",
         op.kind = "remove" => op.who # Owner,
         NEW T, T = MembersAfter(S, op.kind, op.who)
  PROVE  Follows(d, done \cup {op}, T)
<1>1. /\ op.kind = "create" => T = {op.who}
      /\ op.kind = "add" => T = S \cup {op.who}
      /\ op.kind = "remove" => T = S \ {op.who}
      /\ op.kind \notin Membership => T = S
  BY DEF MembersAfter, Membership
<1>2. (\E c \in done \cup {op} : c.kind = "create") => Owner \in T
  BY <1>1 DEF Follows, Membership
<1>3. CASE op.kind = "create"
  BY <1>2, <1>3 DEF Follows
<1>4. CASE op.kind = "remove" /\ op.who = d
  BY <1>2, <1>4 DEF Follows
<1>5. CASE op.kind = "add" /\ op.who = d
  BY <1>1, <1>2, <1>5 DEF Follows
<1>6. CASE ~(op.kind \in Membership /\ op.who = d) /\ op.kind # "create"
  <2>1. d \in S => d \in T
    BY <1>1, <1>6 DEF Membership
  <2>2. ~(op.kind = "add" /\ op.who = d)
    BY <1>6 DEF Membership
  <2>3. QED
    BY <1>2, <2>1, <2>2 DEF Follows
<1>7. QED
  BY <1>3, <1>4, <1>5, <1>6 DEF Membership

\* What d holds of the owner's log it holds from the start of that log.
LEMMA HoldsFromTheStart ==
  ASSUME Inv, NEW d \in Device, NEW op \in store[d], op.author = Owner,
         NEW o \in OwnLog, o.seq <= op.seq
  PROVE  o \in store[d]
<1>1. Owner \in Device /\ o \in store[Owner] /\ o.author = Owner /\ o \in Op /\ op \in Op
  BY CircleAssumption DEF OwnLog, Inv, TypeOK
<1>2. PICK n \in Nat : Seqs(d, Owner) = 1 .. n
  BY <1>1 DEF Inv, Numbered
<1>3. PICK k \in Nat : Seqs(Owner, Owner) = 1 .. k
  BY <1>1 DEF Inv, Numbered
<1>4. op.seq \in 1 .. n /\ o.seq \in 1 .. k
  BY <1>1, <1>2, <1>3 DEF Seqs
<1>5. o.seq \in Seqs(d, Owner)
  BY <1>2, <1>4
<1>6. PICK p \in store[d] : p.author = Owner /\ p.seq = o.seq
  BY <1>5 DEF Seqs
<1>7. p \in store[Owner]
  BY <1>6 DEF Inv, Signed
<1>8. p = o
  BY <1>1, <1>6, <1>7 DEF Inv, TypeOK
<1>9. QED
  BY <1>6, <1>8

LEMMA ProcessReads ==
  ASSUME Inv, Reads, NEW d \in Device, NEW t \in Topic, Process(d, t)
  PROVE  Reads'
<1>1. /\ RestOK /\ FromOthers /\ Owner \in Device /\ t \in Task
      /\ \A u \in Topic : u \in Task
  BY InvParts, CircleAssumption DEF Task
<1> PICK op : op = task[d][t].op
  OBVIOUS
<1> PICK g0, s0 : g0 = groups[d] /\ s0 = spaces[d]
  OBVIOUS
<1> PICK g, s : g = MembersAfter(g0, op.kind, op.who) /\ s = MembersAfter(s0, op.kind, op.who)
  OBVIOUS
<1>2. /\ Busy(d, t) /\ task[d][t].at = "process"
      /\ IF op.kind \in Membership /\ ~Fails(d, op)
         THEN Computes(d, t, g, s) ELSE Finish(d, t)
      /\ bundles' = IF op.kind = "bundle"
                    THEN [bundles EXCEPT ![d] = @ \cup {op.author}] ELSE bundles
      /\ surfaced' = IF ~Fails(d, op) /\ Reports(d, t, op)
                     THEN [surfaced EXCEPT ![d] = @ \cup {op}] ELSE surfaced
      /\ UNCHANGED <<store, groups, spaces, torn>>
  BY DEF Process, Computes
<1>3. /\ op \in Op /\ op.author # d /\ op \in store[d] /\ op \in store[op.author] /\ MaySign(op)
      /\ op.who \in Device
  BY <1>1, <1>2 DEF FromOthers, Inv, TypeOK, Signed, Op
<1>4. g0 \in SUBSET Device /\ s0 \in SUBSET Device
  BY <1>1 DEF RestOK
<1>5. PICK h \in Hand \cup {Nothing} :
        /\ SetTask(d, t, h)
        /\ IF op.kind \in Membership /\ ~Fails(d, op)
           THEN h # Nothing /\ h.op = op /\ h.at = "groups" /\ h.groups = g /\ h.spaces = s
           ELSE h = Nothing
  <2>1. CASE op.kind \in Membership /\ ~Fails(d, op)
    <3>1. g \in SUBSET Device /\ s \in SUBSET Device
      BY <1>3, <1>4, MembersTyped
    <3>2. Computes(d, t, g, s)
      BY <1>2, <2>1
    <3>3. \E h \in Hand : /\ h.op = task[d][t].op /\ h.at = "groups" /\ h.groups = g
                          /\ h.spaces = s /\ SetTask(d, t, h)
      <4>1. RestOK /\ Busy(d, t)
        BY <1>1, <1>2
      <4>2. QED
        BY <3>1, <3>2, <4>1, HandComputed
    <3>4. QED
      BY <2>1, <3>3, CircleAssumption
  <2>2. CASE ~(op.kind \in Membership /\ ~Fails(d, op))
    BY <1>2, <2>2 DEF Finish, SetTask
  <2>3. QED
    BY <2>1, <2>2
<1>6. /\ task'[d][t] = h
      /\ \A j \in Task : j # t => task'[d][j] = task[d][j]
      /\ \A x \in Device : x # d => task'[x] = task[x]
  BY <1>1, <1>5, TaskSet
<1>7. /\ bundles[d] \subseteq bundles'[d] /\ surfaced[d] \subseteq surfaced'[d]
      /\ op.kind = "bundle" => op.author \in bundles'[d]
      /\ ~Fails(d, op) /\ Reports(d, t, op) => op \in surfaced'[d]
      /\ \A x \in Device : x # d => bundles'[x] = bundles[x] /\ surfaced'[x] = surfaced[x]
  BY <1>1, <1>2 DEF RestOK
<1>8. StepOf(d)
  BY <1>2, <1>6, <1>7 DEF StepOf
<1>9. ASSUME d = Owner PROVE LogOrder' /\ OwnerKnows'
  <2>1. OwnLog' = OwnLog
    BY <1>2 DEF OwnLog
  <2>2. \A S : Recorded(S)' <=> Recorded(S)
    BY <2>1 DEF Recorded
  <2>3. LogOrder'
    BY <2>1 DEF Reads, LogOrder, Begins, CreatedOnce, CreatedFirst, AddedFirst
  <2>4. LogOrder /\ OwnerKnows /\ Recorded(g0) /\ Recorded(s0)
    BY <1>9 DEF Reads, OwnerKnows
  <2>5. op.kind \notin {"create", "add"}
    BY <1>3, <1>9 DEF MaySign
  <2>6. Recorded(g) /\ Recorded(s)
    <3>1. g \subseteq g0 /\ s \subseteq s0
      BY <2>5 DEF MembersAfter
    <3>2. QED
      BY <2>4, <3>1 DEF Recorded
  <2>7. ASSUME NEW k \in Task, Busy(Owner, k)'
        PROVE  Recorded(task[Owner][k].groups)' /\ Recorded(task[Owner][k].spaces)'
    <3>1. CASE k = t
      <4>1. h.groups = g /\ h.spaces = s
        BY <1>5, <1>6, <1>9, <2>7, <3>1 DEF Busy
      <4>2. QED
        BY <1>6, <1>9, <2>1, <2>6, <3>1, <4>1 DEF Recorded
    <3>2. CASE k # t
      <4>1. task'[Owner][k] = task[Owner][k] /\ Busy(Owner, k)
        BY <1>6, <1>9, <2>7, <3>2 DEF Busy
      <4>2. QED
        BY <2>1, <2>4, <4>1 DEF OwnerKnows, Recorded
    <3>3. QED
      BY <3>1, <3>2
  <2>8. Recorded(groups[Owner])' /\ Recorded(spaces[Owner])'
    BY <1>2, <2>1, <2>4 DEF OwnerKnows, Recorded
  <2>9. QED
    BY <2>3, <2>7, <2>8 DEF OwnerKnows
<1>10. ASSUME d # Owner PROVE MemberOK(d)'
  <2> SUFFICES ASSUME Undisturbed(d)'
               PROVE  (OneTask(d) /\ LastInHand(d) /\ MembersFollow(d)
                         /\ OwnerIsKnown(d) /\ SharesAreRead(d))'
    BY DEF MemberOK
  <2>1. Undisturbed(d) /\ (torn[Owner] => torn'[Owner])
    BY <1>2 DEF Undisturbed, HasLeft
  <2>2. OneTask(d) /\ LastInHand(d) /\ MembersFollow(d) /\ OwnerIsKnown(d) /\ SharesAreRead(d)
    BY <1>10, <2>1 DEF Reads, MemberOK
  <2>3. \A k \in Task : k # t => ~Busy(d, k) /\ ~Busy(d, k)'
    BY <1>1, <1>2, <1>6, <2>2 DEF OneTask, Busy
  <2>4. /\ \A u \in Topic : \A o : Processing(d, u, o) <=> u = t /\ o = op
        /\ \A u \in Topic : \A o : ~Processing(d, u, o)'
    BY <1>1, <1>2, <1>5, <1>6, <2>3 DEF Processing, Busy
  <2>5. Done(d)' = IF op.author = Owner THEN Done(d) \cup {op} ELSE Done(d)
    BY <1>2, <1>3, <2>4 DEF Done
  <2>6. OneTask(d)' /\ LastInHand(d)'
    BY <2>3, <2>4 DEF OneTask, LastInHand
  <2>7. Follows(d, Done(d), s0)
    <3>1. \A k \in Task : ~Writing(d, k)
      BY <1>1, <1>2, <2>3 DEF Writing
    <3>2. QED
      BY <2>2, <3>1 DEF MembersFollow
  \* The states written next are those of the operation, unless it is none of a
  \* circle's or fails; then the members stay.
  <2>8. ASSUME Follows(d, Done(d)', s), Fails(d, op) => s = s0
        PROVE  MembersFollow(d)'
    <3>1. \A k \in Task : Writing(d, k)' =>
            k = t /\ op.kind \in Membership /\ task'[d][k].spaces = s
      BY <1>5, <1>6, <2>3 DEF Writing, Busy
    <3>2. CASE op.kind \in Membership /\ ~Fails(d, op)
      <4>1. Writing(d, t)'
        BY <1>5, <1>6, <3>2 DEF Writing, Busy
      <4>2. QED
        BY <1>1, <2>8, <3>1, <4>1 DEF MembersFollow, Follows
    <3>3. CASE ~(op.kind \in Membership /\ ~Fails(d, op))
      <4>1. \A k \in Task : ~Writing(d, k)'
        BY <1>5, <1>6, <2>3, <3>3 DEF Writing, Busy
      <4>2. s = s0
        BY <2>8, <3>3 DEF MembersAfter, Membership
      <4>3. spaces'[d] = s
        BY <1>2, <4>2
      <4>4. QED
        BY <2>8, <4>1, <4>3 DEF MembersFollow, Follows
    <3>4. QED
      BY <3>2, <3>3
  \* A guest only removes itself.
  <2>9. CASE op.author # Owner
    <3>1. op.kind \notin {"create", "add"} /\ (op.kind = "remove" => op.who \notin {d, Owner})
      BY <1>3, <2>9 DEF MaySign
    <3>2. Done(d)' = Done(d)
      BY <2>5, <2>9
    <3>3. (d \in s0 => d \in s) /\ (Owner \in s0 => Owner \in s)
      BY <3>1 DEF MembersAfter
    <3>4. Follows(d, Done(d), s)
      BY <2>7, <3>3 DEF Follows
    <3>5. OwnerIsKnown(d)' /\ SharesAreRead(d)'
      BY <1>7, <2>1, <2>2, <3>2 DEF OwnerIsKnown, SharesAreRead
    <3>6. Fails(d, op) => s = s0
      <4>1. s0 = {} => s = s0
        BY <3>1 DEF MembersAfter
      <4>2. Fails(d, op) => s0 = {}
        BY <3>1 DEF Fails
      <4>3. QED
        BY <4>1, <4>2
    <3>7. MembersFollow(d)'
      BY <2>8, <3>2, <3>4, <3>6
    <3>8. QED
      BY <2>6, <3>5, <3>7
  <2>10. CASE op.author = Owner
    <3>1. op \in OwnLog /\ op.seq \in Nat /\ op.seq >= 1
      <4>1. op \in OwnLog
        BY <1>3, <2>10 DEF OwnLog
      <4>2. PICK n \in Nat : Seqs(d, Owner) = 1 .. n
        BY <1>1 DEF Inv, Numbered
      <4>3. op.seq \in 1 .. n
        BY <1>3, <2>10, <4>2 DEF Seqs
      <4>4. QED
        BY <4>1, <4>3
    <3>2. \A o \in Done(d) : o.seq < op.seq
      <4> SUFFICES ASSUME NEW o \in Done(d) PROVE o.seq < op.seq
        OBVIOUS
      <4>1. o \in store[d] /\ o.author = Owner /\ o # op /\ o \in Op
        BY <2>4 DEF Done, Inv, TypeOK
      <4>2. o.seq <= op.seq
        BY <1>3, <2>2, <2>4, <2>10, <4>1 DEF LastInHand
      <4>3. o.seq # op.seq
        BY <1>3, <2>10, <4>1 DEF Inv, TypeOK
      <4>4. QED
        BY <3>1, <4>1, <4>2, <4>3 DEF Op
    <3>3. \A o \in OwnLog : o.seq < op.seq => o \in Done(d)
      <4> SUFFICES ASSUME NEW o \in OwnLog, o.seq < op.seq PROVE o \in Done(d)
        OBVIOUS
      <4>1. o.seq \in Nat /\ o.author = Owner
        BY CircleAssumption DEF OwnLog, Inv, TypeOK, Op
      <4>2. o \in store[d]
        BY <1>3, <2>10, <3>1, <4>1, HoldsFromTheStart
      <4>3. o # op
        BY <3>1
      <4>4. QED
        BY <2>4, <4>1, <4>2, <4>3 DEF Done
    <3>4. LogOrder
      BY DEF Reads
    <3>5. PICK b \in OwnLog : b.seq = 1 /\ b.kind = "bundle"
      BY <3>4 DEF LogOrder, Begins
    <3>6. OwnerIsKnown(d)'
      <4>1. CASE op.seq = 1
        <5>1. op = b
          BY <3>1, <3>5, <4>1, CircleAssumption DEF OwnLog, Inv, TypeOK
        <5>2. QED
          BY <1>7, <2>10, <3>5, <5>1 DEF OwnerIsKnown
      <4>2. CASE op.seq # 1
        BY <1>7, <2>2, <2>5, <2>10, <4>2 DEF OwnerIsKnown
      <4>3. QED
        BY <4>1, <4>2
    <3>7. op.kind \in {"add", "remove", "share"} => Owner \in s0
      <4> SUFFICES ASSUME op.kind \in {"add", "remove", "share"} PROVE Owner \in s0
        OBVIOUS
      <4>1. PICK c \in OwnLog : c.kind = "create" /\ c.seq < op.seq
        BY <3>1, <3>4 DEF LogOrder, CreatedFirst
      <4>2. QED
        BY <2>7, <3>3, <4>1 DEF Follows
    <3>8. op.kind \in {"add", "remove", "share"} => ~Fails(d, op)
      <4> SUFFICES ASSUME op.kind \in {"add", "remove", "share"} PROVE ~Fails(d, op)
        OBVIOUS
      <4>1. b \in Done(d)
        <5>1. op # b
          BY <3>5
        <5>2. op.seq # 1
          BY <3>1, <3>5, <5>1, CircleAssumption DEF OwnLog, Inv, TypeOK
        <5>3. QED
          BY <3>1, <3>3, <3>5, <5>2
      <4>2. Owner \in bundles[d]
        BY <2>2, <3>5, <4>1 DEF OwnerIsKnown
      <4>3. QED
        BY <2>10, <3>7, <4>2 DEF Fails
    <3>9. MembersFollow(d)'
      <4>1. op.kind = "create" => op.who = Owner /\ \A a \in Done(d) : a.kind # "add"
        <5> SUFFICES ASSUME op.kind = "create"
                     PROVE  op.who = Owner /\ \A a \in Done(d) : a.kind # "add"
          OBVIOUS
        <5>1. op.who = Owner /\ \A c \in OwnLog : c.kind = "create" => c = op
          BY <3>1, <3>4 DEF LogOrder, CreatedOnce
        <5>2. ASSUME NEW a \in Done(d), a.kind = "add" PROVE FALSE
          <6>1. a \in OwnLog /\ a.seq \in Nat
            BY DEF Done, OwnLog, Inv, Signed, TypeOK, Op
          <6>2. PICK c \in OwnLog : c.kind = "create" /\ c.seq < a.seq
            BY <3>4, <5>2, <6>1 DEF LogOrder, CreatedFirst
          <6>3. c = op
            BY <5>1, <6>2
          <6>4. a.seq < op.seq
            BY <3>2
          <6>5. QED
            BY <3>1, <6>1, <6>2, <6>3, <6>4
        <5>3. QED
          BY <5>1, <5>2
      <4>2. op.kind = "remove" => op.who # Owner
        BY <1>3, <2>10 DEF MaySign
      <4> PICK done : done = Done(d)
        OBVIOUS
      <4>3. Follows(d, done \cup {op}, s)
        BY <1>3, <1>4, <1>10, <2>7, <3>2, <4>1, <4>2, FollowsNext
      <4>4. Follows(d, Done(d)', s)
        BY <2>5, <2>10, <4>3
      <4>5. ~Fails(d, op)
        BY <3>8 DEF Fails
      <4>6. QED
        BY <2>8, <4>4, <4>5
    <3>10. SharesAreRead(d)'
      <4> SUFFICES ASSUME ~torn'[Owner], op.kind = "share", d \in op.to PROVE op \in surfaced'[d]
        BY <1>7, <2>1, <2>2, <2>5, <2>10 DEF SharesAreRead
      <4>1. SharesOK
        BY <1>2 DEF Inv, OwnerInv
      <4>2. PICK a \in OwnLog : a.kind = "add" /\ a.who = d /\ a.seq < op.seq
        BY <1>10, <3>1, <3>4 DEF LogOrder, AddedFirst
      <4>3. a \in Done(d)
        BY <3>3, <4>2
      <4>4. d \in s0
        <5> SUFFICES ASSUME d \notin s0 PROVE FALSE
          OBVIOUS
        <5>1. PICK r \in Done(d) : /\ r.kind = "remove" /\ r.who = d
                                   /\ \A x \in Done(d) : x.kind = "add" /\ x.who = d => x.seq < r.seq
          BY <2>7, <4>2, <4>3 DEF Follows
        <5>2. r \in OwnLog /\ r.seq \in Nat /\ r.seq < op.seq
          BY <3>2 DEF Done, OwnLog, Inv, Signed, TypeOK, Op
        <5>3. PICK x \in OwnLog : x.kind = "add" /\ x.who = d /\ x.seq \in r.seq .. op.seq
          BY <3>1, <4>1, <5>1, <5>2 DEF SharesOK
        <5>4. x # op
          BY <5>3
        <5>5. x.seq # op.seq
          BY <3>1, <5>3, <5>4, CircleAssumption DEF OwnLog, Inv, TypeOK
        <5>6. x \in Done(d)
          BY <3>1, <3>3, <5>2, <5>3, <5>5
        <5>7. QED
          BY <3>1, <5>1, <5>2, <5>3, <5>6
      <4>5. QED
        BY <1>7, <3>8, <4>4 DEF Reports, Readable
    <3>11. QED
      BY <2>6, <3>6, <3>9, <3>10
  <2>11. QED
    BY <2>9, <2>10
<1>11. QED
  BY <1>8, <1>9, <1>10, ReadsByStep

-----------------------------------------------------------------------------
LEMMA ReadsInit == Init => Reads
<1> SUFFICES ASSUME Init PROVE Reads
  OBVIOUS
<1>1. \A d \in Device : Bundle(d, 1).author = d /\ Bundle(d, 1).seq = 1
                        /\ Bundle(d, 1).kind = "bundle"
  BY DEF Bundle, Forged
<1>2. \A d \in Device : store[d] = {Bundle(d, 1)} /\ spaces[d] = {} /\ groups[d] = {}
  BY DEF Init
<1>3. \A d \in Device : \A k \in Task : ~Busy(d, k)
  BY DEF Init, Busy
<1>4. Owner \in Device /\ \A t \in Topic : t \in Task
  BY CircleAssumption DEF Task
<1>5. OwnLog = {Bundle(Owner, 1)}
  BY <1>1, <1>2, <1>4 DEF OwnLog
<1>6. LogOrder
  BY <1>1, <1>4, <1>5 DEF LogOrder, Begins, CreatedOnce, CreatedFirst, AddedFirst
<1>7. OwnerKnows
  BY <1>2, <1>3, <1>4 DEF OwnerKnows, Recorded
<1>8. ASSUME NEW d \in Device \ {Owner} PROVE MemberOK(d)
  <2>1. Done(d) = {}
    BY <1>1, <1>2 DEF Done
  <2>2. /\ \A k \in Task : ~Writing(d, k)
        /\ \A t \in Topic : \A op : ~Processing(d, t, op)
    BY <1>3, <1>4 DEF Writing, Processing
  <2>3. OneTask(d) /\ LastInHand(d) /\ MembersFollow(d)
    BY <1>3, <2>1, <2>2 DEF OneTask, LastInHand, MembersFollow, Follows
  <2>4. QED
    BY <2>1, <2>3 DEF MemberOK, OwnerIsKnown, SharesAreRead
<1>9. QED
  BY <1>6, <1>7, <1>8 DEF Reads

LEMMA ReadsNext == Inv /\ Reads /\ [Next]_vars => Reads'
<1> SUFFICES ASSUME Inv, Reads, [Next]_vars PROVE Reads'
  OBVIOUS
<1>1. CASE UNCHANGED vars
  <2>1. UNCHANGED <<store, bundles, groups, spaces, task, surfaced, torn>>
    BY <1>1 DEF vars, durable
  <2>2. Owner \in Device
    BY CircleAssumption
  <2>3. Moves(Owner)
    BY <2>1 DEF Moves, StepOf, Signs, KeepsHands, Writes, Orderly, Busy, Writing, Processing
  <2>4. QED
    BY <2>2, <2>3, MovesReads
<1>2. CASE Next
  <2>1. PICK d \in Device :
          \/ CreateCircle(d)
          \/ \E m \in Device : InviteToCircle(d, m) \/ RevokeFromCircle(d, m)
          \/ ShareToCircle(d)
          \/ \E k \in Task : PersistGroupsState(d, k) \/ PersistSpaceState(d, k)
          \/ BroadcastCircleOp(d) \/ NotifyCircleInvite(d) \/ FollowUpFails(d)
          \/ JoinCircle(d) \/ LeaveWithoutRevoke(d) \/ NameJoinedCircle(d) \/ Restart(d)
          \/ \E e \in Device, t \in Topic : Receive(d, e, t)
          \/ \E t \in Topic : Process(d, t)
    BY <1>2 DEF Next
  <2>2. CASE CreateCircle(d) \/ ShareToCircle(d)
    BY <2>2, SigningReads
  <2>3. CASE \E m \in Device : InviteToCircle(d, m) \/ RevokeFromCircle(d, m)
    BY <2>3, SigningReads
  <2>4. CASE \E k \in Task : PersistGroupsState(d, k) \/ PersistSpaceState(d, k)
    BY <2>4, PersistReads
  <2>5. CASE BroadcastCircleOp(d) \/ NotifyCircleInvite(d) \/ FollowUpFails(d)
    BY <2>5, CommandReads
  <2>6. CASE JoinCircle(d) \/ LeaveWithoutRevoke(d) \/ NameJoinedCircle(d) \/ Restart(d)
    BY <2>6, TasksRestReads
  <2>7. CASE \E e \in Device, t \in Topic : Receive(d, e, t)
    BY <2>7, ReceiveReads
  <2>8. CASE \E t \in Topic : Process(d, t)
    BY <2>8, ProcessReads
  <2>9. QED
    BY <2>1, <2>2, <2>3, <2>4, <2>5, <2>6, <2>7, <2>8
<1>3. QED
  BY <1>1, <1>2

\* What a member holds of the owner's shares it has read or has in hand.
LEMMA ReadsLoseNothing == Reads => NothingMeantForMeIsLost
<1> SUFFICES ASSUME Reads, NEW d \in Device, NEW s \in store[d],
                    s.kind = "share", s.author = Owner, d \in s.to \ {Owner},
                    ~torn[d], ~torn[Owner], ~HasLeft(d)
             PROVE  s \in surfaced[d] \/ \E t \in Topic : Busy(d, t) /\ task[d][t].op = s
  BY DEF NothingMeantForMeIsLost
<1>1. SharesAreRead(d)
  BY DEF Reads, MemberOK, Undisturbed
<1>2. CASE s \in Done(d)
  BY <1>1, <1>2 DEF SharesAreRead
<1>3. CASE s \notin Done(d)
  BY <1>3 DEF Done, Processing
<1>4. QED
  BY <1>2, <1>3

\* A member reads every share of the owner that was meant for it, whatever the
\* order in which its two forwarders receive and the owner's other commands
\* run, as long as none of its own or the owner's changes overlap or are cut
\* short: no operation fails when it is processed, so none needs a retry.
THEOREM MembersMissNothing == Spec => []NothingMeantForMeIsLost
<1>1. Init => Inv /\ Reads
  BY InvInit, ReadsInit
<1>2. (Inv /\ Reads) /\ [Next]_vars => (Inv /\ Reads)'
  BY InvNext, ReadsNext
<1>3. Inv /\ Reads => NothingMeantForMeIsLost
  BY ReadsLoseNothing
<1>4. QED
  BY <1>1, <1>2, <1>3, PTL DEF Spec
=============================================================================
