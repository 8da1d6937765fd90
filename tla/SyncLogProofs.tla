--------------------------- MODULE SyncLogProofs ---------------------------
(***************************************************************************)
(* Proofs about SyncLog, for any devices, capacities and bounds: the       *)
(* inductive invariant of the stores, that logs never fork, and that the   *)
(* stores implement ReplicatedLog.                                         *)
(***************************************************************************)
EXTENDS SyncLog, SequenceTheorems, TLAPS

Signed(op) == op.uid = op.seq /\ op.seq \in 1 .. signed[op.author]
\* Nothing of the log stored, or all up to the operation before this one.
Follows(op, ops) ==
  \/ SeqsOf(ops, op.author) = {}
  \/ /\ op.seq - 1 \in SeqsOf(ops, op.author)
     /\ \A n \in SeqsOf(ops, op.author) : n < op.seq
Stretch(S) == \E lo \in Nat, hi \in Nat : S = lo .. hi

StoreType ==
  /\ store \in [Device -> SUBSET Op]
  /\ signed \in [Device -> Nat]
  /\ pump \in [Device -> Op \cup {NoOp}]
  /\ persisted \in [Device -> BOOLEAN]
  /\ gossip \subseteq Device \X Op
StoreInv ==
  \A d \in Device :
    /\ \A op \in store[d] : Signed(op)
    /\ SeqsOf(store[d], d) = 1 .. signed[d]
    /\ \A a \in Device : Stretch(SeqsOf(store[d], a))
GossipInv == \A g \in gossip : g[1] # g[2].author /\ Signed(g[2])
PumpInv ==
  \A d \in Device :
    /\ persisted[d] => pump[d] # NoOp
    /\ pump[d] # NoOp =>
         /\ pump[d].author # d
         /\ Signed(pump[d])
         /\ ~persisted[d] => Follows(pump[d], store[d])
SyncInv == StoreType /\ StoreInv /\ GossipInv /\ PumpInv

(***************************************************************************)
(* get_latest_entry finds the end of a stored stretch.                     *)
(***************************************************************************)
LEMMA TipOfStretch ==
  ASSUME NEW ops \in SUBSET Op, NEW a \in Device, NEW lo \in Nat, NEW hi \in Nat,
         SeqsOf(ops, a) = lo .. hi, lo <= hi
  PROVE  Tip(ops, a) = hi
<1>1. hi \in SeqsOf(ops, a) /\ \A m \in SeqsOf(ops, a) : m <= hi
  OBVIOUS
<1>2. \A n \in SeqsOf(ops, a) : (\A m \in SeqsOf(ops, a) : m <= n) => n = hi
  BY <1>1
<1> DEFINE T == CHOOSE n \in SeqsOf(ops, a) : \A m \in SeqsOf(ops, a) : m <= n
<1>3. T \in SeqsOf(ops, a) /\ \A m \in SeqsOf(ops, a) : m <= T
  BY <1>1
<1>4. T = hi
  BY <1>2, <1>3
<1>5. QED
  BY <1>1, <1>4 DEF Tip

\* An accepted operation follows what is stored.
LEMMA AcceptedFollows ==
  ASSUME NEW ops \in SUBSET Op, NEW op \in Op,
         Stretch(SeqsOf(ops, op.author)), op.seq = Tip(ops, op.author) + 1
  PROVE  Follows(op, ops)
<1>1. PICK lo \in Nat, hi \in Nat : SeqsOf(ops, op.author) = lo .. hi
  BY DEF Stretch
<1>2. CASE lo <= hi
  <2>1. op.seq = hi + 1
    BY <1>1, <1>2, TipOfStretch DEF Op
  <2>2. QED
    BY <1>1, <1>2, <2>1 DEF Follows
<1>3. CASE ~(lo <= hi)
  BY <1>1, <1>3 DEF Follows
<1>4. QED
  BY <1>2, <1>3

(***************************************************************************)
(* Storing an operation that follows keeps the stretch and adds its number *)
(* to its author's log only.                                               *)
(***************************************************************************)
LEMMA StoringKeepsStretch ==
  ASSUME NEW ops \in SUBSET Op, NEW op \in Op, Follows(op, ops),
         Stretch(SeqsOf(ops, op.author))
  PROVE  /\ SeqsOf(ops \cup {op}, op.author) = SeqsOf(ops, op.author) \cup {op.seq}
         /\ Stretch(SeqsOf(ops \cup {op}, op.author))
         /\ \A a \in Device : a # op.author => SeqsOf(ops \cup {op}, a) = SeqsOf(ops, a)
<1>1. SeqsOf(ops \cup {op}, op.author) = SeqsOf(ops, op.author) \cup {op.seq}
  BY DEF SeqsOf
<1>2. \A a \in Device : a # op.author => SeqsOf(ops \cup {op}, a) = SeqsOf(ops, a)
  BY DEF SeqsOf
<1>3. op.seq \in Nat
  BY DEF Op
<1>4. PICK lo \in Nat, hi \in Nat : SeqsOf(ops, op.author) = lo .. hi
  BY DEF Stretch
<1>5. Stretch(SeqsOf(ops, op.author) \cup {op.seq})
  <2>1. CASE SeqsOf(ops, op.author) = {}
    <3>1. SeqsOf(ops, op.author) \cup {op.seq} = op.seq .. op.seq
      BY <1>3, <2>1
    <3>2. QED
      BY <1>3, <3>1 DEF Stretch
  <2>2. CASE /\ op.seq - 1 \in SeqsOf(ops, op.author)
             /\ \A n \in SeqsOf(ops, op.author) : n < op.seq
    <3>1. hi \in lo .. hi
      BY <1>4, <2>2
    <3>2. hi = op.seq - 1
      BY <1>3, <1>4, <2>2, <3>1
    <3>3. lo .. hi \cup {op.seq} = lo .. op.seq
      BY <1>3, <1>4, <3>1, <3>2
    <3>4. QED
      BY <1>3, <1>4, <3>3 DEF Stretch
  <2>3. QED
    BY <2>1, <2>2 DEF Follows
<1>6. QED
  BY <1>1, <1>2, <1>5

\* What is above a cut of a stretch is a stretch.
LEMMA EndOfStretch ==
  ASSUME NEW S, Stretch(S), NEW c \in Nat
  PROVE  Stretch({n \in S : n > c})
<1>1. PICK lo \in Nat, hi \in Nat : S = lo .. hi
  BY DEF Stretch
<1>2. CASE lo > c
  <2>1. {n \in S : n > c} = lo .. hi
    BY <1>1, <1>2
  <2>2. QED
    BY <2>1 DEF Stretch
<1>3. CASE ~(lo > c)
  <2>1. {n \in S : n > c} = c + 1 .. hi /\ c + 1 \in Nat
    BY <1>1, <1>3
  <2>2. QED
    BY <2>1 DEF Stretch
<1>4. QED
  BY <1>2, <1>3

(***************************************************************************)
(* Pruning leaves an end of each foreign log and the device's own log.     *)
(***************************************************************************)
LEMMA PruningKeepsStretch ==
  ASSUME NEW d \in Device, NEW ops \in SUBSET Op, NEW cut \in [Device -> 0 .. MaxOps],
         NEW a \in Device, Stretch(SeqsOf(ops, a))
  PROVE  LET left == {op \in ops : ~Prunable(d, op, cut)} IN
           /\ Stretch(SeqsOf(left, a))
           /\ a = d => SeqsOf(left, a) = SeqsOf(ops, a)
           /\ a # d => SeqsOf(left, a) = {n \in SeqsOf(ops, a) : n > cut[a]}
<1> DEFINE left == {op \in ops : ~Prunable(d, op, cut)}
<1>0. cut[a] \in Nat
  BY SyncAssumption
<1>1. \A op \in ops : op.seq \in Nat
  BY DEF Op
<1>2. a = d => SeqsOf(left, a) = SeqsOf(ops, a)
  BY DEF SeqsOf, Prunable
<1>3. a # d => SeqsOf(left, a) = {n \in SeqsOf(ops, a) : n > cut[a]}
  BY <1>0, <1>1 DEF SeqsOf, Prunable
<1>4. Stretch(SeqsOf(left, a))
  <2>1. CASE a = d
    BY <1>2, <2>1
  <2>2. CASE a # d
    <3>1. Stretch({n \in SeqsOf(ops, a) : n > cut[a]})
      BY <1>0, EndOfStretch
    <3>2. SeqsOf(left, a) = {n \in SeqsOf(ops, a) : n > cut[a]}
      BY <1>3, <2>2
    <3>3. QED
      BY <3>1, <3>2
  <2>3. QED
    BY <2>1, <2>2
<1>5. QED
  BY <1>2, <1>3, <1>4

(***************************************************************************)
(* The inductive invariant.                                                *)
(***************************************************************************)
LEMMA SyncInit == Init => SyncInv
<1> SUFFICES ASSUME Init PROVE SyncInv
  OBVIOUS
<1> USE DEF Init
<1>1. StoreType
  BY DEF StoreType
<1>2. StoreInv
  <2> SUFFICES ASSUME NEW d \in Device, NEW a \in Device
               PROVE  SeqsOf(store[d], a) = {} /\ Stretch({}) /\ 1 .. signed[d] = {}
    BY DEF StoreInv
  <2>1. SeqsOf(store[d], a) = {}
    BY DEF SeqsOf
  <2>2. {} = 1 .. 0
    OBVIOUS
  <2>3. QED
    BY <2>1, <2>2 DEF Stretch
<1>3. GossipInv /\ PumpInv
  BY DEF GossipInv, PumpInv
<1>4. QED
  BY <1>1, <1>2, <1>3 DEF SyncInv

\* store_and_associate of an operation that follows.
LEMMA StoringInv ==
  ASSUME StoreType, StoreInv, NEW d \in Device, NEW op \in Op,
         Follows(op, store[d]), op.author \in Device,
         op.author # d, Signed(op), StoreAndAssociate(d, op), UNCHANGED signed
  PROVE  StoreInv' /\ store' \in [Device -> SUBSET Op]
<1>1. store' = [store EXCEPT ![d] = store[d] \cup {op}]
  BY DEF StoreAndAssociate
<1>2. store[d] \in SUBSET Op /\ store' \in [Device -> SUBSET Op]
  BY <1>1 DEF StoreType
<1>3. ASSUME NEW e \in Device
      PROVE  /\ \A o \in store'[e] : Signed(o)'
             /\ SeqsOf(store'[e], e) = 1 .. signed'[e]
             /\ \A a \in Device : Stretch(SeqsOf(store'[e], a))
  <2>1. CASE e # d
    <3>1. store'[e] = store[e]
      BY <1>1, <2>1 DEF StoreType
    <3>2. QED
      BY <3>1 DEF StoreInv, Signed
  <2>2. CASE e = d
    <3>1. store'[d] = store[d] \cup {op}
      BY <1>1 DEF StoreType
    <3>2. Stretch(SeqsOf(store[d], op.author))
      BY DEF StoreInv
    <3>3. /\ Stretch(SeqsOf(store[d] \cup {op}, op.author))
          /\ \A a \in Device : a # op.author => SeqsOf(store[d] \cup {op}, a) = SeqsOf(store[d], a)
      BY <1>2, <3>2, StoringKeepsStretch
    <3>4. \A o \in store'[d] : Signed(o)'
      BY <3>1 DEF StoreInv, Signed
    <3>5. SeqsOf(store'[d], d) = 1 .. signed'[d]
      BY <3>1, <3>3 DEF StoreInv
    <3>6. \A a \in Device : Stretch(SeqsOf(store'[d], a))
      BY <3>1, <3>3 DEF StoreInv
    <3>7. QED
      BY <2>2, <3>4, <3>5, <3>6
  <2>3. QED
    BY <2>1, <2>2
<1>4. QED
  BY <1>2, <1>3 DEF StoreInv

\* publish_bytes: the next number of the own log is one more than was signed.
LEMMA PublishFacts ==
  ASSUME SyncInv, NEW d \in Device, PublishBytes(d)
  PROVE  LET op == [author |-> d, seq |-> signed[d] + 1, uid |-> signed[d] + 1] IN
           /\ op \in Op
           /\ signed[d] + 1 \in 1 .. MaxOps
           /\ Follows(op, store[d])
           /\ StoreAndAssociate(d, op)
           /\ signed' = [signed EXCEPT ![d] = @ + 1]
           /\ \E reached \in SUBSET (Device \ {d}) :
                gossip' = gossip \cup {<<e, op>> : e \in reached}
<1>1. /\ signed[d] \in Nat
      /\ store[d] \in SUBSET Op
      /\ SeqsOf(store[d], d) = 1 .. signed[d]
      /\ signed[d] < MaxOps
  BY DEF SyncInv, StoreType, StoreInv, PublishBytes
<1>2. Tip(store[d], d) = signed[d]
  <2>1. CASE signed[d] = 0
    BY <1>1, <2>1 DEF Tip
  <2>2. CASE signed[d] # 0
    <3>1. 1 \in Nat /\ 1 <= signed[d]
      BY <1>1, <2>2
    <3>2. QED
      BY <1>1, <3>1, TipOfStretch
  <2>3. QED
    BY <2>1, <2>2
<1> DEFINE op == [author |-> d, seq |-> signed[d] + 1, uid |-> signed[d] + 1]
<1>3. op \in Op /\ signed[d] + 1 \in 1 .. MaxOps
  BY <1>1, SyncAssumption DEF Op
<1>4. Follows(op, store[d])
  BY <1>1 DEF Follows
<1>5. QED
  BY <1>2, <1>3, <1>4 DEF PublishBytes

\* Signing an operation keeps the stores well formed.
LEMMA PublishStoreInv ==
  ASSUME SyncInv, NEW d \in Device, PublishBytes(d)
  PROVE  StoreInv' /\ store' \in [Device -> SUBSET Op] /\ signed' \in [Device -> Nat]
<1>0. PICK op \in Op :
        /\ op = [author |-> d, seq |-> signed[d] + 1, uid |-> signed[d] + 1]
        /\ Follows(op, store[d])
        /\ StoreAndAssociate(d, op)
  BY PublishFacts
<1>1. /\ op.author = d /\ op.seq = signed[d] + 1 /\ op.uid = signed[d] + 1
      /\ Follows(op, store[d])
      /\ StoreAndAssociate(d, op)
      /\ signed' = [signed EXCEPT ![d] = @ + 1]
  BY <1>0, PublishFacts
<1>2. /\ store' = [store EXCEPT ![d] = store[d] \cup {op}]
      /\ store[d] \in SUBSET Op
      /\ signed \in [Device -> Nat]
  BY <1>1 DEF StoreAndAssociate, SyncInv, StoreType
<1>3. store' \in [Device -> SUBSET Op] /\ signed' \in [Device -> Nat]
  BY <1>1, <1>2 DEF SyncInv, StoreType
<1>4. ASSUME NEW o \in Op, Signed(o) PROVE Signed(o)'
  <2>1. signed[o.author] \in Nat /\ signed'[o.author] \in {signed[o.author], signed[o.author] + 1}
    BY <1>1, <1>2 DEF Op
  <2>2. QED
    BY <1>4, <2>1 DEF Signed
<1>5. ASSUME NEW e \in Device
      PROVE  /\ \A o \in store'[e] : Signed(o)'
             /\ SeqsOf(store'[e], e) = 1 .. signed'[e]
             /\ \A a \in Device : Stretch(SeqsOf(store'[e], a))
  <2>1. store[e] \in SUBSET Op /\ \A o \in store[e] : Signed(o)
    BY DEF SyncInv, StoreType, StoreInv
  <2>2. CASE e # d
    <3>1. store'[e] = store[e] /\ signed'[e] = signed[e]
      BY <1>1, <1>2, <2>2 DEF SyncInv, StoreType
    <3>2. \A o \in store'[e] : Signed(o)'
      BY <1>4, <2>1, <3>1
    <3>3. QED
      BY <3>1, <3>2 DEF SyncInv, StoreInv
  <2>3. CASE e = d
    <3>1. store'[d] = store[d] \cup {op} /\ signed'[d] = signed[d] + 1 /\ signed[d] \in Nat
      BY <1>1, <1>2 DEF SyncInv, StoreType
    <3>2. Signed(op)'
      <4>1. op.uid = op.seq /\ op.seq \in 1 .. signed'[op.author]
        BY <1>1, <3>1
      <4>2. QED
        BY <4>1 DEF Signed
    <3>3. \A o \in store'[d] : Signed(o)'
      BY <1>4, <2>1, <2>3, <3>1, <3>2
    <3>4. op.author = d /\ op.seq = signed[d] + 1
      BY <1>1
    <3>5. /\ SeqsOf(store[d], d) = 1 .. signed[d]
          /\ \A a \in Device : Stretch(SeqsOf(store[d], a))
      BY DEF SyncInv, StoreInv
    <3>6. /\ SeqsOf(store[d] \cup {op}, d) = SeqsOf(store[d], d) \cup {op.seq}
          /\ Stretch(SeqsOf(store[d] \cup {op}, d))
          /\ \A a \in Device : a # d => SeqsOf(store[d] \cup {op}, a) = SeqsOf(store[d], a)
      <4>1. store[d] \in SUBSET Op /\ Follows(op, store[d]) /\ Stretch(SeqsOf(store[d], op.author))
        BY <1>1, <1>2, <3>4, <3>5
      <4>2. /\ SeqsOf(store[d] \cup {op}, op.author) = SeqsOf(store[d], op.author) \cup {op.seq}
            /\ Stretch(SeqsOf(store[d] \cup {op}, op.author))
            /\ \A a \in Device : a # op.author => SeqsOf(store[d] \cup {op}, a) = SeqsOf(store[d], a)
        BY <4>1, StoringKeepsStretch
      <4>3. QED
        BY <3>4, <4>2, Zenon
    <3>7. SeqsOf(store'[d], d) = 1 .. signed'[d]
      <4>1. 1 .. signed[d] \cup {signed[d] + 1} = 1 .. signed[d] + 1
        BY <3>1
      <4>2. SeqsOf(store'[d], d) = 1 .. signed[d] \cup {signed[d] + 1}
        BY <3>1, <3>4, <3>5, <3>6, Zenon
      <4>3. QED
        BY <3>1, <4>1, <4>2
    <3>8. \A a \in Device : Stretch(SeqsOf(store'[d], a))
      <4>1. ASSUME NEW a \in Device PROVE Stretch(SeqsOf(store[d] \cup {op}, a))
        <5>1. CASE a = d
          BY <3>6, <5>1
        <5>2. CASE a # d
          <6>1. SeqsOf(store[d] \cup {op}, a) = SeqsOf(store[d], a)
            BY <3>6, <5>2
          <6>2. QED
            BY <3>5, <6>1
        <5>3. QED
          BY <5>1, <5>2
      <4>2. QED
        BY <3>1, <4>1
    <3>9. QED
      BY <2>3, <3>3, <3>7, <3>8
  <2>4. QED
    BY <2>2, <2>3
<1>6. QED
  BY <1>3, <1>5 DEF StoreInv

LEMMA PublishKeepsInv ==
  ASSUME SyncInv, NEW d \in Device, PublishBytes(d)
  PROVE  SyncInv'
<1>0. PICK op \in Op :
        /\ op = [author |-> d, seq |-> signed[d] + 1, uid |-> signed[d] + 1]
        /\ StoreAndAssociate(d, op)
        /\ \E reached \in SUBSET (Device \ {d}) :
             gossip' = gossip \cup {<<e, op>> : e \in reached}
  BY PublishFacts
<1>1. /\ op.author = d /\ op.seq = signed[d] + 1 /\ op.uid = signed[d] + 1
      /\ StoreAndAssociate(d, op)
      /\ signed' = [signed EXCEPT ![d] = @ + 1]
  BY <1>0, PublishFacts
<1>2. PICK reached \in SUBSET (Device \ {d}) : gossip' = gossip \cup {<<e, op>> : e \in reached}
  BY <1>0
<1>3. StoreInv' /\ store' \in [Device -> SUBSET Op] /\ signed' \in [Device -> Nat]
  BY PublishStoreInv
<1>4. UNCHANGED <<pump, persisted>> /\ signed \in [Device -> Nat]
  BY DEF PublishBytes, queueVars, SyncInv, StoreType
<1>5. ASSUME NEW o \in Op, Signed(o) PROVE Signed(o)'
  <2>1. signed[o.author] \in Nat /\ signed'[o.author] \in {signed[o.author], signed[o.author] + 1}
    BY <1>1, <1>4 DEF Op
  <2>2. QED
    BY <1>5, <2>1 DEF Signed
<1>6. Signed(op)'
  <2>1. op.uid = op.seq /\ op.seq \in 1 .. signed'[op.author]
    BY <1>1, <1>4
  <2>2. QED
    BY <2>1 DEF Signed
<1>7. gossip' \subseteq Device \X Op /\ GossipInv'
  <2>1. gossip \subseteq Device \X Op /\ GossipInv
    BY DEF SyncInv, StoreType
  <2>2. ASSUME NEW g \in gossip'
        PROVE  g \in Device \X Op /\ g[1] # g[2].author /\ Signed(g[2])'
    <3>1. CASE g \in gossip
      BY <1>5, <2>1, <3>1 DEF GossipInv
    <3>2. CASE \E e \in reached : g = <<e, op>>
      <4>1. PICK e \in reached : g = <<e, op>>
        BY <3>2
      <4>2. op.author = d
        BY <1>1
      <4>3. e \in Device /\ e # d
        OBVIOUS
      <4>4. g[1] = e /\ g[2] = op
        BY <4>1
      <4>5. g \in Device \X Op
        BY <1>1, <4>1, <4>3
      <4>6. QED
        BY <1>6, <4>2, <4>3, <4>4, <4>5
    <3>3. QED
      BY <1>2, <3>1, <3>2
  <2>3. QED
    BY <2>2 DEF GossipInv
<1>8. PumpInv'
  <2> SUFFICES ASSUME NEW e \in Device
               PROVE  /\ persisted[e] => pump[e] # NoOp
                      /\ pump[e] # NoOp =>
                           /\ pump[e].author # e
                           /\ Signed(pump[e])'
                           /\ ~persisted[e] => Follows(pump[e], store'[e])
    BY <1>4 DEF PumpInv
  <2>1. persisted[e] => pump[e] # NoOp
    BY DEF SyncInv, PumpInv
  <2>2. ASSUME pump[e] # NoOp
        PROVE  /\ pump[e].author # e
               /\ Signed(pump[e])'
               /\ ~persisted[e] => Follows(pump[e], store'[e])
    <3>1. /\ pump[e] \in Op /\ pump[e].author \in Device
          /\ pump[e].author # e
          /\ Signed(pump[e])
          /\ ~persisted[e] => Follows(pump[e], store[e])
      BY <2>2 DEF SyncInv, StoreType, PumpInv, Op
    <3>2. SeqsOf(store'[e], pump[e].author) = SeqsOf(store[e], pump[e].author)
      <4>1. CASE e # d
        BY <1>1, <4>1 DEF StoreAndAssociate, SyncInv, StoreType
      <4>2. CASE e = d
        <5>1. store'[d] = store[d] \cup {op} /\ op.author = d
          BY <1>1 DEF StoreAndAssociate, SyncInv, StoreType
        <5>2. QED
          BY <3>1, <4>2, <5>1 DEF SeqsOf
      <4>3. QED
        BY <4>1, <4>2
    <3>3. Signed(pump[e])'
      <4>1. /\ pump[e].uid = pump[e].seq
            /\ pump[e].seq \in 1 .. signed[pump[e].author]
            /\ signed[pump[e].author] \in Nat
            /\ signed'[pump[e].author] \in {signed[pump[e].author], signed[pump[e].author] + 1}
        BY <1>1, <1>4, <3>1 DEF Signed
      <4>2. pump'[e] = pump[e]
        BY <1>4
      <4>3. QED
        BY <4>1, <4>2 DEF Signed
    <3>4. ~persisted[e] => Follows(pump[e], store'[e])
      BY <3>1, <3>2 DEF Follows
    <3>5. QED
      BY <3>1, <3>3, <3>4
  <2>3. QED
    BY <2>1, <2>2
<1>9. pump' \in [Device -> Op \cup {NoOp}] /\ persisted' \in [Device -> BOOLEAN]
  BY <1>4 DEF SyncInv, StoreType
<1>10. QED
  BY <1>3, <1>7, <1>8, <1>9 DEF SyncInv, StoreType

\* LogSync hands an operation over: it follows what the device has stored.
LEMMA AcceptingKeepsInv ==
  ASSUME SyncInv, NEW d \in Device, NEW op \in Op, Accepts(d, op),
         op.author # d, Signed(op), gossip' \subseteq gossip,
         pump' = [pump EXCEPT ![d] = op], UNCHANGED <<store, persisted, signed>>
  PROVE  SyncInv'
<1>1. Follows(op, store[d])
  <2>1. store[d] \in SUBSET Op /\ Stretch(SeqsOf(store[d], op.author))
    BY DEF SyncInv, StoreType, StoreInv, Op
  <2>2. QED
    BY <2>1, AcceptedFollows DEF Accepts
<1>2. StoreType'
  BY DEF SyncInv, StoreType
<1>3. StoreInv' /\ GossipInv'
  BY DEF SyncInv, StoreInv, GossipInv, Signed
<1>4. PumpInv'
  <2> SUFFICES ASSUME NEW e \in Device
               PROVE  /\ persisted[e] => pump'[e] # NoOp
                      /\ pump'[e] # NoOp =>
                           /\ pump'[e].author # e
                           /\ Signed(pump'[e])
                           /\ ~persisted[e] => Follows(pump'[e], store[e])
    BY DEF PumpInv, Signed
  <2>1. CASE e = d
    <3>1. pump'[d] = op /\ op # NoOp
      BY SyncAssumption DEF SyncInv, StoreType
    <3>2. QED
      BY <1>1, <2>1, <3>1
  <2>2. CASE e # d
    BY <2>2 DEF SyncInv, StoreType, PumpInv
  <2>3. QED
    BY <2>1, <2>2
<1>5. QED
  BY <1>2, <1>3, <1>4 DEF SyncInv

LEMMA GossipKeepsInv ==
  ASSUME SyncInv, NEW d \in Device, GossipReceived(d)
  PROVE  SyncInv'
<1>1. PICK g \in gossip : /\ g[1] = d
                          /\ Accepts(d, g[2])
                          /\ pump' = [pump EXCEPT ![d] = g[2]]
                          /\ gossip' = gossip \ {g}
  BY DEF GossipReceived
<1>2. g[2] \in Op /\ g[2].author # d /\ Signed(g[2])
  BY <1>1 DEF SyncInv, StoreType, GossipInv
<1>3. UNCHANGED <<store, persisted, signed>> /\ gossip' \subseteq gossip
  BY <1>1 DEF GossipReceived
<1>4. QED
  BY <1>1, <1>2, <1>3, AcceptingKeepsInv

LEMMA CatchUpKeepsInv ==
  ASSUME SyncInv, NEW d \in Device, NEW e \in Device, CatchUpReceived(d, e)
  PROVE  SyncInv'
<1>1. PICK op \in store[e] : /\ op.author # d
                             /\ Accepts(d, op)
                             /\ pump' = [pump EXCEPT ![d] = op]
  BY DEF CatchUpReceived
<1>2. op \in Op /\ Signed(op)
  BY DEF SyncInv, StoreType, StoreInv
<1>3. UNCHANGED <<store, persisted, signed, gossip>>
  BY DEF CatchUpReceived
<1>4. QED
  BY <1>1, <1>2, <1>3, AcceptingKeepsInv

LEMMA PersistKeepsInv ==
  ASSUME SyncInv, NEW d \in Device, PumpPersist(d)
  PROVE  SyncInv'
<1>1. /\ pump[d] # NoOp /\ pump[d] \in Op /\ ~persisted[d]
      /\ persisted' = [persisted EXCEPT ![d] = TRUE]
      /\ StoreAndAssociate(d, pump[d])
      /\ UNCHANGED <<gossip, pump, signed>>
  BY DEF PumpPersist, SyncInv, StoreType
<1>2. /\ pump[d].author # d /\ pump[d].author \in Device
      /\ Signed(pump[d]) /\ Follows(pump[d], store[d])
  BY <1>1 DEF SyncInv, PumpInv, Op
<1>3. StoreInv' /\ store' \in [Device -> SUBSET Op]
  BY <1>1, <1>2, StoringInv DEF SyncInv
<1>4. StoreType' /\ GossipInv'
  BY <1>1, <1>3 DEF SyncInv, StoreType, GossipInv, Signed
<1>5. PumpInv'
  <2> SUFFICES ASSUME NEW e \in Device
               PROVE  /\ persisted'[e] => pump[e] # NoOp
                      /\ pump[e] # NoOp =>
                           /\ pump[e].author # e
                           /\ Signed(pump[e])
                           /\ ~persisted'[e] => Follows(pump[e], store'[e])
    BY <1>1 DEF PumpInv, Signed
  <2>1. CASE e = d
    BY <1>1, <1>2, <2>1 DEF SyncInv, StoreType
  <2>2. CASE e # d
    BY <1>1, <2>2 DEF SyncInv, StoreType, PumpInv, StoreAndAssociate
  <2>3. QED
    BY <2>1, <2>2
<1>6. QED
  BY <1>3, <1>4, <1>5 DEF SyncInv

\* Steps of the pump, and a crash, that leave the store alone.
LEMMA PumpStepsKeepInv ==
  ASSUME SyncInv, NEW d \in Device, PumpPersistFails(d) \/ PumpForward(d) \/ Crash(d)
  PROVE  SyncInv'
<1>1. UNCHANGED <<store, signed>> /\ gossip' \subseteq gossip
  BY DEF PumpPersistFails, PumpForward, Crash
<1>2. /\ \/ pump' = pump /\ pump[d] # NoOp /\ persisted' = [persisted EXCEPT ![d] = TRUE]
         \/ pump' = [pump EXCEPT ![d] = NoOp] /\ persisted' = [persisted EXCEPT ![d] = FALSE]
  BY DEF PumpPersistFails, PumpForward, Crash
<1>3. StoreType'
  BY <1>1, <1>2 DEF SyncInv, StoreType
<1>4. StoreInv' /\ GossipInv'
  BY <1>1 DEF SyncInv, StoreInv, GossipInv, Signed
<1>5. PumpInv'
  <2> SUFFICES ASSUME NEW e \in Device
               PROVE  /\ persisted'[e] => pump'[e] # NoOp
                      /\ pump'[e] # NoOp =>
                           /\ pump'[e].author # e
                           /\ Signed(pump'[e])
                           /\ ~persisted'[e] => Follows(pump'[e], store[e])
    BY <1>1 DEF PumpInv, Signed
  <2>1. pump \in [Device -> Op \cup {NoOp}] /\ persisted \in [Device -> BOOLEAN] /\ PumpInv
    BY DEF SyncInv, StoreType
  <2>2. CASE e = d
    BY <1>2, <2>1, <2>2 DEF PumpInv
  <2>3. CASE e # d
    <3>1. pump'[e] = pump[e] /\ persisted'[e] = persisted[e]
      BY <1>2, <2>1, <2>3
    <3>2. QED
      BY <2>1, <3>1 DEF PumpInv
  <2>4. QED
    BY <2>2, <2>3
<1>6. QED
  BY <1>3, <1>4, <1>5 DEF SyncInv

\* What a prune does to one store.
LEMMA PruneFacts ==
  ASSUME SyncInv, NEW d \in Device, NEW cut \in [Device -> 0 .. MaxOps],
         store' = [store EXCEPT ![d] = {op \in @ : ~Prunable(d, op, cut)}]
  PROVE  /\ store' \in [Device -> SUBSET Op]
         /\ \A e \in Device : e # d => store'[e] = store[e]
         /\ store'[d] \subseteq store[d]
         /\ \A a \in Device :
              /\ Stretch(SeqsOf(store'[d], a))
              /\ a = d => SeqsOf(store'[d], a) = SeqsOf(store[d], a)
              /\ a # d => SeqsOf(store'[d], a) = {n \in SeqsOf(store[d], a) : n > cut[a]}
<1>1. store \in [Device -> SUBSET Op] /\ store[d] \in SUBSET Op
  BY DEF SyncInv, StoreType
<1>2. store'[d] = {op \in store[d] : ~Prunable(d, op, cut)}
  BY <1>1
<1>3. \A a \in Device : Stretch(SeqsOf(store[d], a))
  BY DEF SyncInv, StoreInv
<1>4. QED
  BY <1>1, <1>2, <1>3, PruningKeepsStretch

LEMMA PruneKeepsInv ==
  ASSUME SyncInv, NEW d \in Device, Prune(d)
  PROVE  SyncInv'
<1>1. PICK cut \in [Device -> 0 .. MaxOps] :
        store' = [store EXCEPT ![d] = {op \in @ : ~Prunable(d, op, cut)}]
  BY DEF Prune
<1>2. UNCHANGED <<gossip, pump, persisted, signed>>
  BY DEF Prune, queueVars
<1>3. /\ store' \in [Device -> SUBSET Op]
      /\ \A e \in Device : e # d => store'[e] = store[e]
      /\ store'[d] \subseteq store[d]
      /\ \A a \in Device :
           /\ Stretch(SeqsOf(store'[d], a))
           /\ a = d => SeqsOf(store'[d], a) = SeqsOf(store[d], a)
           /\ a # d => SeqsOf(store'[d], a) = {n \in SeqsOf(store[d], a) : n > cut[a]}
  BY <1>1, PruneFacts
<1>4. StoreType' /\ GossipInv'
  BY <1>2, <1>3 DEF SyncInv, StoreType, GossipInv, Signed
<1>5. StoreInv'
  <2> SUFFICES ASSUME NEW e \in Device
               PROVE  /\ \A op \in store'[e] : Signed(op)
                      /\ SeqsOf(store'[e], e) = 1 .. signed[e]
                      /\ \A a \in Device : Stretch(SeqsOf(store'[e], a))
    BY <1>2 DEF StoreInv, Signed
  <2>1. CASE e = d
    BY <1>3, <2>1 DEF SyncInv, StoreInv
  <2>2. CASE e # d
    BY <1>3, <2>2 DEF SyncInv, StoreInv
  <2>3. QED
    BY <2>1, <2>2
<1>6. PumpInv'
  <2> SUFFICES ASSUME NEW e \in Device
               PROVE  /\ persisted[e] => pump[e] # NoOp
                      /\ pump[e] # NoOp =>
                           /\ pump[e].author # e
                           /\ Signed(pump[e])
                           /\ ~persisted[e] => Follows(pump[e], store'[e])
    BY <1>2 DEF PumpInv, Signed
  <2>1. PumpInv
    BY DEF SyncInv
  <2>2. CASE e # d
    BY <1>3, <2>1, <2>2 DEF PumpInv
  <2>3. CASE e = d /\ pump[d] # NoOp /\ ~persisted[d]
    <3>1. /\ pump[d] \in Op /\ pump[d].author \in Device /\ pump[d].author # d
          /\ Follows(pump[d], store[d])
      BY <2>1, <2>3 DEF PumpInv, SyncInv, StoreType, Op
    <3> DEFINE a == pump[d].author
    <3>2. /\ SeqsOf(store'[d], a) = {n \in SeqsOf(store[d], a) : n > cut[a]}
          /\ cut[a] \in Nat
          /\ SeqsOf(store[d], a) \subseteq Nat
          /\ pump[d].seq \in Nat
      <4>1. store[d] \in SUBSET Op /\ cut[a] \in Nat
        BY <3>1, SyncAssumption DEF SyncInv, StoreType
      <4>2. QED
        BY <1>3, <3>1, <4>1 DEF SeqsOf, Op
    <3>3. Follows(pump[d], store'[d])
      BY <3>1, <3>2 DEF Follows
    <3>4. QED
      BY <2>1, <2>3, <3>3 DEF PumpInv
  <2>4. CASE e = d /\ ~(pump[d] # NoOp /\ ~persisted[d])
    BY <2>1, <2>4 DEF PumpInv
  <2>5. QED
    BY <2>2, <2>3, <2>4
<1>7. QED
  BY <1>4, <1>5, <1>6 DEF SyncInv

(***************************************************************************)
(* The invariant holds in every state: own logs are complete, stores hold  *)
(* stretches, and what is under way was signed under the number it bears.  *)
(***************************************************************************)
LEMMA SyncStep == SyncInv /\ [Next]_vars => SyncInv'
<1> SUFFICES ASSUME SyncInv, [Next]_vars PROVE SyncInv'
  OBVIOUS
<1>1. CASE UNCHANGED vars
  BY <1>1 DEF vars, queueVars, SyncInv, StoreType, StoreInv, GossipInv, PumpInv, Signed
<1>2. ASSUME NEW d \in Device, SdkStep(d) \/ AppStep(d)
      PROVE  SyncInv'
  <2>1. UNCHANGED <<store, signed, gossip, pump, persisted>>
    BY <1>2 DEF SdkStep, AppStep
  <2>2. QED
    BY <2>1 DEF SyncInv, StoreType, StoreInv, GossipInv, PumpInv, Signed
<1>3. QED
  BY <1>1, <1>2, PublishKeepsInv, GossipKeepsInv, CatchUpKeepsInv, PersistKeepsInv,
     PumpStepsKeepInv, PruneKeepsInv DEF Next

THEOREM SyncInvariance == Spec => []SyncInv
<1>1. Init => SyncInv
  BY SyncInit
<1>2. SyncInv /\ [Next]_vars => SyncInv'
  BY SyncStep
<1>3. QED
  BY <1>1, <1>2, PTL DEF Spec

(***************************************************************************)
(* No fork: of one author no two operations that are stored anywhere, on   *)
(* their way or in a pump have the same number.                            *)
(***************************************************************************)
Circulating ==
  {o \in Op : \/ \E d \in Device : o \in store[d] \/ o = pump[d]
              \/ \E g \in gossip : o = g[2]}
NoFork ==
  \A p, q \in Circulating : p.author = q.author /\ p.seq = q.seq => p = q

THEOREM LogsNeverFork == Spec => []NoFork
<1>1. SyncInv => NoFork
  <2> SUFFICES ASSUME SyncInv, NEW p \in Circulating, NEW q \in Circulating,
                      p.author = q.author, p.seq = q.seq
               PROVE  p = q
    BY DEF NoFork
  <2>1. ASSUME NEW o \in Circulating PROVE o \in Op /\ o.uid = o.seq
    <3>1. CASE \E d \in Device : o \in store[d]
      BY <3>1 DEF SyncInv, StoreType, StoreInv, Signed
    <3>2. CASE \E g \in gossip : o = g[2]
      BY <3>2 DEF SyncInv, StoreType, GossipInv, Signed
    <3>3. CASE \E d \in Device : o = pump[d]
      BY <3>3, SyncAssumption DEF SyncInv, StoreType, PumpInv, Signed, Circulating
    <3>4. QED
      BY <3>1, <3>2, <3>3 DEF Circulating
  <2>2. p \in Op /\ q \in Op /\ p.uid = q.uid
    BY <2>1
  <2>3. QED
    BY <2>2 DEF Op
<1>2. QED
  BY <1>1, SyncInvariance, PTL

(***************************************************************************)
(* Refinement: the initial state, and each step, of SyncLog maps to one of *)
(* ReplicatedLog.                                                          *)
(***************************************************************************)
\* What the mapping shows of one log of one device.
Shown(ops, a) == {<<op.seq, op.uid>> : op \in {o \in ops : o.author = a}}

LEMMA ShownFacts ==
  ASSUME NEW ops \in SUBSET Op, NEW a \in Device
  PROVE  /\ \A h \in Shown(ops, a) : h[1] \in SeqsOf(ops, a)
         /\ \A n \in SeqsOf(ops, a) : \E h \in Shown(ops, a) : h[1] = n
         /\ SeqsOf(ops, a) = {} <=> Shown(ops, a) = {}
         /\ \A op \in Op : op.author = a =>
              Shown(ops \cup {op}, a) = Shown(ops, a) \cup {<<op.seq, op.uid>>}
         /\ \A op \in Op : op.author # a => Shown(ops \cup {op}, a) = Shown(ops, a)
<1>1. \A h \in Shown(ops, a) : h[1] \in SeqsOf(ops, a)
  BY DEF Shown, SeqsOf
<1>2. \A n \in SeqsOf(ops, a) : \E h \in Shown(ops, a) : h[1] = n
  <2> SUFFICES ASSUME NEW op \in ops, op.author = a
               PROVE  \E h \in Shown(ops, a) : h[1] = op.seq
    BY DEF SeqsOf
  <2>1. <<op.seq, op.uid>> \in Shown(ops, a)
    BY DEF Shown
  <2>2. QED
    BY <2>1
<1>3. SeqsOf(ops, a) = {} <=> Shown(ops, a) = {}
  BY <1>1, <1>2
<1>4. ASSUME NEW op \in Op, op.author = a
      PROVE  Shown(ops \cup {op}, a) = Shown(ops, a) \cup {<<op.seq, op.uid>>}
  <2>1. {o \in ops \cup {op} : o.author = a} = {o \in ops : o.author = a} \cup {op}
    BY <1>4
  <2>2. QED
    BY <2>1, Zenon DEF Shown
<1>5. ASSUME NEW op \in Op, op.author # a
      PROVE  Shown(ops \cup {op}, a) = Shown(ops, a)
  <2>1. {o \in ops \cup {op} : o.author = a} = {o \in ops : o.author = a}
    BY <1>5
  <2>2. QED
    BY <2>1 DEF Shown
<1>6. QED
  BY <1>1, <1>2, <1>3, <1>4, <1>5

LEMMA MappedStore ==
  storedLog = [d \in Device |-> [a \in Device |-> Shown(store[d], a)]]
  BY DEF storedLog, Shown

LEMMA ImplementsInit == Init => RL!Init
<1> SUFFICES ASSUME Init PROVE RL!Init
  OBVIOUS
<1>1. signedLog = [a \in Device |-> <<>>]
  <2>1. [n \in 1 .. 0 |-> n] = <<>>
    OBVIOUS
  <2>2. QED
    BY <2>1 DEF Init, signedLog
<1>2. storedLog = [d \in Device |-> [a \in Device |-> {}]]
  BY DEF Init, storedLog
<1>3. QED
  BY <1>1, <1>2 DEF RL!Init

\* Adding a signed operation to a store adds its position to one copy.
LEMMA MappedStoring ==
  ASSUME StoreType, NEW d \in Device, NEW op \in Op, StoreAndAssociate(d, op)
  PROVE  storedLog' = [storedLog EXCEPT ![d][op.author] = @ \cup {<<op.seq, op.uid>>}]
<1>1. /\ store' = [store EXCEPT ![d] = store[d] \cup {op}]
      /\ store \in [Device -> SUBSET Op]
      /\ op.author \in Device
  BY DEF StoreAndAssociate, StoreType, Op
<1>2. /\ Shown(store[d] \cup {op}, op.author)
            = Shown(store[d], op.author) \cup {<<op.seq, op.uid>>}
      /\ \A a \in Device : a # op.author => Shown(store[d] \cup {op}, a) = Shown(store[d], a)
  <2>1. store[d] \in SUBSET Op
    BY <1>1
  <2>2. ASSUME NEW a \in Device
        PROVE  /\ op.author = a =>
                    Shown(store[d] \cup {op}, a) = Shown(store[d], a) \cup {<<op.seq, op.uid>>}
               /\ op.author # a => Shown(store[d] \cup {op}, a) = Shown(store[d], a)
    BY <2>1, ShownFacts
  <2>3. QED
    BY <1>1, <2>2
<1>3. storedLog' = [e \in Device |-> [a \in Device |-> Shown(store'[e], a)]]
  BY DEF storedLog, Shown
<1>4. QED
  BY <1>1, <1>2, <1>3, MappedStore

\* publish_bytes writes the author's next entry.
LEMMA PublishWrites ==
  ASSUME SyncInv, NEW d \in Device, PublishBytes(d)
  PROVE  RL!Write(d)
<1> DEFINE x == signed[d] + 1
<1>0. PICK op \in Op :
        /\ op = [author |-> d, seq |-> signed[d] + 1, uid |-> signed[d] + 1]
        /\ StoreAndAssociate(d, op)
  BY PublishFacts
<1>1. /\ op.author = d /\ op.seq = x /\ op.uid = x
      /\ StoreAndAssociate(d, op)
      /\ signed' = [signed EXCEPT ![d] = x]
      /\ x \in 1 .. MaxOps
      /\ signed \in [Device -> Nat]
  BY <1>0, PublishFacts DEF SyncInv, StoreType
<1>2. Len(signedLog[d]) + 1 = x
  BY <1>1 DEF signedLog
<1>3. storedLog' = [storedLog EXCEPT ![d][d] = @ \cup {<<x, x>>}]
  BY <1>1, MappedStoring DEF SyncInv
<1>4. signedLog' = [signedLog EXCEPT ![d] = Append(@, x)]
  <2>1. Append([n \in 1 .. signed[d] |-> n], x) = [n \in 1 .. x |-> n]
    BY <1>1
  <2>2. QED
    BY <1>1, <2>1 DEF signedLog
<1>5. QED
  BY <1>1, <1>2, <1>3, <1>4 DEF RL!Write

\* The forwarder's write teaches the device the next entry of a log.
LEMMA PersistLearns ==
  ASSUME SyncInv, NEW d \in Device, PumpPersist(d)
  PROVE  RL!Learn(d, pump[d].author)
<1> DEFINE a == pump[d].author
           n == pump[d].seq
<1>1. /\ pump[d] \in Op /\ a \in Device /\ a # d
      /\ pump[d].uid = n /\ n \in 1 .. signed[a]
      /\ Follows(pump[d], store[d])
  BY DEF PumpPersist, SyncInv, StoreType, PumpInv, Signed, Op
<1>2. /\ StoreAndAssociate(d, pump[d])
      /\ store[d] \in SUBSET Op
      /\ signed' = signed
  BY DEF PumpPersist, SyncInv, StoreType
<1>3. storedLog[d][a] = Shown(store[d], a)
  BY <1>1, MappedStore
<1>4. \A h \in storedLog[d][a] : h[1] < n
  <2>1. \A h \in storedLog[d][a] : h[1] \in SeqsOf(store[d], a)
    BY <1>1, <1>2, <1>3, ShownFacts
  <2>2. QED
    BY <1>1, <2>1 DEF Follows
<1>5. storedLog[d][a] = {} \/ \E h \in storedLog[d][a] : h[1] + 1 = n
  <2>1. CASE SeqsOf(store[d], a) = {}
    BY <1>1, <1>2, <1>3, <2>1, ShownFacts
  <2>2. CASE n - 1 \in SeqsOf(store[d], a)
    <3>1. PICK h \in storedLog[d][a] : h[1] = n - 1
      BY <1>1, <1>2, <1>3, <2>2, ShownFacts
    <3>2. h[1] + 1 = n
      BY <1>1, <3>1 DEF Op
    <3>3. QED
      BY <3>2
  <2>3. QED
    BY <1>1, <2>1, <2>2 DEF Follows
<1>6. n \in DOMAIN signedLog[a] /\ signedLog[a][n] = n
  BY <1>1 DEF signedLog
<1>7. storedLog' = [storedLog EXCEPT ![d][a] = @ \cup {<<n, n>>}]
  BY <1>1, <1>2, MappedStoring DEF SyncInv
<1>8. signedLog' = signedLog
  BY <1>2 DEF signedLog
<1>9. QED
  BY <1>1, <1>4, <1>5, <1>6, <1>7, <1>8 DEF RL!Learn

\* Pruning forgets beginnings.
LEMMA PruneForgets ==
  ASSUME SyncInv, NEW d \in Device, Prune(d)
  PROVE  RL!Forget(d)
<1>1. PICK cut \in [Device -> 0 .. MaxOps] :
        store' = [store EXCEPT ![d] = {op \in @ : ~Prunable(d, op, cut)}]
  BY DEF Prune
<1>2. signedLog' = signedLog
  BY DEF Prune, signedLog
<1>3. store \in [Device -> SUBSET Op]
  BY DEF SyncInv, StoreType
<1>4. storedLog' = [e \in Device |-> [a \in Device |-> Shown(store'[e], a)]]
  BY DEF storedLog, Shown
<1>5. storedLog' = [storedLog EXCEPT ![d] = [a \in Device |-> storedLog'[d][a]]]
  BY <1>1, <1>3, <1>4, MappedStore
<1>6. ASSUME NEW a \in Device
      PROVE  storedLog'[d][a] \in IF a = d THEN {storedLog[d][a]}
                                   ELSE RL!Ends(storedLog[d][a])
  <2>1. /\ storedLog'[d][a] = Shown(store'[d], a)
        /\ storedLog[d][a] = Shown(store[d], a)
        /\ store'[d] = {op \in store[d] : ~Prunable(d, op, cut)}
        /\ \A op \in store[d] : op.seq \in Nat
        /\ cut[a] \in Nat
    BY <1>1, <1>3, <1>4, MappedStore, SyncAssumption DEF Op
  <2>2. CASE a = d
    <3>1. {o \in store'[d] : o.author = a} = {o \in store[d] : o.author = a}
      BY <2>1, <2>2 DEF Prunable
    <3>2. Shown(store'[d], a) = Shown(store[d], a)
      BY <3>1 DEF Shown
    <3>3. QED
      BY <2>1, <2>2, <3>2
  <2>3. CASE a # d
    <3>1. storedLog'[d][a] = {h \in storedLog[d][a] : h[1] > cut[a]}
      <4>1. {o \in store'[d] : o.author = a}
              = {o \in {p \in store[d] : p.author = a} : o.seq > cut[a]}
        BY <2>1, <2>3 DEF Prunable
      <4>2. Shown(store'[d], a) = {h \in Shown(store[d], a) : h[1] > cut[a]}
        BY <4>1 DEF Shown
      <4>3. QED
        BY <2>1, <4>2
    <3>a. store[d] \in SUBSET Op
      BY <1>3
    <3>2. \A h \in storedLog[d][a] : h[1] \in SeqsOf(store[d], a)
      BY <3>a, <2>1, ShownFacts
    <3>b. \A n \in SeqsOf(store[d], a) : \E h \in storedLog[d][a] : h[1] = n
      BY <3>a, <2>1, ShownFacts
    <3>3. Stretch(SeqsOf(store[d], a))
      BY DEF SyncInv, StoreInv
    <3>4. PICK lo \in Nat, hi \in Nat : SeqsOf(store[d], a) = lo .. hi
      BY <3>3 DEF Stretch
    <3>5. CASE cut[a] \in lo .. hi
      <4>1. \E h \in storedLog[d][a] : h[1] = cut[a]
        BY <3>4, <3>5, <3>b
      <4>2. QED
        BY <2>3, <3>1, <4>1 DEF RL!Ends
    <3>6. CASE cut[a] < lo
      <4>1. ASSUME NEW h \in storedLog[d][a] PROVE h[1] > cut[a] /\ (lo > 0 => h[1] > 0)
        BY <2>1, <3>2, <3>4, <3>6
      <4>2. lo > 0
        BY <2>1, <3>6
      <4>3. {h \in storedLog[d][a] : h[1] > cut[a]} = {h \in storedLog[d][a] : h[1] > 0}
        BY <4>1, <4>2
      <4>4. QED
        BY <2>3, <3>1, <4>3 DEF RL!Ends
    <3>7. CASE cut[a] > hi
      <4>1. \A h \in storedLog[d][a] : h[1] \in lo .. hi
        BY <3>2, <3>4
      <4>2. {h \in storedLog[d][a] : h[1] > cut[a]} = {}
        BY <2>1, <3>7, <4>1
      <4>3. CASE storedLog[d][a] = {}
        BY <2>3, <3>1, <4>2, <4>3 DEF RL!Ends
      <4>4. CASE storedLog[d][a] # {}
        <5>1. hi \in lo .. hi
          BY <4>1, <4>4
        <5>2. PICK top \in storedLog[d][a] : top[1] = hi
          BY <3>4, <3>b, <5>1
        <5>3. {h \in storedLog[d][a] : h[1] > hi} = {}
          BY <4>1
        <5>4. QED
          BY <2>3, <3>1, <4>2, <5>2, <5>3 DEF RL!Ends
      <4>5. QED
        BY <4>3, <4>4
    <3>8. QED
      BY <2>1, <3>5, <3>6, <3>7
  <2>4. QED
    BY <2>2, <2>3
<1>7. QED
  BY <1>2, <1>5, <1>6 DEF RL!Forget

LEMMA ImplementsStep ==
  SyncInv /\ [Next]_vars => [RL!Next]_(RL!logVars)
<1> SUFFICES ASSUME SyncInv, [Next]_vars PROVE RL!Next \/ UNCHANGED <<signedLog, storedLog>>
  BY DEF RL!logVars
<1>1. ASSUME UNCHANGED <<store, signed>> PROVE UNCHANGED <<signedLog, storedLog>>
  BY <1>1 DEF signedLog, storedLog
<1>2. CASE UNCHANGED vars
  BY <1>1, <1>2 DEF vars
<1>3. ASSUME NEW d \in Device, PublishBytes(d) PROVE RL!Next
  BY <1>3, PublishWrites DEF RL!Next
<1>4. ASSUME NEW d \in Device, PumpPersist(d) PROVE RL!Next
  <2>1. RL!Learn(d, pump[d].author)
    BY <1>4, PersistLearns
  <2>2. pump[d].author \in Device
    BY <1>4 DEF PumpPersist, SyncInv, StoreType, Op
  <2>3. QED
    BY <2>1, <2>2 DEF RL!Next
<1>5. ASSUME NEW d \in Device, Prune(d) PROVE RL!Next
  BY <1>5, PruneForgets DEF RL!Next
<1>6. ASSUME NEW d \in Device,
             \/ GossipReceived(d) \/ \E e \in Device : CatchUpReceived(d, e)
             \/ PumpPersistFails(d) \/ PumpForward(d)
             \/ SdkStep(d) \/ AppStep(d) \/ Crash(d)
      PROVE  UNCHANGED <<store, signed>>
  BY <1>6 DEF GossipReceived, CatchUpReceived, PumpPersistFails, PumpForward, SdkStep,
     AppStep, Crash
<1>7. QED
  BY <1>1, <1>2, <1>3, <1>4, <1>5, <1>6 DEF Next

(***************************************************************************)
(* Whatever is lost, crashes or is pruned, the stores of the devices are   *)
(* replicated logs.                                                        *)
(***************************************************************************)
THEOREM Implementation == Spec => ImplementsReplicatedLog
<1>1. Init => RL!Init
  BY ImplementsInit
<1>2. SyncInv /\ [Next]_vars => [RL!Next]_(RL!logVars)
  BY ImplementsStep
<1>3. QED
  BY <1>1, <1>2, SyncInvariance, PTL DEF Spec, ImplementsReplicatedLog, RL!Spec
-----------------------------------------------------------------------------
(***************************************************************************)
(* What is stored reaches the application: the channels between the pump   *)
(* and the update loop hand every operation on, unless they lag.           *)
(***************************************************************************)
ChannelType ==
  /\ assoc \in [Device -> SUBSET Device]
  /\ inbound \in [Device -> Seq(Op)]
  /\ events \in [Device -> Seq(Op)]
  /\ \A d \in Device : Len(inbound[d]) <= INBOUND_CAP /\ Len(events[d]) <= EVENTS_CAP
  /\ done \in [Device -> SUBSET Op]
  /\ lossy \in [Device -> BOOLEAN]
  /\ spent \subseteq {"crash", "failed write", "prune"}
Handed(d) == done[d] \cup InFlight(d)

LEMMA TypeParts == TypeOK <=> StoreType /\ ChannelType
  BY DEF TypeOK, StoreType, ChannelType

LEMMA HeadElements ==
  ASSUME NEW q \in Seq(Op), q # <<>>
  PROVE  /\ Head(q) \in Op /\ Tail(q) \in Seq(Op) /\ Len(Tail(q)) = Len(q) - 1
         /\ Elements(q) = {Head(q)} \cup Elements(Tail(q))
<1>1. /\ Head(q) = q[1] /\ Head(q) \in Op /\ Tail(q) \in Seq(Op) /\ Len(q) \in Nat /\ Len(q) # 0
      /\ Len(Tail(q)) = Len(q) - 1 /\ \A i \in 1 .. Len(q) - 1 : Tail(q)[i] = q[i + 1]
  BY HeadTailProperties
<1>2. \A i \in 1 .. Len(q) : i = 1 \/ (i - 1 \in 1 .. Len(q) - 1 /\ Tail(q)[i - 1] = q[i])
  BY <1>1
<1>3. Elements(q) \subseteq {Head(q)} \cup Elements(Tail(q))
  BY <1>1, <1>2 DEF Elements
<1>4. {Head(q)} \cup Elements(Tail(q)) \subseteq Elements(q)
  BY <1>1 DEF Elements
<1>5. QED
  BY <1>1, <1>3, <1>4

LEMMA AppendElements ==
  ASSUME NEW q \in Seq(Op), NEW op \in Op
  PROVE  /\ Append(q, op) \in Seq(Op) /\ Len(Append(q, op)) = Len(q) + 1
         /\ Elements(Append(q, op)) = Elements(q) \cup {op}
<1>1. /\ Append(q, op) \in Seq(Op) /\ Len(q) \in Nat /\ Len(Append(q, op)) = Len(q) + 1
      /\ Append(q, op)[Len(q) + 1] = op
      /\ \A i \in 1 .. Len(q) : Append(q, op)[i] = q[i]
  BY AppendProperties
<1>2. QED
  BY <1>1 DEF Elements

\* Nothing that was handed on is taken back, and what is new in a store is
\* the device's own or was on its way.
LEMMA NothingLost ==
  ASSUME NoSilentLoss,
         \A e \in Device : ~lossy'[e] =>
           /\ ~lossy[e]
           /\ Handed(e) \subseteq Handed(e)'
           /\ \A op \in store'[e] : op \in store[e] \/ op.author = e \/ op \in Handed(e)
  PROVE  NoSilentLoss'
  BY DEF NoSilentLoss, Handed

\* Steps that leave the channels alone: a publication, a received operation,
\* a write and a prune.
LEMMA StoreStepsKeep ==
  ASSUME SyncInv, ChannelType, NoSilentLoss, NEW d \in Device,
         \/ PublishBytes(d) \/ GossipReceived(d) \/ \E e \in Device : CatchUpReceived(d, e)
         \/ PumpPersist(d) \/ PumpPersistFails(d) \/ Prune(d)
  PROVE  ChannelType' /\ NoSilentLoss'
<1>1. UNCHANGED <<inbound, events, done, lossy>>
  BY DEF PublishBytes, GossipReceived, CatchUpReceived, PumpPersist, PumpPersistFails, Prune,
         queueVars
<1>2. assoc' \in [Device -> SUBSET Device]
  <2>1. CASE PumpPersist(d)
    <3>1. pump[d].author \in Device
      BY <2>1 DEF PumpPersist, SyncInv, StoreType, Op
    <3>2. QED
      BY <2>1, <3>1 DEF PumpPersist, StoreAndAssociate, ChannelType
  <2>2. CASE PublishBytes(d)
    BY <2>2 DEF PublishBytes, StoreAndAssociate, ChannelType
  <2>3. CASE ~PumpPersist(d) /\ ~PublishBytes(d)
    BY <2>3 DEF GossipReceived, CatchUpReceived, PumpPersistFails, Prune, ChannelType
  <2>4. QED
    BY <2>1, <2>2, <2>3
<1>3. spent' \subseteq {"crash", "failed write", "prune"}
  BY DEF PublishBytes, GossipReceived, CatchUpReceived, PumpPersist, PumpPersistFails, Prune,
         Spend, ChannelType
<1>4. ChannelType'
  BY <1>1, <1>2, <1>3 DEF ChannelType
<1>5. \A e \in Device : pump'[e] = pump[e] \/ pump[e] = NoOp
  BY DEF PublishBytes, GossipReceived, CatchUpReceived, PumpPersist, PumpPersistFails, Prune,
         queueVars, Accepts, SyncInv, StoreType
<1>6. \A e \in Device : Handed(e) \subseteq Handed(e)'
  BY <1>1, <1>5 DEF Handed, InFlight
<1>7. \A e \in Device : \A op \in store'[e] :
        op \in store[e] \/ op.author = e \/ op \in Handed(e)
  <2>1. CASE PumpPersist(d)
    BY <2>1 DEF PumpPersist, StoreAndAssociate, SyncInv, StoreType, Handed, InFlight
  <2>2. CASE PublishBytes(d)
    BY <2>2 DEF PublishBytes, StoreAndAssociate, SyncInv, StoreType
  <2>3. CASE Prune(d)
    BY <2>3 DEF Prune, SyncInv, StoreType
  <2>4. CASE ~PumpPersist(d) /\ ~PublishBytes(d) /\ ~Prune(d)
    BY <2>4 DEF GossipReceived, CatchUpReceived, PumpPersistFails
  <2>5. QED
    BY <2>1, <2>2, <2>3, <2>4
<1>8. QED
  BY <1>1, <1>4, <1>6, <1>7, NothingLost

LEMMA ForwardKeeps ==
  ASSUME SyncInv, ChannelType, NoSilentLoss, NEW d \in Device, PumpForward(d)
  PROVE  ChannelType' /\ NoSilentLoss'
<1>1. /\ pump[d] \in Op /\ inbound[d] \in Seq(Op) /\ Len(inbound[d]) < INBOUND_CAP
      /\ inbound' = [inbound EXCEPT ![d] = Append(inbound[d], pump[d])]
      /\ pump' = [pump EXCEPT ![d] = NoOp]
      /\ UNCHANGED <<store, assoc, events, done, lossy, spent>>
  BY DEF PumpForward, SyncInv, StoreType, PumpInv, ChannelType
<1>2. /\ Append(inbound[d], pump[d]) \in Seq(Op)
      /\ Len(Append(inbound[d], pump[d])) <= INBOUND_CAP
      /\ Elements(Append(inbound[d], pump[d])) = Elements(inbound[d]) \cup {pump[d]}
  BY <1>1, AppendElements, SyncAssumption
<1>3. ChannelType'
  BY <1>1, <1>2 DEF ChannelType
<1>4. \A e \in Device : Handed(e) \subseteq Handed(e)'
  BY <1>1, <1>2 DEF Handed, InFlight, ChannelType, SyncInv, StoreType
<1>5. QED
  BY <1>1, <1>3, <1>4, NothingLost

LEMMA SdkKeeps ==
  ASSUME SyncInv, ChannelType, NoSilentLoss, NEW d \in Device, SdkStep(d)
  PROVE  ChannelType' /\ NoSilentLoss'
<1> PICK op, rest, queued : /\ op = Head(inbound[d]) /\ rest = Tail(inbound[d])
                            /\ queued = Append(events[d], op)
  OBVIOUS
<1>1. /\ inbound[d] \in Seq(Op) /\ inbound[d] # <<>> /\ events[d] \in Seq(Op)
      /\ Len(inbound[d]) <= INBOUND_CAP /\ Len(events[d]) <= EVENTS_CAP
      /\ INBOUND_CAP \in Nat /\ EVENTS_CAP \in Nat
  BY SyncAssumption DEF SdkStep, ChannelType
<1>2. /\ inbound' = [inbound EXCEPT ![d] = rest]
      /\ IF Len(queued) <= EVENTS_CAP
         THEN events' = [events EXCEPT ![d] = queued] /\ lossy' = lossy
         ELSE /\ events' = [events EXCEPT ![d] = Tail(queued)]
              /\ lossy' = [lossy EXCEPT ![d] = TRUE]
      /\ UNCHANGED <<store, assoc, pump, done, spent>>
  BY DEF SdkStep
<1>3. /\ op \in Op /\ rest \in Seq(Op) /\ Len(rest) <= INBOUND_CAP
      /\ Elements(inbound[d]) = {op} \cup Elements(rest)
  <2>1. Len(rest) = Len(inbound[d]) - 1 /\ Len(inbound[d]) \in Nat
    BY <1>1, HeadElements
  <2>2. QED
    BY <1>1, <2>1, HeadElements
<1>4. /\ queued \in Seq(Op) /\ Len(queued) = Len(events[d]) + 1 /\ queued # <<>>
      /\ Elements(queued) = Elements(events[d]) \cup {op}
  BY <1>1, <1>3, AppendElements
<1>5. Tail(queued) \in Seq(Op) /\ Len(Tail(queued)) <= EVENTS_CAP
  BY <1>1, <1>4, HeadElements
<1>6. ChannelType'
  <2>1. /\ inbound' \in [Device -> Seq(Op)]
        /\ \A e \in Device : Len(inbound'[e]) <= INBOUND_CAP
    BY <1>2, <1>3 DEF ChannelType
  <2>2. /\ events' \in [Device -> Seq(Op)] /\ lossy' \in [Device -> BOOLEAN]
        /\ \A e \in Device : Len(events'[e]) <= EVENTS_CAP
    BY <1>2, <1>4, <1>5 DEF ChannelType
  <2>3. QED
    BY <1>2, <2>1, <2>2 DEF ChannelType
<1>7. ASSUME NEW e \in Device, ~lossy'[e] PROVE ~lossy[e] /\ Handed(e) \subseteq Handed(e)'
  <2>1. CASE e = d
    <3>1. events' = [events EXCEPT ![d] = queued] /\ lossy' = lossy
      BY <1>2, <1>7, <2>1 DEF ChannelType
    <3>2. inbound'[d] = rest /\ events'[d] = queued
      BY <1>2, <3>1 DEF ChannelType
    <3>3. Handed(d)' = done[d] \cup ({pump[d]} \ {NoOp}) \cup Elements(rest) \cup Elements(queued)
      <4>1. Elements(inbound[d])' = Elements(rest) /\ Elements(events[d])' = Elements(queued)
        BY <3>2 DEF Elements
      <4>2. (pump[d])' = pump[d] /\ (done[d])' = done[d]
        BY <1>2
      <4>3. QED
        BY <4>1, <4>2, Zenon DEF Handed, InFlight
    <3>4. Handed(d) \subseteq Handed(d)'
      BY <1>3, <1>4, <3>3 DEF Handed, InFlight
    <3>5. QED
      BY <1>7, <2>1, <3>1, <3>4
  <2>2. CASE e # d
    <3>1. inbound'[e] = inbound[e] /\ events'[e] = events[e] /\ lossy'[e] = lossy[e]
      BY <1>2, <2>2 DEF ChannelType
    <3>2. QED
      BY <1>2, <1>7, <3>1 DEF Handed, InFlight
  <2>3. QED
    BY <2>1, <2>2
<1>8. QED
  BY <1>2, <1>6, <1>7, NothingLost

LEMMA AppKeeps ==
  ASSUME SyncInv, ChannelType, NoSilentLoss, NEW d \in Device, AppStep(d)
  PROVE  ChannelType' /\ NoSilentLoss'
<1> PICK op, rest : op = Head(events[d]) /\ rest = Tail(events[d])
  OBVIOUS
<1>1. /\ events[d] \in Seq(Op) /\ events[d] # <<>> /\ Len(events[d]) <= EVENTS_CAP
      /\ EVENTS_CAP \in Nat
  BY SyncAssumption DEF AppStep, ChannelType
<1>2. /\ events' = [events EXCEPT ![d] = rest]
      /\ done' = [done EXCEPT ![d] = @ \cup {op}]
      /\ UNCHANGED <<store, assoc, pump, inbound, lossy, spent>>
  BY DEF AppStep
<1>3. /\ op \in Op /\ rest \in Seq(Op) /\ Len(rest) <= EVENTS_CAP
      /\ Elements(events[d]) = {op} \cup Elements(rest)
  <2>1. Len(rest) = Len(events[d]) - 1 /\ Len(events[d]) \in Nat
    BY <1>1, HeadElements
  <2>2. QED
    BY <1>1, <2>1, HeadElements
<1>4. ChannelType'
  BY <1>2, <1>3 DEF ChannelType
<1>5. \A e \in Device : Handed(e) \subseteq Handed(e)'
  BY <1>2, <1>3 DEF Handed, InFlight, ChannelType
<1>6. QED
  BY <1>2, <1>4, <1>5, NothingLost

\* A crash empties the channels, and is remembered.
LEMMA CrashKeeps ==
  ASSUME SyncInv, ChannelType, NoSilentLoss, NEW d \in Device, Crash(d)
  PROVE  ChannelType' /\ NoSilentLoss'
<1>1. /\ inbound' = [inbound EXCEPT ![d] = <<>>]
      /\ events' = [events EXCEPT ![d] = <<>>]
      /\ pump' = [pump EXCEPT ![d] = NoOp]
      /\ lossy' = [lossy EXCEPT ![d] = TRUE]
      /\ spent' = spent \cup {"crash"}
      /\ UNCHANGED <<store, assoc, done>>
  BY DEF Crash, Spend
<1>2. <<>> \in Seq(Op) /\ Len(<<>>) = 0 /\ 0 <= INBOUND_CAP /\ 0 <= EVENTS_CAP
  BY SyncAssumption
<1>3. ChannelType'
  BY <1>1, <1>2 DEF ChannelType
<1>4. \A e \in Device : ~lossy'[e] =>
        e # d /\ ~lossy[e] /\ Handed(e) \subseteq Handed(e)'
  BY <1>1 DEF ChannelType, SyncInv, StoreType, Handed, InFlight
<1>5. QED
  BY <1>1, <1>3, <1>4, NothingLost

LEMMA LossStep ==
  SyncInv /\ ChannelType /\ NoSilentLoss /\ [Next]_vars => ChannelType' /\ NoSilentLoss'
<1> SUFFICES ASSUME SyncInv, ChannelType, NoSilentLoss, [Next]_vars
             PROVE  ChannelType' /\ NoSilentLoss'
  OBVIOUS
<1>1. CASE UNCHANGED vars
  BY <1>1 DEF vars, queueVars, ChannelType, NoSilentLoss, InFlight
<1>2. CASE Next
  BY <1>2, StoreStepsKeep, ForwardKeeps, SdkKeeps, AppKeeps, CrashKeeps DEF Next
<1>3. QED
  BY <1>1, <1>2

\* What is stored and how long the queues are: types, and the capacities of
\* both channels are kept.
THEOREM SyncTypes == Spec => []TypeOK
<1>1. Init => ChannelType /\ NoSilentLoss
  <2>1. <<>> \in Seq(Op) /\ Len(<<>>) = 0 /\ 0 <= INBOUND_CAP /\ 0 <= EVENTS_CAP
    BY SyncAssumption
  <2>2. QED
    BY <2>1 DEF Init, ChannelType, NoSilentLoss
<1>2. Spec => [](ChannelType /\ NoSilentLoss)
  BY <1>1, LossStep, SyncInvariance, PTL DEF Spec
<1>3. SyncInv /\ ChannelType => TypeOK
  BY TypeParts DEF SyncInv
<1>4. QED
  BY <1>2, <1>3, SyncInvariance, PTL

\* What a device stores of a peer is applied or on its way to the application,
\* for any capacity of the channels, unless it crashed or its events lagged.
THEOREM StoredIsApplied == Spec => []NoSilentLoss
<1>1. Init => ChannelType /\ NoSilentLoss
  <2>1. <<>> \in Seq(Op) /\ Len(<<>>) = 0 /\ 0 <= INBOUND_CAP /\ 0 <= EVENTS_CAP
    BY SyncAssumption
  <2>2. QED
    BY <2>1 DEF Init, ChannelType, NoSilentLoss
<1>2. QED
  BY <1>1, LossStep, SyncInvariance, PTL DEF Spec

=============================================================================
