------------------------------ MODULE SyncLog ------------------------------
(***************************************************************************)
(* How operations of one topic travel: an author signs and stores them in  *)
(* sync_log.db, LogSync gossips them or hands them over in catch-up        *)
(* sessions, the receiver's pump persists and forwards them, the SDK loop  *)
(* materialises them into StateEvents, and the application applies those   *)
(* to its own database (sync/src/lib.rs, sdk/src/lib.rs, pipeline, the     *)
(* event bridge of app.rs).                                                *)
(*                                                                         *)
(* LogSync and the p2panda store are libraries: they are modelled by what  *)
(* this code relies on.  A session hands over the operations of the logs   *)
(* its server has associated with the topic, in log order, beyond the tip  *)
(* the client has stored; gossip may lose an operation.                    *)
(***************************************************************************)
EXTENDS Naturals, Sequences, FiniteSets

CONSTANTS
  Device,       \* the devices on the topic; each is one author
  Author,       \* the devices that publish
  Server,       \* the devices LogSync keeps reaching for catch-up
  NoOp,         \* the pump holds no operation
  INBOUND_CAP,  \* capacity of the inbound mpsc channel
  EVENTS_CAP,   \* capacity of the StateEvent broadcast channel
  MaxOps,       \* bound: operations an author publishes
  MaxFaults     \* bound: restarts, failed writes of a received operation and
                \* calls of prune, one of each kind at most

\* uid tells apart two operations an author signed, whatever their seq.
Op == [author : Device, seq : Nat, uid : Nat]

ASSUME SyncAssumption ==
  /\ Author \subseteq Device
  /\ Server \subseteq Device
  /\ NoOp \notin Op
  /\ INBOUND_CAP \in Nat \ {0}
  /\ EVENTS_CAP \in Nat \ {0}
  /\ MaxOps \in Nat
  /\ MaxFaults \in Nat

VARIABLES
  store,     \* operations_v1 of the device
  assoc,     \* topics_v1: authors whose log is associated with the topic
  gossip,    \* live operations on their way to a device
  pump,      \* the received operation the forwarder task is working on
  persisted, \* the task has tried to write it to the store
  inbound,   \* SyncEvent channel, oldest first
  events,    \* StateEvents the application has not taken yet, oldest first
  done,      \* operations applied to the application's database
  signed,    \* history: how many operations the device has signed
  lossy,     \* history: the device crashed or its event stream lagged
  spent      \* the kinds of fault that have happened

queueVars == <<pump, persisted, inbound, events>>
vars == <<store, assoc, gossip, queueVars, done, signed, lossy, spent>>

Init ==
  /\ store = [d \in Device |-> {}]
  /\ assoc = [d \in Device |-> {}]
  /\ gossip = {}
  /\ pump = [d \in Device |-> NoOp]
  /\ persisted = [d \in Device |-> FALSE]
  /\ inbound = [d \in Device |-> <<>>]
  /\ events = [d \in Device |-> <<>>]
  /\ done = [d \in Device |-> {}]
  /\ signed = [d \in Device |-> 0]
  /\ lossy = [d \in Device |-> FALSE]
  /\ spent = {}

Spend(fault) ==
  /\ fault \notin spent
  /\ Cardinality(spent) < MaxFaults
  /\ spent' = spent \cup {fault}

\* get_latest_entry: the highest sequence number stored of a's log, 0 if none.
SeqsOf(ops, a) == {op.seq : op \in {o \in ops : o.author = a}}
Tip(ops, a) ==
  IF SeqsOf(ops, a) = {} THEN 0
  ELSE CHOOSE n \in SeqsOf(ops, a) : \A m \in SeqsOf(ops, a) : m <= n

\* Mutant of StoreAndAssociate: only the device's own log is associated.
StoreAssociatingOwn(d, op) ==
  /\ store' = [store EXCEPT ![d] = @ \cup {op}]
  /\ assoc' = IF op.author = d THEN [assoc EXCEPT ![d] = @ \cup {d}] ELSE assoc
\* store_and_associate: both rows in one transaction.
StoreAndAssociate(d, op) ==
  /\ store' = [store EXCEPT ![d] = @ \cup {op}]
  /\ assoc' = [assoc EXCEPT ![d] = @ \cup {op.author}]

(***************************************************************************)
(* publish_bytes: sign with the next sequence number of the stored log,    *)
(* store, then gossip.  Gossip reaches any subset of the other devices;    *)
(* none when the process dies before the live publish.                     *)
(***************************************************************************)
PublishBytes(d) ==
  LET op == [author |-> d, seq |-> Tip(store[d], d) + 1, uid |-> signed[d] + 1]
  IN  /\ d \in Author
      /\ signed[d] < MaxOps
      /\ signed' = [signed EXCEPT ![d] = @ + 1]
      /\ StoreAndAssociate(d, op)
      /\ \E reached \in SUBSET (Device \ {d}) :
           gossip' = gossip \cup {<<e, op>> : e \in reached}
      /\ UNCHANGED <<queueVars, done, lossy, spent>>

\* LogSync hands op to d's subscription: the next one of its log.
Accepts(d, op) ==
  /\ pump[d] = NoOp
  /\ op.seq = Tip(store[d], op.author) + 1

GossipReceived(d) ==
  /\ \E g \in gossip :
       /\ g[1] = d
       /\ Accepts(d, g[2])
       /\ pump' = [pump EXCEPT ![d] = g[2]]
       /\ gossip' = gossip \ {g}
  /\ UNCHANGED <<store, assoc, persisted, inbound, events, done, signed, lossy,
                 spent>>

\* A catch-up session with e, which serves the logs associated with the topic.
CatchUpReceived(d, e) ==
  /\ d # e
  /\ \E op \in store[e] :
       /\ op.author # d
       /\ op.author \in assoc[e]
       /\ Accepts(d, op)
       /\ pump' = [pump EXCEPT ![d] = op]
  /\ UNCHANGED <<store, assoc, gossip, persisted, inbound, events, done, signed,
                 lossy, spent>>

(***************************************************************************)
(* The forwarder task of open_topic persists the operation, warns when     *)
(* that fails, and forwards it in either case.                             *)
(***************************************************************************)
PumpPersist(d) ==
  /\ pump[d] # NoOp
  /\ ~persisted[d]
  /\ persisted' = [persisted EXCEPT ![d] = TRUE]
  /\ StoreAndAssociate(d, pump[d])
  /\ UNCHANGED <<gossip, pump, inbound, events, done, signed, lossy, spent>>

PumpPersistFails(d) ==
  /\ pump[d] # NoOp
  /\ ~persisted[d]
  /\ Spend("failed write")
  /\ persisted' = [persisted EXCEPT ![d] = TRUE]
  /\ UNCHANGED <<store, assoc, gossip, pump, inbound, events, done, signed,
                 lossy>>

\* Mutants of PumpForward: it ignores the capacity of the channel; it drops the
\* event when the channel is full (try_send).
PumpForwardUnbounded(d) ==
  /\ persisted[d]
  /\ inbound' = [inbound EXCEPT ![d] = Append(@, pump[d])]
  /\ pump' = [pump EXCEPT ![d] = NoOp]
  /\ persisted' = [persisted EXCEPT ![d] = FALSE]
  /\ UNCHANGED <<store, assoc, gossip, events, done, signed, lossy, spent>>
PumpForwardDropping(d) ==
  /\ persisted[d]
  /\ inbound' = IF Len(inbound[d]) < INBOUND_CAP
                THEN [inbound EXCEPT ![d] = Append(@, pump[d])] ELSE inbound
  /\ pump' = [pump EXCEPT ![d] = NoOp]
  /\ persisted' = [persisted EXCEPT ![d] = FALSE]
  /\ UNCHANGED <<store, assoc, gossip, events, done, signed, lossy, spent>>
PumpForward(d) ==
  /\ persisted[d]
  /\ Len(inbound[d]) < INBOUND_CAP
  /\ inbound' = [inbound EXCEPT ![d] = Append(@, pump[d])]
  /\ pump' = [pump EXCEPT ![d] = NoOp]
  /\ persisted' = [persisted EXCEPT ![d] = FALSE]
  /\ UNCHANGED <<store, assoc, gossip, events, done, signed, lossy, spent>>

(***************************************************************************)
(* The SDK loop runs the pipeline on one event and broadcasts the result.  *)
(* A full broadcast channel overwrites its oldest event: the receiver will *)
(* see Lagged, and the application only logs it.                           *)
(***************************************************************************)
SdkStep(d) ==
  /\ inbound[d] # <<>>
  /\ inbound' = [inbound EXCEPT ![d] = Tail(@)]
  /\ LET queued == Append(events[d], Head(inbound[d])) IN
       IF Len(queued) <= EVENTS_CAP
       THEN /\ events' = [events EXCEPT ![d] = queued]
            /\ UNCHANGED lossy
       ELSE /\ events' = [events EXCEPT ![d] = Tail(queued)]
            /\ lossy' = [lossy EXCEPT ![d] = TRUE]
  /\ UNCHANGED <<store, assoc, gossip, pump, persisted, done, signed, spent>>

\* AppMsg::SyncStateEvent: the handler writes the application's database.
AppStep(d) ==
  /\ events[d] # <<>>
  /\ events' = [events EXCEPT ![d] = Tail(@)]
  /\ done' = [done EXCEPT ![d] = @ \cup {Head(events[d])}]
  /\ UNCHANGED <<store, assoc, gossip, pump, persisted, inbound, signed, lossy,
                 spent>>

\* The process dies and starts again: only the two databases survive.
Crash(d) ==
  /\ Spend("crash")
  /\ pump' = [pump EXCEPT ![d] = NoOp]
  /\ persisted' = [persisted EXCEPT ![d] = FALSE]
  /\ inbound' = [inbound EXCEPT ![d] = <<>>]
  /\ events' = [events EXCEPT ![d] = <<>>]
  /\ gossip' = {g \in gossip : g[1] # d}
  /\ lossy' = [lossy EXCEPT ![d] = TRUE]
  /\ UNCHANGED <<store, assoc, done, signed>>

(***************************************************************************)
(* prune_older_than: one DELETE of the operations of other authors that    *)
(* are older than the cutoff, a prefix of each log; associations stay.     *)
(***************************************************************************)
\* Mutant of Prunable: the device's own log is pruned like the others.
PrunableOwnToo(d, op, cut) == op.seq <= cut[op.author]
Prunable(d, op, cut) == op.author # d /\ op.seq <= cut[op.author]
Prune(d) ==
  /\ Spend("prune")
  /\ \E cut \in [Device -> 0 .. MaxOps] :
       store' = [store EXCEPT ![d] = {op \in @ : ~Prunable(d, op, cut)}]
  /\ UNCHANGED <<assoc, gossip, queueVars, done, signed, lossy>>

Next ==
  \E d \in Device :
    \/ PublishBytes(d)
    \/ GossipReceived(d)
    \/ \E e \in Device : CatchUpReceived(d, e)
    \/ PumpPersist(d)
    \/ PumpPersistFails(d)
    \/ PumpForward(d)
    \/ SdkStep(d)
    \/ AppStep(d)
    \/ Crash(d)
    \/ Prune(d)

(***************************************************************************)
(* Fairness: the forwarder task, the SDK loop and the update loop keep     *)
(* running, and LogSync keeps opening sessions with the devices in Server; *)
(* the others may stay offline.                                            *)
(***************************************************************************)
Fairness ==
  \A d \in Device :
    /\ \A e \in Server : SF_vars(CatchUpReceived(d, e))
    /\ WF_vars(PumpPersist(d))
    /\ WF_vars(PumpForward(d))
    /\ WF_vars(SdkStep(d))
    /\ WF_vars(AppStep(d))

Spec == Init /\ [][Next]_vars /\ Fairness

-----------------------------------------------------------------------------
TypeOK ==
  /\ store \in [Device -> SUBSET Op]
  /\ assoc \in [Device -> SUBSET Device]
  /\ gossip \subseteq Device \X Op
  /\ pump \in [Device -> Op \cup {NoOp}]
  /\ persisted \in [Device -> BOOLEAN]
  /\ inbound \in [Device -> Seq(Op)]
  /\ events \in [Device -> Seq(Op)]
  /\ \A d \in Device : /\ Len(inbound[d]) <= INBOUND_CAP
                       /\ Len(events[d]) <= EVENTS_CAP
  /\ done \in [Device -> SUBSET Op]
  /\ signed \in [Device -> Nat]
  /\ lossy \in [Device -> BOOLEAN]
  /\ spent \subseteq {"crash", "failed write", "prune"}

Elements(s) == {s[i] : i \in 1 .. Len(s)}
InFlight(d) ==
  ({pump[d]} \ {NoOp}) \cup Elements(inbound[d]) \cup Elements(events[d])

(***************************************************************************)
(* Without a crash or a lagging event stream, no stored operation of a     *)
(* peer escapes the application: it is applied or on its way there.        *)
(***************************************************************************)
NoSilentLoss ==
  \A d \in Device :
    ~lossy[d] =>
      \A op \in store[d] : op.author = d \/ op \in done[d] \cup InFlight(d)

(***************************************************************************)
(* The stores implement replicated logs: whatever is pruned, lost or       *)
(* crashed, publish_bytes never gives two operations of one author the     *)
(* same number, every store holds a stretch without holes of what the      *)
(* author signed, one that grows at its end only, and a device's own       *)
(* operations never leave it.                                              *)
(***************************************************************************)
signedLog == [a \in Device |-> [n \in 1 .. signed[a] |-> n]]
storedLog ==
  [d \in Device |-> [a \in Device |->
     {<<op.seq, op.uid>> : op \in {o \in store[d] : o.author = a}}]]
RL == INSTANCE ReplicatedLog
        WITH log <- signedLog, copy <- storedLog, Entry <- 1 .. MaxOps
ImplementsReplicatedLog == RL!Spec

(***************************************************************************)
(* Whatever a device that stays reachable holds gets to the store of every *)
(* device, be it the author or a relay whose author never comes back,      *)
(* although gossip loses it and devices crash and fail to write it; only   *)
(* pruning may take it away first.                                         *)
(***************************************************************************)
OpsReplicate ==
  \A s \in Server, a \in Author, d \in Device : \A n \in 1 .. MaxOps :
    n \in SeqsOf(store[s], a) ~> n \in SeqsOf(store[d], a) \/ "prune" \in spent
=============================================================================
