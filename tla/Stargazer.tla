---------------------------- MODULE Stargazer ----------------------------
(* The peer list of zodia: how two devices get from a gossip sighting to a  *)
(* mutual exchange of charts, over direct channels, with the two files that *)
(* survive a restart (app/src/app.rs, app/src/stargazer_list.rs,            *)
(* net/src/network.rs, net/src/channel.rs).                                 *)
(*                                                                          *)
(* The application handles one message at a time and awaits inside a        *)
(* handler, so a handler that waits for a peer blocks every other message   *)
(* of its device (busy); spawned tasks (dialling, exchanging) run beside it.*)
(* The order in which tasks, timers and the network deliver messages is not *)
(* determined by the code: inbox is a set.                                  *)
EXTENDS Naturals, FiniteSets

CONSTANTS Device,        \* the devices (one user each)
          Proposer,      \* the devices whose user presses "Exchange charts"
          MaxChannels,   \* bound: channels ever opened
          Faults,        \* bound: what may happen once ("drop" a channel, "fail"
                         \* to connect, "crash" and restart, "remove" a peer)
          MaxFaults,     \* bound: how many of them in one behaviour
          None           \* no channel, no work

ASSUME StargazerAssumption ==
  /\ IsFiniteSet(Device) /\ Proposer \subseteq Device
  /\ MaxChannels \in Nat /\ MaxFaults \in Nat
  /\ Faults \subseteq {"drop", "fail", "crash", "remove"}
  /\ None \notin Device \cup Nat

VARIABLES
  st,          \* st[d][p]: state of the stargazer p at d, "none" when unknown
  held,        \* held[d][p]: the channel of an IncomingPending stargazer
  conns,       \* conns[d][p]: connected_channels
  listening,   \* listening[d]: channels read by a listener task
  pendingTsv, peersTsv,   \* the two files of d
  seen,        \* seen[d]: peers whose announce was already reported
  inbox,       \* inbox[d]: messages and events not yet handled
  dialing,     \* dialing[d]: connection attempts under way
  exchanging,  \* exchanging[d]: tasks inside exchange_consent
  busy,        \* busy[d]: what the blocked handler of d still has to do
  chans,       \* the channels opened so far
  agreed,      \* agreed[d]: peers d's user has proposed to or accepted, ever
  removed,     \* removed[d]: peers d's user removed, ever
  spent        \* the faults that have happened

mem   == <<st, held, conns, listening, seen, dialing, exchanging, busy>>
files == <<pendingTsv, peersTsv>>
vars  == <<st, held, conns, listening, pendingTsv, peersTsv, seen, inbox,
           dialing, exchanging, busy, chans, agreed, removed, spent>>

Peers(d) == Device \ {d}
States == {"none", "Discovered", "OutgoingPending", "IncomingPending", "Connected"}
Ids == DOMAIN chans
Ends(c) == {chans[c].from, chans[c].to}
Far(d, c) == CHOOSE p \in Ends(c) : p # d

Msg(kind, p, c, isNew) == [kind |-> kind, p |-> p, c |-> c, isNew |-> isNew]
Reconnect(p) == Msg("Reconnect", p, None, FALSE)

(* save_pending and save_stargazers rewrite their file from the states s.   *)
With(s, what) == {q \in DOMAIN s : s[q] = what}
SavePending(d, s) ==
  pendingTsv' = [pendingTsv EXCEPT ![d] = With(s, "OutgoingPending")]
(* Mutant of SaveStargazers: written before the state changes.              *)
SaveStargazersEarly(d, s) ==
  peersTsv' = [peersTsv EXCEPT ![d] = With(st[d], "Connected")]
SaveStargazers(d, s) ==
  peersTsv' = [peersTsv EXCEPT ![d] = With(s, "Connected")]
Spend(fault) ==
  /\ fault \in Faults \ spent /\ Cardinality(spent) < MaxFaults
  /\ spent' = spent \cup {fault}

(* Dropping the last handle of a channel closes it for both ends.           *)
Closed(cs) == [c \in Ids |-> [chans[c] EXCEPT !.open = @ /\ c \notin cs]]
HeldBy(d, p) == IF held[d][p] = None THEN {} ELSE {held[d][p]}

(* exchange_consent, first half: our blob goes out if the channel is open.  *)
SendConsent(chs, d, c) ==
  IF chs[c].open THEN [chs EXCEPT ![c].consent = @ \cup {d}] ELSE chs
GotConsent(d, c) == Far(d, c) \in chans[c].consent
(* Mutant of SendInterps: the answer waits for the peer's interpretations.  *)
SendInterpsAfterTheirs(chs, d, c) ==
  IF chs[c].open /\ Far(d, c) \in chs[c].interps
  THEN [chs EXCEPT ![c].interps = @ \cup {d}] ELSE chs
(* do_interp_sync, first half: our interpretations go out.                  *)
SendInterps(chs, d, c) ==
  IF chs[c].open THEN [chs EXCEPT ![c].interps = @ \cup {d}] ELSE chs
InterpsAnswered(d, c) == Far(d, c) \in chans[c].interps \/ ~chans[c].open

Free(d) == busy[d] = None
Work(kind, p, c, isNew) == Msg(kind, p, c, isNew)

(* A device that has just started from its files.                           *)
Loaded(pend, conn) ==
  [p \in Device |-> IF p \in conn THEN "Connected"
                    ELSE IF p \in pend THEN "OutgoingPending" ELSE "none"]

Init ==
  /\ st = [d \in Device |-> Loaded({}, {})]
  /\ held = [d \in Device |-> [p \in Device |-> None]]
  /\ conns = held
  /\ listening = [d \in Device |-> {}]
  /\ pendingTsv = listening /\ peersTsv = listening /\ seen = listening
  /\ inbox = listening /\ dialing = listening /\ exchanging = listening
  /\ busy = [d \in Device |-> None]
  /\ chans = <<>>
  /\ agreed = listening /\ removed = listening
  /\ spent = {}

----------------------------------------------------------------------------
(* The user.                                                                *)

(* The network tab lists Discovered peers; the click can be handled after   *)
(* the same peer has become IncomingPending, whose channel is then dropped. *)
ProposeConsent(d, p) ==
  /\ Free(d) /\ d \in Proposer
  /\ st[d][p] \in {"Discovered", "IncomingPending"}
  /\ st' = [st EXCEPT ![d][p] = "OutgoingPending"]
  /\ held' = [held EXCEPT ![d][p] = None]
  /\ chans' = Closed(HeldBy(d, p))
  /\ SavePending(d, st'[d])
  /\ inbox' = [inbox EXCEPT ![d] = @ \cup {Reconnect(p)}]
  /\ agreed' = [agreed EXCEPT ![d] = @ \cup {p}]
  /\ UNCHANGED <<conns, listening, peersTsv, seen, dialing, exchanging, busy, removed,
                 spent>>

(* Only the file of the removed peer's state is written; a listener keeps   *)
(* its own handle of a connected channel, so that channel stays open.       *)
RemoveStargazer(d, p) ==
  /\ Free(d) /\ Spend("remove")
  /\ st[d][p] \in {"OutgoingPending", "IncomingPending", "Connected"}
  /\ st' = [st EXCEPT ![d][p] = "none"]
  /\ held' = [held EXCEPT ![d][p] = None]
  /\ chans' = Closed(HeldBy(d, p))
  /\ IF st[d][p] = "OutgoingPending" THEN SavePending(d, st'[d])
                                     ELSE UNCHANGED pendingTsv
  /\ IF st[d][p] = "Connected"
     THEN /\ conns' = [conns EXCEPT ![d][p] = None]
          /\ SaveStargazers(d, st'[d])
     ELSE UNCHANGED <<conns, peersTsv>>
  /\ removed' = [removed EXCEPT ![d] = @ \cup {p}]
  /\ UNCHANGED <<listening, seen, inbox, dialing, exchanging, busy, agreed>>

(* AcceptConsent takes any waiting request and exchanges blobs inside the   *)
(* handler; RejectConsent drops the request's channel.                      *)
AcceptConsent(d, p) ==
  /\ Free(d) /\ st[d][p] = "IncomingPending"
  /\ chans' = SendConsent(chans, d, held[d][p])
  /\ busy' = [busy EXCEPT ![d] = Work("consent", p, held[d][p], FALSE)]
  /\ agreed' = [agreed EXCEPT ![d] = @ \cup {p}]
  /\ UNCHANGED <<st, held, conns, listening, files, seen, inbox, dialing,
                 exchanging, removed, spent>>

(* Mutant of RejectConsent: the declined channel is kept.                   *)
RejectKeepingChannel(d, p) ==
  /\ Free(d) /\ st[d][p] = "IncomingPending"
  /\ st' = [st EXCEPT ![d][p] = "Discovered"]
  /\ UNCHANGED <<held, chans, conns, listening, files, seen, inbox, dialing,
                 exchanging, busy, agreed, removed, spent>>
RejectConsent(d, p) ==
  /\ Free(d) /\ st[d][p] = "IncomingPending"
  /\ st' = [st EXCEPT ![d][p] = "Discovered"]
  /\ held' = [held EXCEPT ![d][p] = None]
  /\ chans' = Closed(HeldBy(d, p))
  /\ UNCHANGED <<conns, listening, files, seen, inbox, dialing, exchanging,
                 busy, agreed, removed, spent>>

----------------------------------------------------------------------------
(* The tasks.                                                               *)

(* spawn_gossip_listener: p re-announces for ever, but an announce is       *)
(* reported to the application once per process.                            *)
HearAnnounce(d, p) ==
  /\ p \notin seen[d]
  /\ seen' = [seen EXCEPT ![d] = @ \cup {p}]
  /\ inbox' = [inbox EXCEPT ![d] = @ \cup {Msg("PeerDiscovered", p, None, FALSE)}]
  /\ UNCHANGED <<st, held, conns, listening, files, dialing, exchanging, busy,
                 chans, agreed, removed, spent>>

(* connect_peer succeeds: a channel exists, p's handler is told, and the    *)
(* task goes on to exchange_consent.                                        *)
Dial(d, t) ==
  LET c == Cardinality(Ids) + 1
      ch == [from |-> d, to |-> t.p, open |-> TRUE,
             consent |-> {d}, interps |-> {}]
  IN /\ t \in dialing[d] /\ c <= MaxChannels
     /\ dialing' = [dialing EXCEPT ![d] = @ \ {t}]
     /\ chans' = [i \in 1 .. c |-> IF i = c THEN ch ELSE chans[i]]
     /\ exchanging' = [exchanging EXCEPT ![d] = @ \cup {Work("exchange", t.p, c, t.isNew)}]
     /\ inbox' = [inbox EXCEPT ![t.p] = @ \cup {Msg("IncomingChannel", d, c, FALSE)}]
     /\ UNCHANGED <<st, held, conns, listening, files, seen, busy, agreed,
                    removed, spent>>

(* All three tries of connect_peer fail: a warning, and nothing else.       *)
DialFails(d, t) ==
  /\ t \in dialing[d] /\ Spend("fail")
  /\ dialing' = [dialing EXCEPT ![d] = @ \ {t}]
  /\ UNCHANGED <<st, held, conns, listening, files, seen, inbox, exchanging,
                 busy, chans, agreed, removed>>

(* exchange_consent, second half, in a spawned task.                        *)
ExchangeDone(d, t) ==
  /\ t \in exchanging[d] /\ GotConsent(d, t.c)
  /\ exchanging' = [exchanging EXCEPT ![d] = @ \ {t}]
  /\ inbox' = [inbox EXCEPT ![d] = @ \cup {Msg("ConnectionComplete", t.p, t.c, t.isNew)}]
  /\ UNCHANGED <<st, held, conns, listening, files, seen, dialing, busy, chans,
                 agreed, removed, spent>>

ExchangeFails(d, t) ==
  /\ t \in exchanging[d] /\ ~chans[t.c].open
  /\ exchanging' = [exchanging EXCEPT ![d] = @ \ {t}]
  /\ UNCHANGED <<st, held, conns, listening, files, seen, inbox, dialing, busy,
                 chans, agreed, removed, spent>>

(* spawn_channel_listener: a read error ends the task and is reported by    *)
(* peer, not by channel.                                                    *)
ListenerEnds(d, c) ==
  /\ c \in listening[d] /\ ~chans[c].open
  /\ listening' = [listening EXCEPT ![d] = @ \ {c}]
  /\ inbox' = [inbox EXCEPT ![d] = @ \cup {Msg("PeerChannelClosed", Far(d, c), None, FALSE)}]
  /\ UNCHANGED <<st, held, conns, files, seen, dialing, exchanging, busy, chans,
                 agreed, removed, spent>>

----------------------------------------------------------------------------
(* The handlers.                                                            *)

Receive(d, m) ==
  /\ Free(d) /\ m \in inbox[d]

WantsRetry(d, p) ==
  \/ st[d][p] = "OutgoingPending"
  \/ st[d][p] = "Connected" /\ conns[d][p] = None

PeerDiscovered(d, m) ==
  /\ Receive(d, m) /\ m.kind = "PeerDiscovered"
  /\ st' = IF st[d][m.p] = "none" THEN [st EXCEPT ![d][m.p] = "Discovered"] ELSE st
  /\ inbox' = [inbox EXCEPT ![d] =
                 (@ \ {m}) \cup (IF WantsRetry(d, m.p) THEN {Reconnect(m.p)} ELSE {})]
  /\ UNCHANGED <<held, conns, listening, files, seen, dialing, exchanging, busy,
                 chans, agreed, removed, spent>>

HandleReconnect(d, m) ==
  /\ Receive(d, m) /\ m.kind = "Reconnect"
  /\ inbox' = [inbox EXCEPT ![d] = @ \ {m}]
  /\ dialing' = IF WantsRetry(d, m.p)
                THEN [dialing EXCEPT ![d] = @ \cup
                        {Work("dial", m.p, None, st[d][m.p] = "OutgoingPending")}]
                ELSE dialing
  /\ UNCHANGED <<st, held, conns, listening, files, seen, exchanging, busy,
                 chans, agreed, removed, spent>>

(* Mutant of AutoAccepted: every known peer is answered.                    *)
AutoAcceptedIfKnown(d, p) == st[d][p] # "none"
(* A peer we are seeking or already know is answered without asking.        *)
AutoAccepted(d, p) == st[d][p] \in {"OutgoingPending", "Connected"}

IncomingChannel(d, m) ==
  /\ Receive(d, m) /\ m.kind = "IncomingChannel"
  /\ inbox' = [inbox EXCEPT ![d] = @ \ {m}]
  /\ IF AutoAccepted(d, m.p)
     THEN /\ chans' = SendConsent(chans, d, m.c)
          /\ exchanging' = [exchanging EXCEPT ![d] = @ \cup
                {Work("exchange", m.p, m.c, st[d][m.p] = "OutgoingPending")}]
          /\ UNCHANGED <<st, held>>
     ELSE /\ chans' = Closed(HeldBy(d, m.p))
          /\ st' = [st EXCEPT ![d][m.p] = "IncomingPending"]
          /\ held' = [held EXCEPT ![d][m.p] = m.c]
          /\ UNCHANGED exchanging
  /\ UNCHANGED <<conns, listening, files, seen, dialing, busy, agreed, removed, spent>>

PeerChannelClosed(d, m) ==
  /\ Receive(d, m) /\ m.kind = "PeerChannelClosed"
  /\ conns' = [conns EXCEPT ![d][m.p] = None]
  /\ inbox' = [inbox EXCEPT ![d] =
                 (@ \ {m}) \cup (IF st[d][m.p] = "Connected" THEN {Reconnect(m.p)} ELSE {})]
  /\ UNCHANGED <<st, held, listening, files, seen, dialing, exchanging, busy,
                 chans, agreed, removed, spent>>

(* The handler sends our interpretations and waits for the peer's, without  *)
(* a timeout, before it records anything.                                   *)
ConnectionComplete(d, m) ==
  /\ Receive(d, m) /\ m.kind = "ConnectionComplete"
  /\ inbox' = [inbox EXCEPT ![d] = @ \ {m}]
  /\ chans' = SendInterps(chans, d, m.c)
  /\ busy' = [busy EXCEPT ![d] = Work("complete", m.p, m.c, m.isNew)]
  /\ UNCHANGED <<st, held, conns, listening, files, seen, dialing, exchanging,
                 agreed, removed, spent>>

Install(d, w) ==
  /\ listening' = [listening EXCEPT ![d] = @ \cup {w.c}]
  /\ conns' = [conns EXCEPT ![d][w.p] = w.c]

(* Second half of ConnectionComplete: the files are written for a first     *)
(* connection only.                                                         *)
FinishComplete(d) ==
  LET w == busy[d] IN
  /\ w # None /\ w.kind = "complete" /\ InterpsAnswered(d, w.c)
  /\ st' = [st EXCEPT ![d][w.p] = "Connected"]
  /\ held' = [held EXCEPT ![d][w.p] = None]
  /\ chans' = Closed(HeldBy(d, w.p))
  /\ IF w.isNew
     THEN SaveStargazers(d, st'[d]) /\ SavePending(d, st'[d])
     ELSE UNCHANGED files
  /\ Install(d, w)
  /\ busy' = [busy EXCEPT ![d] = None]
  /\ UNCHANGED <<seen, inbox, dialing, exchanging, agreed, removed, spent>>

(* AcceptConsent after its exchange: with the peer's blob, it goes on to    *)
(* exchange interpretations; without it, the peer is only Discovered, but   *)
(* the dead channel is installed all the same.                              *)
AcceptExchanged(d) ==
  LET w == busy[d] IN
  /\ w # None /\ w.kind = "consent" /\ GotConsent(d, w.c)
  /\ chans' = SendInterps(chans, d, w.c)
  /\ busy' = [busy EXCEPT ![d].kind = "accept"]
  /\ UNCHANGED <<st, held, conns, listening, files, seen, inbox, dialing,
                 exchanging, agreed, removed, spent>>

AcceptFails(d) ==
  LET w == busy[d] IN
  /\ w # None /\ w.kind = "consent" /\ ~chans[w.c].open
  /\ st' = [st EXCEPT ![d][w.p] = "Discovered"]
  /\ held' = [held EXCEPT ![d][w.p] = None]
  /\ Install(d, w)
  /\ busy' = [busy EXCEPT ![d] = None]
  /\ UNCHANGED <<files, seen, inbox, dialing, exchanging, chans, agreed,
                 removed, spent>>

FinishAccept(d) ==
  LET w == busy[d] IN
  /\ w # None /\ w.kind = "accept" /\ InterpsAnswered(d, w.c)
  /\ st' = [st EXCEPT ![d][w.p] = "Connected"]
  /\ held' = [held EXCEPT ![d][w.p] = None]
  /\ SaveStargazers(d, st'[d])
  /\ Install(d, w)
  /\ busy' = [busy EXCEPT ![d] = None]
  /\ UNCHANGED <<pendingTsv, seen, inbox, dialing, exchanging, chans, agreed,
                 removed, spent>>

----------------------------------------------------------------------------
(* Failures.                                                                *)

DropChannel(c) ==
  /\ chans[c].open /\ Spend("drop")
  /\ chans' = Closed({c})
  /\ UNCHANGED <<mem, files, inbox, agreed, removed>>

(* The process ends and starts again from its files; NetworkReady queues a  *)
(* Reconnect for every peer it loaded.                                      *)
Restart(d) ==
  /\ Spend("crash")
  /\ st' = [st EXCEPT ![d] = Loaded(pendingTsv[d], peersTsv[d])]
  /\ held' = [held EXCEPT ![d] = [p \in Device |-> None]]
  /\ conns' = [conns EXCEPT ![d] = [p \in Device |-> None]]
  /\ listening' = [listening EXCEPT ![d] = {}]
  /\ seen' = [seen EXCEPT ![d] = {}]
  /\ dialing' = [dialing EXCEPT ![d] = {}]
  /\ exchanging' = [exchanging EXCEPT ![d] = {}]
  /\ busy' = [busy EXCEPT ![d] = None]
  /\ inbox' = [inbox EXCEPT ![d] = {Reconnect(p) : p \in pendingTsv[d] \cup peersTsv[d]}]
  /\ chans' = Closed({c \in Ids : d \in Ends(c)})
  /\ UNCHANGED <<files, agreed, removed>>

----------------------------------------------------------------------------
Task(d) ==
  \/ \E p \in Peers(d) : HearAnnounce(d, p)
  \/ \E t \in dialing[d] : Dial(d, t) \/ DialFails(d, t)
  \/ \E t \in exchanging[d] : ExchangeDone(d, t) \/ ExchangeFails(d, t)
  \/ \E c \in listening[d] : ListenerEnds(d, c)

Handle(d) ==
  \/ \E m \in inbox[d] :
       \/ PeerDiscovered(d, m) \/ HandleReconnect(d, m) \/ IncomingChannel(d, m)
       \/ PeerChannelClosed(d, m) \/ ConnectionComplete(d, m)
  \/ FinishComplete(d) \/ AcceptExchanged(d) \/ AcceptFails(d) \/ FinishAccept(d)

User(d) ==
  \E p \in Peers(d) : \/ ProposeConsent(d, p) \/ RemoveStargazer(d, p)
                      \/ AcceptConsent(d, p) \/ RejectConsent(d, p)

Next ==
  \/ \E d \in Device : Task(d) \/ Handle(d) \/ User(d) \/ Restart(d)
  \/ \E c \in Ids : DropChannel(c)

(* The runtime polls every task and the component's message loop; users do  *)
(* what they like.                                                          *)
Fairness == \A d \in Device : WF_vars(Task(d)) /\ WF_vars(Handle(d))

Spec == Init /\ [][Next]_vars /\ Fairness

----------------------------------------------------------------------------
(* Properties.                                                              *)

ChanIds == 1 .. MaxChannels
MsgOf(d) == [kind : {"PeerDiscovered", "Reconnect", "IncomingChannel",
                     "PeerChannelClosed", "ConnectionComplete", "dial",
                     "exchange", "complete", "consent", "accept"},
             p : Peers(d), c : ChanIds \cup {None}, isNew : BOOLEAN]

(* Every variable keeps its type, a peer holds a waiting channel exactly    *)
(* when it is IncomingPending, and no device lists itself.                  *)
TypeOK ==
  /\ Ids = 1 .. Cardinality(Ids) /\ Cardinality(Ids) <= MaxChannels
  /\ \A c \in Ids : chans[c] \in [from : Device, to : Device, open : BOOLEAN,
                                  consent : SUBSET Ends(c), interps : SUBSET Ends(c)]
  /\ \A d \in Device :
       /\ st[d] \in [Device -> States] /\ st[d][d] = "none"
       /\ \A p \in Device : (held[d][p] \in Ids) <=> (st[d][p] = "IncomingPending")
       /\ conns[d] \in [Device -> Ids \cup {None}]
       /\ {pendingTsv[d], peersTsv[d], seen[d], agreed[d], removed[d]}
            \subseteq SUBSET Peers(d)
       /\ listening[d] \subseteq Ids
       /\ inbox[d] \cup dialing[d] \cup exchanging[d] \subseteq MsgOf(d)
       /\ busy[d] \in MsgOf(d) \cup {None}
  /\ spent \subseteq Faults

(* Nobody's birth data leaves their device for a peer they never proposed   *)
(* to or accepted, whatever the interleaving of dials, auto-accepts,        *)
(* removals and restarts; so a Connected pair has agreed on both sides.     *)
MutualConsent ==
  /\ \A c \in Ids : \A d \in chans[c].consent : Far(d, c) \in agreed[d]
  /\ \A d \in Device : \A p \in Peers(d) :
       st[d][p] = "Connected" => p \in agreed[d] /\ d \in agreed[p]

(* A peer being sought, or connected and never removed, is in the file of   *)
(* its kind at every instant: a restart at any point forgets nobody.  (One  *)
(* that was removed and asked for again may be: an exchange begun before    *)
(* the removal ends with isNew unset, and then nothing is written.)         *)
NobodyForgotten ==
  \A d \in Device : \A p \in Peers(d) :
    /\ st[d][p] = "OutgoingPending" => p \in pendingTsv[d]
    /\ st[d][p] = "Connected" /\ p \notin removed[d]
         => p \in peersTsv[d]

(* Once both users have agreed, and the network loses nothing, both devices *)
(* end up Connected to each other, over a channel that both have installed. *)
AgreementConnects ==
  \A d \in Device : \A p \in Peers(d) :
    (p \in agreed[d] /\ d \in agreed[p])
      ~> (st[d][p] = "Connected" /\ st[p][d] = "Connected"
            /\ conns[d][p] # None /\ conns[p][d] # None)
=============================================================================
