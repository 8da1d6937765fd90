-------------------------- MODULE StargazerProofs --------------------------
(* Proofs about Stargazer, for any finite set of devices, any number of     *)
(* channels and any faults: no chart leaves a device without its user's     *)
(* consent, no restart forgets a peer, and the state is well typed.         *)
EXTENDS Stargazer, FiniteSetTheorems, TLAPS

Channel == [from : Device, to : Device, open : BOOLEAN,
            consent : SUBSET Device, interps : SUBSET Device]
Kinds == {"PeerDiscovered", "Reconnect", "IncomingChannel", "PeerChannelClosed",
          "ConnectionComplete", "dial", "exchange", "complete", "consent", "accept"}
Letter == [kind : Kinds, p : Device, c : Nat \cup {None}, isNew : BOOLEAN]

Shape ==
  /\ Ids = 1 .. Cardinality(Ids) /\ Cardinality(Ids) \in Nat
  /\ chans \in [Ids -> Channel]
  /\ st \in [Device -> [Device -> States]]
  /\ held \in [Device -> [Device -> Nat \cup {None}]]
  /\ pendingTsv \in [Device -> SUBSET Device] /\ peersTsv \in [Device -> SUBSET Device]
  /\ agreed \in [Device -> SUBSET Device] /\ removed \in [Device -> SUBSET Device]
  /\ \A d \in Device : d \notin agreed[d]
  /\ inbox \in [Device -> SUBSET Letter] /\ dialing \in [Device -> SUBSET Letter]
  /\ exchanging \in [Device -> SUBSET Letter] /\ busy \in [Device -> Letter \cup {None}]
  /\ listening \in [Device -> SUBSET (Nat \cup {None})]

(* Channel c runs between d and p.                                          *)
Between(c, d, p) ==
  /\ c \in Ids
  /\ \/ chans[c].from = d /\ chans[c].to = p
     \/ chans[c].from = p /\ chans[c].to = d
(* The peer's file names p, unless d's user has removed p.                  *)
Filed(d, p) == p \in removed[d] \/ p \in peersTsv[d]

(* Whoever has sent their chart over a channel has agreed to its other end. *)
ChannelsOK ==
  \A c \in Ids :
    /\ chans[c].from # chans[c].to
    /\ \A d \in chans[c].consent :
         /\ d \in {chans[c].from, chans[c].to}
         /\ \A p \in Device : p # d /\ Between(c, d, p) => p \in agreed[d]
(* The state of a peer, the channel that waits for the user and the files.  *)
PeerOK(d, p) ==
  /\ st[d][p] \in {"OutgoingPending", "Connected"} => p \in agreed[d]
  /\ st[d][p] = "Connected" => d \in agreed[p] /\ Filed(d, p)
  /\ st[d][p] = "OutgoingPending" => p \in pendingTsv[d]
  /\ p \in pendingTsv[d] => p \in agreed[d]
  /\ p \in peersTsv[d] => p \in agreed[d] /\ d \in agreed[p]
  /\ p \in peersTsv[d] /\ p \notin removed[d] => st[d][p] = "Connected"
  /\ held[d][p] # None => Between(held[d][p], d, p)
  /\ st[d][p] = "IncomingPending" => held[d][p] # None
(* What is on its way to a handler, or inside a task or a handler, was      *)
(* agreed to on this side, and on both once the blobs are exchanged.        *)
Known(d, m) ==
  /\ m.p # d /\ m.p \in agreed[d]
  /\ ~m.isNew => Filed(d, m.p)
MessageOK(d, m) ==
  /\ m.p # d
  /\ m.kind = "IncomingChannel" => Between(m.c, d, m.p)
  /\ m.kind = "ConnectionComplete" =>
       Known(d, m) /\ Between(m.c, d, m.p) /\ d \in agreed[m.p]
ListenerOK(d, c) == \E p \in Device \ {d} : Between(c, d, p)
ExchangeOK(d, t) == Known(d, t) /\ Between(t.c, d, t.p)
HandlerOK(d) ==
  LET w == busy[d] IN
  w # None =>
    /\ w.p # d /\ w.p \in agreed[d] /\ Between(w.c, d, w.p)
    /\ w.kind \in {"complete", "accept"} => d \in agreed[w.p]
    /\ w.kind = "complete" => (~w.isNew => Filed(d, w.p))
    /\ w.kind \in {"consent", "accept"} => st[d][w.p] = "IncomingPending"

Inv ==
  /\ Shape /\ ChannelsOK
  /\ \A d, p \in Device : PeerOK(d, p)
  /\ \A d \in Device : /\ \A m \in inbox[d] : MessageOK(d, m)
                       /\ \A t \in dialing[d] : Known(d, t)
                       /\ \A t \in exchanging[d] : ExchangeOK(d, t)
                       /\ \A c \in listening[d] : ListenerOK(d, c)
                       /\ HandlerOK(d)

----------------------------------------------------------------------------
(* Both ends of a channel.                                                  *)
LEMMA FarEnd ==
  ASSUME NEW c, NEW d \in Device, NEW p \in Device, d # p, Between(c, d, p)
  PROVE  Ends(c) = {d, p} /\ Far(d, c) = p /\ Far(p, c) = d /\ Between(c, p, d)
<1>1. Ends(c) = {d, p}
  BY DEF Between, Ends
<1>2. Far(d, c) = p /\ Far(p, c) = d
  BY <1>1 DEF Far
<1>3. QED
  BY <1>1, <1>2 DEF Between

(* What a step may do to the channels: close some, add one, record that a   *)
(* device has sent its chart to a peer it agreed to.                        *)
Chans(d) ==
  /\ Ids' = 1 .. Cardinality(Ids') /\ Cardinality(Ids') \in Nat /\ Ids \subseteq Ids'
  /\ chans' \in [Ids' -> Channel]
  /\ \A c \in Ids : chans'[c].from = chans[c].from /\ chans'[c].to = chans[c].to
  /\ \A c \in Ids' : chans'[c].from # chans'[c].to
  /\ \A c \in Ids' : \A e \in chans'[c].consent :
       \/ c \in Ids /\ e \in chans[c].consent
       \/ /\ e = d
          /\ \E p \in Device : p \in agreed'[d] /\ Between(c, d, p)'

PeerSame(d, p) ==
  /\ st'[d][p] = st[d][p] /\ held'[d][p] = held[d][p]
  /\ pendingTsv'[d] = pendingTsv[d] /\ peersTsv'[d] = peersTsv[d]
  /\ removed'[d] = removed[d]

(* The obligations of a step of device d.                                   *)
LEMMA StepKeeps ==
  ASSUME Inv, Shape', NEW d \in Device, Chans(d),
         \A e \in Device : agreed[e] \subseteq agreed'[e] /\ removed[e] \subseteq removed'[e],
         \A e, p \in Device : Filed(e, p) => Filed(e, p)',
         \A e, p \in Device : e # d => /\ st'[e] = st[e] /\ held'[e] = held[e]
                                       /\ pendingTsv'[e] = pendingTsv[e]
                                       /\ peersTsv'[e] = peersTsv[e]
                                       /\ removed'[e] = removed[e] /\ busy'[e] = busy[e],
         \A p \in Device : PeerSame(d, p) \/ PeerOK(d, p)',
         \A e \in Device : \A m \in inbox'[e] : m \in inbox[e] \/ MessageOK(e, m)',
         \A e \in Device : \A t \in dialing'[e] : t \in dialing[e] \/ Known(e, t)',
         \A e \in Device : \A t \in exchanging'[e] : t \in exchanging[e] \/ ExchangeOK(e, t)',
         \A e \in Device : \A c \in listening'[e] : c \in listening[e] \/ ListenerOK(e, c)',
         \/ HandlerOK(d)'
         \/ busy'[d] = busy[d] /\ (busy[d] = None \/ st'[d] = st[d])
  PROVE  Inv'
<1>1. ASSUME NEW c, NEW e \in Device, NEW p \in Device, Between(c, e, p)
      PROVE  Between(c, e, p)'
  BY <1>1 DEF Chans, Between
<1>2. ASSUME NEW c \in Ids', NEW e \in Device, NEW p \in Device, c \in Ids
      PROVE  Between(c, e, p)' => Between(c, e, p)
  BY <1>2 DEF Chans, Between
<1>3. ChannelsOK'
  <2> SUFFICES ASSUME NEW c \in Ids', NEW e \in chans'[c].consent
               PROVE  /\ e \in {chans'[c].from, chans'[c].to}
                      /\ \A p \in Device : p # e /\ Between(c, e, p)' => p \in agreed'[e]
    BY DEF ChannelsOK, Chans
  <2>1. chans'[c] \in Channel /\ e \in Device
    BY DEF Chans, Channel
  <2>2. CASE c \in Ids /\ e \in chans[c].consent
    BY <1>2, <2>1, <2>2 DEF Inv, ChannelsOK, Chans
  <2>3. CASE e = d /\ \E p \in Device : p \in agreed'[d] /\ Between(c, d, p)'
    <3>1. PICK q \in Device : q \in agreed'[d] /\ Between(c, d, q)'
      BY <2>3
    <3>2. ASSUME NEW p \in Device, p # d, Between(c, d, p)'
          PROVE  p = q
      BY <3>1, <3>2 DEF Between, Chans
    <3>3. QED
      BY <2>3, <3>1, <3>2 DEF Between
  <2>4. QED
    BY <2>2, <2>3 DEF Chans
<1>4. ASSUME NEW e \in Device, NEW p \in Device
      PROVE  PeerOK(e, p)'
  <2>1. PeerSame(e, p) \/ (e = d /\ PeerOK(e, p)')
    BY DEF PeerSame
  <2>2. CASE PeerSame(e, p)
    <3>1. PeerOK(e, p)
      BY DEF Inv
    <3>2. held[e][p] # None => Between(held[e][p], e, p)'
      BY <1>1, <2>2, <3>1 DEF PeerOK, PeerSame
    <3>3. QED
      BY <2>2, <3>1, <3>2 DEF PeerOK, PeerSame, Filed
  <2>3. QED
    BY <2>1, <2>2
<1>5. ASSUME NEW e \in Device, NEW m \in Letter, Known(e, m)
      PROVE  Known(e, m)'
  BY <1>5 DEF Known, Letter
<1>6. ASSUME NEW e \in Device, NEW m \in inbox'[e]
      PROVE  MessageOK(e, m)'
  <2>1. CASE m \in inbox[e]
    <3>1. m \in Letter /\ m.p \in Device
      BY <2>1 DEF Inv, Shape, Letter
    <3>2. MessageOK(e, m)
      BY <2>1 DEF Inv
    <3>3. QED
      BY <1>1, <1>5, <3>1, <3>2 DEF MessageOK
  <2>2. QED
    BY <2>1
<1>7. ASSUME NEW e \in Device, NEW t \in dialing'[e]
      PROVE  Known(e, t)'
  <2>1. CASE t \in dialing[e]
    BY <1>5, <2>1 DEF Inv, Shape
  <2>2. QED
    BY <2>1
<1>8. ASSUME NEW e \in Device, NEW t \in exchanging'[e]
      PROVE  ExchangeOK(e, t)'
  <2>1. CASE t \in exchanging[e]
    <3>1. t \in Letter /\ t.p \in Device
      BY <2>1 DEF Inv, Shape, Letter
    <3>2. ExchangeOK(e, t)
      BY <2>1 DEF Inv
    <3>3. QED
      BY <1>1, <1>5, <3>1, <3>2 DEF ExchangeOK
  <2>2. QED
    BY <2>1
<1>9. ASSUME NEW e \in Device
      PROVE  HandlerOK(e)'
  <2>1. CASE e = d /\ HandlerOK(d)'
    BY <2>1
  <2>2. CASE busy'[e] = busy[e] /\ (busy[e] = None \/ st'[e] = st[e])
    <3> DEFINE w == busy[e]
    <3>1. CASE w = None
      BY <2>2, <3>1 DEF HandlerOK
    <3>2. CASE w # None
      <4>1. w \in Letter /\ w.p \in Device
        BY <3>2 DEF Inv, Shape, Letter
      <4>2. HandlerOK(e)
        BY DEF Inv
      <4>3. Between(w.c, e, w.p)'
        BY <1>1, <2>2, <3>2, <4>1, <4>2 DEF HandlerOK
      <4>4. w.p \in agreed[e] => w.p \in agreed'[e]
        OBVIOUS
      <4>5. e \in agreed[w.p] => e \in agreed'[w.p]
        BY <4>1
      <4>6. Filed(e, w.p) => Filed(e, w.p)'
        BY <2>2, <4>1 DEF Filed
      <4>7. QED
        BY <2>2, <3>2, <4>2, <4>3, <4>4, <4>5, <4>6 DEF HandlerOK
    <3>3. QED
      BY <3>1, <3>2
  <2>3. QED
    BY <2>1, <2>2
<1>10. ASSUME NEW e \in Device, NEW c \in listening'[e]
       PROVE  ListenerOK(e, c)'
  BY <1>1 DEF Inv, ListenerOK
<1>11. QED
  BY <1>3, <1>4, <1>6, <1>7, <1>8, <1>9, <1>10 DEF Inv
----------------------------------------------------------------------------
(* What the operators on channels do.                                       *)
LEMMA SameChans ==
  ASSUME Inv, NEW d \in Device, UNCHANGED chans
  PROVE  Chans(d)
BY DEF Inv, Shape, ChannelsOK, Chans, Ids

LEMMA ClosedChans ==
  ASSUME Inv, NEW d \in Device, NEW cs, chans' = Closed(cs)
  PROVE  Chans(d)
<1>1. Ids' = Ids
  BY DEF Closed, Ids
<1>2. ASSUME NEW c \in Ids
      PROVE  /\ chans'[c] \in Channel
             /\ chans'[c].from = chans[c].from /\ chans'[c].to = chans[c].to
             /\ chans'[c].consent = chans[c].consent
  <2>1. chans[c] \in Channel
    BY DEF Inv, Shape
  <2>2. chans'[c] = [chans[c] EXCEPT !.open = @ /\ c \notin cs]
    BY DEF Closed
  <2>3. (chans[c].open /\ c \notin cs) \in BOOLEAN
    OBVIOUS
  <2>4. QED
    BY <2>1, <2>2, <2>3 DEF Channel
<1>3. chans' \in [Ids -> Channel]
  BY <1>2 DEF Closed
<1>4. QED
  BY <1>1, <1>2, <1>3 DEF Inv, Shape, ChannelsOK, Chans

LEMMA SendConsentChans ==
  ASSUME Inv, NEW d \in Device, NEW p \in Device, NEW c, Between(c, d, p),
         p \in agreed'[d], chans' = SendConsent(chans, d, c)
  PROVE  Chans(d)
<1>1. Ids' = Ids /\ c \in Ids
  BY DEF SendConsent, Ids, Between
<1>2. ASSUME NEW i \in Ids
      PROVE  /\ chans'[i] \in Channel
             /\ chans'[i].from = chans[i].from /\ chans'[i].to = chans[i].to
             /\ \A e \in chans'[i].consent : e \in chans[i].consent \/ (e = d /\ i = c)
  <2>1. chans[i] \in Channel
    BY DEF Inv, Shape
  <2>2. \/ chans'[i] = chans[i]
        \/ i = c /\ chans'[i] = [chans[i] EXCEPT !.consent = @ \cup {d}]
    <3>1. chans \in [Ids -> Channel]
      BY DEF Inv, Shape
    <3>2. CASE ~chans[c].open
      BY <3>2 DEF SendConsent
    <3>3. CASE chans[c].open
      <4>1. chans' = [chans EXCEPT ![c].consent = @ \cup {d}]
        BY <3>3 DEF SendConsent
      <4>2. QED
        BY <3>1, <4>1
    <3>4. QED
      BY <3>2, <3>3
  <2>3. QED
    BY <2>1, <2>2 DEF Channel
<1>3. chans' \in [Ids -> Channel]
  BY <1>1, <1>2 DEF Inv, Shape, SendConsent
<1>4. Between(c, d, p)'
  BY <1>1, <1>2 DEF Between
<1>5. QED
  BY <1>1, <1>2, <1>3, <1>4 DEF Inv, Shape, ChannelsOK, Chans

LEMMA SendInterpsChans ==
  ASSUME Inv, NEW d \in Device, NEW c \in Ids, chans' = SendInterps(chans, d, c)
  PROVE  Chans(d)
<1>1. Ids' = Ids
  BY DEF SendInterps, Ids
<1>2. ASSUME NEW i \in Ids
      PROVE  /\ chans'[i] \in Channel
             /\ chans'[i].from = chans[i].from /\ chans'[i].to = chans[i].to
             /\ chans'[i].consent = chans[i].consent
  <2>1. chans[i] \in Channel
    BY DEF Inv, Shape
  <2>2. \/ chans'[i] = chans[i]
        \/ chans'[i] = [chans[i] EXCEPT !.interps = @ \cup {d}]
    BY DEF Inv, Shape, SendInterps
  <2>3. QED
    BY <2>1, <2>2 DEF Channel
<1>3. chans' \in [Ids -> Channel]
  BY <1>2 DEF Inv, Shape, SendInterps
<1>4. QED
  BY <1>1, <1>2, <1>3 DEF Inv, Shape, ChannelsOK, Chans

LEMMA NextId ==
  ASSUME NEW n \in Nat
  PROVE  /\ \A i \in 1 .. n : i \in 1 .. (n + 1) /\ i # n + 1
         /\ \A i \in 1 .. (n + 1) : i \in 1 .. n \/ i = n + 1
         /\ n + 1 \in 1 .. (n + 1)
         /\ Cardinality(1 .. (n + 1)) = n + 1
<1>1. Cardinality(1 .. (n + 1)) = n + 1
  BY FS_Interval
<1>2. QED
  BY <1>1

(* A new channel carries the chart of the device that dialled, no other.    *)
LEMMA DialChans ==
  ASSUME Inv, NEW d \in Device, NEW p \in Device, p # d, p \in agreed'[d], NEW c,
         c = Cardinality(Ids) + 1,
         chans' = [i \in 1 .. c |->
                     IF i = c THEN [from |-> d, to |-> p, open |-> TRUE,
                                    consent |-> {d}, interps |-> {}]
                     ELSE chans[i]]
  PROVE  Chans(d) /\ Between(c, d, p)'
<1> DEFINE n == Cardinality(Ids)
<1>1. n \in Nat /\ Ids = 1 .. n /\ Ids' = 1 .. c
  BY DEF Inv, Shape, Ids
<1> HIDE DEF n
<1>0. c = n + 1
  BY DEF n
<1>2. Cardinality(Ids') = c /\ c \in Nat
  <2>1. Ids' = 1 .. (n + 1)
    BY <1>0, <1>1
  <2>2. Cardinality(Ids') = n + 1
    BY <1>1, <2>1, NextId
  <2>3. QED
    BY <1>0, <1>1, <2>2
<1> DEFINE ch == [from |-> d, to |-> p, open |-> TRUE, consent |-> {d}, interps |-> {}]
<1>3. /\ \A i \in Ids : i \in 1 .. c /\ i # c
      /\ \A i \in 1 .. c : i \in Ids \/ i = c
      /\ c \in 1 .. c
  BY <1>0, <1>1, NextId
<1>4. chans'[c] = ch /\ (\A i \in Ids : chans'[i] = chans[i]) /\ Ids' = Ids \cup {c}
  <2> HIDE DEF ch
  <2>1. chans' = [i \in 1 .. c |-> IF i = c THEN ch ELSE chans[i]]
    BY DEF ch
  <2>2. chans'[c] = ch
    BY <1>3, <2>1
  <2>3. \A i \in Ids : chans'[i] = chans[i]
    BY <1>3, <2>1
  <2>4. Ids' = Ids \cup {c}
    BY <1>1, <1>3
  <2>5. QED
    BY <2>2, <2>3, <2>4
<1>5. chans' \in [Ids' -> Channel]
  <2>1. chans'[c] \in Channel
    <3>1. {d} \in SUBSET Device /\ {} \in SUBSET Device /\ TRUE \in BOOLEAN
      OBVIOUS
    <3>2. ch \in Channel
      BY <3>1 DEF Channel
    <3>3. QED
      BY <1>4, <3>2
  <2>2. \A i \in Ids : chans'[i] \in Channel
    BY <1>4 DEF Inv, Shape
  <2>3. QED
    BY <1>1, <1>4, <2>1, <2>2
<1>6. Between(c, d, p)'
  BY <1>4 DEF Between
<1>7. ASSUME NEW i \in Ids'
      PROVE  /\ chans'[i].from # chans'[i].to
             /\ \A e \in chans'[i].consent : (i \in Ids /\ e \in chans[i].consent) \/ (e = d /\ i = c)
  BY <1>4, <1>7 DEF Inv, ChannelsOK
<1>8. QED
  <2>1. \A i \in Ids : chans'[i].from = chans[i].from /\ chans'[i].to = chans[i].to
    BY <1>4
  <2>2. \A i \in Ids' : \A e \in chans'[i].consent :
          \/ i \in Ids /\ e \in chans[i].consent
          \/ /\ e = d
             /\ \E q \in Device : q \in agreed'[d] /\ Between(i, d, q)'
    BY <1>6, <1>7
  <2>3. QED
    BY <1>1, <1>2, <1>4, <1>5, <1>6, <1>7, <2>1, <2>2 DEF Chans

(* Steps that leave the peer list, the files and the handler alone.         *)
LEMMA TaskStep ==
  ASSUME Inv, NEW d \in Device, Chans(d),
         UNCHANGED <<st, held, files, agreed, removed, busy, listening>>,
         inbox' \in [Device -> SUBSET Letter], dialing' \in [Device -> SUBSET Letter],
         exchanging' \in [Device -> SUBSET Letter],
         \A e \in Device : \A m \in inbox'[e] : m \in inbox[e] \/ MessageOK(e, m)',
         \A e \in Device : \A t \in dialing'[e] : t \in dialing[e] \/ Known(e, t)',
         \A e \in Device : \A t \in exchanging'[e] : t \in exchanging[e] \/ ExchangeOK(e, t)'
  PROVE  Inv'
<1>1. Shape'
  BY DEF Inv, Shape, Chans, files
<1>2. \A e, p \in Device : PeerSame(e, p) /\ (Filed(e, p) => Filed(e, p)')
  BY DEF PeerSame, Filed, files
<1>3. QED
  BY <1>1, <1>2, StepKeeps DEF files

(* An element more in one of the sets of a device.                          *)
LEMMA OneMore ==
  ASSUME NEW f \in [Device -> SUBSET Letter], NEW d \in Device, NEW m \in Letter,
         NEW less \in SUBSET Letter
  PROVE  /\ [f EXCEPT ![d] = (@ \ less) \cup {m}] \in [Device -> SUBSET Letter]
         /\ [f EXCEPT ![d] = @ \cup {m}] \in [Device -> SUBSET Letter]
         /\ [f EXCEPT ![d] = @ \ less] \in [Device -> SUBSET Letter]
         /\ \A e \in Device :
              /\ [f EXCEPT ![d] = (@ \ less) \cup {m}][e] \subseteq
                   f[e] \cup (IF e = d THEN {m} ELSE {})
              /\ [f EXCEPT ![d] = @ \cup {m}][e] \subseteq
                   f[e] \cup (IF e = d THEN {m} ELSE {})
              /\ [f EXCEPT ![d] = @ \ less][e] \subseteq f[e]
OBVIOUS
LEMMA HearAnnounceKeeps ==
  ASSUME Inv, NEW d \in Device, NEW p \in Peers(d), HearAnnounce(d, p)
  PROVE  Inv'
<1>1. p \in Device /\ p # d
  BY DEF Peers
<1>0. PICK m : m = Msg("PeerDiscovered", p, None, FALSE)
  OBVIOUS
<1>2. m \in Letter /\ m.kind = "PeerDiscovered" /\ m.p = p
  <2>1. "PeerDiscovered" \in Kinds
    BY DEF Kinds
  <2>2. QED
    BY <1>0, <1>1, <2>1 DEF Msg, Work, Letter
<1>3. /\ inbox' = [inbox EXCEPT ![d] = @ \cup {m}]
      /\ UNCHANGED <<st, held, files, agreed, removed, busy, listening>>
      /\ UNCHANGED <<dialing, exchanging>>
      /\ dialing \in [Device -> SUBSET Letter] /\ exchanging \in [Device -> SUBSET Letter]
  BY <1>0 DEF HearAnnounce, Inv, Shape
<1>4. inbox' \in [Device -> SUBSET Letter]
      /\ \A e \in Device : inbox'[e] \subseteq inbox[e] \cup (IF e = d THEN {m} ELSE {})
  BY <1>2, <1>3, OneMore DEF Inv, Shape
<1>5. MessageOK(d, m)'
  BY <1>1, <1>2 DEF MessageOK
<1>6. Chans(d)
  BY SameChans DEF HearAnnounce
<1>7. QED
  BY <1>3, <1>4, <1>5, <1>6, TaskStep

LEMMA DialKeeps ==
  ASSUME Inv, NEW d \in Device, NEW t \in dialing[d], Dial(d, t)
  PROVE  Inv'
<1>0. PICK c, x, m : /\ c = Cardinality(Ids) + 1
                     /\ x = Work("exchange", t.p, c, t.isNew)
                     /\ m = Msg("IncomingChannel", d, c, FALSE)
  OBVIOUS
<1>1. /\ t.p \in Device /\ t.p # d /\ t.isNew \in BOOLEAN /\ t.p \in agreed[d]
      /\ ~t.isNew => Filed(d, t.p)
      /\ c \in Nat
  BY <1>0 DEF Inv, Shape, Known, Letter
<1>2. /\ x \in Letter /\ x.p = t.p /\ x.c = c /\ x.isNew = t.isNew
      /\ m \in Letter /\ m.kind = "IncomingChannel" /\ m.p = d /\ m.c = c
  <2>1. "exchange" \in Kinds /\ "IncomingChannel" \in Kinds
    BY DEF Kinds
  <2>2. QED
    BY <1>0, <1>1, <2>1 DEF Msg, Work, Letter
<1>3. Chans(d) /\ Between(c, d, t.p)'
  <2>1. /\ chans' = [i \in 1 .. c |->
                       IF i = c THEN [from |-> d, to |-> t.p, open |-> TRUE,
                                      consent |-> {d}, interps |-> {}]
                       ELSE chans[i]]
        /\ t.p \in agreed'[d]
    BY <1>0, <1>1 DEF Dial
  <2>2. QED
    BY <1>0, <1>1, <2>1, DialChans
<1>4. /\ dialing' = [dialing EXCEPT ![d] = @ \ {t}]
      /\ exchanging' = [exchanging EXCEPT ![d] = @ \cup {x}]
      /\ inbox' = [inbox EXCEPT ![t.p] = @ \cup {m}]
      /\ UNCHANGED <<st, held, files, agreed, removed, busy, listening>>
  BY <1>0 DEF Dial
<1>5. /\ inbox' \in [Device -> SUBSET Letter]
      /\ \A e \in Device : inbox'[e] \subseteq inbox[e] \cup (IF e = t.p THEN {m} ELSE {})
  BY <1>1, <1>2, <1>4, OneMore DEF Inv, Shape
<1>6. /\ exchanging' \in [Device -> SUBSET Letter]
      /\ \A e \in Device : exchanging'[e] \subseteq exchanging[e] \cup (IF e = d THEN {x} ELSE {})
  BY <1>2, <1>4, OneMore DEF Inv, Shape
<1>7. /\ dialing' \in [Device -> SUBSET Letter]
      /\ \A e \in Device : dialing'[e] \subseteq dialing[e]
  BY <1>4 DEF Inv, Shape
<1>8. MessageOK(t.p, m)'
  BY <1>1, <1>2, <1>3 DEF MessageOK, Between
<1>9. ExchangeOK(d, x)'
  BY <1>1, <1>2, <1>3, <1>4 DEF ExchangeOK, Known, Filed, files
<1>10. QED
  BY <1>3, <1>4, <1>5, <1>6, <1>7, <1>8, <1>9, TaskStep

LEMMA DialFailsKeeps ==
  ASSUME Inv, NEW d \in Device, NEW t \in dialing[d], DialFails(d, t)
  PROVE  Inv'
<1>1. /\ dialing' = [dialing EXCEPT ![d] = @ \ {t}]
      /\ UNCHANGED <<st, held, files, agreed, removed, busy, listening>> /\ UNCHANGED <<inbox, exchanging>>
  BY DEF DialFails
<1>2. /\ dialing' \in [Device -> SUBSET Letter]
      /\ \A e \in Device : dialing'[e] \subseteq dialing[e]
  BY <1>1 DEF Inv, Shape
<1>3. Chans(d)
  BY SameChans DEF DialFails
<1>4. QED
  BY <1>1, <1>2, <1>3, TaskStep DEF Inv, Shape

(* A task that got the peer's chart knows that the peer agreed.             *)
LEMMA BothAgreed ==
  ASSUME Inv, NEW d \in Device, NEW p \in Device, NEW c, d # p, Between(c, d, p),
         GotConsent(d, c)
  PROVE  d \in agreed[p]
<1>1. Far(d, c) = p /\ Between(c, p, d)
  BY FarEnd
<1>2. p \in chans[c].consent /\ c \in Ids
  BY <1>1 DEF GotConsent, Between
<1>3. QED
  BY <1>1, <1>2 DEF Inv, ChannelsOK

LEMMA ExchangeDoneKeeps ==
  ASSUME Inv, NEW d \in Device, NEW t \in exchanging[d], ExchangeDone(d, t)
  PROVE  Inv'
<1>0. PICK m : m = Msg("ConnectionComplete", t.p, t.c, t.isNew)
  OBVIOUS
<1>1. /\ t.p \in Device /\ t.p # d /\ t.isNew \in BOOLEAN /\ t.p \in agreed[d]
      /\ ~t.isNew => Filed(d, t.p)
      /\ Between(t.c, d, t.p) /\ t.c \in Nat \cup {None}
  BY DEF Inv, Shape, ExchangeOK, Known, Letter
<1>2. d \in agreed[t.p]
  BY <1>1, BothAgreed DEF ExchangeDone
<1>3. /\ m \in Letter /\ m.kind = "ConnectionComplete" /\ m.p = t.p /\ m.c = t.c
      /\ m.isNew = t.isNew
  <2>1. "ConnectionComplete" \in Kinds
    BY DEF Kinds
  <2>2. QED
    BY <1>0, <1>1, <2>1 DEF Msg, Work, Letter
<1>4. /\ exchanging' = [exchanging EXCEPT ![d] = @ \ {t}]
      /\ inbox' = [inbox EXCEPT ![d] = @ \cup {m}]
      /\ UNCHANGED <<st, held, files, agreed, removed, busy, listening>> /\ UNCHANGED <<dialing, chans>>
      /\ dialing \in [Device -> SUBSET Letter]
  BY <1>0 DEF ExchangeDone, Inv, Shape
<1>5. /\ inbox' \in [Device -> SUBSET Letter]
      /\ \A e \in Device : inbox'[e] \subseteq inbox[e] \cup (IF e = d THEN {m} ELSE {})
  BY <1>3, <1>4, OneMore DEF Inv, Shape
<1>6. /\ exchanging' \in [Device -> SUBSET Letter]
      /\ \A e \in Device : exchanging'[e] \subseteq exchanging[e]
  BY <1>4 DEF Inv, Shape
<1>7. MessageOK(d, m)'
  BY <1>1, <1>2, <1>3, <1>4 DEF MessageOK, Known, Between, Filed, Ids, files
<1>8. Chans(d)
  BY <1>4, SameChans
<1>9. QED
  BY <1>4, <1>5, <1>6, <1>7, <1>8, TaskStep

LEMMA ExchangeFailsKeeps ==
  ASSUME Inv, NEW d \in Device, NEW t \in exchanging[d], ExchangeFails(d, t)
  PROVE  Inv'
<1>1. /\ exchanging' = [exchanging EXCEPT ![d] = @ \ {t}]
      /\ UNCHANGED <<st, held, files, agreed, removed, busy, listening>> /\ UNCHANGED <<inbox, dialing>>
  BY DEF ExchangeFails
<1>2. /\ exchanging' \in [Device -> SUBSET Letter]
      /\ \A e \in Device : exchanging'[e] \subseteq exchanging[e]
  BY <1>1 DEF Inv, Shape
<1>3. Chans(d)
  BY SameChans DEF ExchangeFails
<1>4. QED
  BY <1>1, <1>2, <1>3, TaskStep DEF Inv, Shape
LEMMA ListenerEndsKeeps ==
  ASSUME Inv, NEW d \in Device, NEW c \in listening[d], ListenerEnds(d, c)
  PROVE  Inv'
<1>1. PICK p \in Device \ {d} : Between(c, d, p)
  BY DEF Inv, ListenerOK
<1>2. Far(d, c) = p
  BY <1>1, FarEnd
<1>0. PICK m : m = Msg("PeerChannelClosed", p, None, FALSE)
  OBVIOUS
<1>3. m \in Letter /\ m.kind = "PeerChannelClosed" /\ m.p = p
  <2>1. "PeerChannelClosed" \in Kinds
    BY DEF Kinds
  <2>2. QED
    BY <1>0, <1>1, <2>1 DEF Msg, Letter
<1>4. /\ inbox' = [inbox EXCEPT ![d] = @ \cup {m}]
      /\ listening' = [listening EXCEPT ![d] = @ \ {c}]
      /\ UNCHANGED <<st, held, files, agreed, removed, busy, dialing, exchanging, chans>>
  BY <1>0, <1>2 DEF ListenerEnds
<1>5. /\ inbox' \in [Device -> SUBSET Letter]
      /\ \A e \in Device : inbox'[e] \subseteq inbox[e] \cup (IF e = d THEN {m} ELSE {})
  BY <1>3, <1>4, OneMore DEF Inv, Shape
<1>6. /\ listening' \in [Device -> SUBSET (Nat \cup {None})]
      /\ \A e \in Device : listening'[e] \subseteq listening[e]
  BY <1>4 DEF Inv, Shape
<1>7. MessageOK(d, m)'
  BY <1>1, <1>3 DEF MessageOK
<1>8. Chans(d)
  BY <1>4, SameChans
<1>9. Shape'
  BY <1>4, <1>5, <1>6, <1>8 DEF Inv, Shape, Chans, files
<1>10. \A e, p2 \in Device : PeerSame(e, p2) /\ (Filed(e, p2) => Filed(e, p2)')
  BY <1>4 DEF PeerSame, Filed, files
<1>11. QED
  BY <1>4, <1>5, <1>6, <1>7, <1>8, <1>9, <1>10, StepKeeps DEF files

----------------------------------------------------------------------------
(* The handlers.                                                            *)
LEMMA HandleReconnectKeeps ==
  ASSUME Inv, NEW d \in Device, NEW m \in inbox[d], HandleReconnect(d, m)
  PROVE  Inv'
<1>0. PICK t : t = Work("dial", m.p, None, st[d][m.p] = "OutgoingPending")
  OBVIOUS
<1>1. /\ m \in Letter /\ m.p \in Device /\ m.p # d
      /\ st \in [Device -> [Device -> States]] /\ dialing \in [Device -> SUBSET Letter]
      /\ inbox \in [Device -> SUBSET Letter] /\ exchanging \in [Device -> SUBSET Letter]
  BY DEF Inv, Shape, Letter, MessageOK
<1>2. /\ t \in Letter /\ t.p = m.p
      /\ t.isNew = (st[d][m.p] = "OutgoingPending")
  <2>1. "dial" \in Kinds /\ (st[d][m.p] = "OutgoingPending") \in BOOLEAN
    BY DEF Kinds
  <2>2. QED
    BY <1>0, <1>1, <2>1 DEF Work, Msg, Letter
<1>3. /\ inbox' = [inbox EXCEPT ![d] = @ \ {m}]
      /\ dialing' = dialing \/ (WantsRetry(d, m.p) /\ dialing' = [dialing EXCEPT ![d] = @ \cup {t}])
      /\ UNCHANGED <<st, held, files, agreed, removed, busy, listening>>
      /\ UNCHANGED <<exchanging, chans>>
  BY <1>0 DEF HandleReconnect
<1>4. /\ inbox' \in [Device -> SUBSET Letter]
      /\ \A e \in Device : inbox'[e] \subseteq inbox[e]
  BY <1>1, <1>3
<1>5. ASSUME WantsRetry(d, m.p)
      PROVE  Known(d, t)'
  <2>1. PeerOK(d, m.p)
    BY <1>1 DEF Inv
  <2>2. m.p \in agreed[d] /\ (st[d][m.p] # "OutgoingPending" => Filed(d, m.p))
    BY <1>5, <2>1 DEF WantsRetry, PeerOK
  <2>3. QED
    BY <1>1, <1>2, <1>3, <2>2 DEF Known, Filed, files
<1>6. /\ dialing' \in [Device -> SUBSET Letter]
      /\ \A e \in Device : \A x \in dialing'[e] : x \in dialing[e] \/ Known(e, x)'
  <2>1. CASE dialing' = dialing
    BY <1>1, <2>1
  <2>2. CASE WantsRetry(d, m.p) /\ dialing' = [dialing EXCEPT ![d] = @ \cup {t}]
    <3>1. /\ dialing' \in [Device -> SUBSET Letter]
          /\ \A e \in Device : dialing'[e] \subseteq dialing[e] \cup (IF e = d THEN {t} ELSE {})
      BY <1>1, <1>2, <2>2, OneMore
    <3>2. QED
      BY <1>5, <2>2, <3>1
  <2>3. QED
    BY <1>3, <2>1, <2>2
<1>7. Chans(d)
  BY <1>3, SameChans
<1>8. QED
  BY <1>1, <1>3, <1>4, <1>6, <1>7, TaskStep

(* Reconnect, as PeerDiscovered and PeerChannelClosed queue it.             *)
LEMMA ReconnectLetter ==
  ASSUME NEW p \in Device
  PROVE  /\ Reconnect(p) \in Letter /\ Reconnect(p).p = p
         /\ Reconnect(p).kind = "Reconnect"
<1>1. "Reconnect" \in Kinds
  BY DEF Kinds
<1>2. QED
  BY <1>1 DEF Reconnect, Msg, Letter

LEMMA PeerChannelClosedKeeps ==
  ASSUME Inv, NEW d \in Device, NEW m \in inbox[d], PeerChannelClosed(d, m)
  PROVE  Inv'
<1>0. PICK r : r = Reconnect(m.p)
  OBVIOUS
<1>1. /\ m.p \in Device /\ m.p # d
      /\ dialing \in [Device -> SUBSET Letter] /\ inbox \in [Device -> SUBSET Letter]
      /\ exchanging \in [Device -> SUBSET Letter]
  BY DEF Inv, Shape, Letter, MessageOK
<1>2. r \in Letter /\ r.p = m.p /\ r.kind = "Reconnect"
  BY <1>0, <1>1, ReconnectLetter
<1>3. /\ \/ inbox' = [inbox EXCEPT ![d] = (@ \ {m}) \cup {r}]
         \/ inbox' = [inbox EXCEPT ![d] = (@ \ {m}) \cup {}]
      /\ UNCHANGED <<st, held, files, agreed, removed, busy, listening>>
      /\ UNCHANGED <<dialing, exchanging, chans>>
  BY <1>0 DEF PeerChannelClosed
<1>4. /\ inbox' \in [Device -> SUBSET Letter]
      /\ \A e \in Device : inbox'[e] \subseteq inbox[e] \cup (IF e = d THEN {r} ELSE {})
  BY <1>1, <1>2, <1>3
<1>5. MessageOK(d, r)'
  BY <1>1, <1>2 DEF MessageOK
<1>6. Chans(d)
  BY <1>3, SameChans
<1>7. QED
  BY <1>1, <1>3, <1>4, <1>5, <1>6, TaskStep

(* The first sighting of a peer changes nothing that matters here.          *)
LEMMA PeerDiscoveredKeeps ==
  ASSUME Inv, NEW d \in Device, NEW m \in inbox[d], PeerDiscovered(d, m)
  PROVE  Inv'
<1>0. PICK r : r = Reconnect(m.p)
  OBVIOUS
<1>1. /\ m.p \in Device /\ m.p # d
      /\ dialing \in [Device -> SUBSET Letter] /\ inbox \in [Device -> SUBSET Letter]
      /\ exchanging \in [Device -> SUBSET Letter] /\ st \in [Device -> [Device -> States]]
  BY DEF Inv, Shape, Letter, MessageOK
<1>2. r \in Letter /\ r.p = m.p /\ r.kind = "Reconnect"
  BY <1>0, <1>1, ReconnectLetter
<1>3. /\ \/ inbox' = [inbox EXCEPT ![d] = (@ \ {m}) \cup {r}]
         \/ inbox' = [inbox EXCEPT ![d] = (@ \ {m}) \cup {}]
      /\ \/ st' = st
         \/ st[d][m.p] = "none" /\ st' = [st EXCEPT ![d][m.p] = "Discovered"]
      /\ UNCHANGED <<held, files, agreed, removed, busy, listening, dialing, exchanging, chans>>
      /\ busy[d] = None
  BY <1>0 DEF PeerDiscovered, Receive, Free
<1>4. /\ inbox' \in [Device -> SUBSET Letter]
      /\ \A e \in Device : inbox'[e] \subseteq inbox[e] \cup (IF e = d THEN {r} ELSE {})
  BY <1>1, <1>2, <1>3
<1>5. MessageOK(d, r)'
  BY <1>1, <1>2 DEF MessageOK
<1>6. Chans(d)
  BY <1>3, SameChans
<1>7. st' \in [Device -> [Device -> States]]
      /\ \A e, p \in Device : st'[e][p] = st[e][p]
                              \/ (e = d /\ st[d][p] = "none" /\ st'[d][p] = "Discovered")
  BY <1>1, <1>3 DEF States
<1>8. Shape'
  BY <1>3, <1>4, <1>6, <1>7 DEF Inv, Shape, Chans, files
<1>9. ASSUME NEW p \in Device
      PROVE  PeerSame(d, p) \/ PeerOK(d, p)'
  <2>1. CASE st'[d][p] = st[d][p]
    BY <1>3, <2>1 DEF PeerSame, files
  <2>2. CASE st[d][p] = "none" /\ st'[d][p] = "Discovered"
    <3>1. PeerOK(d, p)
      BY DEF Inv
    <3>2. QED
      BY <1>3, <2>2, <3>1 DEF PeerOK, files, Between, Ids
  <2>3. QED
    BY <1>7, <2>1, <2>2
<1>10. \A e, p \in Device : /\ Filed(e, p) => Filed(e, p)'
                            /\ e # d => st'[e] = st[e]
  BY <1>1, <1>3 DEF Filed, files
<1>11. QED
  BY <1>3, <1>4, <1>5, <1>6, <1>8, <1>9, <1>10, StepKeeps DEF files
(* A channel that exists has a number.                                      *)
LEMMA ChannelNumber ==
  ASSUME Inv, NEW c \in Ids
  PROVE  c \in Nat /\ c # None
<1>1. c \in Nat
  BY DEF Inv, Shape
<1>2. QED
  BY <1>1, StargazerAssumption

LEMMA AutoAcceptKeeps ==
  ASSUME Inv, NEW d \in Device, NEW m \in inbox[d], IncomingChannel(d, m),
         AutoAccepted(d, m.p)
  PROVE  Inv'
<1>0. PICK x : x = Work("exchange", m.p, m.c, st[d][m.p] = "OutgoingPending")
  OBVIOUS
<1>1. /\ m \in Letter /\ m.p \in Device /\ m.p # d /\ m.c \in Nat \cup {None}
      /\ Between(m.c, d, m.p)
      /\ dialing \in [Device -> SUBSET Letter] /\ inbox \in [Device -> SUBSET Letter]
      /\ exchanging \in [Device -> SUBSET Letter]
  BY DEF Inv, Shape, Letter, MessageOK, IncomingChannel
<1>2. x \in Letter /\ x.p = m.p /\ x.c = m.c /\ x.isNew = (st[d][m.p] = "OutgoingPending")
  <2>1. "exchange" \in Kinds /\ (st[d][m.p] = "OutgoingPending") \in BOOLEAN
    BY DEF Kinds
  <2>2. QED
    BY <1>0, <1>1, <2>1 DEF Work, Msg, Letter
<1>3. /\ inbox' = [inbox EXCEPT ![d] = @ \ {m}]
      /\ exchanging' = [exchanging EXCEPT ![d] = @ \cup {x}]
      /\ chans' = SendConsent(chans, d, m.c)
      /\ UNCHANGED <<st, held, files, agreed, removed, busy, listening>> /\ UNCHANGED dialing
  BY <1>0 DEF IncomingChannel
<1>4. m.p \in agreed[d] /\ (st[d][m.p] # "OutgoingPending" => Filed(d, m.p))
  BY <1>1 DEF Inv, PeerOK, AutoAccepted
<1>5. Chans(d)
  BY <1>1, <1>3, <1>4, SendConsentChans
<1>6. /\ inbox' \in [Device -> SUBSET Letter]
      /\ \A e \in Device : inbox'[e] \subseteq inbox[e]
  BY <1>1, <1>3
<1>7. /\ exchanging' \in [Device -> SUBSET Letter]
      /\ \A e \in Device : exchanging'[e] \subseteq exchanging[e] \cup (IF e = d THEN {x} ELSE {})
  BY <1>1, <1>2, <1>3, OneMore
<1>8. ExchangeOK(d, x)'
  <2>1. Between(m.c, d, m.p)'
    BY <1>1, <1>5 DEF Between, Chans
  <2>2. QED
    BY <1>1, <1>2, <1>3, <1>4, <2>1 DEF ExchangeOK, Known, Filed, files
<1>9. QED
  BY <1>1, <1>3, <1>5, <1>6, <1>7, <1>8, TaskStep

LEMMA IncomingKeeps ==
  ASSUME Inv, NEW d \in Device, NEW m \in inbox[d], IncomingChannel(d, m),
         ~AutoAccepted(d, m.p)
  PROVE  Inv'
<1>1. /\ m.p \in Device /\ m.p # d /\ m.c \in Nat \cup {None} /\ Between(m.c, d, m.p)
      /\ dialing \in [Device -> SUBSET Letter] /\ inbox \in [Device -> SUBSET Letter]
      /\ st \in [Device -> [Device -> States]] /\ held \in [Device -> [Device -> Nat \cup {None}]]
  BY DEF Inv, Shape, Letter, MessageOK, IncomingChannel
<1>2. /\ inbox' = [inbox EXCEPT ![d] = @ \ {m}]
      /\ chans' = Closed(HeldBy(d, m.p))
      /\ st' = [st EXCEPT ![d][m.p] = "IncomingPending"]
      /\ held' = [held EXCEPT ![d][m.p] = m.c]
      /\ UNCHANGED <<files, agreed, removed, busy, listening, dialing, exchanging>>
      /\ busy[d] = None
  BY DEF IncomingChannel, Receive, Free
<1>3. Chans(d)
  BY <1>2, ClosedChans
<1>4. /\ st' \in [Device -> [Device -> States]] /\ held' \in [Device -> [Device -> Nat \cup {None}]]
      /\ \A e \in Device : e # d => st'[e] = st[e] /\ held'[e] = held[e]
      /\ \A p \in Device : p # m.p => st'[d][p] = st[d][p] /\ held'[d][p] = held[d][p]
      /\ st'[d][m.p] = "IncomingPending" /\ held'[d][m.p] = m.c
  BY <1>1, <1>2 DEF States
<1>5. /\ inbox' \in [Device -> SUBSET Letter]
      /\ \A e \in Device : inbox'[e] \subseteq inbox[e]
  BY <1>1, <1>2
<1>6. Shape'
  BY <1>2, <1>3, <1>4, <1>5 DEF Inv, Shape, Chans, files
<1>7. PeerOK(d, m.p)'
  <2>1. Between(m.c, d, m.p)' /\ m.c # None
    BY <1>1, <1>3, ChannelNumber DEF Between, Chans
  <2>2. PeerOK(d, m.p)
    BY <1>1 DEF Inv
  <2>3. QED
    BY <1>2, <1>4, <2>1, <2>2 DEF PeerOK, AutoAccepted, files
<1>8. \A p \in Device : PeerSame(d, p) \/ PeerOK(d, p)'
  BY <1>2, <1>4, <1>7 DEF PeerSame, files
<1>9. \A e, p \in Device : Filed(e, p) => Filed(e, p)'
  BY <1>2 DEF Filed, files
<1>10. QED
  BY <1>2, <1>3, <1>4, <1>5, <1>6, <1>8, <1>9, StepKeeps DEF files

(* Handlers that await the peer: they send, and remember what they wait for.*)
LEMMA ConnectionCompleteKeeps ==
  ASSUME Inv, NEW d \in Device, NEW m \in inbox[d], ConnectionComplete(d, m)
  PROVE  Inv'
<1>0. PICK w : w = Work("complete", m.p, m.c, m.isNew)
  OBVIOUS
<1>1. /\ m \in Letter /\ m.p \in Device /\ m.p # d /\ m.c \in Nat \cup {None}
      /\ m.isNew \in BOOLEAN
      /\ Between(m.c, d, m.p) /\ m.p \in agreed[d] /\ d \in agreed[m.p]
      /\ ~m.isNew => Filed(d, m.p)
      /\ inbox \in [Device -> SUBSET Letter] /\ busy \in [Device -> Letter \cup {None}]
  BY DEF Inv, Shape, Letter, MessageOK, ConnectionComplete, Known
<1>2. w \in Letter /\ w.p = m.p /\ w.c = m.c /\ w.isNew = m.isNew /\ w.kind = "complete"
  <2>1. "complete" \in Kinds
    BY DEF Kinds
  <2>2. QED
    BY <1>0, <1>1, <2>1 DEF Work, Msg, Letter
<1>3. /\ inbox' = [inbox EXCEPT ![d] = @ \ {m}]
      /\ chans' = SendInterps(chans, d, m.c)
      /\ busy' = [busy EXCEPT ![d] = w]
      /\ UNCHANGED <<st, held, files, agreed, removed, listening, dialing, exchanging>>
  BY <1>0 DEF ConnectionComplete
<1>4. Chans(d)
  BY <1>1, <1>3, SendInterpsChans DEF Between
<1>5. /\ inbox' \in [Device -> SUBSET Letter]
      /\ \A e \in Device : inbox'[e] \subseteq inbox[e]
  BY <1>1, <1>3
<1>6. busy' \in [Device -> Letter \cup {None}] /\ busy'[d] = w
      /\ \A e \in Device : e # d => busy'[e] = busy[e]
  BY <1>1, <1>2, <1>3
<1>7. Shape'
  BY <1>3, <1>4, <1>5, <1>6 DEF Inv, Shape, Chans, files
<1>8. HandlerOK(d)'
  <2>1. Between(m.c, d, m.p)'
    BY <1>1, <1>4 DEF Between, Chans
  <2>2. QED
    BY <1>1, <1>2, <1>3, <1>6, <2>1 DEF HandlerOK, Filed, files
<1>9. \A e, p \in Device : PeerSame(e, p) /\ (Filed(e, p) => Filed(e, p)')
  BY <1>3 DEF PeerSame, Filed, files
<1>10. QED
  BY <1>3, <1>4, <1>5, <1>6, <1>7, <1>8, <1>9, StepKeeps DEF files
(* What is known of the handler that awaits the peer.                       *)
LEMMA Awaiting ==
  ASSUME Inv, NEW d \in Device, busy[d] # None
  PROVE  LET w == busy[d] IN
         /\ w \in Letter /\ w.p \in Device /\ w.p # d /\ w.c \in Nat \cup {None}
         /\ w.isNew \in BOOLEAN /\ w.p \in agreed[d] /\ Between(w.c, d, w.p)
         /\ w.kind \in {"complete", "accept"} => d \in agreed[w.p]
         /\ w.kind = "complete" => (~w.isNew => Filed(d, w.p))
         /\ w.kind \in {"consent", "accept"} => st[d][w.p] = "IncomingPending"
<1>1. HandlerOK(d) /\ busy[d] \in Letter
  BY DEF Inv, Shape
<1>2. QED
  BY <1>1 DEF HandlerOK, Letter

(* The state of p at d becomes s, its waiting channel is forgotten, and the *)
(* files are rewritten from the states or left alone.                       *)
Becomes(d, p, s) ==
  /\ st' = [st EXCEPT ![d][p] = s]
  /\ held' = [held EXCEPT ![d][p] = None]
  /\ \/ SaveStargazers(d, st'[d])
     \/ UNCHANGED peersTsv
  /\ \/ SavePending(d, st'[d])
     \/ UNCHANGED pendingTsv

LEMMA BecomesFacts ==
  ASSUME Inv, NEW d \in Device, NEW p \in Device, NEW s \in States, Becomes(d, p, s)
  PROVE  /\ st' \in [Device -> [Device -> States]]
         /\ held' \in [Device -> [Device -> Nat \cup {None}]]
         /\ pendingTsv' \in [Device -> SUBSET Device] /\ peersTsv' \in [Device -> SUBSET Device]
         /\ st'[d][p] = s /\ held'[d][p] = None
         /\ \A q \in Device : q # p => st'[d][q] = st[d][q] /\ held'[d][q] = held[d][q]
         /\ \A e \in Device : e # d => /\ st'[e] = st[e] /\ held'[e] = held[e]
                                       /\ pendingTsv'[e] = pendingTsv[e]
                                       /\ peersTsv'[e] = peersTsv[e]
         /\ \/ \A q \in Device : q \in peersTsv'[d] <=> st'[d][q] = "Connected"
            \/ peersTsv'[d] = peersTsv[d]
         /\ \/ \A q \in Device : q \in pendingTsv'[d] <=> st'[d][q] = "OutgoingPending"
            \/ pendingTsv'[d] = pendingTsv[d]
<1>1. /\ st \in [Device -> [Device -> States]]
      /\ held \in [Device -> [Device -> Nat \cup {None}]]
      /\ pendingTsv \in [Device -> SUBSET Device] /\ peersTsv \in [Device -> SUBSET Device]
  BY DEF Inv, Shape
<1>2. /\ st' \in [Device -> [Device -> States]]
      /\ held' \in [Device -> [Device -> Nat \cup {None}]]
      /\ st'[d][p] = s /\ held'[d][p] = None
      /\ \A q \in Device : q # p => st'[d][q] = st[d][q] /\ held'[d][q] = held[d][q]
      /\ \A e \in Device : e # d => st'[e] = st[e] /\ held'[e] = held[e]
  BY <1>1 DEF Becomes
<1>3. ASSUME NEW what
      PROVE  /\ With(st'[d], what) \in SUBSET Device
             /\ \A q \in Device : q \in With(st'[d], what) <=> st'[d][q] = what
  BY <1>2 DEF With
<1>4. /\ peersTsv' \in [Device -> SUBSET Device]
      /\ \A e \in Device : e # d => peersTsv'[e] = peersTsv[e]
      /\ \/ \A q \in Device : q \in peersTsv'[d] <=> st'[d][q] = "Connected"
         \/ peersTsv'[d] = peersTsv[d]
  <2>1. CASE SaveStargazers(d, st'[d])
    <3>1. peersTsv' = [peersTsv EXCEPT ![d] = With(st'[d], "Connected")]
      BY <2>1 DEF SaveStargazers
    <3>2. QED
      BY <1>1, <1>3, <3>1
  <2>2. CASE UNCHANGED peersTsv
    BY <1>1, <2>2
  <2>3. QED
    BY <2>1, <2>2 DEF Becomes
<1>5. /\ pendingTsv' \in [Device -> SUBSET Device]
      /\ \A e \in Device : e # d => pendingTsv'[e] = pendingTsv[e]
      /\ \/ \A q \in Device : q \in pendingTsv'[d] <=> st'[d][q] = "OutgoingPending"
         \/ pendingTsv'[d] = pendingTsv[d]
  <2>1. CASE SavePending(d, st'[d])
    <3>1. pendingTsv' = [pendingTsv EXCEPT ![d] = With(st'[d], "OutgoingPending")]
      BY <2>1 DEF SavePending
    <3>2. QED
      BY <1>1, <1>3, <3>1
  <2>2. CASE UNCHANGED pendingTsv
    BY <1>1, <2>2
  <2>3. QED
    BY <2>1, <2>2 DEF Becomes
<1>6. QED
  BY <1>2, <1>4, <1>5

(* Such a step is right if it is right about p: the file of the connected   *)
(* keeps every other peer the user never removed.                           *)
LEMMA BecomesKeeps ==
  ASSUME Inv, NEW d \in Device, NEW p \in Device, NEW s \in States, Becomes(d, p, s), Chans(d),
         s # "IncomingPending",
         s \in {"OutgoingPending", "Connected"} => p \in agreed'[d],
         s = "Connected" => d \in agreed'[p] /\ Filed(d, p)',
         s = "OutgoingPending" => p \in pendingTsv'[d],
         s # "Connected" => st[d][p] # "Connected" \/ p \in removed'[d],
         \A e \in Device : agreed[e] \subseteq agreed'[e] /\ removed[e] \subseteq removed'[e],
         \A e \in Device : e # d => removed'[e] = removed[e]
  PROVE  /\ \A q \in Device : PeerOK(d, q)'
         /\ \A e, q \in Device : Filed(e, q) => Filed(e, q)'
<1>1. /\ \A q \in Device : q # p => st'[d][q] = st[d][q] /\ held'[d][q] = held[d][q]
      /\ st'[d][p] = s /\ held'[d][p] = None
      /\ \A e \in Device : e # d => peersTsv'[e] = peersTsv[e]
      /\ \/ \A q \in Device : q \in peersTsv'[d] <=> st'[d][q] = "Connected"
         \/ peersTsv'[d] = peersTsv[d]
      /\ \/ \A q \in Device : q \in pendingTsv'[d] <=> st'[d][q] = "OutgoingPending"
         \/ pendingTsv'[d] = pendingTsv[d]
  BY BecomesFacts
<1>2. \A q \in Device : PeerOK(d, q)
  BY DEF Inv
<1>3. ASSUME NEW q \in Device, Filed(d, q)
      PROVE  Filed(d, q)'
  <2>1. CASE q \in removed[d]
    BY <2>1 DEF Filed
  <2>2. CASE q \in peersTsv[d] /\ q \notin removed[d] /\ q \notin removed'[d]
    <3>1. st[d][q] = "Connected"
      BY <1>2, <2>2 DEF PeerOK
    <3>2. st'[d][q] = "Connected"
      BY <1>1, <2>2, <3>1
    <3>3. QED
      BY <1>1, <2>2, <3>2 DEF Filed
  <2>3. QED
    BY <1>3, <2>1, <2>2 DEF Filed
<1>4. ASSUME NEW q \in Device
      PROVE  PeerOK(d, q)'
  <2>1. PeerOK(d, q) /\ (Filed(d, q) => Filed(d, q)')
    BY <1>2, <1>3
  <2>2. ASSUME held'[d][q] # None
        PROVE  Between(held[d][q], d, q)'
    <3>1. held'[d][q] = held[d][q] /\ Between(held[d][q], d, q)
      BY <1>1, <2>1, <2>2 DEF PeerOK
    <3>2. QED
      BY <3>1 DEF Between, Chans
  <2>3. /\ st'[d][q] = "Connected" => d \in agreed'[q] /\ Filed(d, q)'
        /\ st'[d][q] \in {"OutgoingPending", "Connected"} => q \in agreed'[d]
    BY <1>1, <2>1 DEF PeerOK
  <2>4. /\ st'[d][q] = "OutgoingPending" => q \in pendingTsv'[d]
        /\ q \in pendingTsv'[d] => q \in agreed'[d]
    BY <1>1, <2>1, <2>3 DEF PeerOK
  <2>5. q \in peersTsv'[d] => q \in agreed'[d] /\ d \in agreed'[q]
    BY <1>1, <2>1, <2>3 DEF PeerOK
  <2>6. q \in peersTsv'[d] /\ q \notin removed'[d] => st'[d][q] = "Connected"
    BY <1>1, <2>1 DEF PeerOK
  <2>7. st'[d][q] = "IncomingPending" => held'[d][q] # None
    BY <1>1, <2>1 DEF PeerOK
  <2>8. QED
    BY <2>2, <2>3, <2>4, <2>5, <2>6, <2>7 DEF PeerOK
<1>5. \A e, q \in Device : Filed(e, q) => Filed(e, q)'
  BY <1>1, <1>3 DEF Filed
<1>6. QED
  BY <1>4, <1>5
LEMMA FinishCompleteKeeps ==
  ASSUME Inv, NEW d \in Device, FinishComplete(d)
  PROVE  Inv'
<1>0. PICK w : w = busy[d]
  OBVIOUS
<1>1. /\ w \in Letter /\ w.p \in Device /\ w.p # d /\ w.c \in Nat \cup {None}
      /\ w.isNew \in BOOLEAN /\ w.p \in agreed[d] /\ Between(w.c, d, w.p)
      /\ d \in agreed[w.p] /\ (~w.isNew => Filed(d, w.p))
  BY <1>0, Awaiting DEF FinishComplete
<1>2. /\ st' = [st EXCEPT ![d][w.p] = "Connected"]
      /\ held' = [held EXCEPT ![d][w.p] = None]
      /\ chans' = Closed(HeldBy(d, w.p))
      /\ \/ w.isNew /\ SaveStargazers(d, st'[d]) /\ SavePending(d, st'[d])
         \/ ~w.isNew /\ UNCHANGED files
      /\ listening' = [listening EXCEPT ![d] = @ \cup {w.c}]
      /\ busy' = [busy EXCEPT ![d] = None]
      /\ UNCHANGED <<inbox, dialing, exchanging, agreed, removed>>
  BY <1>0, <1>1 DEF FinishComplete, Install
<1>3. Chans(d)
  BY <1>2, ClosedChans
<1>4. Becomes(d, w.p, "Connected") /\ "Connected" \in States
  BY <1>2 DEF Becomes, files, States
<1>5. /\ st' \in [Device -> [Device -> States]]
      /\ held' \in [Device -> [Device -> Nat \cup {None}]]
      /\ pendingTsv' \in [Device -> SUBSET Device] /\ peersTsv' \in [Device -> SUBSET Device]
      /\ st'[d][w.p] = "Connected"
      /\ \A e \in Device : e # d => /\ st'[e] = st[e] /\ held'[e] = held[e]
                                    /\ pendingTsv'[e] = pendingTsv[e]
                                    /\ peersTsv'[e] = peersTsv[e]
  BY <1>1, <1>4, BecomesFacts
<1>6. Filed(d, w.p)'
  <2>1. CASE w.isNew
    <3>1. st' \in [Device -> [Device -> States]] /\ peersTsv \in [Device -> SUBSET Device]
      BY <1>5 DEF Inv, Shape
    <3>2. peersTsv'[d] = With(st'[d], "Connected")
      BY <1>2, <2>1, <3>1 DEF SaveStargazers
    <3>3. w.p \in With(st'[d], "Connected")
      BY <1>1, <1>5, <3>1 DEF With
    <3>4. QED
      BY <3>2, <3>3 DEF Filed
  <2>2. CASE ~w.isNew
    BY <1>1, <1>2, <2>2 DEF Filed, files
  <2>3. QED
    BY <1>1, <2>1, <2>2
<1>7. /\ \A q \in Device : PeerOK(d, q)'
      /\ \A e, q \in Device : Filed(e, q) => Filed(e, q)'
  BY <1>1, <1>2, <1>3, <1>4, <1>6, BecomesKeeps
<1>8. /\ listening' \in [Device -> SUBSET (Nat \cup {None})]
      /\ busy' \in [Device -> Letter \cup {None}] /\ busy'[d] = None
      /\ \A e \in Device : e # d => busy'[e] = busy[e]
      /\ \A e \in Device : listening'[e] \subseteq listening[e] \cup (IF e = d THEN {w.c} ELSE {})
  BY <1>1, <1>2 DEF Inv, Shape
<1>9. ListenerOK(d, w.c)'
  BY <1>1, <1>3 DEF ListenerOK, Between, Chans
<1>10. HandlerOK(d)'
  BY <1>8 DEF HandlerOK
<1>11. Shape'
  BY <1>2, <1>3, <1>5, <1>8 DEF Inv, Shape, Chans
<1>12. QED
  BY <1>2, <1>3, <1>5, <1>7, <1>8, <1>9, <1>10, <1>11, StepKeeps

LEMMA FinishAcceptKeeps ==
  ASSUME Inv, NEW d \in Device, FinishAccept(d)
  PROVE  Inv'
<1>0. PICK w : w = busy[d]
  OBVIOUS
<1>1. /\ w \in Letter /\ w.p \in Device /\ w.p # d /\ w.c \in Nat \cup {None}
      /\ w.p \in agreed[d] /\ Between(w.c, d, w.p) /\ d \in agreed[w.p]
  BY <1>0, Awaiting DEF FinishAccept
<1>2. /\ st' = [st EXCEPT ![d][w.p] = "Connected"]
      /\ held' = [held EXCEPT ![d][w.p] = None]
      /\ SaveStargazers(d, st'[d])
      /\ listening' = [listening EXCEPT ![d] = @ \cup {w.c}]
      /\ busy' = [busy EXCEPT ![d] = None]
      /\ UNCHANGED <<pendingTsv, chans, inbox, dialing, exchanging, agreed, removed>>
  BY <1>0, <1>1 DEF FinishAccept, Install
<1>3. Chans(d)
  BY <1>2, SameChans
<1>4. Becomes(d, w.p, "Connected") /\ "Connected" \in States
  BY <1>2 DEF Becomes, States
<1>5. /\ st' \in [Device -> [Device -> States]]
      /\ held' \in [Device -> [Device -> Nat \cup {None}]]
      /\ pendingTsv' \in [Device -> SUBSET Device] /\ peersTsv' \in [Device -> SUBSET Device]
      /\ st'[d][w.p] = "Connected"
      /\ \A e \in Device : e # d => /\ st'[e] = st[e] /\ held'[e] = held[e]
                                    /\ pendingTsv'[e] = pendingTsv[e]
                                    /\ peersTsv'[e] = peersTsv[e]
  BY <1>1, <1>4, BecomesFacts
<1>6. Filed(d, w.p)'
  <2>1. peersTsv \in [Device -> SUBSET Device]
    BY DEF Inv, Shape
  <2>2. peersTsv'[d] = With(st'[d], "Connected")
    BY <1>2, <2>1 DEF SaveStargazers
  <2>3. w.p \in With(st'[d], "Connected")
    BY <1>1, <1>5 DEF With
  <2>4. QED
    BY <2>2, <2>3 DEF Filed
<1>7. /\ \A q \in Device : PeerOK(d, q)'
      /\ \A e, q \in Device : Filed(e, q) => Filed(e, q)'
  BY <1>1, <1>2, <1>3, <1>4, <1>6, BecomesKeeps
<1>8. /\ listening' \in [Device -> SUBSET (Nat \cup {None})]
      /\ busy' \in [Device -> Letter \cup {None}] /\ busy'[d] = None
      /\ \A e \in Device : e # d => busy'[e] = busy[e]
      /\ \A e \in Device : listening'[e] \subseteq listening[e] \cup (IF e = d THEN {w.c} ELSE {})
  BY <1>1, <1>2 DEF Inv, Shape
<1>9. ListenerOK(d, w.c)'
  BY <1>1, <1>3 DEF ListenerOK, Between, Chans
<1>10. HandlerOK(d)'
  BY <1>8 DEF HandlerOK
<1>11. Shape'
  BY <1>2, <1>3, <1>5, <1>8 DEF Inv, Shape, Chans
<1>12. QED
  BY <1>2, <1>3, <1>5, <1>7, <1>8, <1>9, <1>10, <1>11, StepKeeps

LEMMA AcceptFailsKeeps ==
  ASSUME Inv, NEW d \in Device, AcceptFails(d)
  PROVE  Inv'
<1>0. PICK w : w = busy[d]
  OBVIOUS
<1>1. /\ w \in Letter /\ w.p \in Device /\ w.p # d /\ w.c \in Nat \cup {None}
      /\ Between(w.c, d, w.p) /\ st[d][w.p] = "IncomingPending"
  BY <1>0, Awaiting DEF AcceptFails
<1>2. /\ st' = [st EXCEPT ![d][w.p] = "Discovered"]
      /\ held' = [held EXCEPT ![d][w.p] = None]
      /\ listening' = [listening EXCEPT ![d] = @ \cup {w.c}]
      /\ busy' = [busy EXCEPT ![d] = None]
      /\ UNCHANGED <<pendingTsv, peersTsv, chans, inbox, dialing, exchanging, agreed, removed>>
  BY <1>0, <1>1 DEF AcceptFails, Install, files
<1>3. Chans(d)
  BY <1>2, SameChans
<1>4. Becomes(d, w.p, "Discovered") /\ "Discovered" \in States
  BY <1>2 DEF Becomes, States
<1>5. /\ st' \in [Device -> [Device -> States]]
      /\ held' \in [Device -> [Device -> Nat \cup {None}]]
      /\ \A e \in Device : e # d => st'[e] = st[e] /\ held'[e] = held[e]
  BY <1>1, <1>4, BecomesFacts
<1>6. /\ \A q \in Device : PeerOK(d, q)'
      /\ \A e, q \in Device : Filed(e, q) => Filed(e, q)'
  BY <1>1, <1>2, <1>3, <1>4, BecomesKeeps
<1>7. /\ listening' \in [Device -> SUBSET (Nat \cup {None})]
      /\ busy' \in [Device -> Letter \cup {None}] /\ busy'[d] = None
      /\ \A e \in Device : e # d => busy'[e] = busy[e]
      /\ \A e \in Device : listening'[e] \subseteq listening[e] \cup (IF e = d THEN {w.c} ELSE {})
  BY <1>1, <1>2 DEF Inv, Shape
<1>8. ListenerOK(d, w.c)'
  BY <1>1, <1>3 DEF ListenerOK, Between, Chans
<1>9. HandlerOK(d)'
  BY <1>7 DEF HandlerOK
<1>10. Shape'
  BY <1>2, <1>3, <1>5, <1>7 DEF Inv, Shape, Chans
<1>11. QED
  BY <1>2, <1>3, <1>5, <1>6, <1>7, <1>8, <1>9, <1>10, StepKeeps

(* The peer's chart arrives: the peer had sent it, so it had agreed.        *)
LEMMA AcceptExchangedKeeps ==
  ASSUME Inv, NEW d \in Device, AcceptExchanged(d)
  PROVE  Inv'
<1>0. PICK w : w = busy[d]
  OBVIOUS
<1>1. /\ w \in Letter /\ w.p \in Device /\ w.p # d /\ w.p \in agreed[d]
      /\ Between(w.c, d, w.p) /\ st[d][w.p] = "IncomingPending"
  BY <1>0, Awaiting DEF AcceptExchanged
<1>2. /\ chans' = SendInterps(chans, d, w.c)
      /\ busy' = [busy EXCEPT ![d] = [w EXCEPT !.kind = "accept"]]
      /\ GotConsent(d, w.c)
      /\ UNCHANGED <<st, held, files, agreed, removed, listening, inbox, dialing, exchanging>>
  BY <1>0, <1>1 DEF AcceptExchanged
<1>3. Chans(d)
  BY <1>1, <1>2, SendInterpsChans DEF Between
<1>4. d \in agreed[w.p]
  BY <1>1, <1>2, BothAgreed
<1>5. PICK v : v = [w EXCEPT !.kind = "accept"]
  OBVIOUS
<1>6. v \in Letter /\ v.p = w.p /\ v.c = w.c /\ v.kind = "accept"
  BY <1>1, <1>5 DEF Letter, Kinds
<1>7. /\ busy' \in [Device -> Letter \cup {None}] /\ busy'[d] = v
      /\ \A e \in Device : e # d => busy'[e] = busy[e]
  BY <1>2, <1>5, <1>6 DEF Inv, Shape
<1>8. HandlerOK(d)'
  <2>1. Between(w.c, d, w.p)'
    BY <1>1, <1>3 DEF Between, Chans
  <2>2. QED
    BY <1>1, <1>2, <1>4, <1>6, <1>7, <2>1 DEF HandlerOK
<1>9. Shape'
  BY <1>2, <1>3, <1>7 DEF Inv, Shape, Chans, files
<1>10. \A e, p \in Device : PeerSame(e, p) /\ (Filed(e, p) => Filed(e, p)')
  BY <1>2 DEF PeerSame, Filed, files
<1>11. QED
  BY <1>2, <1>3, <1>7, <1>8, <1>9, <1>10, StepKeeps DEF files
----------------------------------------------------------------------------
(* The user.                                                                *)
LEMMA ProposeConsentKeeps ==
  ASSUME Inv, NEW d \in Device, NEW p \in Peers(d), ProposeConsent(d, p)
  PROVE  Inv'
<1>0. PICK r : r = Reconnect(p)
  OBVIOUS
<1>1. /\ p \in Device /\ p # d /\ r \in Letter /\ r.p = p /\ r.kind = "Reconnect"
  BY <1>0, ReconnectLetter DEF Peers
<1>2. /\ st' = [st EXCEPT ![d][p] = "OutgoingPending"]
      /\ held' = [held EXCEPT ![d][p] = None]
      /\ chans' = Closed(HeldBy(d, p))
      /\ SavePending(d, st'[d])
      /\ inbox' = [inbox EXCEPT ![d] = @ \cup {r}]
      /\ agreed' = [agreed EXCEPT ![d] = @ \cup {p}]
      /\ st[d][p] # "Connected" /\ busy[d] = None
      /\ UNCHANGED <<peersTsv, listening, dialing, exchanging, busy, removed>>
  BY <1>0 DEF ProposeConsent, Free
<1>3. Chans(d)
  BY <1>2, ClosedChans
<1>4. Becomes(d, p, "OutgoingPending") /\ "OutgoingPending" \in States
  BY <1>2 DEF Becomes, States
<1>5. /\ st' \in [Device -> [Device -> States]]
      /\ held' \in [Device -> [Device -> Nat \cup {None}]]
      /\ pendingTsv' \in [Device -> SUBSET Device] /\ peersTsv' \in [Device -> SUBSET Device]
      /\ st'[d][p] = "OutgoingPending"
      /\ \A e \in Device : e # d => /\ st'[e] = st[e] /\ held'[e] = held[e]
                                    /\ pendingTsv'[e] = pendingTsv[e]
                                    /\ peersTsv'[e] = peersTsv[e]
  BY <1>1, <1>4, BecomesFacts
<1>6. p \in pendingTsv'[d]
  <2>1. pendingTsv'[d] = With(st'[d], "OutgoingPending")
    BY <1>2 DEF SavePending, Inv, Shape
  <2>2. p \in With(st'[d], "OutgoingPending")
    BY <1>1, <1>5 DEF With
  <2>3. QED
    BY <2>1, <2>2
<1>7. /\ agreed' \in [Device -> SUBSET Device] /\ p \in agreed'[d]
      /\ \A e \in Device : agreed[e] \subseteq agreed'[e] /\ e \notin agreed'[e]
  BY <1>1, <1>2 DEF Inv, Shape
<1>8. /\ \A q \in Device : PeerOK(d, q)'
      /\ \A e, q \in Device : Filed(e, q) => Filed(e, q)'
  BY <1>1, <1>2, <1>3, <1>4, <1>6, <1>7, BecomesKeeps
<1>9. /\ inbox' \in [Device -> SUBSET Letter]
      /\ \A e \in Device : inbox'[e] \subseteq inbox[e] \cup (IF e = d THEN {r} ELSE {})
  BY <1>1, <1>2, OneMore DEF Inv, Shape
<1>10. MessageOK(d, r)'
  BY <1>1 DEF MessageOK
<1>11. Shape'
  BY <1>2, <1>3, <1>5, <1>7, <1>9 DEF Inv, Shape, Chans
<1>12. QED
  BY <1>2, <1>3, <1>5, <1>7, <1>8, <1>9, <1>10, <1>11, StepKeeps

LEMMA RejectConsentKeeps ==
  ASSUME Inv, NEW d \in Device, NEW p \in Peers(d), RejectConsent(d, p)
  PROVE  Inv'
<1>1. p \in Device /\ p # d
  BY DEF Peers
<1>2. /\ st' = [st EXCEPT ![d][p] = "Discovered"]
      /\ held' = [held EXCEPT ![d][p] = None]
      /\ chans' = Closed(HeldBy(d, p))
      /\ st[d][p] = "IncomingPending" /\ busy[d] = None
      /\ UNCHANGED <<pendingTsv, peersTsv, inbox, agreed, listening, dialing, exchanging,
                     busy, removed>>
  BY DEF RejectConsent, Free, files
<1>3. Chans(d)
  BY <1>2, ClosedChans
<1>4. Becomes(d, p, "Discovered") /\ "Discovered" \in States
  BY <1>2 DEF Becomes, States
<1>5. /\ st' \in [Device -> [Device -> States]]
      /\ held' \in [Device -> [Device -> Nat \cup {None}]]
      /\ \A e \in Device : e # d => st'[e] = st[e] /\ held'[e] = held[e]
  BY <1>1, <1>4, BecomesFacts
<1>6. /\ \A q \in Device : PeerOK(d, q)'
      /\ \A e, q \in Device : Filed(e, q) => Filed(e, q)'
  BY <1>1, <1>2, <1>3, <1>4, BecomesKeeps
<1>7. Shape'
  BY <1>2, <1>3, <1>5 DEF Inv, Shape, Chans
<1>8. QED
  BY <1>2, <1>3, <1>5, <1>6, <1>7, StepKeeps

LEMMA RemoveStargazerKeeps ==
  ASSUME Inv, NEW d \in Device, NEW p \in Peers(d), RemoveStargazer(d, p)
  PROVE  Inv'
<1>1. p \in Device /\ p # d
  BY DEF Peers
<1>2. /\ st' = [st EXCEPT ![d][p] = "none"]
      /\ held' = [held EXCEPT ![d][p] = None]
      /\ chans' = Closed(HeldBy(d, p))
      /\ SavePending(d, st'[d]) \/ UNCHANGED pendingTsv
      /\ SaveStargazers(d, st'[d]) \/ UNCHANGED peersTsv
      /\ removed' = [removed EXCEPT ![d] = @ \cup {p}]
      /\ busy[d] = None
      /\ UNCHANGED <<inbox, agreed, listening, dialing, exchanging, busy>>
  BY DEF RemoveStargazer, Free
<1>3. Chans(d)
  BY <1>2, ClosedChans
<1>4. Becomes(d, p, "none") /\ "none" \in States
  BY <1>2 DEF Becomes, States
<1>5. /\ st' \in [Device -> [Device -> States]]
      /\ held' \in [Device -> [Device -> Nat \cup {None}]]
      /\ pendingTsv' \in [Device -> SUBSET Device] /\ peersTsv' \in [Device -> SUBSET Device]
      /\ \A e \in Device : e # d => /\ st'[e] = st[e] /\ held'[e] = held[e]
                                    /\ pendingTsv'[e] = pendingTsv[e]
                                    /\ peersTsv'[e] = peersTsv[e]
  BY <1>1, <1>4, BecomesFacts
<1>6. /\ removed' \in [Device -> SUBSET Device] /\ p \in removed'[d]
      /\ \A e \in Device : removed[e] \subseteq removed'[e]
      /\ \A e \in Device : e # d => removed'[e] = removed[e]
  BY <1>1, <1>2 DEF Inv, Shape
<1>7. /\ \A q \in Device : PeerOK(d, q)'
      /\ \A e, q \in Device : Filed(e, q) => Filed(e, q)'
  BY <1>1, <1>2, <1>3, <1>4, <1>6, BecomesKeeps
<1>8. Shape'
  BY <1>2, <1>3, <1>5, <1>6 DEF Inv, Shape, Chans
<1>9. QED
  BY <1>2, <1>3, <1>5, <1>6, <1>7, <1>8, StepKeeps

(* The user's chart is sent to the peer whose request was accepted.         *)
LEMMA AcceptConsentKeeps ==
  ASSUME Inv, NEW d \in Device, NEW p \in Peers(d), AcceptConsent(d, p)
  PROVE  Inv'
<1>0. PICK c, w : c = held[d][p] /\ w = Work("consent", p, c, FALSE)
  OBVIOUS
<1>1. /\ p \in Device /\ p # d /\ st[d][p] = "IncomingPending"
      /\ c \in Nat \cup {None} /\ Between(c, d, p)
  <2>1. p \in Device /\ p # d /\ st[d][p] = "IncomingPending"
    BY DEF Peers, AcceptConsent
  <2>2. PeerOK(d, p) /\ held[d][p] \in Nat \cup {None}
    BY <2>1 DEF Inv, Shape
  <2>3. QED
    BY <1>0, <2>1, <2>2 DEF PeerOK
<1>2. w \in Letter /\ w.p = p /\ w.c = c /\ w.kind = "consent"
  <2>1. "consent" \in Kinds
    BY DEF Kinds
  <2>2. QED
    BY <1>0, <1>1, <2>1 DEF Work, Msg, Letter
<1>3. /\ chans' = SendConsent(chans, d, c)
      /\ busy' = [busy EXCEPT ![d] = w]
      /\ agreed' = [agreed EXCEPT ![d] = @ \cup {p}]
      /\ UNCHANGED <<st, held, files, removed, listening, inbox, dialing, exchanging>>
  BY <1>0 DEF AcceptConsent
<1>4. /\ agreed' \in [Device -> SUBSET Device] /\ p \in agreed'[d]
      /\ \A e \in Device : agreed[e] \subseteq agreed'[e] /\ e \notin agreed'[e]
  BY <1>1, <1>3 DEF Inv, Shape
<1>5. Chans(d)
  BY <1>1, <1>3, <1>4, SendConsentChans
<1>6. /\ busy' \in [Device -> Letter \cup {None}] /\ busy'[d] = w
      /\ \A e \in Device : e # d => busy'[e] = busy[e]
  BY <1>2, <1>3 DEF Inv, Shape
<1>7. HandlerOK(d)'
  <2>1. Between(c, d, p)'
    BY <1>1, <1>5 DEF Between, Chans
  <2>2. QED
    BY <1>1, <1>2, <1>3, <1>4, <1>6, <2>1 DEF HandlerOK
<1>8. Shape'
  BY <1>3, <1>4, <1>5, <1>6 DEF Inv, Shape, Chans, files
<1>9. \A e, q \in Device : PeerSame(e, q) /\ (Filed(e, q) => Filed(e, q)')
  BY <1>3 DEF PeerSame, Filed, files
<1>10. QED
  BY <1>3, <1>4, <1>5, <1>6, <1>7, <1>8, <1>9, StepKeeps DEF files

----------------------------------------------------------------------------
(* Failures.                                                                *)
LEMMA DropChannelKeeps ==
  ASSUME Inv, NEW c \in Ids, DropChannel(c)
  PROVE  Inv'
<1>1. /\ chans' = Closed({c})
      /\ UNCHANGED <<st, held, files, agreed, removed, busy, listening, inbox, dialing,
                     exchanging>>
  BY DEF DropChannel, mem, files
<1>2. PICK d \in Device : d = chans[c].from
  BY DEF Inv, Shape, Channel
<1>3. Chans(d)
  BY <1>1, ClosedChans
<1>4. QED
  BY <1>1, <1>3, TaskStep DEF Inv, Shape

(* A restart knows the peers of the two files, and nothing else.            *)
LEMMA RestartKeeps ==
  ASSUME Inv, NEW d \in Device, Restart(d)
  PROVE  Inv'
<1>1. /\ st' = [st EXCEPT ![d] = Loaded(pendingTsv[d], peersTsv[d])]
      /\ held' = [held EXCEPT ![d] = [p \in Device |-> None]]
      /\ listening' = [listening EXCEPT ![d] = {}]
      /\ dialing' = [dialing EXCEPT ![d] = {}]
      /\ exchanging' = [exchanging EXCEPT ![d] = {}]
      /\ busy' = [busy EXCEPT ![d] = None]
      /\ inbox' = [inbox EXCEPT ![d] = {Reconnect(p) : p \in pendingTsv[d] \cup peersTsv[d]}]
      /\ chans' = Closed({c \in Ids : d \in Ends(c)})
      /\ UNCHANGED <<pendingTsv, peersTsv, agreed, removed>>
  BY DEF Restart, files
<1>2. Chans(d)
  BY <1>1, ClosedChans
<1>3. \A p \in Device : PeerOK(d, p)
  BY DEF Inv
<1>4. /\ Loaded(pendingTsv[d], peersTsv[d]) \in [Device -> States]
      /\ \A p \in Device :
           Loaded(pendingTsv[d], peersTsv[d])[p] =
             IF p \in peersTsv[d] THEN "Connected"
             ELSE IF p \in pendingTsv[d] THEN "OutgoingPending" ELSE "none"
  BY DEF Loaded, States
<1>5. /\ st' \in [Device -> [Device -> States]]
      /\ held' \in [Device -> [Device -> Nat \cup {None}]]
      /\ \A p \in Device : /\ st'[d][p] = (IF p \in peersTsv[d] THEN "Connected"
                                           ELSE IF p \in pendingTsv[d] THEN "OutgoingPending"
                                           ELSE "none")
                           /\ held'[d][p] = None
      /\ \A e \in Device : e # d => st'[e] = st[e] /\ held'[e] = held[e]
  BY <1>1, <1>4 DEF Inv, Shape
<1>6. ASSUME NEW p \in Device
      PROVE  PeerOK(d, p)'
  BY <1>1, <1>3, <1>5 DEF PeerOK, Filed
<1>7. ASSUME NEW m \in inbox'[d]
      PROVE  m \in Letter /\ MessageOK(d, m)'
  <2>1. PICK p \in pendingTsv[d] \cup peersTsv[d] : m = Reconnect(p)
    BY <1>1 DEF Inv, Shape
  <2>2. p \in Device /\ p # d
    BY <1>3, <2>1 DEF Inv, Shape, PeerOK
  <2>3. m \in Letter /\ m.p = p /\ m.kind = "Reconnect"
    BY <2>1, <2>2, ReconnectLetter
  <2>4. QED
    BY <2>2, <2>3 DEF MessageOK
<1>8. /\ inbox' \in [Device -> SUBSET Letter]
      /\ \A e \in Device : e # d => inbox'[e] = inbox[e]
  BY <1>1, <1>7 DEF Inv, Shape
<1>9. /\ dialing' \in [Device -> SUBSET Letter] /\ exchanging' \in [Device -> SUBSET Letter]
      /\ listening' \in [Device -> SUBSET (Nat \cup {None})]
      /\ busy' \in [Device -> Letter \cup {None}] /\ busy'[d] = None
      /\ \A e \in Device : /\ dialing'[e] \subseteq dialing[e]
                           /\ exchanging'[e] \subseteq exchanging[e]
                           /\ listening'[e] \subseteq listening[e]
                           /\ e # d => busy'[e] = busy[e]
  BY <1>1 DEF Inv, Shape
<1>10. HandlerOK(d)'
  BY <1>9 DEF HandlerOK
<1>11. Shape'
  BY <1>1, <1>2, <1>5, <1>8, <1>9 DEF Inv, Shape, Chans
<1>12. \A e, p \in Device : Filed(e, p) => Filed(e, p)'
  BY <1>1 DEF Filed
<1>13. \A e \in Device : \A m \in inbox'[e] : m \in inbox[e] \/ MessageOK(e, m)'
  BY <1>7, <1>8
<1>14. QED
  BY <1>1, <1>2, <1>5, <1>6, <1>9, <1>10, <1>11, <1>12, <1>13, StepKeeps

----------------------------------------------------------------------------
LEMMA InitInv == Init => Inv
<1> SUFFICES ASSUME Init
             PROVE  Inv
  OBVIOUS
<1>1. \A p \in Device : Loaded({}, {})[p] = "none"
  BY DEF Loaded
<1>2. Loaded({}, {}) \in [Device -> States]
  BY DEF Loaded, States
<1>3. Ids = {} /\ Cardinality(Ids) = 0 /\ Ids = 1 .. Cardinality(Ids)
  <2>1. Ids = {}
    BY DEF Init, Ids
  <2>2. QED
    BY <2>1, FS_EmptySet
<1>4. Shape
  BY <1>2, <1>3 DEF Init, Shape
<1>5. ChannelsOK
  BY <1>3 DEF ChannelsOK
<1>6. ASSUME NEW d \in Device, NEW p \in Device
      PROVE  PeerOK(d, p)
  BY <1>1 DEF Init, PeerOK
<1>7. ASSUME NEW d \in Device
      PROVE  /\ inbox[d] = {} /\ dialing[d] = {} /\ exchanging[d] = {} /\ listening[d] = {}
             /\ HandlerOK(d)
  BY DEF Init, HandlerOK
<1>8. QED
  BY <1>4, <1>5, <1>6, <1>7 DEF Inv

LEMMA NextInv == Inv /\ [Next]_vars => Inv'
<1> SUFFICES ASSUME Inv, [Next]_vars
             PROVE  Inv'
  OBVIOUS
<1>1. ASSUME NEW d \in Device, Task(d)
      PROVE  Inv'
  <2>1. CASE \E p \in Peers(d) : HearAnnounce(d, p)
    BY <2>1, HearAnnounceKeeps
  <2>2. CASE \E t \in dialing[d] : Dial(d, t) \/ DialFails(d, t)
    BY <2>2, DialKeeps, DialFailsKeeps
  <2>3. CASE \E t \in exchanging[d] : ExchangeDone(d, t) \/ ExchangeFails(d, t)
    BY <2>3, ExchangeDoneKeeps, ExchangeFailsKeeps
  <2>4. CASE \E c \in listening[d] : ListenerEnds(d, c)
    BY <2>4, ListenerEndsKeeps
  <2>5. QED
    BY <1>1, <2>1, <2>2, <2>3, <2>4 DEF Task
<1>2. ASSUME NEW d \in Device, Handle(d)
      PROVE  Inv'
  <2>1. ASSUME NEW m \in inbox[d],
               \/ PeerDiscovered(d, m) \/ HandleReconnect(d, m) \/ IncomingChannel(d, m)
               \/ PeerChannelClosed(d, m) \/ ConnectionComplete(d, m)
        PROVE  Inv'
    BY <2>1, PeerDiscoveredKeeps, HandleReconnectKeeps, AutoAcceptKeeps, IncomingKeeps,
       PeerChannelClosedKeeps, ConnectionCompleteKeeps
  <2>2. CASE FinishComplete(d) \/ AcceptExchanged(d) \/ AcceptFails(d) \/ FinishAccept(d)
    BY <2>2, FinishCompleteKeeps, AcceptExchangedKeeps, AcceptFailsKeeps, FinishAcceptKeeps
  <2>3. QED
    BY <1>2, <2>1, <2>2 DEF Handle
<1>3. ASSUME NEW d \in Device, User(d)
      PROVE  Inv'
  BY <1>3, ProposeConsentKeeps, RemoveStargazerKeeps, AcceptConsentKeeps, RejectConsentKeeps
     DEF User
<1>4. ASSUME NEW d \in Device, Restart(d)
      PROVE  Inv'
  BY <1>4, RestartKeeps
<1>5. ASSUME NEW c \in Ids, DropChannel(c)
      PROVE  Inv'
  BY <1>5, DropChannelKeeps
<1>6. CASE UNCHANGED vars
  <2>1. /\ UNCHANGED chans
        /\ UNCHANGED <<st, held, files, agreed, removed, busy, listening, inbox, dialing,
                       exchanging>>
    BY <1>6 DEF vars, files
  <2>2. CASE Device = {}
    BY <2>1, <2>2 DEF Inv, Shape, ChannelsOK, Ids, Channel, files, Between
  <2>3. ASSUME NEW d \in Device
        PROVE  Inv'
    <3>1. Chans(d)
      BY <2>1, SameChans
    <3>2. QED
      BY <2>1, <3>1, TaskStep DEF Inv, Shape
  <2>4. QED
    BY <2>2, <2>3
<1>7. QED
  BY <1>1, <1>2, <1>3, <1>4, <1>5, <1>6 DEF Next

(* The inductive invariant: the agreements behind every state, file, task,  *)
(* message and waiting handler, and the files behind every state.           *)
THEOREM StargazerInvariance == Spec => []Inv
<1>1. QED
  BY InitInv, NextInv, PTL DEF Spec

(* Birth data leave a device only for peers its user agreed to, and who is  *)
(* Connected was agreed to on both sides.                                   *)
THEOREM ConsentIsMutual == Spec => []MutualConsent
<1>1. Inv => MutualConsent
  <2> SUFFICES ASSUME Inv
               PROVE  MutualConsent
    OBVIOUS
  <2>1. ASSUME NEW c \in Ids, NEW d \in chans[c].consent
        PROVE  Far(d, c) \in agreed[d]
    <3>1. PICK p \in Device : p # d /\ Between(c, d, p)
      BY DEF Inv, Shape, ChannelsOK, Channel, Between
    <3>2. d \in Device
      BY DEF Inv, Shape, Channel
    <3>3. Far(d, c) = p
      BY <3>1, <3>2, FarEnd
    <3>4. QED
      BY <3>1, <3>3 DEF Inv, ChannelsOK
  <2>2. ASSUME NEW d \in Device, NEW p \in Peers(d), st[d][p] = "Connected"
        PROVE  p \in agreed[d] /\ d \in agreed[p]
    BY <2>2 DEF Inv, PeerOK, Peers
  <2>3. QED
    BY <2>1, <2>2 DEF MutualConsent
<1>2. QED
  BY <1>1, StargazerInvariance, PTL

(* A restart at any point finds every peer being sought, and every          *)
(* connected peer that was never removed, in the files.                     *)
THEOREM RestartForgetsNobody == Spec => []NobodyForgotten
<1>1. Inv => NobodyForgotten
  BY DEF Inv, PeerOK, Filed, NobodyForgotten, Peers
<1>2. QED
  BY <1>1, StargazerInvariance, PTL

----------------------------------------------------------------------------
(* Types, beyond those of the invariant: the number of channels, the two    *)
(* ends of one, and what a device keeps of a peer.                          *)
ChansTyped ==
  /\ Cardinality(Ids) <= MaxChannels
  /\ \A c \in Ids : chans[c].interps \subseteq Ends(c)
PeersTyped(d) ==
  /\ st[d][d] = "none" /\ seen[d] \subseteq Peers(d) /\ removed[d] \subseteq Peers(d)
  /\ conns[d] \in [Device -> Ids \cup {None}]
  /\ \A p \in Device : held[d][p] # None => st[d][p] = "IncomingPending"
LettersTyped(d) ==
  /\ \A m \in inbox[d] : m.c \in Ids \cup {None}
  /\ \A t \in dialing[d] : t.c = None
Rest ==
  /\ Inv /\ ChansTyped /\ spent \subseteq Faults
  /\ conns \in [Device -> [Device -> Nat \cup {None}]] /\ DOMAIN seen = Device
  /\ \A d \in Device : PeersTyped(d) /\ LettersTyped(d)

LEMMA RestIsTypeOK == Rest => TypeOK
<1> SUFFICES ASSUME Rest PROVE TypeOK
  OBVIOUS
<1>1. Inv /\ Shape /\ ChannelsOK /\ ChansTyped
  BY DEF Rest, Inv
<1>2. MaxChannels \in Nat /\ Ids \subseteq ChanIds /\ None \notin Ids
  BY <1>1, StargazerAssumption DEF Shape, ChansTyped, ChanIds
<1>3. ASSUME NEW c \in Ids
      PROVE  chans[c] \in [from : Device, to : Device, open : BOOLEAN,
                           consent : SUBSET Ends(c), interps : SUBSET Ends(c)]
  <2>1. chans[c] \in Channel
    BY <1>1 DEF Shape
  <2>2. chans[c].consent \subseteq Ends(c) /\ chans[c].interps \subseteq Ends(c)
    BY <1>1 DEF ChannelsOK, ChansTyped, Ends
  <2>3. QED
    BY <2>1, <2>2 DEF Channel
<1>4. ASSUME NEW d \in Device
      PROVE  /\ st[d] \in [Device -> States] /\ st[d][d] = "none"
             /\ \A p \in Device : (held[d][p] \in Ids) <=> (st[d][p] = "IncomingPending")
             /\ conns[d] \in [Device -> Ids \cup {None}]
             /\ {pendingTsv[d], peersTsv[d], seen[d], agreed[d], removed[d]} \subseteq SUBSET Peers(d)
             /\ listening[d] \subseteq Ids
  <2>1. PeersTyped(d) /\ \A p \in Device : PeerOK(d, p)
    BY DEF Rest, Inv
  <2>2. \A p \in Device : (held[d][p] \in Ids) <=> (st[d][p] = "IncomingPending")
    <3>1. \A p \in Device : held[d][p] \in Ids \cup {None}
      BY <2>1 DEF PeerOK, Between
    <3>2. \A p \in Device : held[d][p] # None <=> st[d][p] = "IncomingPending"
      BY <2>1 DEF PeersTyped, PeerOK
    <3>3. QED
      BY <1>2, <3>1, <3>2
  <2>3. pendingTsv[d] \subseteq agreed[d] /\ peersTsv[d] \subseteq agreed[d] /\ agreed[d] \subseteq Peers(d)
    BY <1>1, <2>1 DEF Shape, PeerOK, Peers
  <2>4. \A c \in listening[d] : ListenerOK(d, c)
    BY DEF Rest, Inv
  <2>5. listening[d] \subseteq Ids
    BY <2>4 DEF ListenerOK, Between
  <2>6. st[d] \in [Device -> States]
    BY <1>1 DEF Shape
  <2>7. {pendingTsv[d], peersTsv[d], seen[d], agreed[d], removed[d]} \subseteq SUBSET Peers(d)
    BY <2>1, <2>3 DEF PeersTyped
  <2>8. QED
    BY <2>1, <2>2, <2>5, <2>6, <2>7 DEF PeersTyped
<1>5. ASSUME NEW d \in Device
      PROVE  inbox[d] \cup dialing[d] \cup exchanging[d] \subseteq MsgOf(d)
  <2>1. /\ \A m \in inbox[d] : MessageOK(d, m) /\ m \in Letter
        /\ \A t \in dialing[d] : Known(d, t) /\ t \in Letter
        /\ \A t \in exchanging[d] : ExchangeOK(d, t) /\ t \in Letter
    BY <1>1 DEF Inv, Shape
  <2>2. \A m : m \in Letter /\ m.p # d /\ m.c \in Ids \cup {None} => m \in MsgOf(d)
    BY <1>2 DEF Letter, MsgOf, Kinds, Peers
  <2>3. \A m \in inbox[d] : m.p # d /\ m.c \in Ids \cup {None}
    BY <2>1 DEF MessageOK, Rest, LettersTyped
  <2>4. \A t \in dialing[d] : t.p # d /\ t.c \in Ids \cup {None}
    BY <2>1 DEF Known, Rest, LettersTyped
  <2>5. \A t \in exchanging[d] : t.p # d /\ t.c \in Ids \cup {None}
    BY <2>1 DEF Known, ExchangeOK, Between
  <2>6. QED
    BY <2>1, <2>2, <2>3, <2>4, <2>5
<1>6. ASSUME NEW d \in Device PROVE busy[d] \in MsgOf(d) \cup {None}
  <2>1. CASE busy[d] # None
    <3>1. busy[d] \in Letter /\ HandlerOK(d)
      BY <1>1, <2>1 DEF Inv, Shape
    <3>2. busy[d].p # d /\ busy[d].c \in Ids
      BY <2>1, <3>1 DEF HandlerOK, Between
    <3>3. QED
      BY <1>2, <3>1, <3>2 DEF Letter, MsgOf, Kinds, Peers
  <2>2. QED
    BY <2>1
<1>7. QED
  BY <1>1, <1>3, <1>4, <1>5, <1>6 DEF TypeOK, Shape, ChansTyped, Rest

LEMMA RestInit == Init => Rest
<1> SUFFICES ASSUME Init PROVE Rest
  OBVIOUS
<1>1. Ids = {} /\ Cardinality(Ids) = 0
  <2>1. Ids = {}
    BY DEF Init, Ids
  <2>2. QED
    BY <2>1, FS_EmptySet
<1>2. ChansTyped
  BY <1>1, StargazerAssumption DEF ChansTyped
<1>3. ASSUME NEW d \in Device PROVE PeersTyped(d) /\ LettersTyped(d)
  <2>1. st[d][d] = "none"
    BY DEF Init, Loaded
  <2>2. QED
    BY <2>1 DEF Init, PeersTyped, LettersTyped
<1>4. conns \in [Device -> [Device -> Nat \cup {None}]] /\ DOMAIN seen = Device /\ spent \subseteq Faults
  BY DEF Init
<1>5. QED
  BY <1>2, <1>3, <1>4, InitInv DEF Rest

(* What the operators on channels keep of the types.                        *)
MoreChans == ChansTyped' /\ Ids \subseteq Ids'

LEMMA ClosedTyped ==
  ASSUME Rest, chans' = chans \/ \E cs : chans' = Closed(cs)
  PROVE  MoreChans
<1>1. Ids' = Ids /\ \A c \in Ids : /\ chans'[c].interps = chans[c].interps
                                   /\ chans'[c].from = chans[c].from /\ chans'[c].to = chans[c].to
  <2>1. CASE chans' = chans
    BY <2>1 DEF Ids
  <2>2. CASE \E cs : chans' = Closed(cs)
    <3>1. PICK cs : chans' = Closed(cs)
      BY <2>2
    <3>2. Ids' = Ids
      BY <3>1 DEF Closed, Ids
    <3>3. ASSUME NEW c \in Ids
          PROVE  /\ chans'[c].interps = chans[c].interps
                 /\ chans'[c].from = chans[c].from /\ chans'[c].to = chans[c].to
      <4>1. chans[c] \in Channel
        BY DEF Rest, Inv, Shape
      <4>2. chans'[c] = [chans[c] EXCEPT !.open = @ /\ c \notin cs]
        BY <3>1 DEF Closed
      <4>3. QED
        BY <4>1, <4>2 DEF Channel
    <3>4. QED
      BY <3>2, <3>3
  <2>3. QED
    BY <2>1, <2>2
<1>2. QED
  BY <1>1 DEF Rest, ChansTyped, MoreChans, Ends

LEMMA SentTyped ==
  ASSUME Rest, NEW d \in Device, NEW c \in Ids, d \in Ends(c),
         chans' = SendConsent(chans, d, c) \/ chans' = SendInterps(chans, d, c)
  PROVE  MoreChans
<1>1. Ids' = Ids /\ chans \in [Ids -> Channel]
  BY DEF SendConsent, SendInterps, Ids, Rest, Inv, Shape
<1>2. ASSUME NEW i \in Ids
      PROVE  /\ chans'[i].from = chans[i].from /\ chans'[i].to = chans[i].to
             /\ \A e \in chans'[i].interps : e \in chans[i].interps \/ (e = d /\ i = c)
  <2>1. chans[i] \in Channel
    BY <1>1
  <2>2. \/ chans'[i] = chans[i]
        \/ chans'[i] = [chans[i] EXCEPT !.consent = @ \cup {d}]
        \/ i = c /\ chans'[i] = [chans[i] EXCEPT !.interps = @ \cup {d}]
    BY <1>1 DEF SendConsent, SendInterps
  <2>3. QED
    BY <2>1, <2>2 DEF Channel
<1>3. QED
  BY <1>1, <1>2 DEF Rest, ChansTyped, MoreChans, Ends

LEMMA DialTyped ==
  ASSUME Rest, NEW d \in Device, NEW t \in dialing[d], Dial(d, t)
  PROVE  MoreChans /\ Cardinality(Ids) + 1 \in Ids'
<1> DEFINE n == Cardinality(Ids)
           ch == [from |-> d, to |-> t.p, open |-> TRUE, consent |-> {d}, interps |-> {}]
<1>1. /\ n + 1 <= MaxChannels
      /\ chans' = [i \in 1 .. (n + 1) |-> IF i = n + 1 THEN ch ELSE chans[i]]
  BY DEF Dial
<1>2. n \in Nat /\ Ids = 1 .. n
  BY DEF Rest, Inv, Shape
<1>3. Ids' = 1 .. (n + 1) /\ Cardinality(Ids') = n + 1 /\ Ids \subseteq Ids' /\ n + 1 \in Ids'
  <2>1. Ids' = 1 .. (n + 1)
    BY <1>1 DEF Ids
  <2>2. QED
    BY <1>2, <2>1, NextId
<1>4. ASSUME NEW i \in Ids' PROVE chans'[i].interps \subseteq Ends(i)'
  <2>1. CASE i = n + 1
    BY <1>1, <1>3, <2>1
  <2>2. CASE i # n + 1
    <3>1. i \in Ids /\ chans'[i] = chans[i]
      BY <1>1, <1>2, <1>3, <2>2, NextId
    <3>2. QED
      BY <3>1 DEF Rest, ChansTyped, Ends
  <2>3. QED
    BY <2>1, <2>2
<1>5. QED
  BY <1>1, <1>3, <1>4 DEF ChansTyped, MoreChans

----------------------------------------------------------------------------
(* The obligations of a step of device d, as in StepKeeps.                  *)
Apart(d) ==
  \A e \in Device : e # d => /\ st'[e] = st[e] /\ held'[e] = held[e] /\ conns'[e] = conns[e]
                             /\ seen'[e] = seen[e] /\ removed'[e] = removed[e]
NewLetters ==
  \A e \in Device : /\ \A m \in inbox'[e] : m \in inbox[e] \/ m.c \in Ids' \cup {None}
                    /\ \A t \in dialing'[e] : t \in dialing[e] \/ t.c = None
ConnsKept ==
  /\ conns' \in [Device -> [Device -> Nat \cup {None}]] /\ DOMAIN seen' = Device
  /\ spent' \subseteq Faults

LEMMA RestStep ==
  ASSUME Rest, Inv', MoreChans, NEW d \in Device, Apart(d), NewLetters, ConnsKept, PeersTyped(d)'
  PROVE  Rest'
<1>1. ASSUME NEW e \in Device, e # d PROVE PeersTyped(e)'
  <2>1. PeersTyped(e)
    BY DEF Rest
  <2>2. Ids \subseteq Ids' /\ conns[e] \in [Device -> Ids \cup {None}]
    BY <2>1 DEF MoreChans, PeersTyped
  <2>3. conns[e] \in [Device -> Ids' \cup {None}]
    BY <2>2
  <2>4. QED
    BY <1>1, <2>1, <2>3 DEF Apart, PeersTyped, Peers
<1>2. ASSUME NEW e \in Device PROVE LettersTyped(e)'
  <2>1. LettersTyped(e)
    BY DEF Rest
  <2>2. QED
    BY <2>1 DEF LettersTyped, NewLetters, MoreChans
<1>3. QED
  BY <1>1, <1>2 DEF Rest, ConnsKept, MoreChans

LEMMA SpendTyped ==
  ASSUME Rest, NEW fault, Spend(fault) PROVE spent' \subseteq Faults
  BY DEF Rest, Spend

(* A step that leaves what a device keeps of its peers alone.               *)
LEMMA QuietStep ==
  ASSUME Rest, Inv', MoreChans, NewLetters, spent' \subseteq Faults,
         UNCHANGED <<st, held, conns, seen, removed>>
  PROVE  Rest'
<1>1. CASE Device = {}
  BY <1>1 DEF Rest, MoreChans, PeersTyped
<1>2. ASSUME NEW d \in Device PROVE Rest'
  <2>1. PeersTyped(d)
    BY DEF Rest
  <2>2. conns[d] \in [Device -> Ids' \cup {None}]
    BY <2>1 DEF MoreChans, PeersTyped
  <2>3. PeersTyped(d)'
    BY <2>1, <2>2 DEF PeersTyped, Peers
  <2>4. Apart(d) /\ ConnsKept
    BY DEF Apart, ConnsKept, Rest
  <2>5. QED
    BY <2>3, <2>4, RestStep
<1>3. QED
  BY <1>1, <1>2

LEMMA TaskTyped ==
  ASSUME Rest, Inv', NEW d \in Device, Task(d) PROVE Rest'
<1>1. ASSUME NEW p \in Peers(d), HearAnnounce(d, p) PROVE Rest'
  <2>1. /\ p \in Device /\ seen' = [seen EXCEPT ![d] = @ \cup {p}]
        /\ inbox' = [inbox EXCEPT ![d] = @ \cup {Msg("PeerDiscovered", p, None, FALSE)}]
        /\ UNCHANGED <<st, held, conns, dialing, chans, removed, spent>>
    BY <1>1 DEF HearAnnounce, Peers
  <2>2. MoreChans /\ Ids' = Ids
    BY <2>1, ClosedTyped DEF Ids
  <2>3. NewLetters
    BY <2>1 DEF NewLetters, Msg, Rest, Inv, Shape
  <2>4. PeersTyped(d)'
    BY <1>1, <2>1, <2>2 DEF PeersTyped, Rest, Peers
  <2>5. Apart(d) /\ ConnsKept
    BY <2>1 DEF Apart, ConnsKept, Rest
  <2>6. QED
    BY <2>2, <2>3, <2>4, <2>5, RestStep
<1>2. ASSUME NEW t \in dialing[d], Dial(d, t) PROVE Rest'
  <2>1. MoreChans /\ Cardinality(Ids) + 1 \in Ids'
    BY <1>2, DialTyped
  <2>2. /\ dialing' = [dialing EXCEPT ![d] = @ \ {t}]
        /\ inbox' = [inbox EXCEPT ![t.p] = @ \cup {Msg("IncomingChannel", d, Cardinality(Ids) + 1, FALSE)}]
        /\ UNCHANGED <<st, held, conns, seen, removed, spent>>
    BY <1>2 DEF Dial
  <2>3. NewLetters
    BY <2>1, <2>2 DEF NewLetters, Msg, Rest, Inv, Shape
  <2>4. QED
    BY <2>1, <2>2, <2>3, QuietStep DEF Rest
<1>3. ASSUME NEW t \in dialing[d], DialFails(d, t) PROVE Rest'
  <2>1. NewLetters /\ MoreChans
    BY <1>3, ClosedTyped DEF DialFails, NewLetters, Rest, Inv, Shape
  <2>2. QED
    BY <1>3, <2>1, SpendTyped, QuietStep DEF DialFails
<1>4. ASSUME NEW t \in exchanging[d], ExchangeDone(d, t) \/ ExchangeFails(d, t) PROVE Rest'
  <2>1. MoreChans /\ Ids' = Ids /\ UNCHANGED <<st, held, conns, seen, removed, dialing, spent>>
    BY <1>4, ClosedTyped DEF ExchangeDone, ExchangeFails, Ids
  <2>2. ExchangeOK(d, t)
    BY DEF Rest, Inv
  <2>3. t.c \in Ids
    BY <2>2 DEF ExchangeOK, Between
  <2>4. NewLetters
    <3>1. inbox' = inbox \/ inbox' = [inbox EXCEPT ![d] =
                                        @ \cup {Msg("ConnectionComplete", t.p, t.c, t.isNew)}]
      BY <1>4 DEF ExchangeDone, ExchangeFails
    <3>2. \A e \in Device : \A m \in inbox'[e] : m \in inbox[e] \/ m.c = t.c
      <4>1. CASE inbox' = inbox
        BY <4>1
      <4>2. CASE inbox' = [inbox EXCEPT ![d] = @ \cup {Msg("ConnectionComplete", t.p, t.c, t.isNew)}]
        <5>1. Msg("ConnectionComplete", t.p, t.c, t.isNew).c = t.c
          BY DEF Msg
        <5>2. DOMAIN inbox = Device
          BY DEF Rest, Inv, Shape
        <5>3. \A e \in Device : inbox'[e] \subseteq
                 inbox[e] \cup {Msg("ConnectionComplete", t.p, t.c, t.isNew)}
          BY <4>2, <5>2
        <5>4. QED
          BY <5>1, <5>3
      <4>3. QED
        BY <3>1, <4>1, <4>2
    <3>3. QED
      BY <2>1, <2>3, <3>2 DEF NewLetters
  <2>5. QED
    BY <2>1, <2>4, QuietStep DEF Rest
<1>5. ASSUME NEW c \in listening[d], ListenerEnds(d, c) PROVE Rest'
  <2>1. MoreChans /\ UNCHANGED <<st, held, conns, seen, removed, dialing, spent>>
    BY <1>5, ClosedTyped DEF ListenerEnds
  <2>2. NewLetters
    BY <1>5 DEF ListenerEnds, NewLetters, Msg, Rest, Inv, Shape
  <2>3. QED
    BY <2>1, <2>2, QuietStep DEF Rest
<1>6. QED
  BY <1>1, <1>2, <1>3, <1>4, <1>5 DEF Task

(* A step that changes the state of one peer q, or its channel.             *)
LEMMA PeerStep ==
  ASSUME Rest, Inv', MoreChans, NewLetters, NEW d \in Device, NEW q \in Device, q # d,
         NEW s, NEW h, h # None => s = "IncomingPending", NEW v \in Ids' \cup {None},
         st' = [st EXCEPT ![d][q] = s],
         held' = [held EXCEPT ![d][q] = h] \/ (held' = held /\ held[d][q] = None),
         conns' = [conns EXCEPT ![d][q] = v] \/ conns' = conns,
         seen' = seen, removed' = removed \/ removed' = [removed EXCEPT ![d] = @ \cup {q}],
         spent' \subseteq Faults
  PROVE  Rest'
<1>1. Shape /\ PeersTyped(d) /\ Ids \subseteq Ids' /\ DOMAIN seen = Device
      /\ conns \in [Device -> [Device -> Nat \cup {None}]]
  BY DEF Rest, Inv, MoreChans
<1>2. v \in Nat \cup {None}
  BY DEF Inv, Shape
<1>3. /\ \A e \in Device : e # d => st'[e] = st[e] /\ held'[e] = held[e] /\ conns'[e] = conns[e]
                                    /\ removed'[e] = removed[e]
      /\ st'[d] = [st[d] EXCEPT ![q] = s]
      /\ held'[d] = [held[d] EXCEPT ![q] = h] \/ (held'[d] = held[d] /\ held[d][q] = None)
      /\ conns'[d] = [conns[d] EXCEPT ![q] = v] \/ conns'[d] = conns[d]
      /\ removed'[d] \subseteq removed[d] \cup {q}
  BY <1>1 DEF Shape
<1>4. conns' \in [Device -> [Device -> Nat \cup {None}]]
  <2>1. CASE conns' = [conns EXCEPT ![d][q] = v]
    <3>1. conns' = [conns EXCEPT ![d] = [conns[d] EXCEPT ![q] = v]]
      BY <2>1
    <3>2. [conns[d] EXCEPT ![q] = v] \in [Device -> Nat \cup {None}]
      BY <1>1, <1>2
    <3>3. QED
      BY <1>1, <3>1, <3>2
  <2>2. QED
    BY <1>1, <2>1
<1>5. PeersTyped(d)'
  <2>1. conns'[d] \in [Device -> Ids' \cup {None}]
    <3>1. conns[d] \in [Device -> Ids' \cup {None}]
      BY <1>1 DEF PeersTyped
    <3>2. QED
      BY <1>3, <3>1
  <2>2. st[d] \in [Device -> States] /\ held[d] \in [Device -> Nat \cup {None}]
    BY <1>1 DEF Shape
  <2>3. st'[d][d] = "none"
    BY <1>1, <1>3, <2>2 DEF PeersTyped
  <2>4. ASSUME NEW p \in Device, held'[d][p] # None PROVE st'[d][p] = "IncomingPending"
    BY <1>1, <1>3, <2>2, <2>4 DEF PeersTyped
  <2>5. QED
    BY <1>1, <1>3, <2>1, <2>3, <2>4 DEF PeersTyped, Peers
<1>6. Apart(d) /\ ConnsKept
  BY <1>1, <1>3, <1>4 DEF Apart, ConnsKept
<1>7. QED
  BY <1>5, <1>6, RestStep

LEMMA HandlerTyped ==
  ASSUME Rest, Inv', NEW d \in Device, NEW m \in inbox[d],
         \/ PeerDiscovered(d, m) \/ HandleReconnect(d, m) \/ IncomingChannel(d, m)
         \/ PeerChannelClosed(d, m) \/ ConnectionComplete(d, m)
  PROVE  Rest'
<1>1. m \in Letter /\ m.p \in Device /\ m.p # d /\ MessageOK(d, m) /\ PeersTyped(d) /\ Shape
  BY DEF Rest, Inv, Shape, Letter, MessageOK
<1>2. CASE PeerDiscovered(d, m)
  <2>1. /\ st' = st \/ (st' = [st EXCEPT ![d][m.p] = "Discovered"] /\ st[d][m.p] = "none")
        /\ inbox' = [inbox EXCEPT ![d] =
             (@ \ {m}) \cup (IF WantsRetry(d, m.p) THEN {Reconnect(m.p)} ELSE {})]
        /\ UNCHANGED <<held, conns, seen, removed, dialing, spent>>
    BY <1>2 DEF PeerDiscovered
  <2>2. MoreChans /\ NewLetters
    BY <1>2, <2>1, ClosedTyped DEF PeerDiscovered, NewLetters, Reconnect, Msg, Rest, Inv, Shape
  <2>3. spent' \subseteq Faults
    BY <2>1 DEF Rest
  <2>4. CASE st' = st
    BY <2>1, <2>2, <2>3, <2>4, QuietStep
  <2>5. CASE st' = [st EXCEPT ![d][m.p] = "Discovered"] /\ st[d][m.p] = "none"
    <3>1. held[d][m.p] = None
      BY <1>1, <2>5 DEF PeersTyped
    <3>2. QED
      BY <1>1, <2>1, <2>2, <2>3, <2>5, <3>1, PeerStep
  <2>6. QED
    BY <2>1, <2>4, <2>5
<1>3. CASE HandleReconnect(d, m)
  <2>1. MoreChans /\ UNCHANGED <<st, held, conns, seen, removed, spent>>
    BY <1>3, ClosedTyped DEF HandleReconnect
  <2>2. NewLetters
    <3>1. \A e \in Device : \A l \in inbox'[e] : l \in inbox[e]
      BY <1>1, <1>3 DEF HandleReconnect, Shape
    <3>2. \A e \in Device : \A t \in dialing'[e] : t \in dialing[e] \/ t.c = None
      BY <1>1, <1>3 DEF HandleReconnect, Work, Msg, Shape
    <3>3. QED
      BY <3>1, <3>2 DEF NewLetters
  <2>3. QED
    BY <2>1, <2>2, QuietStep DEF Rest
<1>4. CASE IncomingChannel(d, m) /\ AutoAccepted(d, m.p)
  <2>1. /\ chans' = SendConsent(chans, d, m.c) /\ UNCHANGED <<st, held, conns, seen, removed, dialing, spent>>
        /\ inbox' = [inbox EXCEPT ![d] = @ \ {m}]
    BY <1>4 DEF IncomingChannel
  <2>2. m.c \in Ids /\ d \in Ends(m.c)
    BY <1>1, <1>4 DEF IncomingChannel, MessageOK, Between, Ends
  <2>3. MoreChans
    BY <2>1, <2>2, SentTyped
  <2>4. NewLetters
    BY <1>1, <2>1 DEF NewLetters, Shape
  <2>5. QED
    BY <2>1, <2>3, <2>4, QuietStep DEF Rest
<1>5. CASE IncomingChannel(d, m) /\ ~AutoAccepted(d, m.p)
  <2>1. /\ chans' = Closed(HeldBy(d, m.p)) /\ UNCHANGED <<conns, seen, removed, dialing, spent>>
        /\ inbox' = [inbox EXCEPT ![d] = @ \ {m}]
        /\ st' = [st EXCEPT ![d][m.p] = "IncomingPending"] /\ held' = [held EXCEPT ![d][m.p] = m.c]
    BY <1>5 DEF IncomingChannel
  <2>2. MoreChans
    BY <2>1, ClosedTyped
  <2>3. NewLetters
    BY <1>1, <2>1 DEF NewLetters, Shape
  <2>4. spent' \subseteq Faults
    BY <2>1 DEF Rest
  <2>5. QED
    BY <1>1, <2>1, <2>2, <2>3, <2>4, PeerStep
<1>6. CASE PeerChannelClosed(d, m)
  <2>1. /\ UNCHANGED <<st, held, chans, seen, removed, dialing, spent>>
        /\ conns' = [conns EXCEPT ![d][m.p] = None]
        /\ inbox' = [inbox EXCEPT ![d] =
             (@ \ {m}) \cup (IF st[d][m.p] = "Connected" THEN {Reconnect(m.p)} ELSE {})]
    BY <1>6 DEF PeerChannelClosed
  <2>2. MoreChans /\ NewLetters
    BY <2>1, ClosedTyped DEF NewLetters, Reconnect, Msg, Rest, Inv, Shape
  <2>3. conns' \in [Device -> [Device -> Nat \cup {None}]] /\ conns'[d] = [conns[d] EXCEPT ![m.p] = None]
        /\ \A e \in Device : e # d => conns'[e] = conns[e]
    <3>1. conns' = [conns EXCEPT ![d] = [conns[d] EXCEPT ![m.p] = None]]
      BY <2>1
    <3>2. conns \in [Device -> [Device -> Nat \cup {None}]]
      BY DEF Rest
    <3>3. [conns[d] EXCEPT ![m.p] = None] \in [Device -> Nat \cup {None}]
      BY <3>2
    <3>4. QED
      BY <3>1, <3>2, <3>3
  <2>4. PeersTyped(d)'
    <3>1. conns[d] \in [Device -> Ids' \cup {None}]
      BY <1>1, <2>2 DEF PeersTyped, MoreChans
    <3>2. conns'[d] \in [Device -> Ids' \cup {None}]
      BY <2>3, <3>1
    <3>3. QED
      BY <1>1, <2>1, <3>2 DEF PeersTyped, Peers
  <2>5. Apart(d) /\ ConnsKept
    BY <2>1, <2>3 DEF Apart, ConnsKept, Rest
  <2>6. QED
    BY <2>2, <2>4, <2>5, RestStep
<1>7. CASE ConnectionComplete(d, m)
  <2>1. /\ chans' = SendInterps(chans, d, m.c) /\ UNCHANGED <<st, held, conns, seen, removed, dialing, spent>>
        /\ inbox' = [inbox EXCEPT ![d] = @ \ {m}]
    BY <1>7 DEF ConnectionComplete
  <2>2. m.c \in Ids /\ d \in Ends(m.c)
    BY <1>1, <1>7 DEF ConnectionComplete, MessageOK, Between, Ends
  <2>3. MoreChans
    BY <2>1, <2>2, SentTyped
  <2>4. NewLetters
    BY <1>1, <2>1 DEF NewLetters, Shape
  <2>5. QED
    BY <2>1, <2>3, <2>4, QuietStep DEF Rest
<1>8. QED
  BY <1>2, <1>3, <1>4, <1>5, <1>6, <1>7

LEMMA WorkTyped ==
  ASSUME Rest, Inv', NEW d \in Device,
         FinishComplete(d) \/ AcceptExchanged(d) \/ AcceptFails(d) \/ FinishAccept(d)
  PROVE  Rest'
<1> PICK w : w = busy[d]
  OBVIOUS
<1>1. w # None
  BY DEF FinishComplete, AcceptExchanged, AcceptFails, FinishAccept
<1>2. w.p \in Device /\ w.p # d /\ w.c \in Ids /\ d \in Ends(w.c) /\ Shape
  <2>1. w \in Letter /\ HandlerOK(d) /\ Shape
    BY <1>1 DEF Rest, Inv, Shape
  <2>2. QED
    BY <1>1, <2>1 DEF HandlerOK, Between, Ends, Letter
<1>3. NewLetters /\ UNCHANGED <<seen, removed, spent>>
  BY DEF FinishComplete, AcceptExchanged, AcceptFails, FinishAccept, NewLetters
<1>4. spent' \subseteq Faults
  BY <1>3 DEF Rest
<1>5. CASE AcceptExchanged(d)
  <2>1. chans' = SendInterps(chans, d, w.c) /\ UNCHANGED <<st, held, conns>>
    BY <1>5 DEF AcceptExchanged
  <2>2. MoreChans
    BY <1>2, <2>1, SentTyped
  <2>3. QED
    BY <1>3, <1>4, <2>1, <2>2, QuietStep
<1>6. CASE FinishComplete(d) \/ AcceptFails(d) \/ FinishAccept(d)
  <2>1. /\ chans' = chans \/ chans' = Closed(HeldBy(d, w.p))
        /\ held' = [held EXCEPT ![d][w.p] = None] /\ conns' = [conns EXCEPT ![d][w.p] = w.c]
    BY <1>6 DEF FinishComplete, AcceptFails, FinishAccept, Install
  <2>2. PICK s : st' = [st EXCEPT ![d][w.p] = s]
    BY <1>6 DEF FinishComplete, AcceptFails, FinishAccept
  <2>3. MoreChans
    BY <2>1, ClosedTyped
  <2>4. w.c \in Ids'
    BY <1>2, <2>3 DEF MoreChans
  <2>5. QED
    BY <1>2, <1>3, <1>4, <2>1, <2>2, <2>3, <2>4, PeerStep
<1>7. QED
  BY <1>5, <1>6

LEMMA UserTyped ==
  ASSUME Rest, Inv', NEW d \in Device, User(d) PROVE Rest'
<1>1. PICK p \in Peers(d) : \/ ProposeConsent(d, p) \/ RemoveStargazer(d, p)
                            \/ AcceptConsent(d, p) \/ RejectConsent(d, p)
  BY DEF User
<1>2. p \in Device /\ p # d /\ Shape /\ spent \subseteq Faults /\ PeersTyped(d)
  BY DEF Peers, Rest, Inv
<1>3. CASE AcceptConsent(d, p)
  <2>1. /\ chans' = SendConsent(chans, d, held[d][p]) /\ st[d][p] = "IncomingPending"
        /\ UNCHANGED <<st, held, conns, seen, removed, spent, inbox, dialing>>
    BY <1>3 DEF AcceptConsent
  <2>2. PeerOK(d, p)
    BY <1>2 DEF Rest, Inv
  <2>3. held[d][p] \in Ids /\ d \in Ends(held[d][p])
    BY <2>1, <2>2 DEF PeerOK, Between, Ends
  <2>4. MoreChans /\ NewLetters
    BY <2>1, <2>3, SentTyped DEF NewLetters
  <2>5. QED
    BY <1>2, <2>1, <2>4, QuietStep
<1>4. CASE ProposeConsent(d, p) \/ RemoveStargazer(d, p) \/ RejectConsent(d, p)
  <2>1. /\ chans' = Closed(HeldBy(d, p)) /\ held' = [held EXCEPT ![d][p] = None]
        /\ conns' = [conns EXCEPT ![d][p] = None] \/ conns' = conns
        /\ removed' = removed \/ removed' = [removed EXCEPT ![d] = @ \cup {p}]
        /\ UNCHANGED <<seen, dialing>>
        /\ inbox' = inbox \/ inbox' = [inbox EXCEPT ![d] = @ \cup {Reconnect(p)}]
    BY <1>4 DEF ProposeConsent, RemoveStargazer, RejectConsent
  <2>2. PICK s : st' = [st EXCEPT ![d][p] = s]
    BY <1>4 DEF ProposeConsent, RemoveStargazer, RejectConsent
  <2>3. spent' \subseteq Faults
    BY <1>2, <1>4, SpendTyped DEF ProposeConsent, RemoveStargazer, RejectConsent
  <2>4. MoreChans /\ NewLetters
    BY <1>2, <2>1, ClosedTyped DEF NewLetters, Reconnect, Msg, Shape
  <2>5. QED
    BY <1>2, <2>1, <2>2, <2>3, <2>4, PeerStep
<1>5. QED
  BY <1>1, <1>3, <1>4

LEMMA RestartTyped ==
  ASSUME Rest, Inv', NEW d \in Device, Restart(d) PROVE Rest'
<1>1. /\ st' = [st EXCEPT ![d] = Loaded(pendingTsv[d], peersTsv[d])]
      /\ held' = [held EXCEPT ![d] = [p \in Device |-> None]]
      /\ conns' = [conns EXCEPT ![d] = [p \in Device |-> None]]
      /\ seen' = [seen EXCEPT ![d] = {}] /\ dialing' = [dialing EXCEPT ![d] = {}]
      /\ inbox' = [inbox EXCEPT ![d] = {Reconnect(p) : p \in pendingTsv[d] \cup peersTsv[d]}]
      /\ removed' = removed /\ \E cs : chans' = Closed(cs)
      /\ Spend("crash")
  BY DEF Restart
<1>2. Shape /\ PeersTyped(d) /\ conns \in [Device -> [Device -> Nat \cup {None}]] /\ DOMAIN seen = Device
  BY DEF Rest, Inv
<1>3. d \notin pendingTsv[d] /\ d \notin peersTsv[d]
  <2>1. PeerOK(d, d)
    BY DEF Rest, Inv
  <2>2. QED
    BY <1>2, <2>1 DEF PeerOK, Shape
<1>4. PeersTyped(d)'
  <2>1. st'[d][d] = "none" /\ \A p \in Device : held'[d][p] = None
    BY <1>1, <1>2, <1>3 DEF Loaded, Shape
  <2>2. conns'[d] \in [Device -> Ids' \cup {None}]
    BY <1>1, <1>2
  <2>3. seen'[d] = {} /\ removed'[d] = removed[d]
    BY <1>1, <1>2
  <2>4. QED
    BY <1>2, <2>1, <2>2, <2>3 DEF PeersTyped, Peers
<1>5. Apart(d) /\ ConnsKept
  <2>1. conns' \in [Device -> [Device -> Nat \cup {None}]]
    BY <1>1, <1>2
  <2>2. spent' \subseteq Faults
    BY <1>1, SpendTyped
  <2>3. QED
    BY <1>1, <1>2, <2>1, <2>2 DEF Apart, ConnsKept, Shape
<1>6. MoreChans
  BY <1>1, ClosedTyped
<1>7. NewLetters
  BY <1>1, <1>2 DEF NewLetters, Reconnect, Msg, Shape
<1>8. QED
  BY <1>4, <1>5, <1>6, <1>7, RestStep

LEMMA RestNext == Rest /\ [Next]_vars => Rest'
<1> SUFFICES ASSUME Rest, [Next]_vars PROVE Rest'
  OBVIOUS
<1>1. Inv'
  BY NextInv DEF Rest
<1>2. ASSUME NEW d \in Device, Handle(d) PROVE Rest'
  BY <1>1, <1>2, HandlerTyped, WorkTyped DEF Handle
<1>3. ASSUME NEW c \in Ids, DropChannel(c) PROVE Rest'
  <2>1. /\ chans' = Closed({c}) /\ Spend("drop")
        /\ UNCHANGED <<st, held, conns, seen, removed, inbox, dialing>>
    BY <1>3 DEF DropChannel, mem
  <2>2. MoreChans /\ NewLetters /\ spent' \subseteq Faults
    BY <2>1, ClosedTyped, SpendTyped DEF NewLetters
  <2>3. QED
    BY <1>1, <2>1, <2>2, QuietStep
<1>4. CASE UNCHANGED vars
  <2>1. UNCHANGED <<chans, st, held, conns, seen, removed, inbox, dialing, spent>>
    BY <1>4 DEF vars, files
  <2>2. MoreChans /\ NewLetters
    BY <2>1, ClosedTyped DEF NewLetters
  <2>3. QED
    BY <1>1, <2>1, <2>2, QuietStep DEF Rest
<1>5. QED
  BY <1>1, <1>2, <1>3, <1>4, TaskTyped, UserTyped, RestartTyped DEF Next

(* Every variable keeps its type; a request waits with a channel exactly    *)
(* while its peer is IncomingPending, and no device lists itself.           *)
THEOREM StargazerTypes == Spec => []TypeOK
<1>1. Spec => []Rest
  BY RestInit, RestNext, PTL DEF Spec
<1>2. QED
  BY <1>1, RestIsTypeOK, PTL
=============================================================================
