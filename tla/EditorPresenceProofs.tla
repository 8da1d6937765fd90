------------------------ MODULE EditorPresenceProofs ------------------------
(***************************************************************************)
(* Proofs about EditorPresence, for any devices, time to live, unit of the *)
(* timestamps, depth of the page stack and number of faults: a presence    *)
(* map says what the last announcements heard say.  Then about Call, for   *)
(* any callers, microphones and bounds: the two ends of a call agree.      *)
(***************************************************************************)
EXTENDS EditorPresence, Call, SequenceTheorems, TLAPS

(***************************************************************************)
(* What PresenceIsLatest says of one entry x: whether the peer was heard,  *)
(* and its last word, decide it.                                           *)
(***************************************************************************)
EntryIsLatest(x, known, word, now) ==
  /\ x # Unseen => known /\ word = [joined |-> TRUE, ts |-> x]
  /\ known /\ word.joined /\ now * MICROS <= word.ts + TTL * MICROS => x = word.ts

\* Nobody has read less than when their process started.
ReadOnward == \A d, a \in Device : base[d][a] <= cursor[d][a]

Inv == TypeOK /\ ReadOnward /\ PresenceIsLatest

(***************************************************************************)
(* The cutoff of prune_stale_presence, in seconds, never exceeds the one   *)
(* in the unit of the timestamps: what is young enough survives.           *)
(***************************************************************************)
LEMMA YoungIsFresh ==
  ASSUME clock \in Nat, NEW ts \in Nat, clock * MICROS <= ts + TTL * MICROS
  PROVE  Fresh(ts)
<1>1. TTL \in Nat /\ MICROS \in Nat \ {0} /\ Unseen \notin Nat
  BY PresenceAssumption
<1>2. CASE clock < TTL
  <2>1. ts # Unseen
    BY <1>1
  <2>2. ts >= (IF clock >= TTL THEN clock - TTL ELSE 0)
    BY <1>1, <1>2
  <2>3. QED
    BY <2>1, <2>2 DEF Fresh
<1>3. CASE clock >= TTL
  <2> DEFINE x == clock - TTL
  <2>1. x \in Nat /\ clock = x + TTL
    BY <1>1, <1>3
  <2>2. x * MICROS + TTL * MICROS = clock * MICROS
    BY <1>1, <2>1
  <2>3. x <= x * MICROS /\ x * MICROS \in Nat
    BY <1>1, <2>1
  <2>4. TTL * MICROS \in Nat /\ clock * MICROS \in Nat
    BY <1>1
  <2>5. x * MICROS <= ts
    <3> HIDE DEF x
    <3>1. QED
      BY <2>2, <2>3, <2>4
  <2>6. ts >= clock - TTL
    BY <2>1, <2>3, <2>5
  <2>7. ts # Unseen
    BY <1>1
  <2>8. QED
    BY <1>3, <2>6, <2>7 DEF Fresh
<1>4. QED
  BY <1>1, <1>2, <1>3

\* Pruning keeps an entry right.
LEMMA PruningKeeps ==
  ASSUME clock \in Nat, NEW x, NEW known, NEW word,
         known => word \in Announcement, EntryIsLatest(x, known, word, clock)
  PROVE  EntryIsLatest(IF Fresh(x) THEN x ELSE Unseen, known, word, clock)
<1>1. CASE Fresh(x)
  BY <1>1
<1>2. CASE ~Fresh(x)
  <2>1. ASSUME known, word.joined, clock * MICROS <= word.ts + TTL * MICROS
        PROVE  FALSE
    <3>1. word.ts \in Nat
      BY <2>1 DEF Announcement
    <3>2. x = word.ts
      BY <2>1 DEF EntryIsLatest
    <3>3. QED
      BY <1>2, <2>1, <3>1, <3>2, YoungIsFresh
  <2>2. QED
    BY <1>2, <2>1 DEF EntryIsLatest
<1>3. QED
  BY <1>1, <1>2

\* What a device has read of a log does not change when the log grows.
LEMMA ReadPart ==
  ASSUME TypeOK, NEW d \in Device, NEW a \in Device
  PROVE  /\ Heard(d, a) => /\ cursor[d][a] \in 1 .. Len(log[a])
                           /\ LastWord(d, a) \in Announcement
         /\ \A e \in Announcement : Heard(d, a) =>
              Append(log[a], e)[cursor[d][a]] = LastWord(d, a)
<1>1. log[a] \in Seq(Announcement) /\ cursor[d][a] \in Nat /\ base[d][a] \in Nat
      /\ cursor[d][a] <= Len(log[a])
  BY DEF TypeOK
<1>2. QED
  BY <1>1 DEF Heard, LastWord

\* Pruning keeps the type of a map.
LEMMA PrunedType ==
  ASSUME NEW m \in [Device -> Nat \cup {Unseen}]
  PROVE  /\ Pruned(m) \in [Device -> Nat \cup {Unseen}]
         /\ \A a \in Device : m[a] = Unseen => Pruned(m)[a] = Unseen
         /\ \A a \in Device : Pruned(m)[a] = IF Fresh(m[a]) THEN m[a] ELSE Unseen
         /\ (PresentIn(Pruned(m)) # {}) \in BOOLEAN
BY DEF Pruned

LEMMA RefreshType ==
  ASSUME TypeOK, NEW d \in Device, NEW m \in [Device -> Nat \cup {Unseen}],
         m[d] = Unseen, Refresh(d, m)
  PROVE  /\ seenAt' \in [Device -> [Device -> Nat \cup {Unseen}]]
         /\ \A b \in Device : seenAt'[b][b] = Unseen
         /\ button' \in [Device -> BOOLEAN \cup {NoButton}]
<1>1. seenAt' = [seenAt EXCEPT ![d] = Pruned(m)]
  BY DEF Refresh
<1>2. seenAt' \in [Device -> [Device -> Nat \cup {Unseen}]]
  BY <1>1, PrunedType DEF TypeOK
<1>3. \A b \in Device : seenAt'[b][b] = Unseen
  BY <1>1, PrunedType DEF TypeOK
<1>4. button' \in [Device -> BOOLEAN \cup {NoButton}]
  BY DEF Refresh, TypeOK
<1>5. QED
  BY <1>2, <1>3, <1>4

LEMMA InitInv == Init => Inv
<1> SUFFICES ASSUME Init
             PROVE  Inv
  OBVIOUS
<1>1. TypeOK
  BY PresenceAssumption DEF Init, TypeOK
<1>2. ASSUME NEW d \in Device, NEW a \in Device
      PROVE  seenAt[d][a] = Unseen /\ cursor[d][a] = 0 /\ base[d][a] = 0
  BY DEF Init
<1>3. ReadOnward
  BY <1>2 DEF ReadOnward
<1>4. PresenceIsLatest
  BY <1>2 DEF PresenceIsLatest, Heard
<1>5. QED
  BY <1>1, <1>3, <1>4 DEF Inv

LEMMA ScalingGrows ==
  ASSUME NEW x \in Nat, NEW y \in Nat, NEW m \in Nat, y >= x
  PROVE  x * m <= y * m /\ x * m \in Nat /\ y * m \in Nat
<1> DEFINE k == y - x
<1>1. k \in Nat /\ y = x + k
  OBVIOUS
<1>2. x * m \in Nat /\ y * m \in Nat /\ k * m \in Nat
  BY <1>1
<1> HIDE DEF k
<1>3. y * m = x * m + k * m
  BY <1>1
<1>4. QED
  BY <1>2, <1>3

(***************************************************************************)
(* Whatever leaves maps and logs alone keeps the invariant: what is young  *)
(* enough later was young enough before.                                   *)
(***************************************************************************)
LEMMA MapsUntouched ==
  ASSUME Inv, TypeOK', clock' >= clock, UNCHANGED <<log, cursor, seenAt, base>>
  PROVE  Inv'
<1>1. MICROS \in Nat \ {0} /\ TTL \in Nat /\ clock \in Nat /\ clock' \in Nat
  BY PresenceAssumption DEF Inv, TypeOK
<1>2. clock * MICROS <= clock' * MICROS /\ clock * MICROS \in Nat /\ clock' * MICROS \in Nat
      /\ TTL * MICROS \in Nat
  <2>1. TTL * MICROS \in Nat
    BY <1>1
  <2>2. MICROS \in Nat
    BY <1>1
  <2>3. clock * MICROS <= clock' * MICROS /\ clock * MICROS \in Nat /\ clock' * MICROS \in Nat
    BY <1>1, <2>2, ScalingGrows
  <2>4. QED
    BY <2>1, <2>3
<1>3. ASSUME NEW d \in Device, NEW a \in Device, Heard(d, a), LastWord(d, a).joined,
             clock' * MICROS <= LastWord(d, a).ts + TTL * MICROS
      PROVE  clock * MICROS <= LastWord(d, a).ts + TTL * MICROS
  <2>1. LastWord(d, a).ts \in Nat
    BY <1>3, ReadPart DEF Inv, Announcement
  <2>2. QED
    BY <1>2, <1>3, <2>1
<1>4. PresenceIsLatest'
  BY <1>3 DEF Inv, PresenceIsLatest, Heard, LastWord
<1>5. QED
  BY <1>4 DEF Inv, ReadOnward

LEMMA TickKeeps ==
  ASSUME Inv, Tick
  PROVE  Inv'
<1>1. TypeOK'
  BY DEF Inv, TypeOK, Tick
<1>2. clock' >= clock
  BY DEF Inv, TypeOK, Tick
<1>3. QED
  BY <1>1, <1>2, MapsUntouched DEF Tick

LEMMA PushKeeps ==
  ASSUME Inv, NEW d \in Device, NEW page \in Page, PushPage(d, page)
  PROVE  Inv'
<1>1. /\ stack \in [Device -> Seq(Page)] /\ appQ \in [Device -> Seq(BOOLEAN)]
      /\ Len(stack[d]) < MaxDepth /\ MaxDepth \in Nat
      /\ \A b \in Device : Len(stack[b]) <= MaxDepth
  BY PresenceAssumption DEF Inv, TypeOK, PushPage
<1>2. stack' = [stack EXCEPT ![d] = Append(@, page)]
  BY DEF PushPage
<1>3. stack' \in [Device -> Seq(Page)] /\ \A b \in Device : Len(stack'[b]) <= MaxDepth
  <2>1. Append(stack[d], page) \in Seq(Page) /\ Len(Append(stack[d], page)) = Len(stack[d]) + 1
    BY <1>1
  <2>2. stack' \in [Device -> Seq(Page)]
    BY <1>1, <1>2, <2>1
  <2>3. ASSUME NEW b \in Device
        PROVE  Len(stack'[b]) <= MaxDepth
    <3>1. CASE b = d
      BY <1>1, <1>2, <2>1, <3>1
    <3>2. CASE b # d
      BY <1>1, <1>2, <3>2
    <3>3. QED
      BY <3>1, <3>2
  <2>4. QED
    BY <2>2, <2>3
<1>4. appQ' \in [Device -> Seq(BOOLEAN)]
  <2> DEFINE joins == IF page = "key" THEN <<TRUE>> ELSE <<>>
             leaves == IF OnPage(d) THEN <<FALSE>> ELSE <<>>
  <2>1. <<TRUE>> \in Seq(BOOLEAN) /\ <<FALSE>> \in Seq(BOOLEAN) /\ <<>> \in Seq(BOOLEAN)
    OBVIOUS
  <2>2. joins \in Seq(BOOLEAN) /\ leaves \in Seq(BOOLEAN)
    BY <2>1
  <2>3. appQ' = [appQ EXCEPT ![d] = (@ \o joins) \o leaves]
    BY DEF PushPage
  <2>4. (appQ[d] \o joins) \o leaves \in Seq(BOOLEAN)
    <3> HIDE DEF joins, leaves
    <3>1. appQ[d] \in Seq(BOOLEAN)
      BY <1>1
    <3>2. appQ[d] \o joins \in Seq(BOOLEAN)
      BY <2>2, <3>1, ConcatProperties
    <3>3. QED
      BY <2>2, <3>2, ConcatProperties
  <2>5. QED
    BY <1>1, <2>3, <2>4
<1>5. button' \in [Device -> BOOLEAN \cup {NoButton}]
  BY DEF Inv, TypeOK, PushPage
<1>6. TypeOK'
  BY <1>3, <1>4, <1>5 DEF Inv, TypeOK, PushPage
<1>7. clock' >= clock /\ UNCHANGED <<log, cursor, seenAt, base>>
  BY DEF Inv, TypeOK, PushPage
<1>8. QED
  BY <1>6, <1>7, MapsUntouched

LEMMA PopKeeps ==
  ASSUME Inv, NEW d \in Device, PopPage(d)
  PROVE  Inv'
<1>1. /\ stack \in [Device -> Seq(Page)] /\ appQ \in [Device -> Seq(BOOLEAN)]
      /\ stack[d] # <<>> /\ MaxDepth \in Nat
      /\ \A b \in Device : Len(stack[b]) <= MaxDepth
  BY PresenceAssumption DEF Inv, TypeOK, PopPage
<1>2. stack' = [stack EXCEPT ![d] = SubSeq(@, 1, Len(@) - 1)]
  BY DEF PopPage
<1>3. stack' \in [Device -> Seq(Page)] /\ \A b \in Device : Len(stack'[b]) <= MaxDepth
  <2> DEFINE rest == SubSeq(stack[d], 1, Len(stack[d]) - 1)
  <2>1. rest \in Seq(Page) /\ Len(rest) = Len(stack[d]) - 1
    <3>1. stack[d] \in Seq(Page) /\ Len(stack[d]) \in Nat /\ Len(stack[d]) # 0
      BY <1>1
    <3>2. QED
      BY <3>1, SubSeqProperties
  <2>2. Len(rest) <= MaxDepth
    BY <1>1, <2>1
  <2> HIDE DEF rest
  <2>3. stack' = [stack EXCEPT ![d] = rest]
    BY <1>2 DEF rest
  <2>4. QED
    BY <1>1, <2>1, <2>2, <2>3
<1>4. appQ' \in [Device -> Seq(BOOLEAN)]
  <2>1. Append(appQ[d], FALSE) \in Seq(BOOLEAN)
    BY <1>1
  <2>2. QED
    BY <1>1, <2>1 DEF PopPage
<1>5. button' \in [Device -> BOOLEAN \cup {NoButton}]
  BY DEF Inv, TypeOK, PopPage
<1>6. TypeOK'
  BY <1>3, <1>4, <1>5 DEF Inv, TypeOK, PopPage
<1>7. clock' >= clock /\ UNCHANGED <<log, cursor, seenAt, base>>
  BY DEF Inv, TypeOK, PopPage
<1>8. QED
  BY <1>6, <1>7, MapsUntouched

\* An announcement lengthens a log beyond what anybody has read of it.
LEMMA AnnounceKeeps ==
  ASSUME Inv, NEW d \in Device, AnnouncePresence(d)
  PROVE  Inv'
<1> DEFINE op == [joined |-> Head(appQ[d]), ts |-> clock * MICROS]
<1>1. appQ[d] \in Seq(BOOLEAN) /\ appQ[d] # <<>> /\ clock \in Nat /\ MICROS \in Nat
      /\ seenAt[d] \in [Device -> Nat \cup {Unseen}] /\ seenAt[d][d] = Unseen
  BY PresenceAssumption DEF Inv, TypeOK, AnnouncePresence
<1>2. Head(appQ[d]) \in BOOLEAN /\ Tail(appQ[d]) \in Seq(BOOLEAN)
  BY <1>1, HeadTailProperties
<1>3. op \in Announcement
  <2>1. clock * MICROS \in Nat
    BY <1>1
  <2>2. QED
    BY <1>2, <2>1 DEF Announcement
<1>4. /\ Refresh(d, seenAt[d]) /\ UNCHANGED <<clock, stack, pages, cursor, called, base>>
      /\ appQ' = [appQ EXCEPT ![d] = Tail(@)]
      /\ \/ log' = [log EXCEPT ![d] = Append(@, op)] /\ UNCHANGED faults
         \/ UNCHANGED log /\ faults' = faults + 1
  BY DEF AnnouncePresence
<1> HIDE DEF op
<1>5. /\ log' \in [Device -> Seq(Announcement)]
      /\ \A a \in Device : Len(log'[a]) >= Len(log[a])
      /\ \A a \in Device : log'[a] = log[a] \/ log'[a] = Append(log[a], op)
  <2>1. log \in [Device -> Seq(Announcement)]
    BY DEF Inv, TypeOK
  <2>2. \A a \in Device : /\ Append(log[a], op) \in Seq(Announcement)
                          /\ Len(Append(log[a], op)) = Len(log[a]) + 1
                          /\ Len(log[a]) \in Nat
    BY <1>3, <2>1
  <2>3. CASE log' = log
    BY <2>1, <2>2, <2>3
  <2>4. CASE log' = [log EXCEPT ![d] = Append(@, op)]
    <3>1. log' \in [Device -> Seq(Announcement)]
      BY <2>1, <2>2, <2>4
    <3>2. \A a \in Device : log'[a] = IF a = d THEN Append(log[a], op) ELSE log[a]
      BY <2>1, <2>4
    <3>3. ASSUME NEW a \in Device
          PROVE  Len(log'[a]) >= Len(log[a]) /\ (log'[a] = log[a] \/ log'[a] = Append(log[a], op))
      <4>1. CASE a = d
        <5>1. log'[a] = Append(log[a], op)
          BY <3>2, <4>1
        <5>2. Len(log'[a]) = Len(log[a]) + 1 /\ Len(log[a]) \in Nat
          BY <2>2, <5>1
        <5>3. QED
          BY <5>1, <5>2
      <4>2. CASE a # d
        BY <2>2, <3>2, <4>2
      <4>3. QED
        BY <4>1, <4>2
    <3>4. QED
      BY <3>1, <3>3
  <2>5. QED
    BY <1>4, <2>3, <2>4
<1>6. TypeOK'
  <2>1. appQ' \in [Device -> Seq(BOOLEAN)]
    BY <1>2, <1>4 DEF Inv, TypeOK
  <2>2. \A b, a \in Device : cursor'[b][a] <= Len(log'[a])
    <3>1. ASSUME NEW b \in Device, NEW a \in Device
          PROVE  cursor[b][a] <= Len(log'[a])
      <4>1. /\ cursor[b][a] \in Nat /\ cursor[b][a] <= Len(log[a])
            /\ Len(log[a]) \in Nat /\ Len(log'[a]) \in Nat
        <5>1. log[a] \in Seq(Announcement) /\ log'[a] \in Seq(Announcement)
          BY <1>5 DEF Inv, TypeOK
        <5>2. cursor[b][a] \in Nat /\ cursor[b][a] <= Len(log[a])
          BY DEF Inv, TypeOK
        <5>3. QED
          BY <5>1, <5>2
      <4>2. QED
        BY <1>5, <4>1
    <3>2. QED
      BY <1>4, <3>1
  <2>3. faults' \in Nat
    BY <1>4 DEF Inv, TypeOK
  <2>4. /\ seenAt' \in [Device -> [Device -> Nat \cup {Unseen}]]
        /\ \A b \in Device : seenAt'[b][b] = Unseen
        /\ button' \in [Device -> BOOLEAN \cup {NoButton}]
    BY <1>1, <1>4, RefreshType DEF Inv
  <2>5. QED
    BY <1>4, <1>5, <2>1, <2>2, <2>3, <2>4 DEF Inv, TypeOK
<1>7. ASSUME NEW b \in Device, NEW a \in Device
      PROVE  EntryIsLatest(seenAt'[b][a], Heard(b, a), LastWord(b, a), clock)
  <2>1. EntryIsLatest(seenAt[b][a], Heard(b, a), LastWord(b, a), clock)
    BY DEF Inv, PresenceIsLatest, EntryIsLatest
  <2>2. CASE b = d
    <3>1. seenAt'[b][a] = IF Fresh(seenAt[b][a]) THEN seenAt[b][a] ELSE Unseen
      BY <1>1, <1>4, <2>2, PrunedType DEF Refresh, Inv, TypeOK
    <3>2. QED
      BY <1>1, <2>1, <3>1, PruningKeeps, ReadPart DEF Inv
  <2>3. CASE b # d
    BY <1>4, <2>1, <2>3 DEF Refresh, Inv, TypeOK
  <2>4. QED
    BY <2>2, <2>3
<1>8. ASSUME NEW b \in Device, NEW a \in Device, Heard(b, a)
      PROVE  LastWord(b, a)' = LastWord(b, a)
  BY <1>3, <1>4, <1>5, <1>8, ReadPart DEF Inv, LastWord
<1>9. PresenceIsLatest'
  BY <1>4, <1>7, <1>8 DEF PresenceIsLatest, EntryIsLatest, Heard
<1>10. QED
  BY <1>4, <1>6, <1>9 DEF Inv, ReadOnward

(***************************************************************************)
(* An announcement heard replaces the entry of its author, and is from now *)
(* on the last word heard of it.                                           *)
(***************************************************************************)
LEMMA ReceiveKeeps ==
  ASSUME Inv, NEW d \in Device, NEW a \in Device, ReceivePresence(d, a)
  PROVE  Inv'
<1> DEFINE op == log[a][cursor[d][a] + 1]
           m == Noted(seenAt[d], a, op)
<1>1. /\ a # d /\ cursor[d][a] \in Nat /\ base[d][a] \in Nat /\ log[a] \in Seq(Announcement)
      /\ cursor[d][a] < Len(log[a]) /\ clock \in Nat
      /\ cursor' = [cursor EXCEPT ![d][a] = @ + 1]
      /\ Refresh(d, m)
      /\ UNCHANGED <<clock, stack, pages, appQ, log, called, base, faults>>
  BY DEF Inv, TypeOK, ReceivePresence, Others
<1>2. op \in Announcement
  BY <1>1
<1>3. m \in [Device -> Nat \cup {Unseen}] /\ m[d] = Unseen
      /\ m[a] = (IF op.joined THEN op.ts ELSE Unseen)
      /\ \A b \in Device : b # a => m[b] = seenAt[d][b]
  BY <1>1, <1>2 DEF Inv, TypeOK, Noted, Announcement
<1> HIDE DEF m
<1>4. /\ cursor' \in [Device -> [Device -> Nat]]
      /\ cursor'[d][a] = cursor[d][a] + 1
      /\ \A e, b \in Device : e # d \/ b # a => cursor'[e][b] = cursor[e][b]
  BY <1>1 DEF Inv, TypeOK
<1>5. TypeOK'
  <2>1. ASSUME NEW e \in Device, NEW b \in Device
        PROVE  cursor'[e][b] <= Len(log'[b])
    <3>1. CASE e = d /\ b = a
      BY <1>1, <1>4, <3>1
    <3>2. CASE ~(e = d /\ b = a)
      BY <1>1, <1>4, <3>2 DEF Inv, TypeOK
    <3>3. QED
      BY <3>1, <3>2
  <2>2. /\ seenAt' \in [Device -> [Device -> Nat \cup {Unseen}]]
        /\ \A b \in Device : seenAt'[b][b] = Unseen
        /\ button' \in [Device -> BOOLEAN \cup {NoButton}]
    BY <1>1, <1>3, RefreshType DEF Inv
  <2>3. QED
    BY <1>1, <1>4, <2>1, <2>2 DEF Inv, TypeOK
<1>6. \A b \in Device : seenAt'[d][b] = IF Fresh(m[b]) THEN m[b] ELSE Unseen
  BY <1>1, <1>3, PrunedType DEF Refresh, Inv, TypeOK
<1>7. ASSUME NEW e \in Device, NEW b \in Device
      PROVE  EntryIsLatest(seenAt'[e][b], Heard(e, b)', LastWord(e, b)', clock)
  <2>1. EntryIsLatest(seenAt[e][b], Heard(e, b), LastWord(e, b), clock)
    BY DEF Inv, PresenceIsLatest, EntryIsLatest
  <2>2. CASE e = d /\ b = a
    <3>1. LastWord(e, b)' = op
      BY <1>1, <1>4, <2>2 DEF LastWord
    <3>2. Heard(e, b)'
      <4>1. cursor[d][a] >= base[d][a]
        BY DEF Inv, ReadOnward
      <4>2. QED
        BY <1>1, <1>4, <2>2, <4>1 DEF Heard
    <3>3. EntryIsLatest(m[b], TRUE, op, clock)
      <4>1. CASE op.joined
        <5>1. op = [joined |-> TRUE, ts |-> op.ts]
          BY <1>2, <4>1 DEF Announcement
        <5>2. QED
          BY <1>3, <2>2, <4>1, <5>1 DEF EntryIsLatest
      <4>2. CASE ~op.joined
        BY <1>3, <2>2, <4>2 DEF EntryIsLatest
      <4>3. QED
        BY <4>1, <4>2
    <3>4. EntryIsLatest(seenAt'[e][b], TRUE, op, clock)
      BY <1>1, <1>2, <1>6, <2>2, <3>3, PruningKeeps
    <3>5. QED
      BY <3>1, <3>2, <3>4 DEF EntryIsLatest
  <2>3. CASE e = d /\ b # a
    <3>1. LastWord(e, b)' = LastWord(e, b) /\ Heard(e, b)' = Heard(e, b)
      BY <1>1, <1>4, <2>3 DEF LastWord, Heard
    <3>2. EntryIsLatest(m[b], Heard(e, b), LastWord(e, b), clock)
      BY <1>3, <2>1, <2>3
    <3>3. EntryIsLatest(seenAt'[e][b], Heard(e, b), LastWord(e, b), clock)
      BY <1>1, <1>6, <2>3, <3>2, PruningKeeps, ReadPart DEF Inv
    <3>4. QED
      BY <3>1, <3>3
  <2>4. CASE e # d
    <3>1. LastWord(e, b)' = LastWord(e, b) /\ Heard(e, b)' = Heard(e, b)
      BY <1>1, <1>4, <2>4 DEF LastWord, Heard
    <3>2. seenAt'[e] = seenAt[e]
      BY <1>1, <2>4 DEF Refresh, Inv, TypeOK
    <3>3. QED
      BY <2>1, <3>1, <3>2
  <2>5. QED
    BY <2>2, <2>3, <2>4
<1>8. PresenceIsLatest'
  BY <1>1, <1>7 DEF PresenceIsLatest, EntryIsLatest
<1>9. ReadOnward'
  <2>1. ASSUME NEW e \in Device, NEW b \in Device
        PROVE  base[e][b] <= cursor'[e][b]
    <3>1. base[e][b] <= cursor[e][b] /\ base[e][b] \in Nat /\ cursor[e][b] \in Nat
      BY DEF Inv, ReadOnward, TypeOK
    <3>2. CASE e = d /\ b = a
      BY <1>4, <3>1, <3>2
    <3>3. CASE ~(e = d /\ b = a)
      BY <1>4, <3>1, <3>3
    <3>4. QED
      BY <3>2, <3>3
  <2>2. QED
    BY <1>1, <2>1 DEF ReadOnward
<1>10. QED
  BY <1>5, <1>8, <1>9 DEF Inv

\* A voice room prunes the map before it calls those left in it.
LEMMA StartAudioKeeps ==
  ASSUME Inv, NEW d \in Device, StartEditorAudio(d)
  PROVE  Inv'
<1>1. /\ seenAt' = [seenAt EXCEPT ![d] = Pruned(seenAt[d])]
      /\ called' = [called EXCEPT ![d] = PresentIn(Pruned(seenAt[d]))]
      /\ UNCHANGED <<clock, stack, pages, appQ, log, cursor, button, base, faults>>
      /\ seenAt[d] \in [Device -> Nat \cup {Unseen}] /\ clock \in Nat
      /\ seenAt \in [Device -> [Device -> Nat \cup {Unseen}]]
      /\ \A b \in Device : seenAt[b][b] = Unseen
  BY DEF Inv, TypeOK, StartEditorAudio
<1>2. TypeOK'
  <2>1. called' \in [Device -> SUBSET Device]
    BY <1>1 DEF Inv, TypeOK, PresentIn
  <2>2. seenAt' \in [Device -> [Device -> Nat \cup {Unseen}]]
    BY <1>1, PrunedType
  <2>3. \A b \in Device : seenAt'[b][b] = Unseen
    BY <1>1, PrunedType
  <2>4. QED
    BY <1>1, <2>1, <2>2, <2>3 DEF Inv, TypeOK
<1>3. ASSUME NEW b \in Device, NEW a \in Device
      PROVE  EntryIsLatest(seenAt'[b][a], Heard(b, a), LastWord(b, a), clock)
  <2>1. EntryIsLatest(seenAt[b][a], Heard(b, a), LastWord(b, a), clock)
    BY DEF Inv, PresenceIsLatest, EntryIsLatest
  <2>2. CASE b = d
    <3>1. seenAt'[b][a] = IF Fresh(seenAt[b][a]) THEN seenAt[b][a] ELSE Unseen
      BY <1>1, <2>2, PrunedType
    <3>2. QED
      BY <1>1, <2>1, <3>1, PruningKeeps, ReadPart DEF Inv
  <2>3. CASE b # d
    BY <1>1, <2>1, <2>3
  <2>4. QED
    BY <2>2, <2>3
<1>4. PresenceIsLatest'
  BY <1>1, <1>3 DEF PresenceIsLatest, EntryIsLatest, Heard, LastWord
<1>5. QED
  BY <1>1, <1>2, <1>4 DEF Inv, ReadOnward

(***************************************************************************)
(* After a restart the map is empty and nothing was heard: what the sync   *)
(* log had stored counts as read by the earlier process.                   *)
(***************************************************************************)
LEMMA CrashKeeps ==
  ASSUME Inv, NEW d \in Device, Crash(d)
  PROVE  Inv'
<1>1. PICK stored \in SUBSET Others(d) :
        cursor' = [cursor EXCEPT ![d] =
                     [a \in Device |-> IF a \in stored THEN Len(log[a]) ELSE @[a]]]
  BY DEF Crash
<1>2. /\ faults' = faults + 1
      /\ base' = [base EXCEPT ![d] = cursor'[d]]
      /\ stack' = [stack EXCEPT ![d] = <<>>]
      /\ appQ' = [appQ EXCEPT ![d] = <<>>]
      /\ seenAt' = [seenAt EXCEPT ![d] = [a \in Device |-> Unseen]]
      /\ called' = [called EXCEPT ![d] = {}]
      /\ button' = [button EXCEPT ![d] = NoButton]
      /\ UNCHANGED <<clock, pages, log>>
  BY DEF Crash
<1>3. /\ log \in [Device -> Seq(Announcement)] /\ cursor \in [Device -> [Device -> Nat]]
      /\ base \in [Device -> [Device -> Nat]]
      /\ \A b, a \in Device : cursor[b][a] <= Len(log[a])
      /\ \A b, a \in Device : base[b][a] <= cursor[b][a]
      /\ \A a \in Device : Len(log[a]) \in Nat
  BY DEF Inv, TypeOK, ReadOnward
<1>4. /\ cursor' \in [Device -> [Device -> Nat]]
      /\ \A a \in Device : cursor'[d][a] <= Len(log[a])
      /\ \A b \in Device : b # d => cursor'[b] = cursor[b]
  <2>1. cursor'[d] = [a \in Device |-> IF a \in stored THEN Len(log[a]) ELSE cursor[d][a]]
    BY <1>1, <1>3
  <2>2. cursor'[d] \in [Device -> Nat] /\ \A a \in Device : cursor'[d][a] <= Len(log[a])
    BY <1>3, <2>1
  <2>3. QED
    BY <1>1, <1>3, <2>1, <2>2
<1>5. /\ base' \in [Device -> [Device -> Nat]]
      /\ base'[d] = cursor'[d]
      /\ \A b \in Device : b # d => base'[b] = base[b]
  BY <1>2, <1>3, <1>4
<1>6. TypeOK'
  <2>1. stack' \in [Device -> Seq(Page)] /\ \A b \in Device : Len(stack'[b]) <= MaxDepth
    BY <1>2, PresenceAssumption DEF Inv, TypeOK
  <2>2. appQ' \in [Device -> Seq(BOOLEAN)]
    BY <1>2 DEF Inv, TypeOK
  <2>3. /\ seenAt' \in [Device -> [Device -> Nat \cup {Unseen}]]
        /\ \A b \in Device : seenAt'[b][b] = Unseen
    BY <1>2 DEF Inv, TypeOK
  <2>4. called' \in [Device -> SUBSET Device] /\ button' \in [Device -> BOOLEAN \cup {NoButton}]
    BY <1>2 DEF Inv, TypeOK
  <2>5. \A b, a \in Device : cursor'[b][a] <= Len(log'[a])
    BY <1>2, <1>3, <1>4
  <2>6. QED
    BY <1>2, <1>4, <1>5, <2>1, <2>2, <2>3, <2>4, <2>5 DEF Inv, TypeOK
<1>7. ReadOnward'
  <2>1. ASSUME NEW b \in Device, NEW a \in Device
        PROVE  base'[b][a] <= cursor'[b][a]
    <3>1. cursor'[b][a] \in Nat
      BY <1>4
    <3>2. CASE b = d
      BY <1>5, <3>1, <3>2
    <3>3. CASE b # d
      BY <1>3, <1>4, <1>5, <3>3
    <3>4. QED
      BY <3>2, <3>3
  <2>2. QED
    BY <2>1 DEF ReadOnward
<1>8. ASSUME NEW b \in Device, NEW a \in Device
      PROVE  EntryIsLatest(seenAt'[b][a], Heard(b, a)', LastWord(b, a)', clock')
  <2>1. CASE b = d
    <3>1. seenAt'[b][a] = Unseen
      BY <1>2, <2>1 DEF Inv, TypeOK
    <3>2. ~Heard(b, a)'
      BY <1>4, <1>5, <2>1 DEF Heard
    <3>3. QED
      BY <3>1, <3>2 DEF EntryIsLatest
  <2>2. CASE b # d
    <3>1. EntryIsLatest(seenAt[b][a], Heard(b, a), LastWord(b, a), clock)
      BY DEF Inv, PresenceIsLatest, EntryIsLatest
    <3>2. /\ seenAt'[b] = seenAt[b] /\ clock' = clock
          /\ Heard(b, a)' = Heard(b, a) /\ LastWord(b, a)' = LastWord(b, a)
      BY <1>2, <1>4, <1>5, <2>2 DEF Inv, TypeOK, Heard, LastWord
    <3>3. QED
      BY <3>1, <3>2
  <2>3. QED
    BY <2>1, <2>2
<1>9. PresenceIsLatest'
  BY <1>8 DEF PresenceIsLatest, EntryIsLatest
<1>10. QED
  BY <1>6, <1>7, <1>9 DEF Inv

LEMMA NextInv == Inv /\ [Next]_vars => Inv'
<1> SUFFICES ASSUME Inv, [Next]_vars
             PROVE  Inv'
  OBVIOUS
<1>1. CASE Tick
  BY <1>1, TickKeeps
<1>2. ASSUME NEW d \in Device, NEW page \in Page, PushPage(d, page)
      PROVE  Inv'
  BY <1>2, PushKeeps
<1>3. ASSUME NEW d \in Device, PopPage(d)
      PROVE  Inv'
  BY <1>3, PopKeeps
<1>4. ASSUME NEW d \in Device, AnnouncePresence(d)
      PROVE  Inv'
  BY <1>4, AnnounceKeeps
<1>5. ASSUME NEW d \in Device, NEW a \in Device, ReceivePresence(d, a)
      PROVE  Inv'
  BY <1>5, ReceiveKeeps
<1>6. ASSUME NEW d \in Device, StartEditorAudio(d)
      PROVE  Inv'
  BY <1>6, StartAudioKeeps
<1>7. ASSUME NEW d \in Device, Crash(d)
      PROVE  Inv'
  BY <1>7, CrashKeeps
<1>8. CASE UNCHANGED vars
  <2>1. TypeOK'
    BY <1>8 DEF vars, Inv, TypeOK
  <2>2. clock' >= clock /\ UNCHANGED <<log, cursor, seenAt, base>>
    BY <1>8 DEF vars, Inv, TypeOK
  <2>3. QED
    BY <2>1, <2>2, MapsUntouched
<1>9. QED
  BY <1>1, <1>2, <1>3, <1>4, <1>5, <1>6, <1>7, <1>8 DEF Next

(***************************************************************************)
(* Types, and nobody is ever in their own presence map.                    *)
(***************************************************************************)
THEOREM PresenceTypes == Spec => []TypeOK
<1>1. Spec => []Inv
  BY InitInv, NextInv, PTL DEF Spec
<1>2. Inv => TypeOK
  BY DEF Inv
<1>3. QED
  BY <1>1, <1>2, PTL

(***************************************************************************)
(* A presence map is the last word of everybody heard since the process    *)
(* started, however announcements, pruning, restarts and time interleave.  *)
(***************************************************************************)
THEOREM PresenceLatest == Spec => []PresenceIsLatest
<1>1. Spec => []Inv
  BY InitInv, NextInv, PTL DEF Spec
<1>2. Inv => PresenceIsLatest
  BY DEF Inv
<1>3. QED
  BY <1>1, <1>2, PTL

-----------------------------------------------------------------------------
(***************************************************************************)
(* The call button.  Starting a voice room prunes the map and tells the    *)
(* button nothing, so the button is right as long as no entry is old       *)
(* enough to be pruned.  The clock counts seconds and the entries are in   *)
(* microseconds since the same origin, so the bound says that the clock is *)
(* less than MICROS times its first value, as any real clock is.           *)
(***************************************************************************)
NothingStale == MaxTime \in Nat \ {0} /\ MaxTime <= MICROS + TTL
Timely ==
  /\ 1 <= clock /\ clock <= MaxTime
  /\ \A a \in Device : \A i \in 1 .. Len(log[a]) : MICROS <= log[a][i].ts

\* Nothing is pruned.
LEMMA PruningIdle ==
  ASSUME NothingStale, Inv, Timely, NEW d \in Device
  PROVE  /\ Pruned(seenAt[d]) = seenAt[d]
         /\ \A a \in Device : seenAt[d][a] # Unseen => MICROS <= seenAt[d][a]
<1>1. /\ MICROS \in Nat /\ TTL \in Nat /\ clock \in Nat
      /\ seenAt[d] \in [Device -> Nat \cup {Unseen}]
  BY PresenceAssumption DEF Inv, TypeOK
<1>2. ASSUME NEW a \in Device, seenAt[d][a] # Unseen
      PROVE  MICROS <= seenAt[d][a]
  <2>1. cursor[d][a] \in 1 .. Len(log[a]) /\ LastWord(d, a).ts = seenAt[d][a]
    BY <1>2, ReadPart DEF Inv, PresenceIsLatest
  <2>2. QED
    BY <2>1 DEF Timely, LastWord
<1>3. \A a \in Device : seenAt[d][a] # Unseen => Fresh(seenAt[d][a])
  BY <1>1, <1>2 DEF Timely, NothingStale, Fresh
<1>4. Pruned(seenAt[d]) = seenAt[d]
  BY <1>1, <1>3 DEF Pruned
<1>5. QED
  BY <1>2, <1>4

LEMMA TimelyStep ==
  ASSUME NothingStale, Inv, Timely, [Next]_vars
  PROVE  Timely'
<1>1. /\ MICROS \in Nat /\ clock \in Nat /\ MaxTime \in Nat
      /\ log \in [Device -> Seq(Announcement)]
  BY PresenceAssumption DEF Inv, TypeOK, NothingStale
<1>2. CASE Tick
  <2>1. clock < MaxTime /\ clock' = clock + 1 /\ log' = log
    BY <1>2 DEF Tick
  <2>2. QED
    BY <1>1, <2>1 DEF Timely
<1>3. ASSUME NEW d \in Device, AnnouncePresence(d) PROVE Timely'
  <2> PICK op : op = [joined |-> Head(appQ[d]), ts |-> clock * MICROS]
    OBVIOUS
  <2>1. clock' = clock /\ (log' = log \/ log' = [log EXCEPT ![d] = Append(@, op)])
    BY <1>3 DEF AnnouncePresence
  <2>2. MICROS <= op.ts
    <3>1. 1 * MICROS <= clock * MICROS
      BY <1>1, ScalingGrows DEF Timely
    <3>2. QED
      BY <1>1, <3>1
  <2>3. \A i \in 1 .. Len(log[d]) + 1 : MICROS <= Append(log[d], op)[i].ts
    BY <1>1, <2>2 DEF Timely
  <2>4. Len(Append(log[d], op)) = Len(log[d]) + 1
    BY <1>1
  <2>5. QED
    BY <1>1, <2>1, <2>3, <2>4 DEF Timely
<1>4. ASSUME UNCHANGED <<clock, log>> PROVE Timely'
  BY <1>4 DEF Timely
<1>5. QED
  BY <1>2, <1>3, <1>4
     DEF Next, vars, PushPage, PopPage, ReceivePresence, StartEditorAudio, Crash

\* A refresh tells the button what it makes of the map.
LEMMA RefreshIsHonest ==
  ASSUME Inv, ButtonIsHonest, NEW d \in Device,
         NEW m \in [Device -> Nat \cup {Unseen}], Refresh(d, m),
         \A b \in Device : b # d => appQ'[b] = appQ[b]
  PROVE  ButtonIsHonest'
<1>1. /\ seenAt' = [seenAt EXCEPT ![d] = Pruned(m)]
      /\ button' = [button EXCEPT ![d] = IF @ = NoButton THEN @ ELSE PresentIn(Pruned(m)) # {}]
      /\ seenAt \in [Device -> [Device -> Nat \cup {Unseen}]]
      /\ button \in [Device -> BOOLEAN \cup {NoButton}]
  BY DEF Refresh, Inv, TypeOK
<1> SUFFICES ASSUME NEW b \in Device, button'[b] # NoButton, appQ'[b] = <<>>
             PROVE  button'[b] = (PresentIn(seenAt'[b]) # {})
  BY DEF ButtonIsHonest, PresentIn
<1>2. CASE b = d
  BY <1>1, <1>2
<1>3. CASE b # d
  <2>1. button'[b] = button[b] /\ seenAt'[b] = seenAt[b] /\ appQ[b] = <<>>
    BY <1>1, <1>3
  <2>2. QED
    BY <2>1 DEF ButtonIsHonest
<1>4. QED
  BY <1>2, <1>3

LEMMA PagesAreHonest ==
  ASSUME Inv, ButtonIsHonest, NEW d \in Device,
         \/ \E page \in Page : PushPage(d, page)
         \/ PopPage(d)
         \/ Crash(d)
  PROVE  ButtonIsHonest'
<1>1. \A b \in Device : b # d =>
        appQ'[b] = appQ[b] /\ button'[b] = button[b] /\ seenAt'[b] = seenAt[b]
  BY DEF PushPage, PopPage, Crash, Inv, TypeOK
<1>2. \/ button'[d] = NoButton
      \/ appQ'[d] # <<>>
      \/ button'[d] = button[d] /\ appQ'[d] = appQ[d] /\ seenAt'[d] = seenAt[d]
  <2>1. CASE Crash(d)
    BY <2>1 DEF Crash, Inv, TypeOK
  <2>2. CASE PopPage(d)
    BY <2>2 DEF PopPage, Inv, TypeOK
  <2>3. ASSUME NEW page \in Page, PushPage(d, page)
        PROVE  \/ button'[d] = NoButton
               \/ appQ'[d] # <<>>
               \/ button'[d] = button[d] /\ appQ'[d] = appQ[d] /\ seenAt'[d] = seenAt[d]
    <3>1. appQ[d] \in Seq(BOOLEAN)
      BY DEF Inv, TypeOK
    <3>2. CASE OnPage(d)
      BY <2>3, <3>2 DEF PushPage, Inv, TypeOK
    <3>3. CASE ~OnPage(d) /\ page = "key"
      <4>1. appQ' = [appQ EXCEPT ![d] = (@ \o <<TRUE>>) \o <<>>]
        BY <2>3, <3>3 DEF PushPage
      <4>2. <<TRUE>> \in Seq(BOOLEAN) /\ <<>> \in Seq(BOOLEAN) /\ Len(<<TRUE>>) = 1
        OBVIOUS
      <4>3. /\ appQ[d] \o <<TRUE>> \in Seq(BOOLEAN)
            /\ Len(appQ[d] \o <<TRUE>>) = Len(appQ[d]) + 1
        BY <3>1, <4>2, ConcatProperties
      <4>4. Len((appQ[d] \o <<TRUE>>) \o <<>>) = Len(appQ[d]) + 1 /\ Len(appQ[d]) \in Nat
        BY <3>1, <4>2, <4>3, ConcatProperties
      <4>5. appQ'[d] = (appQ[d] \o <<TRUE>>) \o <<>>
        BY <4>1 DEF Inv, TypeOK
      <4>6. QED
        BY <4>4, <4>5
    <3>4. CASE ~OnPage(d) /\ page # "key"
      <4>1. /\ appQ' = [appQ EXCEPT ![d] = (@ \o <<>>) \o <<>>]
            /\ button' = [button EXCEPT ![d] = @] /\ seenAt' = seenAt
        BY <2>3, <3>4 DEF PushPage
      <4>2. appQ[d] \o <<>> = appQ[d]
        BY <3>1, ConcatEmptySeq
      <4>3. QED
        BY <4>1, <4>2 DEF Inv, TypeOK
    <3>5. QED
      BY <3>2, <3>3, <3>4
  <2>4. QED
    BY <2>1, <2>2, <2>3
<1>3. QED
  BY <1>1, <1>2 DEF ButtonIsHonest, PresentIn

LEMMA ButtonStep ==
  ASSUME NothingStale, Inv, Timely, ButtonIsHonest, [Next]_vars
  PROVE  ButtonIsHonest'
<1>1. ASSUME NEW d \in Device, AnnouncePresence(d) PROVE ButtonIsHonest'
  <2>1. Refresh(d, seenAt[d]) /\ appQ' = [appQ EXCEPT ![d] = Tail(@)]
    BY <1>1 DEF AnnouncePresence
  <2>2. /\ seenAt[d] \in [Device -> Nat \cup {Unseen}]
        /\ \A b \in Device : b # d => appQ'[b] = appQ[b]
    BY <2>1 DEF Inv, TypeOK
  <2>3. QED
    BY <2>1, <2>2, RefreshIsHonest
<1>2. ASSUME NEW d \in Device, NEW a \in Device, ReceivePresence(d, a) PROVE ButtonIsHonest'
  <2> PICK m : m = Noted(seenAt[d], a, log[a][cursor[d][a] + 1])
    OBVIOUS
  <2>1. Refresh(d, m) /\ appQ' = appQ /\ cursor[d][a] < Len(log[a])
    BY <1>2 DEF ReceivePresence
  <2>2. log[a][cursor[d][a] + 1] \in Announcement
    BY <2>1 DEF Inv, TypeOK
  <2>3. m \in [Device -> Nat \cup {Unseen}]
    BY <2>2 DEF Noted, Announcement, Inv, TypeOK
  <2>4. QED
    BY <2>1, <2>3, RefreshIsHonest
<1>3. ASSUME NEW d \in Device, StartEditorAudio(d) PROVE ButtonIsHonest'
  <2>1. seenAt' = [seenAt EXCEPT ![d] = Pruned(seenAt[d])] /\ UNCHANGED <<appQ, button>>
    BY <1>3 DEF StartEditorAudio
  <2>2. seenAt' = seenAt
    BY <2>1, PruningIdle DEF Inv, TypeOK
  <2>3. QED
    BY <2>1, <2>2 DEF ButtonIsHonest, PresentIn
<1>4. ASSUME UNCHANGED <<appQ, button, seenAt>> PROVE ButtonIsHonest'
  BY <1>4 DEF ButtonIsHonest, PresentIn
<1>5. CASE Tick \/ UNCHANGED vars
  BY <1>4, <1>5 DEF Tick, vars
<1>6. QED
  BY <1>1, <1>2, <1>3, <1>5, PagesAreHonest DEF Next

(***************************************************************************)
(* The call button of a page says what the presence map says as soon as    *)
(* the messages of the pages are handled, however pages were stacked,      *)
(* covered and closed, provided no entry is ever old enough to be pruned.  *)
(***************************************************************************)
THEOREM ButtonHonest == ASSUME NothingStale PROVE Spec => []ButtonIsHonest
<1>1. Init => Timely /\ ButtonIsHonest
  <2> SUFFICES ASSUME Init PROVE Timely /\ ButtonIsHonest
    OBVIOUS
  <2>1. \A a \in Device : Len(log[a]) = 0
    BY DEF Init
  <2>2. Timely
    BY <2>1, PresenceAssumption DEF Init, Timely, NothingStale
  <2>3. ButtonIsHonest
    BY DEF Init, ButtonIsHonest
  <2>4. QED
    BY <2>2, <2>3
<1>2. Inv /\ Timely /\ ButtonIsHonest /\ [Next]_vars => Timely' /\ ButtonIsHonest'
  BY TimelyStep, ButtonStep
<1>3. QED
  BY <1>1, <1>2, InitInv, NextInv, PTL DEF Spec
-----------------------------------------------------------------------------
(***************************************************************************)
(* Voice calls (module Call), for any callers, microphones and bounds: the *)
(* calls the voice room of a reading starts, one per editor who is         *)
(* present.                                                                *)
(*                                                                         *)
(* The argument.  Call numbers are used once, so a state or a message      *)
(* names one offer of one device to one other.  While nothing happens that *)
(* the handlers do not foresee, a device takes an offer or makes one only  *)
(* when idle, so the two ends of an offer pass through a fixed order, and  *)
(* whatever makes them differ is a message on its way: the offer itself,   *)
(* which is the first thing said of a call, its answer, or a last word,    *)
(* after which the device that said it is out of the call.                 *)
(***************************************************************************)

(***************************************************************************)
(* Types.                                                                  *)
(***************************************************************************)
States == {Idle} \cup {Calling(p) : p \in Caller} \cup {Ringing(p) : p \in Caller}
            \cup {Active(p) : p \in Caller}
StateOf(d) == {Idle} \cup {Calling(p) : p \in Caller \ {d}}
                \cup {Ringing(p) : p \in Caller \ {d}} \cup {Active(p) : p \in Caller \ {d}}
OfferIds == {NoOffer} \cup (Caller \X Caller \X Nat)
Letter == [type : {"offer", "accept", "reject", "hangup", "closed"}, id : OfferIds]

CallTyped ==
  /\ call \in [Caller -> States] /\ \A d \in Caller : call[d] \in StateOf(d)
  /\ sid \in [Caller -> OfferIds]
SoundTyped ==
  /\ audio \in [Caller -> Caller \cup {Nobody}] /\ \A d \in Caller : audio[d] # d
  /\ ear \in [Caller -> BOOLEAN] /\ heard \in [Caller -> BOOLEAN]
  /\ \A d \in Caller : (ear[d] => audio[d] # Nobody) /\ (heard[d] => audio[d] # Nobody)
  /\ waiting \in [Caller -> [Caller -> Nat]] /\ ending \in [Caller -> [Caller -> Nat]]
NetTyped ==
  /\ channels \in [Caller -> SUBSET Caller] /\ \A d \in Caller : d \notin channels[d]
  /\ \A d \in Caller : {d, d} \notin up
WireTyped ==
  /\ wire \in [Caller -> [Caller -> Seq(Letter)]] /\ \A d \in Caller : wire[d][d] = <<>>
RestTyped ==
  /\ toCall \in [Caller -> SUBSET Caller] /\ \A d \in Caller : d \notin toCall[d]
  /\ notes \in [Caller -> SUBSET Caller] /\ \A d \in Caller : d \notin notes[d]
  /\ odd \subseteq Incidents
  /\ presses \in 0 .. MaxPresses /\ drops \in 0 .. MaxDrops
Typed == CallTyped /\ SoundTyped /\ NetTyped /\ WireTyped /\ RestTyped

LEMMA TypedIsTypeOK ==
  ASSUME CallAssumption PROVE Typed => CallTypeOK
  BY DEF Typed, CallTyped, SoundTyped, NetTyped, RestTyped, StateOf, CallTypeOK, CallAssumption

LEMMA StateCases ==
  ASSUME Typed, NEW d \in Caller
  PROVE  \/ call[d] = Idle /\ call[d].kind = "Idle" /\ ~InCall(d)
         \/ /\ call[d].peer \in Caller /\ call[d].peer # d /\ InCall(d)
            /\ call[d].kind \in {"Calling", "Ringing", "Active"}
  BY DEF Typed, CallTyped, StateOf, Idle, Calling, Ringing, Active, InCall

LEMMA SetCallTyped ==
  ASSUME Typed, NEW d \in Caller, NEW s \in StateOf(d), NEW id \in OfferIds, SetCall(d, s, id)
  PROVE  /\ CallTyped' /\ call'[d] = s /\ sid'[d] = id
         /\ \A e \in Caller : e # d => call'[e] = call[e] /\ sid'[e] = sid[e]
<1>1. s \in States
  BY DEF StateOf, States
<1>2. QED
  BY <1>1 DEF SetCall, Typed, CallTyped

\* A message is appended to one queue while the connection stands.
LEMMA SentTyped ==
  ASSUME Typed, NEW d \in Caller, NEW p \in Caller, d # p, NEW m \in Letter,
         wire' = Sent(d, p, m)
  PROVE  WireTyped'
<1>1. CASE {d, p} \in up
  <2>1. wire' = [wire EXCEPT ![d] = [wire[d] EXCEPT ![p] = Append(wire[d][p], m)]]
    BY <1>1 DEF Sent
  <2>2. Append(wire[d][p], m) \in Seq(Letter)
    BY DEF Typed, WireTyped
  <2>3. [wire[d] EXCEPT ![p] = Append(wire[d][p], m)] \in [Caller -> Seq(Letter)]
    BY <2>2 DEF Typed, WireTyped
  <2>4. QED
    BY <2>1, <2>3 DEF Typed, WireTyped
<1>2. CASE {d, p} \notin up
  BY <1>2 DEF Sent, Typed, WireTyped
<1>3. QED
  BY <1>1, <1>2

LEMMA MessageTyped ==
  ASSUME NEW type \in {"offer", "accept", "reject", "hangup", "closed"}, NEW id \in OfferIds
  PROVE  Message(type, id) \in Letter
  BY DEF Message, Letter

LEMMA DropTyped ==
  ASSUME Typed, NEW d \in Caller, DropSession(d)
  PROVE  waiting' \in [Caller -> [Caller -> Nat]]
<1>1. CASE ear[d]
  <2>1. audio[d] \in Caller
    BY <1>1 DEF Typed, SoundTyped
  <2>2. waiting[d][audio[d]] + 1 \in Nat
    BY <2>1 DEF Typed, SoundTyped
  <2>3. waiting' = [waiting EXCEPT ![d] =
                      [waiting[d] EXCEPT ![audio[d]] = waiting[d][audio[d]] + 1]]
    BY <1>1 DEF DropSession
  <2>4. [waiting[d] EXCEPT ![audio[d]] = waiting[d][audio[d]] + 1] \in [Caller -> Nat]
    BY <2>1, <2>2 DEF Typed, SoundTyped
  <2>5. QED
    BY <2>3, <2>4 DEF Typed, SoundTyped
<1>2. CASE ~ear[d]
  BY <1>2 DEF DropSession, Typed, SoundTyped
<1>3. QED
  BY <1>1, <1>2

LEMMA StartSessionTyped ==
  ASSUME CallAssumption, Typed, NEW d \in Caller, NEW p \in Caller, d # p, StartSession(d, p)
  PROVE  /\ SoundTyped' /\ audio'[d] = p
         /\ \A e \in Caller : e # d => audio'[e] = audio[e]
<1>1. waiting' \in [Caller -> [Caller -> Nat]]
  BY DropTyped DEF StartSession
<1>2. ({d, p} \in up) \in BOOLEAN
  OBVIOUS
<1>3. ear' \in [Caller -> BOOLEAN] /\ \A e \in Caller : e # d => ear'[e] = ear[e]
  BY <1>2 DEF StartSession, Typed, SoundTyped
<1>4. QED
  BY <1>1, <1>3 DEF StartSession, Typed, SoundTyped, CallAssumption

LEMMA EndSessionTyped ==
  ASSUME CallAssumption, Typed, NEW d \in Caller, EndSession(d)
  PROVE  /\ SoundTyped' /\ audio'[d] = Nobody
         /\ \A e \in Caller : e # d => audio'[e] = audio[e]
<1>1. waiting' \in [Caller -> [Caller -> Nat]]
  BY DropTyped DEF EndSession
<1>2. QED
  BY <1>1 DEF EndSession, Typed, SoundTyped, CallAssumption

LEMMA NoteTyped ==
  ASSUME Typed, NEW incident \in Incidents, NEW happened, Note(incident, happened)
  PROVE  odd' \subseteq Incidents /\ odd \subseteq odd' /\ (odd' = {} => ~happened)
  BY DEF Note, Typed, RestTyped

LEMMA PressTyped ==
  ASSUME CallAssumption, Typed, Press
  PROVE  presses' = presses + 1 /\ presses' \in 0 .. MaxPresses /\ presses \in Nat
  BY DEF Press, Typed, RestTyped, CallAssumption

-----------------------------------------------------------------------------
LEMMA TypedInit ==
  ASSUME CallAssumption PROVE CallInit => Typed
<1> SUFFICES ASSUME CallInit PROVE Typed
  OBVIOUS
<1>1. CallTyped
  BY DEF CallInit, CallTyped, States, StateOf, OfferIds
<1>2. SoundTyped
  BY DEF CallInit, SoundTyped, CallAssumption
<1>3. NetTyped
  <2> DEFINE S == {{x, y} : x, y \in Caller}
             T == {{x} : x \in Caller}
  <2>1. \A d \in Caller : {d, d} \in T
    OBVIOUS
  <2>2. up = S \ T
    BY DEF CallInit
  <2>3. channels = [d \in Caller |-> Caller \ {d}]
    BY DEF CallInit
  <2> HIDE DEF S, T
  <2>4. \A d \in Caller : {d, d} \notin up
    BY <2>1, <2>2
  <2>5. QED
    BY <2>3, <2>4 DEF NetTyped
<1>4. WireTyped
  BY DEF CallInit, WireTyped
<1>5. RestTyped
  BY DEF CallInit, RestTyped, CallAssumption
<1>6. QED
  BY <1>1, <1>2, <1>3, <1>4, <1>5 DEF Typed

LEMMA StartEditorAudioTyped ==
  ASSUME CallAssumption, Typed, NEW d \in Caller, NEW present \in SUBSET (Caller \ {d}),
         StartAudioWith(d, present)
  PROVE  Typed'
<1>1. /\ Press /\ toCall' = [toCall EXCEPT ![d] = @ \cup present]
      /\ UNCHANGED <<call, sid, audio, ear, heard, waiting, ending, channels, up, drops,
                     notes, wire, odd>>
  BY DEF StartAudioWith, callVars, soundVars, netVars
<1>2. presses' \in 0 .. MaxPresses
  BY <1>1, PressTyped
<1>3. QED
  BY <1>1, <1>2
     DEF Typed, CallTyped, SoundTyped, NetTyped, WireTyped, RestTyped

LEMMA CallStargazerTyped ==
  ASSUME CallAssumption, Typed, NEW d \in Caller, NEW p \in Caller, CallStargazer(d, p)
  PROVE  Typed'
<1>1. /\ p \in toCall[d] /\ toCall' = [toCall EXCEPT ![d] = @ \ {p}]
      /\ UNCHANGED <<channels, up, drops, notes, presses>>
  BY DEF CallStargazer, netVars
<1>2. d # p
  BY <1>1 DEF Typed, RestTyped
<1>3. CASE p \in channels[d]
  <2> PICK id : id = <<d, p, presses>>
    OBVIOUS
  <2>1. /\ StartSession(d, p)
        /\ wire' = Sent(d, p, Message("offer", id))
        /\ SetCall(d, Calling(p), id)
        /\ Note("engaged", InCall(d))
    BY <1>3 DEF CallStargazer
  <2>2. id \in OfferIds
    BY DEF OfferIds, Typed, RestTyped, CallAssumption
  <2>3. Calling(p) \in StateOf(d)
    BY <1>2 DEF StateOf
  <2>4. CallTyped' /\ SoundTyped'
    BY <1>2, <2>1, <2>2, <2>3, SetCallTyped, StartSessionTyped
  <2>5. WireTyped'
    BY <1>2, <2>1, <2>2, MessageTyped, SentTyped
  <2>6. odd' \subseteq Incidents
    BY <2>1, NoteTyped DEF Incidents
  <2>7. QED
    BY <1>1, <2>4, <2>5, <2>6 DEF Typed, NetTyped, RestTyped
<1>4. CASE p \notin channels[d]
  <2>1. UNCHANGED <<call, sid, audio, ear, heard, waiting, ending, wire, odd>>
    BY <1>4 DEF CallStargazer, callVars, soundVars
  <2>2. QED
    BY <1>1, <2>1 DEF Typed, CallTyped, SoundTyped, NetTyped, WireTyped, RestTyped
<1>5. QED
  BY <1>3, <1>4

LEMMA AcceptCallTyped ==
  ASSUME CallAssumption, Typed, NEW d \in Caller, AcceptCall(d) PROVE Typed'
<1> PICK p : p = call[d].peer
  OBVIOUS
<1>1. /\ Press /\ call[d].kind = "Ringing" /\ notes' = [notes EXCEPT ![d] = @ \ {p}]
      /\ UNCHANGED <<channels, up, drops, toCall, odd>>
  BY DEF AcceptCall, netVars
<1>2. p \in Caller /\ p # d
  BY <1>1, StateCases
<1>3. presses' \in 0 .. MaxPresses
  BY <1>1, PressTyped
<1>4. CASE p \in channels[d]
  <2>1. /\ StartSession(d, p)
        /\ wire' = Sent(d, p, Message("accept", sid[d]))
        /\ SetCall(d, Active(p), sid[d])
    BY <1>4 DEF AcceptCall
  <2> PICK id : id = sid[d]
    OBVIOUS
  <2>2. id \in OfferIds /\ Active(p) \in StateOf(d)
    BY <1>2 DEF Typed, CallTyped, StateOf
  <2>3. CallTyped' /\ SoundTyped'
    BY <1>2, <2>1, <2>2, SetCallTyped, StartSessionTyped
  <2>4. WireTyped'
    BY <1>2, <2>1, <2>2, MessageTyped, SentTyped
  <2>5. QED
    BY <1>1, <1>3, <2>3, <2>4 DEF Typed, NetTyped, RestTyped
<1>5. CASE p \notin channels[d]
  <2>1. UNCHANGED <<call, sid, audio, ear, heard, waiting, ending, wire>>
    BY <1>5 DEF AcceptCall, callVars, soundVars
  <2>2. QED
    BY <1>1, <1>3, <2>1 DEF Typed, CallTyped, SoundTyped, NetTyped, WireTyped, RestTyped
<1>6. QED
  BY <1>4, <1>5

LEMMA RejectCallTyped ==
  ASSUME CallAssumption, Typed, NEW d \in Caller, NEW q \in Caller, RejectCall(d, q) PROVE Typed'
<1>1. /\ Press /\ SetCall(d, Idle, NoOffer) /\ Note("declined", InCall(d) /\ call[d].kind # "Ringing")
      /\ UNCHANGED <<audio, ear, heard, waiting, ending, channels, up, drops, toCall>>
  BY DEF RejectCall, soundVars, netVars
<1>2. presses' \in 0 .. MaxPresses
  BY <1>1, PressTyped
<1>3. CallTyped'
  <2>1. Idle \in StateOf(d) /\ NoOffer \in OfferIds
    BY DEF StateOf, OfferIds
  <2>2. QED
    BY <1>1, <2>1, SetCallTyped
<1>4. odd' \subseteq Incidents
  BY <1>1, NoteTyped DEF Incidents
<1>5. notes' \in [Caller -> SUBSET Caller] /\ \A e \in Caller : e \notin notes'[e]
  BY DEF RejectCall, Typed, RestTyped
<1>6. WireTyped'
  <2>1. CASE UNCHANGED wire
    BY <2>1 DEF Typed, WireTyped
  <2>2. CASE ~UNCHANGED wire
    <3> PICK p, id : p = call[d].peer /\ id = sid[d]
      OBVIOUS
    <3>1. call[d].kind = "Ringing" /\ wire' = Sent(d, p, Message("reject", id))
      BY <2>2 DEF RejectCall
    <3>2. p \in Caller /\ p # d /\ id \in OfferIds
      BY <3>1, StateCases DEF Typed, CallTyped
    <3>3. QED
      BY <3>1, <3>2, MessageTyped, SentTyped
  <2>3. QED
    BY <2>1, <2>2
<1>7. QED
  BY <1>1, <1>2, <1>3, <1>4, <1>5, <1>6 DEF Typed, SoundTyped, NetTyped, RestTyped

LEMMA HangUpTyped ==
  ASSUME CallAssumption, Typed, NEW d \in Caller, HangUp(d) PROVE Typed'
<1>1. /\ Press /\ InCall(d) /\ EndSession(d) /\ SetCall(d, Idle, NoOffer)
      /\ UNCHANGED <<channels, up, drops, toCall, notes, odd>>
  BY DEF HangUp, netVars
<1>2. presses' \in 0 .. MaxPresses
  BY <1>1, PressTyped
<1>3. CallTyped' /\ SoundTyped'
  <2>1. Idle \in StateOf(d) /\ NoOffer \in OfferIds
    BY DEF StateOf, OfferIds
  <2>2. QED
    BY <1>1, <2>1, SetCallTyped, EndSessionTyped
<1>4. WireTyped'
  <2> PICK p, id : p = call[d].peer /\ id = sid[d]
    OBVIOUS
  <2>1. p \in Caller /\ p # d /\ id \in OfferIds
    BY <1>1, StateCases DEF Typed, CallTyped
  <2>2. wire' = Sent(d, p, Message("hangup", id)) \/ wire' = wire
    BY DEF HangUp
  <2>3. CASE wire' = Sent(d, p, Message("hangup", id))
    BY <2>1, <2>3, MessageTyped, SentTyped
  <2>4. CASE wire' = wire
    BY <2>4 DEF Typed, WireTyped
  <2>5. QED
    BY <2>2, <2>3, <2>4
<1>5. QED
  BY <1>1, <1>2, <1>3, <1>4 DEF Typed, NetTyped, RestTyped

\* The first message of a queue is taken.
LEMMA Taken ==
  ASSUME Typed, NEW d \in Caller, NEW p \in Caller, wire[p][d] # <<>>,
         wire' = [wire EXCEPT ![p][d] = Tail(@)]
  PROVE  WireTyped' /\ p # d /\ Head(wire[p][d]) \in Letter
<1>1. wire[p][d] \in Seq(Letter) /\ wire \in [Caller -> [Caller -> Seq(Letter)]]
  BY DEF Typed, WireTyped
<1>2. Tail(wire[p][d]) \in Seq(Letter) /\ Head(wire[p][d]) \in Letter
  BY <1>1, HeadTailProperties
<1>3. p # d
  BY DEF Typed, WireTyped
<1>4. wire' = [wire EXCEPT ![p] = [wire[p] EXCEPT ![d] = Tail(wire[p][d])]]
  OBVIOUS
<1>5. [wire[p] EXCEPT ![d] = Tail(wire[p][d])] \in [Caller -> Seq(Letter)]
  BY <1>1, <1>2
<1>6. QED
  BY <1>1, <1>2, <1>3, <1>4, <1>5 DEF Typed, WireTyped

LEMMA NetEventTyped ==
  ASSUME CallAssumption, Typed, NEW d \in Caller, NEW p \in Caller, NetEvent(d, p) PROVE Typed'
<1> PICK m : m = Head(wire[p][d])
  OBVIOUS
<1>1. /\ wire[p][d] # <<>> /\ wire' = [wire EXCEPT ![p][d] = Tail(@)]
      /\ UNCHANGED <<up, drops, toCall, presses>>
      /\ \/ m.type = "offer" /\ CallOffer(d, p, m.id) /\ UNCHANGED channels
         \/ m.type = "accept" /\ CallAccepted(d, p, m.id) /\ UNCHANGED channels
         \/ m.type = "reject" /\ CallRejected(d, m.id) /\ UNCHANGED channels
         \/ m.type = "hangup" /\ CallHungUp(d, m.id) /\ UNCHANGED channels
         \/ m.type = "closed" /\ PeerChannelClosed(d, p)
  BY DEF NetEvent
<1>2. WireTyped' /\ p # d /\ m.id \in OfferIds
  BY <1>1, Taken DEF Letter
<1> PICK id : id = m.id
  OBVIOUS
<1>3. Idle \in StateOf(d) /\ NoOffer \in OfferIds /\ Ringing(p) \in StateOf(d)
      /\ Active(p) \in StateOf(d) /\ "engaged" \in Incidents /\ "late" \in Incidents
  BY <1>2 DEF StateOf, OfferIds, Incidents
<1>4. CASE CallOffer(d, p, id) /\ UNCHANGED channels
  <2>1. /\ notes' = [notes EXCEPT ![d] = @ \cup {p}] /\ SetCall(d, Ringing(p), id)
        /\ Note("engaged", InCall(d)) /\ UNCHANGED <<audio, ear, heard, waiting, ending>>
    BY <1>4 DEF CallOffer, soundVars
  <2>2. CallTyped'
    BY <1>2, <1>3, <2>1, SetCallTyped
  <2>3. odd' \subseteq Incidents
    BY <1>3, <2>1, NoteTyped
  <2>4. QED
    BY <1>1, <1>2, <1>4, <2>1, <2>2, <2>3 DEF Typed, SoundTyped, NetTyped, RestTyped
<1>5. CASE CallAccepted(d, p, id) /\ UNCHANGED channels
  <2>1. /\ SetCall(d, Active(p), id) /\ Note("late", id # sid[d])
        /\ UNCHANGED <<notes, audio, ear, heard, waiting, ending>>
    BY <1>5 DEF CallAccepted, soundVars
  <2>2. CallTyped'
    BY <1>2, <1>3, <2>1, SetCallTyped
  <2>3. odd' \subseteq Incidents
    BY <1>3, <2>1, NoteTyped
  <2>4. QED
    BY <1>1, <1>2, <1>5, <2>1, <2>2, <2>3 DEF Typed, SoundTyped, NetTyped, RestTyped
<1>6. CASE Over(d, id) /\ UNCHANGED channels
  <2>1. /\ notes' = IF InCall(d) THEN [notes EXCEPT ![d] = @ \ {call[d].peer}] ELSE notes
        /\ EndSession(d) /\ SetCall(d, Idle, NoOffer)
        /\ Note("late", InCall(d) /\ id # sid[d])
    BY <1>6 DEF Over
  <2>2. CallTyped' /\ SoundTyped'
    BY <1>3, <2>1, SetCallTyped, EndSessionTyped
  <2>3. odd' \subseteq Incidents
    BY <1>3, <2>1, NoteTyped
  <2>4. notes' \in [Caller -> SUBSET Caller] /\ \A e \in Caller : e \notin notes'[e]
    BY <2>1 DEF Typed, RestTyped
  <2>5. QED
    BY <1>1, <1>2, <1>6, <2>2, <2>3, <2>4 DEF Typed, NetTyped, RestTyped
<1>7. CASE PeerChannelClosed(d, p)
  <2>1. /\ channels' = [channels EXCEPT ![d] = @ \ {p}]
        /\ UNCHANGED <<call, sid, audio, ear, heard, waiting, ending, notes, odd>>
    BY <1>7 DEF PeerChannelClosed, callVars, soundVars
  <2>2. QED
    BY <1>1, <1>2, <2>1 DEF Typed, CallTyped, SoundTyped, NetTyped, RestTyped
<1>8. QED
  BY <1>1, <1>4, <1>5, <1>6, <1>7 DEF CallRejected, CallHungUp

LEMMA DropConnectionTyped ==
  ASSUME CallAssumption, Typed, NEW d \in Caller, NEW p \in Caller, DropConnection(d, p) PROVE Typed'
<1>1. /\ drops < MaxDrops /\ {d, p} \in up /\ drops' = drops + 1 /\ up' = up \ {{d, p}}
      /\ ear' = [x \in Caller |-> ear[x] /\ {x, audio[x]} # {d, p}]
      /\ waiting' = [waiting EXCEPT ![d][p] = 0, ![p][d] = 0]
      /\ ending' = [ending EXCEPT ![d][p] = 0, ![p][d] = 0]
      /\ Note("lost", TRUE)
      /\ UNCHANGED <<call, sid, audio, heard, channels, toCall, notes, presses>>
  BY DEF DropConnection, callVars
<1>2. d # p
  BY <1>1 DEF Typed, NetTyped
<1>3. odd' \subseteq Incidents
  BY <1>1, NoteTyped DEF Incidents
<1>4. WireTyped'
  <2> PICK m : m = Message("closed", NoOffer)
    OBVIOUS
  <2>1. PICK k \in 0 .. Len(wire[d][p]), n \in 0 .. Len(wire[p][d]) :
          wire' = [wire EXCEPT ![d][p] = Append(SubSeq(@, 1, k), m),
                               ![p][d] = Append(SubSeq(@, 1, n), m)]
    BY DEF DropConnection
  <2>2. m \in Letter
    BY MessageTyped DEF OfferIds
  <2>3. wire[d][p] \in Seq(Letter) /\ wire[p][d] \in Seq(Letter)
    BY DEF Typed, WireTyped
  <2>4. SubSeq(wire[d][p], 1, k) \in Seq(Letter) /\ SubSeq(wire[p][d], 1, n) \in Seq(Letter)
    BY <2>3
  <2>5. Append(SubSeq(wire[d][p], 1, k), m) \in Seq(Letter)
        /\ Append(SubSeq(wire[p][d], 1, n), m) \in Seq(Letter)
    BY <2>2, <2>4
  <2> PICK s, t : s = Append(SubSeq(wire[d][p], 1, k), m) /\ t = Append(SubSeq(wire[p][d], 1, n), m)
    OBVIOUS
  <2>6. wire' = [wire EXCEPT ![d][p] = s, ![p][d] = t]
    BY <1>2, <2>1 DEF Typed, WireTyped
  <2>7. QED
    BY <1>2, <2>5, <2>6 DEF Typed, WireTyped
<1>5. SoundTyped'
  <2>1. ear' \in [Caller -> BOOLEAN] /\ \A e \in Caller : ear'[e] => ear[e]
    BY <1>1 DEF Typed, SoundTyped
  <2>2. waiting' \in [Caller -> [Caller -> Nat]] /\ ending' \in [Caller -> [Caller -> Nat]]
    BY <1>1 DEF Typed, SoundTyped
  <2>3. QED
    BY <1>1, <2>1, <2>2 DEF Typed, SoundTyped
<1>6. drops' \in 0 .. MaxDrops
  BY <1>1 DEF Typed, RestTyped, CallAssumption
<1>7. QED
  BY <1>1, <1>3, <1>4, <1>5, <1>6 DEF Typed, CallTyped, NetTyped, RestTyped

LEMMA ReconnectedTyped ==
  ASSUME Typed, NEW d \in Caller, NEW p \in Caller, Reconnected(d, p) PROVE Typed'
<1>1. /\ d # p /\ up' = up \cup {{d, p}}
      /\ channels' = [channels EXCEPT ![d] = @ \cup {p}, ![p] = @ \cup {d}]
      /\ UNCHANGED <<call, sid, audio, ear, heard, waiting, ending, drops, toCall, notes,
                     wire, odd, presses>>
  BY DEF Reconnected, callVars, soundVars
<1>2. NetTyped'
  <2>1. channels' \in [Caller -> SUBSET Caller] /\ \A e \in Caller : e \notin channels'[e]
    BY <1>1 DEF Typed, NetTyped
  <2>2. \A e \in Caller : {e, e} # {d, p}
    BY <1>1
  <2>3. QED
    BY <1>1, <2>1, <2>2 DEF Typed, NetTyped
<1>3. QED
  BY <1>1, <1>2 DEF Typed, CallTyped, SoundTyped, WireTyped, RestTyped

LEMMA DatagramTyped ==
  ASSUME CallAssumption, Typed, NEW d \in Caller, NEW p \in Caller, Datagram(d, p) PROVE Typed'
<1>1. /\ LiveTakes(d, p) \/ WaitingTakes(d, p) \/ EndingTakes(d, p)
      /\ UNCHANGED <<call, sid, channels, up, drops, toCall, notes, wire, odd, presses>>
  BY DEF Datagram, callVars, netVars
<1>2. audio' = audio /\ ear' = ear
  BY <1>1 DEF LiveTakes, WaitingTakes, EndingTakes
<1>3. heard' \in [Caller -> BOOLEAN] /\ \A e \in Caller : heard'[e] => audio[e] # Nobody
  BY <1>1 DEF LiveTakes, WaitingTakes, EndingTakes, Typed, SoundTyped, CallAssumption
<1>4. waiting' \in [Caller -> [Caller -> Nat]] /\ ending' \in [Caller -> [Caller -> Nat]]
  <2> PICK w, e : w = waiting[d][p] /\ e = ending[d][p]
    OBVIOUS
  <2>1. w \in Nat /\ e \in Nat /\ e + 1 \in Nat
    BY DEF Typed, SoundTyped
  <2>2. CASE LiveTakes(d, p)
    BY <2>2 DEF LiveTakes, Typed, SoundTyped
  <2>3. CASE WaitingTakes(d, p)
    <3>1. /\ w - 1 \in Nat
          /\ waiting' = [waiting EXCEPT ![d] = [waiting[d] EXCEPT ![p] = w - 1]]
          /\ ending' = [ending EXCEPT ![d] = [ending[d] EXCEPT ![p] = e + 1]]
      BY <2>1, <2>3 DEF WaitingTakes
    <3>2. /\ [waiting[d] EXCEPT ![p] = w - 1] \in [Caller -> Nat]
          /\ [ending[d] EXCEPT ![p] = e + 1] \in [Caller -> Nat]
      BY <2>1, <3>1 DEF Typed, SoundTyped
    <3>3. QED
      BY <3>1, <3>2 DEF Typed, SoundTyped
  <2>4. CASE EndingTakes(d, p)
    <3>1. /\ e - 1 \in Nat /\ waiting' = waiting
          /\ ending' = [ending EXCEPT ![d] = [ending[d] EXCEPT ![p] = e - 1]]
      BY <2>1, <2>4 DEF EndingTakes
    <3>2. [ending[d] EXCEPT ![p] = e - 1] \in [Caller -> Nat]
      BY <2>1, <3>1 DEF Typed, SoundTyped
    <3>3. QED
      BY <3>1, <3>2 DEF Typed, SoundTyped
  <2>5. QED
    BY <1>1, <2>2, <2>3, <2>4
<1>5. QED
  BY <1>1, <1>2, <1>3, <1>4 DEF Typed, CallTyped, SoundTyped, NetTyped, WireTyped, RestTyped

LEMMA TypedNext ==
  ASSUME CallAssumption PROVE Typed /\ [CallNext]_allVars => Typed'
<1> SUFFICES ASSUME Typed, [CallNext]_allVars PROVE Typed'
  OBVIOUS
<1>1. CASE UNCHANGED allVars
  BY <1>1 DEF allVars, callVars, soundVars, netVars, Typed, CallTyped, SoundTyped, NetTyped,
              WireTyped, RestTyped
<1>2. CASE \E d \in Caller : \E p \in Caller : Datagram(d, p)
  BY <1>2, DatagramTyped
<1>3. CASE \E d \in Caller :
             \/ \E present \in SUBSET (Caller \ {d}) : StartAudioWith(d, present)
             \/ AcceptCall(d) \/ HangUp(d)
             \/ \E p \in Caller :
                  \/ CallStargazer(d, p) \/ RejectCall(d, p) \/ NetEvent(d, p)
                  \/ DropConnection(d, p) \/ Reconnected(d, p)
  BY <1>3, StartEditorAudioTyped, AcceptCallTyped, HangUpTyped, CallStargazerTyped,
     RejectCallTyped, NetEventTyped, DropConnectionTyped, ReconnectedTyped
<1>4. QED
  BY <1>1, <1>2, <1>3 DEF CallNext

\* Every variable keeps its type: in particular no device calls itself, rings
\* for itself, or has a receiving half running without a session.
THEOREM CallTypes ==
  CallSpec => []CallTypeOK
<1>1. /\ CallInit => Typed
      /\ Typed /\ [CallNext]_allVars => Typed'
      /\ Typed => CallTypeOK
  BY CallAssumption, TypedInit, TypedNext, TypedIsTypeOK
<1>2. QED
  BY <1>1, PTL DEF CallSpec

-----------------------------------------------------------------------------
(***************************************************************************)
(* The two ends of a call while nothing the handlers do not foresee has    *)
(* happened.                                                               *)
(***************************************************************************)
Types == {"offer", "accept", "reject", "hangup", "closed"}
Has(s, type, id) == \E i \in 1 .. Len(s) : s[i].type = type /\ s[i].id = id
Says(p, d, type, id) == Has(wire[p][d], type, id)
Is(d, kind, id) == call[d].kind = kind /\ sid[d] = id
Holds(d, id) == InCall(d) /\ sid[d] = id
Offered(p, d, id) == \E n \in 0 .. presses : id = <<p, d, n>>
Between(d, p, id) == Offered(d, p, id) \/ Offered(p, d, id)

AllUp == \A d, p \in Caller : d # p => {d, p} \in up /\ p \in channels[d]

\* The offer a call state is about is one that the two made, and the session
\* is with the other of the two.
StateFits(d) ==
  /\ call[d].kind = "Idle" => sid[d] = NoOffer
  /\ call[d].kind = "Calling" => Offered(d, call[d].peer, sid[d])
  /\ call[d].kind = "Ringing" => Offered(call[d].peer, d, sid[d])
  /\ call[d].kind = "Active" => Between(d, call[d].peer, sid[d])
  /\ audio[d] = IF call[d].kind \in {"Calling", "Active"} THEN call[d].peer ELSE Nobody

\* What a device that said something is now, and what the other one is.
OfferFits(p, d, id) ==
  Says(p, d, "offer", id) =>
    /\ Offered(p, d, id) /\ ~Holds(d, id) /\ \A type \in Types : ~Says(d, p, type, id)
    /\ Is(p, "Calling", id) \/ Says(p, d, "hangup", id)
AnswerFits(p, d, id) ==
  /\ Says(p, d, "accept", id) => Offered(d, p, id) /\ ~Is(p, "Ringing", id)
  /\ Says(p, d, "reject", id) => Offered(d, p, id) /\ ~Holds(p, id)
  /\ Says(p, d, "hangup", id) => Between(p, d, id) /\ ~Holds(p, id)
  /\ ~Says(p, d, "closed", id)

\* An offer is the first thing said of a call, and is said once.
First(s) ==
  \A i, j \in 1 .. Len(s) : i < j /\ s[j].type = "offer" => s[i].id # s[j].id
OfferFirst(p, d) == First(wire[p][d])

\* The number of the next offer was not used.
Unused(d, p) ==
  p \in toCall[d] =>
    /\ \A x \in Caller : ~Holds(x, <<d, p, presses>>)
    /\ \A x, y \in Caller : \A type \in Types : ~Says(x, y, type, <<d, p, presses>>)

\* A device in a call is told that it is over, or the two ends match, or the
\* message that makes them match is on its way.
Told(d, p, id) == Says(p, d, "reject", id) \/ Says(p, d, "hangup", id)
Matched(d, p, id) ==
  \/ Is(d, "Calling", id) /\ Says(d, p, "offer", id)
  \/ Is(d, "Calling", id) /\ Is(p, "Ringing", id)
  \/ Is(d, "Calling", id) /\ Is(p, "Active", id) /\ Says(p, d, "accept", id)
  \/ Is(d, "Ringing", id) /\ Is(p, "Calling", id)
  \/ Is(d, "Active", id) /\ Is(p, "Active", id)
  \/ Is(d, "Active", id) /\ Is(p, "Calling", id) /\ Says(d, p, "accept", id)
EndFits(d) ==
  InCall(d) => Told(d, call[d].peer, sid[d]) \/ Matched(d, call[d].peer, sid[d])

Foreseen ==
  /\ AllUp
  /\ \A d \in Caller : StateFits(d) /\ EndFits(d)
  /\ \A p, d \in Caller : OfferFirst(p, d) /\ Unused(p, d)
  /\ \A p, d \in Caller : \A id \in OfferIds : OfferFits(p, d, id) /\ AnswerFits(p, d, id)
CallInv == Typed /\ (odd = {} => Foreseen)

LEMMA OfferedOnce ==
  ASSUME NEW p, NEW d, NEW id, Offered(p, d, id)
  PROVE  /\ id # NoOffer
         /\ \A x, y : Offered(x, y, id) => x = p /\ y = d
         /\ id = <<p, d, id[3]>> /\ id[3] \in 0 .. presses
<1>1. PICK n \in 0 .. presses : id = <<p, d, n>>
  BY DEF Offered
<1>2. \A x, y : \A m \in 0 .. presses : id = <<x, y, m>> => x = p /\ y = d
  BY <1>1
<1>3. id # NoOffer
  BY <1>1 DEF NoOffer
<1>4. QED
  BY <1>1, <1>2, <1>3 DEF Offered

LEMMA OfferedStays ==
  ASSUME presses \in Nat, presses' \in Nat, presses' >= presses, NEW p, NEW d, NEW id
  PROVE  /\ Offered(p, d, id) => Offered(p, d, id)'
         /\ Between(p, d, id) => Between(p, d, id)'
  BY DEF Offered, Between

LEMMA OfferedIsId ==
  ASSUME CallAssumption, Typed, NEW p \in Caller, NEW d \in Caller, NEW id, Offered(p, d, id)
  PROVE  id \in OfferIds
  BY DEF Offered, OfferIds, Typed, RestTyped, CallAssumption

\* What a device is, in the three kinds.
LEMMA Kinds ==
  ASSUME Typed, NEW d \in Caller
  PROVE  /\ sid[d] \in OfferIds
         /\ InCall(d) <=> call[d].kind \in {"Calling", "Ringing", "Active"}
         /\ InCall(d) => call[d].peer \in Caller /\ call[d].peer # d
         /\ \A id : Holds(d, id) <=> Is(d, "Calling", id) \/ Is(d, "Ringing", id) \/ Is(d, "Active", id)
  BY StateCases DEF Typed, CallTyped, InCall, Holds, Is

\* Two devices that could be about the same offer are each other's peers.
LEMMA PeerIs ==
  ASSUME Typed, Foreseen, NEW x \in Caller, NEW y \in Caller, x # y, NEW id,
         Holds(x, id), Between(x, y, id)
  PROVE  call[x].peer = y
<1>1. StateFits(x) /\ sid[x] = id /\ InCall(x)
  BY DEF Foreseen, Holds
<1>2. call[x].kind \in {"Calling", "Ringing", "Active"}
  BY <1>1, Kinds
<1>3. Between(x, call[x].peer, id)
  BY <1>1, <1>2 DEF StateFits, Between
<1>4. CASE Offered(x, y, id)
  BY <1>3, <1>4, OfferedOnce DEF Between
<1>5. CASE Offered(y, x, id)
  BY <1>3, <1>5, OfferedOnce DEF Between
<1>6. QED
  BY <1>4, <1>5 DEF Between

LEMMA HeldBetween ==
  ASSUME Typed, Foreseen, NEW x \in Caller, NEW id, Holds(x, id)
  PROVE  call[x].peer \in Caller /\ call[x].peer # x /\ Between(x, call[x].peer, id)
<1>1. StateFits(x) /\ sid[x] = id /\ InCall(x)
  BY DEF Foreseen, Holds
<1>2. QED
  BY <1>1, Kinds DEF StateFits, Between

LEMMA SamePair ==
  ASSUME Typed, Foreseen, NEW x \in Caller, NEW y \in Caller, x # y, NEW id,
         Holds(x, id), Holds(y, id)
  PROVE  call[x].peer = y /\ call[y].peer = x
<1> PICK p, q : p = call[x].peer /\ q = call[y].peer
  OBVIOUS
<1>1. Between(x, p, id) /\ Between(y, q, id)
  BY HeldBetween
<1>2. p = y /\ q = x
  <2>1. CASE Offered(x, p, id)
    BY <1>1, <2>1, OfferedOnce DEF Between
  <2>2. CASE Offered(p, x, id)
    BY <1>1, <2>2, OfferedOnce DEF Between
  <2>3. QED
    BY <1>1, <2>1, <2>2 DEF Between
<1>3. QED
  BY <1>2

-----------------------------------------------------------------------------
(***************************************************************************)
(* What sending and taking a message changes.                              *)
(***************************************************************************)
LEMMA Appended ==
  ASSUME NEW s \in Seq(Letter), NEW m \in Letter
  PROVE  /\ \A t, j : Has(Append(s, m), t, j) <=> Has(s, t, j) \/ (t = m.type /\ j = m.id)
         /\ First(s) /\ (m.type = "offer" => \A t \in Types : ~Has(s, t, m.id))
              => First(Append(s, m))
<1> PICK n, r : n = Len(s) /\ r = Append(s, m)
  OBVIOUS
<1>1. /\ n \in Nat /\ Len(r) = n + 1 /\ r[n + 1] = m
      /\ \A i \in 1 .. n : i \in 1 .. n + 1 /\ r[i] = s[i] /\ s[i] \in Letter
      /\ n + 1 \in 1 .. n + 1
      /\ \A i \in 1 .. n + 1 : i \in 1 .. n \/ i = n + 1
  OBVIOUS
<1>2. ASSUME NEW t, NEW j PROVE Has(r, t, j) <=> Has(s, t, j) \/ (t = m.type /\ j = m.id)
  BY <1>1 DEF Has
<1>3. ASSUME First(s), m.type = "offer" => \A t \in Types : ~Has(s, t, m.id) PROVE First(r)
  <2>1. SUFFICES ASSUME NEW i \in 1 .. n + 1, NEW j \in 1 .. n + 1, i < j, r[j].type = "offer"
                 PROVE  r[i].id # r[j].id
    BY <1>1 DEF First
  <2>2. i \in 1 .. n /\ r[i] = s[i] /\ s[i] \in Letter
    BY <1>1, <2>1
  <2>3. CASE j \in 1 .. n
    <3>1. r[j] = s[j]
      BY <1>1, <2>3
    <3>2. QED
      BY <1>3, <2>1, <2>2, <2>3, <3>1 DEF First
  <2>4. CASE j = n + 1
    <3>1. r[j] = m /\ m.type = "offer"
      BY <1>1, <2>1, <2>4
    <3>2. s[i].type \in Types
      BY <2>2 DEF Letter, Types
    <3>3. ~Has(s, s[i].type, m.id)
      BY <1>3, <3>1, <3>2
    <3>4. QED
      BY <2>2, <3>1, <3>3 DEF Has
  <2>5. QED
    BY <1>1, <2>3, <2>4
<1>4. QED
  BY <1>2, <1>3

LEMMA Removed ==
  ASSUME NEW s \in Seq(Letter), s # <<>>
  PROVE  /\ \A t, j : Has(s, t, j) <=> Has(Tail(s), t, j) \/ (t = Head(s).type /\ j = Head(s).id)
         /\ First(s) => First(Tail(s)) /\ ~Has(Tail(s), "offer", Head(s).id)
<1> PICK n, r, m : n = Len(Tail(s)) /\ r = Tail(s) /\ m = Head(s)
  OBVIOUS
<1>1. r \in Seq(Letter) /\ n = Len(s) - 1 /\ m = s[1] /\ Len(s) \in Nat /\ n \in Nat
  BY HeadTailProperties
<1>2. /\ Len(s) = n + 1 /\ Len(r) = n
      /\ \A i \in 1 .. n : i + 1 \in 1 .. n + 1 /\ r[i] = s[i + 1]
      /\ 1 \in 1 .. n + 1
      /\ \A i \in 1 .. n + 1 : i = 1 \/ (i - 1 \in 1 .. n /\ r[i - 1] = s[i])
  BY <1>1
<1>3. ASSUME NEW t, NEW j PROVE Has(s, t, j) <=> Has(r, t, j) \/ (t = m.type /\ j = m.id)
  <2>1. ASSUME Has(s, t, j) PROVE Has(r, t, j) \/ (t = m.type /\ j = m.id)
    <3>1. PICK i \in 1 .. n + 1 : s[i].type = t /\ s[i].id = j
      BY <1>2, <2>1 DEF Has
    <3>2. CASE i = 1
      BY <1>1, <3>1, <3>2
    <3>3. CASE i - 1 \in 1 .. n /\ r[i - 1] = s[i]
      BY <1>2, <3>1, <3>3 DEF Has
    <3>4. QED
      BY <1>2, <3>2, <3>3
  <2>2. ASSUME Has(r, t, j) PROVE Has(s, t, j)
    <3>1. PICK i \in 1 .. n : r[i].type = t /\ r[i].id = j
      BY <1>2, <2>2 DEF Has
    <3>2. QED
      BY <1>2, <3>1 DEF Has
  <2>3. t = m.type /\ j = m.id => Has(s, t, j)
    BY <1>1, <1>2 DEF Has
  <2>4. QED
    BY <2>1, <2>2, <2>3
<1>4. ASSUME First(s) PROVE First(r)
  <2>1. SUFFICES ASSUME NEW i \in 1 .. n, NEW j \in 1 .. n, i < j, r[j].type = "offer"
                 PROVE  r[i].id # r[j].id
    BY <1>2 DEF First
  <2>2. /\ i + 1 \in 1 .. n + 1 /\ j + 1 \in 1 .. n + 1 /\ i + 1 < j + 1
        /\ r[i] = s[i + 1] /\ r[j] = s[j + 1]
    BY <1>2, <2>1
  <2>3. QED
    BY <1>2, <1>4, <2>1, <2>2 DEF First
<1>5. ASSUME First(s), Has(r, "offer", m.id) PROVE FALSE
  <2>1. PICK j \in 1 .. n : r[j].type = "offer" /\ r[j].id = m.id
    BY <1>2, <1>5 DEF Has
  <2>2. j + 1 \in 1 .. n + 1 /\ 1 < j + 1 /\ r[j] = s[j + 1]
    BY <1>2
  <2>3. QED
    BY <1>1, <1>2, <1>5, <2>1, <2>2 DEF First
<1>6. QED
  BY <1>3, <1>4, <1>5

LEMMA Said ==
  ASSUME Typed, NEW d \in Caller, NEW p \in Caller, d # p, {d, p} \in up,
         NEW t \in Types, NEW id \in OfferIds, wire' = Sent(d, p, Message(t, id))
  PROVE  /\ \A x, y \in Caller : \A s, j :
              Says(x, y, s, j)' <=> Says(x, y, s, j) \/ (x = d /\ y = p /\ s = t /\ j = id)
         /\ (\A x, y \in Caller : OfferFirst(x, y)) /\ (t = "offer" => \A s \in Types : ~Says(d, p, s, id))
              => \A x, y \in Caller : OfferFirst(x, y)'
<1> PICK m, q : m = Message(t, id) /\ q = wire[d][p]
  OBVIOUS
<1>1. q \in Seq(Letter) /\ m \in Letter /\ m.type = t /\ m.id = id
  BY MessageTyped DEF Typed, WireTyped, Message, Types
<1>2. wire' = [wire EXCEPT ![d] = [wire[d] EXCEPT ![p] = Append(q, m)]]
  BY DEF Sent
<1>3. wire'[d][p] = Append(q, m) /\ \A x, y \in Caller : x # d \/ y # p => wire'[x][y] = wire[x][y]
  BY <1>2 DEF Typed, WireTyped
<1>4. /\ \A s, j : Has(wire'[d][p], s, j) <=> Has(wire[d][p], s, j) \/ (s = t /\ j = id)
      /\ First(wire[d][p]) /\ (t = "offer" => \A s \in Types : ~Has(wire[d][p], s, id))
           => First(wire'[d][p])
  BY <1>1, <1>3, Appended
<1>5. ASSUME NEW x \in Caller, NEW y \in Caller, NEW s, NEW j
      PROVE  Has(wire'[x][y], s, j) <=> Has(wire[x][y], s, j) \/ (x = d /\ y = p /\ s = t /\ j = id)
  BY <1>3, <1>4
<1>6. ASSUME \A x, y \in Caller : First(wire[x][y]), t = "offer" => \A s \in Types : ~Has(wire[d][p], s, id),
             NEW x \in Caller, NEW y \in Caller
      PROVE  First(wire'[x][y])
  BY <1>3, <1>4, <1>6
<1>7. QED
  BY <1>5, <1>6 DEF Says, OfferFirst

LEMMA Got ==
  ASSUME Typed, NEW d \in Caller, NEW p \in Caller, wire[p][d] # <<>>,
         wire' = [wire EXCEPT ![p][d] = Tail(@)], \A x, y \in Caller : OfferFirst(x, y),
         NEW m, m = Head(wire[p][d])
  PROVE  /\ \A x, y \in Caller : \A s, j :
              Says(x, y, s, j) <=> Says(x, y, s, j)' \/ (x = p /\ y = d /\ s = m.type /\ j = m.id)
         /\ \A x, y \in Caller : OfferFirst(x, y)'
         /\ ~Says(p, d, "offer", m.id)'
         /\ m \in Letter /\ p # d
<1> PICK q : q = wire[p][d]
  OBVIOUS
<1>1. q \in Seq(Letter) /\ q # <<>> /\ m = Head(q)
  BY DEF Typed, WireTyped
<1>2. wire' = [wire EXCEPT ![p] = [wire[p] EXCEPT ![d] = Tail(q)]]
  OBVIOUS
<1>3. wire'[p][d] = Tail(q) /\ \A x, y \in Caller : x # p \/ y # d => wire'[x][y] = wire[x][y]
  BY <1>2 DEF Typed, WireTyped
<1>4. \A x, y \in Caller : First(wire[x][y])
  BY DEF OfferFirst
<1>5. /\ \A s, j : Has(wire[p][d], s, j) <=> Has(wire'[p][d], s, j) \/ (s = m.type /\ j = m.id)
      /\ First(wire'[p][d]) /\ ~Has(wire'[p][d], "offer", m.id)
  <2>1. First(q)
    BY <1>4
  <2>2. QED
    BY <1>1, <1>3, <2>1, Removed
<1>6. ASSUME NEW x \in Caller, NEW y \in Caller, NEW s, NEW j
      PROVE  Has(wire[x][y], s, j) <=> Has(wire'[x][y], s, j) \/ (x = p /\ y = d /\ s = m.type /\ j = m.id)
  BY <1>3, <1>5
<1>7. ASSUME NEW x \in Caller, NEW y \in Caller PROVE First(wire'[x][y])
  BY <1>3, <1>4, <1>5
<1>8. m \in Letter /\ p # d
  <2>1. p # d
    BY <1>1 DEF Typed, WireTyped
  <2>2. QED
    BY <1>1, <2>1, HeadTailProperties
<1>9. QED
  BY <1>5, <1>6, <1>7, <1>8 DEF Says, OfferFirst
-----------------------------------------------------------------------------
(***************************************************************************)
(* Every step that ends with nothing unforeseen keeps the two ends         *)
(* together.  A step changes the state of one device d and says or takes   *)
(* one message of its.                                                     *)
(***************************************************************************)
Alone(d) ==
  /\ presses \in Nat /\ presses' \in Nat /\ presses' >= presses
  /\ \A x \in Caller : x # d => call'[x] = call[x] /\ sid'[x] = sid[x] /\ audio'[x] = audio[x]

LEMMA OtherDevices ==
  ASSUME Typed, Foreseen, NEW d \in Caller, Alone(d), NEW x \in Caller, x # d
  PROVE  /\ StateFits(x)' /\ sid'[x] = sid[x] /\ call'[x] = call[x]
         /\ \A k, i : Is(x, k, i)' <=> Is(x, k, i)
         /\ \A i : Holds(x, i)' <=> Holds(x, i)
         /\ InCall(x)' <=> InCall(x)
<1>1. call'[x] = call[x] /\ sid'[x] = sid[x] /\ audio'[x] = audio[x]
      /\ presses \in Nat /\ presses' \in Nat /\ presses' >= presses
  BY DEF Alone
<1>2. StateFits(x)
  BY DEF Foreseen
<1>3. \A p, i : (Offered(x, p, i) => Offered(x, p, i)') /\ (Offered(p, x, i) => Offered(p, x, i)')
                /\ (Between(x, p, i) => Between(x, p, i)')
  BY <1>1, OfferedStays
<1>4. StateFits(x)'
  BY <1>1, <1>2, <1>3 DEF StateFits
<1>5. QED
  BY <1>1, <1>4 DEF Is, Holds, InCall

\* What two other devices have said and are is what it was.
LEMMA Elsewhere ==
  ASSUME Typed, Foreseen, NEW d \in Caller, Alone(d),
         \A x, y \in Caller : \A s, j : x # d /\ y # d => (Says(x, y, s, j)' <=> Says(x, y, s, j))
  PROVE  /\ \A x \in Caller : x # d /\ (InCall(x) => call[x].peer # d) => EndFits(x)'
         /\ \A x, y \in Caller : \A i \in OfferIds :
              x # d /\ y # d => OfferFits(x, y, i)' /\ AnswerFits(x, y, i)'
<1>1. ASSUME NEW x \in Caller, x # d, InCall(x) => call[x].peer # d PROVE EndFits(x)'
  <2>1. SUFFICES ASSUME InCall(x)'
                 PROVE  (Told(x, call[x].peer, sid[x]) \/ Matched(x, call[x].peer, sid[x]))'
    BY DEF EndFits
  <2> PICK p, i : p = call[x].peer /\ i = sid[x]
    OBVIOUS
  <2>2. InCall(x) /\ call'[x].peer = p /\ sid'[x] = i /\ p # d
    BY <1>1, <2>1, OtherDevices
  <2>3. p \in Caller /\ EndFits(x)
    BY <2>2, Kinds DEF Foreseen
  <2>4. Told(x, p, i) \/ Matched(x, p, i)
    BY <2>2, <2>3 DEF EndFits
  <2>5. Told(x, p, i)' \/ Matched(x, p, i)'
    <3>1. (\A k : Is(x, k, i)' <=> Is(x, k, i)) /\ (\A k : Is(p, k, i)' <=> Is(p, k, i))
      BY <1>1, <2>2, <2>3, OtherDevices
    <3>2. \A s : (Says(x, p, s, i)' <=> Says(x, p, s, i)) /\ (Says(p, x, s, i)' <=> Says(p, x, s, i))
      BY <1>1, <2>2, <2>3
    <3>3. QED
      BY <2>4, <3>1, <3>2 DEF Told, Matched
  <2>6. QED
    BY <2>2, <2>5
<1>2. ASSUME NEW x \in Caller, NEW y \in Caller, NEW i \in OfferIds, x # d, y # d
      PROVE  OfferFits(x, y, i)' /\ AnswerFits(x, y, i)'
  <2>1. OfferFits(x, y, i) /\ AnswerFits(x, y, i)
    BY DEF Foreseen
  <2>2. /\ \A k : Is(x, k, i)' <=> Is(x, k, i)
        /\ Holds(y, i)' <=> Holds(y, i)
        /\ Holds(x, i)' <=> Holds(x, i)
    BY <1>2, OtherDevices
  <2>3. \A s : (Says(x, y, s, i)' <=> Says(x, y, s, i)) /\ (Says(y, x, s, i)' <=> Says(y, x, s, i))
    BY <1>2
  <2>4. /\ Offered(x, y, i) => Offered(x, y, i)'
        /\ Offered(y, x, i) => Offered(y, x, i)'
        /\ Between(x, y, i) => Between(x, y, i)'
    BY OfferedStays DEF Alone
  <2>5. OfferFits(x, y, i)'
    BY <2>1, <2>2, <2>3, <2>4 DEF OfferFits
  <2>6. AnswerFits(x, y, i)'
    BY <2>1, <2>2, <2>3, <2>4 DEF AnswerFits
  <2>7. QED
    BY <2>5, <2>6
<1>3. QED
  BY <1>1, <1>2

\* What was said and what is held was offered by a number up to presses.
LEMMA SaysWhat ==
  ASSUME Typed, NEW x \in Caller, NEW y \in Caller, NEW t, NEW i, Says(x, y, t, i)
  PROVE  t \in Types /\ i \in OfferIds
<1>1. wire[x][y] \in Seq(Letter)
  BY DEF Typed, WireTyped
<1>2. PICK k \in 1 .. Len(wire[x][y]) : wire[x][y][k].type = t /\ wire[x][y][k].id = i
  BY DEF Says, Has
<1>3. wire[x][y][k] \in Letter
  BY <1>1
<1>4. QED
  BY <1>2, <1>3 DEF Letter, Types

Used(i) == \E x, y \in Caller : Offered(x, y, i)

LEMMA SaysBetween ==
  ASSUME Typed, Foreseen, NEW x \in Caller, NEW y \in Caller, NEW t, NEW i, Says(x, y, t, i)
  PROVE  Between(x, y, i) /\ Used(i) /\ t # "closed"
<1>1. t \in Types /\ OfferFits(x, y, i) /\ AnswerFits(x, y, i)
  BY SaysWhat DEF Foreseen
<1>2. Between(x, y, i) /\ t # "closed"
  BY <1>1 DEF OfferFits, AnswerFits, Between, Types
<1>3. QED
  BY <1>2 DEF Between, Used

LEMMA HoldsUsed ==
  ASSUME Typed, Foreseen, NEW x \in Caller, NEW i, Holds(x, i)
  PROVE  Used(i)
  BY HeldBetween DEF Between, Used

\* The next number is one no offer has, once a key is pressed.
LEMMA PressUnused ==
  ASSUME presses \in Nat, presses' = presses + 1,
         \A x \in Caller : \A i : Holds(x, i)' => Used(i),
         \A x, y \in Caller : \A t, i : Says(x, y, t, i)' => Used(i),
         NEW d \in Caller, NEW p \in Caller
  PROVE  Unused(d, p)'
<1> PICK i : i = <<d, p, presses + 1>>
  OBVIOUS
<1>1. ~Used(i)
  <2>1. SUFFICES ASSUME NEW x \in Caller, NEW y \in Caller, NEW n \in 0 .. presses, i = <<x, y, n>>
                 PROVE  FALSE
    BY DEF Used, Offered
  <2>2. n = presses + 1
    BY <2>1
  <2>3. QED
    BY <2>2
<1>2. (\A x \in Caller : ~Holds(x, i)') /\ (\A x, y \in Caller : \A t \in Types : ~Says(x, y, t, i)')
  BY <1>1
<1>3. QED
  BY <1>2 DEF Unused

\* What there is to show of a step.
LEMMA Together ==
  ASSUME AllUp', \A x \in Caller : StateFits(x)', \A x \in Caller : EndFits(x)',
         \A x, y \in Caller : OfferFirst(x, y)', \A x, y \in Caller : Unused(x, y)',
         \A x, y \in Caller : \A i \in OfferIds : OfferFits(x, y, i)' /\ AnswerFits(x, y, i)'
  PROVE  Foreseen'
  BY DEF Foreseen
-----------------------------------------------------------------------------
LEMMA CallForeseen ==
  ASSUME CallAssumption, Typed, Foreseen, Typed', odd' = {}, NEW d \in Caller, NEW p \in Caller, CallStargazer(d, p)
  PROVE  Foreseen'
<1> PICK id : id = <<d, p, presses>>
  OBVIOUS
<1>1. /\ p \in toCall[d] /\ d # p /\ p \in channels[d] /\ {d, p} \in up
      /\ UNCHANGED <<channels, up, presses>> /\ presses \in Nat /\ id \in OfferIds
      /\ toCall' = [toCall EXCEPT ![d] = @ \ {p}]
  BY DEF CallStargazer, netVars, Typed, RestTyped, Foreseen, AllUp, OfferIds, CallAssumption
<1>2. /\ StartSession(d, p) /\ wire' = Sent(d, p, Message("offer", id))
      /\ SetCall(d, Calling(p), id) /\ Note("engaged", InCall(d))
  BY <1>1 DEF CallStargazer
<1>3. ~InCall(d) /\ \A i : ~Holds(d, i) /\ \A k \in {"Calling", "Ringing", "Active"} : ~Is(d, k, i)
  <2>1. ~InCall(d)
    BY <1>2, NoteTyped DEF Incidents
  <2>2. QED
    BY <2>1 DEF InCall, Holds, Is
<1>4. /\ call'[d] = Calling(p) /\ sid'[d] = id /\ audio'[d] = p /\ Alone(d)
  <2>1. Calling(p) \in StateOf(d)
    BY <1>1 DEF StateOf
  <2>2. QED
    BY <1>1, <1>2, <2>1, SetCallTyped, StartSessionTyped DEF Alone
<1>5. /\ \A x \in Caller : ~Holds(x, id)
      /\ \A x, y \in Caller : \A t : ~Says(x, y, t, id)
  <2>1. Unused(d, p)
    BY DEF Foreseen
  <2>2. QED
    BY <1>1, <2>1, SaysWhat DEF Unused
<1>6. /\ \A x, y \in Caller : \A s, j :
           Says(x, y, s, j)' <=> Says(x, y, s, j) \/ (x = d /\ y = p /\ s = "offer" /\ j = id)
      /\ \A x, y \in Caller : OfferFirst(x, y)'
  BY <1>1, <1>2, <1>5, Said DEF Types, Foreseen
<1>7. /\ \A i, k : Is(d, k, i)' <=> k = "Calling" /\ i = id
      /\ \A i : Holds(d, i)' <=> i = id
      /\ InCall(d)' /\ call'[d].peer = p
      /\ Offered(d, p, id)'
  BY <1>1, <1>4 DEF Is, Holds, InCall, Calling, Offered
<1>8. \A x \in Caller : StateFits(x)'
  <2>1. StateFits(d)'
    BY <1>4, <1>7 DEF StateFits, Calling
  <2>2. QED
    BY <1>4, <2>1, OtherDevices
<1>9. \A x \in Caller : EndFits(x)'
  <2>1. EndFits(d)'
    BY <1>4, <1>6, <1>7 DEF EndFits, Matched
  <2>2. ASSUME NEW x \in Caller, x # d, InCall(x), call[x].peer = d PROVE EndFits(x)'
    <3> PICK i : i = sid[x]
      OBVIOUS
    <3>1. EndFits(x) /\ call'[x].peer = d /\ sid'[x] = i
      BY <1>4, <2>2, OtherDevices DEF Foreseen
    <3>2. Told(x, d, i) \/ (Is(x, "Calling", i) /\ Says(x, d, "offer", i))
      BY <1>3, <2>2, <3>1 DEF EndFits, Matched
    <3>3. Told(x, d, i)' \/ (Is(x, "Calling", i)' /\ Says(x, d, "offer", i)')
      BY <1>4, <1>6, <2>2, <3>2, OtherDevices DEF Told
    <3>4. QED
      BY <3>1, <3>3 DEF EndFits, Matched
  <2>3. QED
    BY <1>4, <1>6, <2>1, <2>2, Elsewhere
<1>10. ASSUME NEW x \in Caller, NEW y \in Caller, NEW i \in OfferIds
       PROVE  OfferFits(x, y, i)' /\ AnswerFits(x, y, i)'
  <2>1. OfferFits(x, y, i) /\ AnswerFits(x, y, i)
    BY DEF Foreseen
  <2>2. /\ Offered(x, y, i) => Offered(x, y, i)'
        /\ Offered(y, x, i) => Offered(y, x, i)'
        /\ Between(x, y, i) => Between(x, y, i)'
    BY <1>4, OfferedStays DEF Alone
  <2>3. CASE i = id
    <3>1. \A s : Says(x, y, s, i)' => x = d /\ y = p /\ s = "offer"
      BY <1>5, <1>6, <2>3
    <3>2. /\ ~Holds(p, i)' /\ \A s : ~Says(p, d, s, i)'
          /\ Is(d, "Calling", i)' /\ Offered(d, p, i)'
      BY <1>1, <1>4, <1>5, <1>6, <1>7, <2>3, OtherDevices
    <3>3. QED
      BY <3>1, <3>2 DEF OfferFits, AnswerFits
  <2>4. CASE i # id
    <3>1. \A u, v \in Caller : \A s : Says(u, v, s, i)' <=> Says(u, v, s, i)
      BY <1>6, <2>4
    <3>2. \A u \in Caller : /\ Holds(u, i)' => Holds(u, i)
                            /\ \A k \in {"Calling", "Ringing", "Active"} : Is(u, k, i)' <=> Is(u, k, i)
      BY <1>3, <1>4, <1>7, <2>4, OtherDevices
    <3>3. OfferFits(x, y, i)'
      BY <2>1, <2>2, <3>1, <3>2 DEF OfferFits
    <3>4. AnswerFits(x, y, i)'
      BY <2>1, <2>2, <3>1, <3>2 DEF AnswerFits
    <3>5. QED
      BY <3>3, <3>4
  <2>5. QED
    BY <2>3, <2>4
<1>11. \A x, y \in Caller : Unused(x, y)'
  <2> SUFFICES ASSUME NEW x \in Caller, NEW y \in Caller PROVE Unused(x, y)'
    OBVIOUS
  <2>1. CASE y \notin toCall'[x]
    BY <2>1 DEF Unused
  <2>2. CASE y \in toCall'[x]
    <3>1. ~(x = d /\ y = p) /\ y \in toCall[x] /\ presses' = presses
      BY <1>1, <2>2 DEF Typed, RestTyped
    <3> PICK i : i = <<x, y, presses>>
      OBVIOUS
    <3>2. i # id
      BY <3>1
    <3>3. (\A u \in Caller : ~Holds(u, i)) /\ \A u, v \in Caller : \A t \in Types : ~Says(u, v, t, i)
      BY <3>1 DEF Foreseen, Unused
    <3>4. (\A u \in Caller : ~Holds(u, i)') /\ \A u, v \in Caller : \A t \in Types : ~Says(u, v, t, i)'
      BY <1>4, <1>6, <1>7, <3>2, <3>3, OtherDevices
    <3>5. QED
      BY <3>1, <3>4 DEF Unused
  <2>3. QED
    BY <2>1, <2>2
<1>12. AllUp'
  BY <1>1 DEF Foreseen, AllUp
<1>13. QED
  BY <1>6, <1>8, <1>9, <1>10, <1>11, <1>12, Together
-----------------------------------------------------------------------------
LEMMA AcceptForeseen ==
  ASSUME CallAssumption, Typed, Foreseen, Typed', NEW d \in Caller, AcceptCall(d)
  PROVE  Foreseen'
<1> PICK p, id : p = call[d].peer /\ id = sid[d]
  OBVIOUS
<1>1. /\ Press /\ call[d].kind = "Ringing" /\ p \in Caller /\ d # p /\ InCall(d) /\ Holds(d, id)
      /\ id \in OfferIds /\ Is(d, "Ringing", id)
  BY StateCases DEF AcceptCall, Holds, Is, Typed, CallTyped
<1>2. /\ p \in channels[d] /\ {d, p} \in up /\ UNCHANGED <<channels, up>>
  BY <1>1 DEF AcceptCall, Foreseen, AllUp, netVars
<1>3. /\ StartSession(d, p) /\ wire' = Sent(d, p, Message("accept", id))
      /\ SetCall(d, Active(p), id)
  BY <1>2 DEF AcceptCall
<1>4. call'[d] = Active(p) /\ sid'[d] = id /\ audio'[d] = p /\ Alone(d) /\ presses' = presses + 1
  <2>1. Active(p) \in StateOf(d)
    BY <1>1 DEF StateOf
  <2>2. presses' = presses + 1 /\ presses \in Nat /\ presses' \in Nat /\ presses' >= presses
    BY <1>1, PressTyped
  <2>3. QED
    BY <1>1, <1>3, <2>1, <2>2, SetCallTyped, StartSessionTyped DEF Alone
<1>5. Offered(p, d, id) /\ Between(d, p, id) /\ Between(p, d, id)
  BY <1>1 DEF Foreseen, StateFits, Between
<1>6. /\ \A x, y \in Caller : \A s, j :
           Says(x, y, s, j)' <=> Says(x, y, s, j) \/ (x = d /\ y = p /\ s = "accept" /\ j = id)
      /\ \A x, y \in Caller : OfferFirst(x, y)'
  BY <1>1, <1>2, <1>3, Said DEF Types, Foreseen
<1>7. /\ \A i, k : Is(d, k, i)' <=> k = "Active" /\ i = id
      /\ \A i, k : Is(d, k, i) <=> k = "Ringing" /\ i = id
      /\ \A i : Holds(d, i)' <=> i = id
      /\ \A i : Holds(d, i) <=> i = id
      /\ InCall(d)' /\ call'[d].peer = p
  BY <1>1, <1>4 DEF Is, Holds, InCall, Active
<1>8. \A x \in Caller : StateFits(x)'
  <2>1. Between(d, p, id)'
    BY <1>4, <1>5, OfferedStays DEF Alone
  <2>2. StateFits(d)'
    BY <1>4, <2>1 DEF StateFits, Active
  <2>3. QED
    BY <1>4, <2>2, OtherDevices
<1>9. \A x \in Caller : EndFits(x)'
  <2>1. EndFits(d)'
    <3>1. Told(d, p, id) \/ Is(p, "Calling", id)
      BY <1>1, <1>7 DEF Foreseen, EndFits, Matched
    <3>2. Told(d, p, id)' \/ Is(p, "Calling", id)'
      BY <1>1, <1>4, <1>6, <3>1, OtherDevices DEF Told
    <3>3. Says(d, p, "accept", id)' /\ Is(d, "Active", id)'
      BY <1>1, <1>6, <1>7
    <3>4. QED
      BY <1>4, <1>7, <3>2, <3>3 DEF EndFits, Matched
  <2>2. ASSUME NEW x \in Caller, x # d, InCall(x), call[x].peer = d PROVE EndFits(x)'
    <3> PICK i : i = sid[x]
      OBVIOUS
    <3>1. EndFits(x) /\ call'[x].peer = d /\ sid'[x] = i /\ Holds(x, i)
      BY <1>4, <2>2, OtherDevices DEF Foreseen, Holds
    <3>2. \/ Told(x, d, i)
          \/ Is(x, "Calling", i) /\ (Says(x, d, "offer", i) \/ i = id)
      BY <1>7, <2>2, <3>1 DEF EndFits, Matched
    <3>3. CASE Told(x, d, i) \/ (Is(x, "Calling", i) /\ Says(x, d, "offer", i))
      <4>1. Told(x, d, i)' \/ (Is(x, "Calling", i)' /\ Says(x, d, "offer", i)')
        BY <1>4, <1>6, <2>2, <3>3, OtherDevices DEF Told
      <4>2. QED
        BY <3>1, <4>1 DEF EndFits, Matched
    <3>4. CASE Is(x, "Calling", i) /\ i = id
      <4>1. x = p
        BY <1>1, <2>2, <3>1, <3>4, SamePair
      <4>2. Is(x, "Calling", i)' /\ Is(d, "Active", i)' /\ Says(d, x, "accept", i)'
        BY <1>1, <1>4, <1>6, <1>7, <2>2, <3>4, <4>1, OtherDevices
      <4>3. QED
        BY <3>1, <4>2 DEF EndFits, Matched
    <3>5. QED
      BY <3>2, <3>3, <3>4
  <2>3. QED
    BY <1>4, <1>6, <2>1, <2>2, Elsewhere
<1>10. ASSUME NEW x \in Caller, NEW y \in Caller, NEW i \in OfferIds
       PROVE  OfferFits(x, y, i)' /\ AnswerFits(x, y, i)'
  <2>1. OfferFits(x, y, i) /\ AnswerFits(x, y, i)
    BY DEF Foreseen
  <2>2. /\ Offered(x, y, i) => Offered(x, y, i)'
        /\ Offered(y, x, i) => Offered(y, x, i)'
        /\ Between(x, y, i) => Between(x, y, i)'
    BY <1>4, OfferedStays DEF Alone
  <2>3. /\ \A u \in Caller : Holds(u, i)' <=> Holds(u, i)
        /\ \A u \in Caller : Is(u, "Calling", i)' <=> Is(u, "Calling", i)
        /\ \A u \in Caller : Is(u, "Ringing", i)' => Is(u, "Ringing", i)
    BY <1>4, <1>7, OtherDevices
  <2>4. OfferFits(x, y, i)'
    <3>1. SUFFICES ASSUME Says(x, y, "offer", i)
                   PROVE  OfferFits(x, y, i)'
      BY <1>6 DEF OfferFits
    <3>2. ~(y = d /\ i = id)
      BY <1>7, <2>1, <3>1 DEF OfferFits
    <3>3. \A s \in Types : ~Says(y, x, s, i)'
      BY <1>6, <2>1, <3>1, <3>2 DEF OfferFits
    <3>4. QED
      BY <1>6, <2>1, <2>2, <2>3, <3>1, <3>3 DEF OfferFits
  <2>5. AnswerFits(x, y, i)'
    <3>1. CASE x = d /\ y = p /\ i = id
      <4>1. Offered(y, x, i)' /\ ~Is(x, "Ringing", i)'
        BY <1>5, <1>7, <2>2, <3>1
      <4>2. QED
        BY <1>6, <2>1, <2>2, <2>3, <4>1 DEF AnswerFits
    <3>2. CASE ~(x = d /\ y = p /\ i = id)
      BY <1>6, <2>1, <2>2, <2>3, <3>2 DEF AnswerFits
    <3>3. QED
      BY <3>1, <3>2
  <2>6. QED
    BY <2>4, <2>5
<1>11. \A x, y \in Caller : Unused(x, y)'
  <2>1. \A x \in Caller : \A i : Holds(x, i)' => Used(i)
    BY <1>4, <1>7, HoldsUsed, OtherDevices
  <2>2. \A x, y \in Caller : \A t, i : Says(x, y, t, i)' => Used(i)
    BY <1>5, <1>6, SaysBetween, <1>1 DEF Used
  <2>3. QED
    BY <1>4, <2>1, <2>2, PressUnused DEF Alone
<1>12. AllUp'
  BY <1>2 DEF Foreseen, AllUp
<1>13. QED
  BY <1>6, <1>8, <1>9, <1>10, <1>11, <1>12, Together

\* HangUp, and RejectCall of a call that rings.
LEMMA EndForeseen ==
  ASSUME CallAssumption, Typed, Foreseen, Typed', NEW d \in Caller, NEW type \in {"reject", "hangup"},
         Press, InCall(d), type = "reject" => call[d].kind = "Ringing",
         wire' = Sent(d, call[d].peer, Message(type, sid[d])),
         SetCall(d, Idle, NoOffer), EndSession(d) \/ (UNCHANGED soundVars /\ call[d].kind = "Ringing"),
         UNCHANGED <<channels, up>>
  PROVE  Foreseen'
<1> PICK p, id : p = call[d].peer /\ id = sid[d]
  OBVIOUS
<1>1. p \in Caller /\ d # p /\ Holds(d, id) /\ id \in OfferIds /\ wire' = Sent(d, p, Message(type, id))
      /\ {d, p} \in up
  BY StateCases DEF Holds, Typed, CallTyped, Foreseen, AllUp
<1>2. call'[d] = Idle /\ sid'[d] = NoOffer /\ audio'[d] = Nobody /\ Alone(d) /\ presses' = presses + 1
  <2>1. Idle \in StateOf(d) /\ NoOffer \in OfferIds
    BY DEF StateOf, OfferIds
  <2>2. presses' = presses + 1 /\ presses \in Nat /\ presses' \in Nat /\ presses' >= presses
    BY PressTyped
  <2>3. audio'[d] = Nobody /\ \A x \in Caller : x # d => audio'[x] = audio[x]
    <3>1. CASE EndSession(d)
      BY <3>1, EndSessionTyped
    <3>2. CASE UNCHANGED soundVars /\ call[d].kind = "Ringing"
      BY <3>2 DEF soundVars, Foreseen, StateFits
    <3>3. QED
      BY <3>1, <3>2
  <2>4. QED
    BY <2>1, <2>2, <2>3, SetCallTyped DEF Alone
<1>3. Between(d, p, id) /\ Between(p, d, id) /\ (type = "reject" => Offered(p, d, id))
  BY <1>1, HeldBetween DEF Foreseen, StateFits, Between
<1>4. /\ \A x, y \in Caller : \A s, j :
           Says(x, y, s, j)' <=> Says(x, y, s, j) \/ (x = d /\ y = p /\ s = type /\ j = id)
      /\ \A x, y \in Caller : OfferFirst(x, y)'
  BY <1>1, Said DEF Types, Foreseen
<1>5. /\ \A i : \A k \in {"Calling", "Ringing", "Active"} : ~Is(d, k, i)'
      /\ \A i : ~Holds(d, i)'
      /\ \A i : Holds(d, i) <=> i = id
      /\ \A i : \A k \in {"Calling", "Ringing", "Active"} : Is(d, k, i) => i = id
      /\ ~InCall(d)'
  BY <1>1, <1>2 DEF Is, Holds, InCall, Idle
<1>6. \A x \in Caller : StateFits(x)'
  <2>1. StateFits(d)'
    BY <1>2 DEF StateFits, Idle
  <2>2. QED
    BY <1>2, <2>1, OtherDevices
<1>7. \A x \in Caller : EndFits(x)'
  <2>1. EndFits(d)'
    BY <1>5 DEF EndFits
  <2>2. ASSUME NEW x \in Caller, x # d, InCall(x), call[x].peer = d PROVE EndFits(x)'
    <3> PICK i : i = sid[x]
      OBVIOUS
    <3>1. EndFits(x) /\ call'[x].peer = d /\ sid'[x] = i /\ Holds(x, i)
      BY <1>2, <2>2, OtherDevices DEF Foreseen, Holds
    <3>2. \/ Told(x, d, i) \/ (Is(x, "Calling", i) /\ Says(x, d, "offer", i))
          \/ i = id
      BY <1>5, <2>2, <3>1 DEF EndFits, Matched
    <3>3. Told(x, d, i)' \/ (Is(x, "Calling", i)' /\ Says(x, d, "offer", i)')
      <4>1. CASE i = id
        <5>1. x = p
          BY <1>1, <2>2, <3>1, <4>1, SamePair
        <5>2. QED
          BY <1>1, <1>4, <4>1, <5>1 DEF Told
      <4>2. CASE i # id
        BY <1>2, <1>4, <2>2, <3>2, <4>2, OtherDevices DEF Told
      <4>3. QED
        BY <4>1, <4>2
    <3>4. QED
      BY <3>1, <3>3 DEF EndFits, Matched
  <2>3. QED
    BY <1>2, <1>4, <2>1, <2>2, Elsewhere
<1>8. ASSUME NEW x \in Caller, NEW y \in Caller, NEW i \in OfferIds
      PROVE  OfferFits(x, y, i)' /\ AnswerFits(x, y, i)'
  <2>1. OfferFits(x, y, i) /\ AnswerFits(x, y, i)
    BY DEF Foreseen
  <2>2. /\ Offered(x, y, i) => Offered(x, y, i)'
        /\ Offered(y, x, i) => Offered(y, x, i)'
        /\ Between(x, y, i) => Between(x, y, i)'
    BY <1>2, OfferedStays DEF Alone
  <2>3. /\ \A u \in Caller : Holds(u, i)' => Holds(u, i)
        /\ \A u \in Caller : u # d \/ i # id => (Is(u, "Calling", i) => Is(u, "Calling", i)')
        /\ \A u \in Caller : Is(u, "Ringing", i)' => Is(u, "Ringing", i)
    BY <1>2, <1>5, OtherDevices
  <2>4. OfferFits(x, y, i)'
    <3>1. SUFFICES ASSUME Says(x, y, "offer", i)
                   PROVE  OfferFits(x, y, i)'
      BY <1>4 DEF OfferFits
    <3>2. ~(y = d /\ i = id) /\ Offered(x, y, i)
      BY <1>5, <2>1, <3>1 DEF OfferFits
    <3>3. \A s \in Types : ~Says(y, x, s, i)'
      BY <1>4, <2>1, <3>1, <3>2 DEF OfferFits
    <3>4. Is(x, "Calling", i)' \/ Says(x, y, "hangup", i)'
      <4>1. CASE x = d /\ i = id /\ Is(x, "Calling", i)
        <5>1. type = "hangup"
          BY <4>1 DEF Is
        <5>2. y = p
          BY <1>3, <3>2, <4>1, OfferedOnce, <1>1 DEF Between
        <5>3. QED
          BY <1>1, <1>4, <4>1, <5>1, <5>2
      <4>2. CASE ~(x = d /\ i = id /\ Is(x, "Calling", i))
        BY <1>4, <2>1, <2>3, <3>1, <4>2 DEF OfferFits
      <4>3. QED
        BY <4>1, <4>2
    <3>5. QED
      BY <2>1, <2>2, <2>3, <3>1, <3>3, <3>4 DEF OfferFits
  <2>5. AnswerFits(x, y, i)'
    <3>1. CASE x = d /\ y = p /\ i = id
      <4>1. ~Holds(x, i)' /\ ~Is(x, "Ringing", i)' /\ Between(x, y, i)'
            /\ (type = "reject" => Offered(y, x, i)')
        BY <1>3, <1>5, <2>2, <3>1
      <4>2. QED
        BY <1>4, <2>1, <2>2, <4>1 DEF AnswerFits
    <3>2. CASE ~(x = d /\ y = p /\ i = id)
      BY <1>4, <2>1, <2>2, <2>3, <3>2 DEF AnswerFits
    <3>3. QED
      BY <3>1, <3>2
  <2>6. QED
    BY <2>4, <2>5
<1>9. \A x, y \in Caller : Unused(x, y)'
  <2>1. \A x \in Caller : \A i : Holds(x, i)' => Used(i)
    BY <1>2, <1>5, HoldsUsed, OtherDevices
  <2>2. \A x, y \in Caller : \A t, i : Says(x, y, t, i)' => Used(i)
    BY <1>1, <1>4, HoldsUsed, SaysBetween
  <2>3. QED
    BY <1>2, <2>1, <2>2, PressUnused DEF Alone
<1>10. AllUp'
  BY DEF Foreseen, AllUp
<1>11. QED
  BY <1>4, <1>6, <1>7, <1>8, <1>9, <1>10, Together
-----------------------------------------------------------------------------
\* What taking the first message from p, of id, leaves: everything else that
\* was said, and nothing of that message if it is an offer.
Took(d, p, type, id) ==
  /\ d \in Caller /\ p \in Caller /\ p # d /\ id \in OfferIds /\ Says(p, d, type, id)
  /\ \A x, y \in Caller : \A s, j :
       Says(x, y, s, j) <=> Says(x, y, s, j)' \/ (x = p /\ y = d /\ s = type /\ j = id)
  /\ \A x, y \in Caller : OfferFirst(x, y)'
  /\ ~Says(p, d, "offer", id)'

LEMMA OfferForeseen ==
  ASSUME CallAssumption, Typed, Foreseen, Typed', odd' = {}, NEW d, NEW p, NEW id, Took(d, p, "offer", id),
         CallOffer(d, p, id), UNCHANGED <<channels, up, toCall, presses>>
  PROVE  Foreseen'
<1>1. /\ d \in Caller /\ p \in Caller /\ p # d /\ id \in OfferIds /\ Says(p, d, "offer", id)
      /\ \A x, y \in Caller : \A s, j :
           Says(x, y, s, j) <=> Says(x, y, s, j)' \/ (x = p /\ y = d /\ s = "offer" /\ j = id)
      /\ \A x, y \in Caller : OfferFirst(x, y)'
      /\ ~Says(p, d, "offer", id)'
  BY DEF Took
<1>2. /\ SetCall(d, Ringing(p), id) /\ Note("engaged", InCall(d)) /\ audio' = audio
      /\ UNCHANGED <<channels, up, toCall, presses>>
  BY DEF CallOffer, soundVars
<1>3. ~InCall(d) /\ (\A i : ~Holds(d, i)) /\ \A k \in {"Calling", "Ringing", "Active"} : \A i : ~Is(d, k, i)
  <2>1. ~InCall(d)
    BY <1>2, NoteTyped DEF Incidents
  <2>2. QED
    BY <2>1 DEF InCall, Holds, Is
<1>4. call'[d] = Ringing(p) /\ sid'[d] = id /\ audio'[d] = Nobody /\ Alone(d)
  <2>1. Ringing(p) \in StateOf(d)
    BY <1>1 DEF StateOf
  <2>2. audio[d] = Nobody
    BY <1>1, <1>3 DEF Foreseen, StateFits, InCall
  <2>3. QED
    BY <1>1, <1>2, <2>1, <2>2, SetCallTyped DEF Alone, Typed, RestTyped, CallAssumption
<1>5. OfferFits(p, d, id)
  BY <1>1 DEF Foreseen
<1>6. /\ Offered(p, d, id) /\ Between(p, d, id) /\ \A s \in Types : ~Says(d, p, s, id)
      /\ Is(p, "Calling", id) \/ Says(p, d, "hangup", id)
  BY <1>1, <1>5 DEF OfferFits, Between
<1>7. /\ \A i, k : Is(d, k, i)' <=> k = "Ringing" /\ i = id
      /\ \A i : Holds(d, i)' <=> i = id
      /\ InCall(d)' /\ call'[d].peer = p
      /\ Offered(p, d, id)'
  BY <1>1, <1>4, <1>6, OfferedStays DEF Is, Holds, InCall, Ringing, Alone
<1>8. \A x \in Caller : StateFits(x)'
  <2>1. StateFits(d)'
    BY <1>4, <1>7 DEF StateFits, Ringing
  <2>2. QED
    BY <1>1, <1>4, <2>1, OtherDevices
<1>9. \A x \in Caller : EndFits(x)'
  <2>1. EndFits(d)'
    BY <1>1, <1>4, <1>6, <1>7, OtherDevices DEF EndFits, Matched, Told
  <2>2. ASSUME NEW x \in Caller, x # d, InCall(x), call[x].peer = d PROVE EndFits(x)'
    <3> PICK i : i = sid[x]
      OBVIOUS
    <3>1. EndFits(x) /\ call'[x].peer = d /\ sid'[x] = i
      BY <1>1, <1>4, <2>2, OtherDevices DEF Foreseen
    <3>2. Told(x, d, i) \/ (Is(x, "Calling", i) /\ Says(x, d, "offer", i))
      BY <1>3, <2>2, <3>1 DEF EndFits, Matched
    <3>4. CASE Told(x, d, i)
      <4>1. Told(x, d, i)'
        BY <1>1, <3>4 DEF Told
      <4>2. QED
        BY <3>1, <4>1 DEF EndFits
    <3>5. CASE Is(x, "Calling", i) /\ Says(x, d, "offer", i) /\ x = p /\ i = id
      <4>1. Is(x, "Calling", i)' /\ Is(d, "Ringing", i)'
        BY <1>1, <1>4, <1>7, <2>2, <3>5, OtherDevices
      <4>2. QED
        BY <3>1, <4>1 DEF EndFits, Matched
    <3>6. CASE Is(x, "Calling", i) /\ Says(x, d, "offer", i) /\ ~(x = p /\ i = id)
      <4>1. Is(x, "Calling", i)' /\ Says(x, d, "offer", i)'
        BY <1>1, <1>4, <2>2, <3>6, OtherDevices
      <4>2. QED
        BY <3>1, <4>1 DEF EndFits, Matched
    <3>7. QED
      BY <3>2, <3>4, <3>5, <3>6
  <2>3. QED
    BY <1>1, <1>4, <2>1, <2>2, Elsewhere
<1>10. ASSUME NEW x \in Caller, NEW y \in Caller, NEW i \in OfferIds
       PROVE  OfferFits(x, y, i)' /\ AnswerFits(x, y, i)'
  <2>1. OfferFits(x, y, i) /\ AnswerFits(x, y, i)
    BY DEF Foreseen
  <2>2. /\ Offered(x, y, i) => Offered(x, y, i)'
        /\ Offered(y, x, i) => Offered(y, x, i)'
        /\ Between(x, y, i) => Between(x, y, i)'
    BY <1>4, OfferedStays DEF Alone
  <2>3. /\ \A u \in Caller : ~(u = d /\ i = id) => (Holds(u, i)' => Holds(u, i))
        /\ \A u \in Caller : Is(u, "Calling", i) => Is(u, "Calling", i)'
        /\ \A u \in Caller : ~(u = d /\ i = id) => (Is(u, "Ringing", i)' => Is(u, "Ringing", i))
    BY <1>1, <1>3, <1>4, <1>7, OtherDevices
  <2>4. /\ \A u, v \in Caller : \A s : Says(u, v, s, i)' => Says(u, v, s, i)
        /\ Says(x, y, "hangup", i) => Says(x, y, "hangup", i)'
    BY <1>1
  <2>5. OfferFits(x, y, i)'
    <3>1. CASE y = d /\ i = id /\ Says(x, y, "offer", i)'
      <4>1. x = p
        BY <1>6, <2>1, <2>4, <3>1, OfferedOnce DEF OfferFits
      <4>2. QED
        BY <1>1, <3>1, <4>1
    <3>2. CASE ~(y = d /\ i = id)
      BY <2>1, <2>2, <2>3, <2>4, <3>2 DEF OfferFits
    <3>3. QED
      BY <3>1, <3>2 DEF OfferFits
  <2>6. AnswerFits(x, y, i)'
    <3>1. CASE x = d /\ i = id
      <4>1. \A s : ~Says(x, y, s, i)
        <5>1. SUFFICES ASSUME NEW s, Says(x, y, s, i) PROVE FALSE
          OBVIOUS
        <5>2. Between(x, y, i) /\ s \in Types
          BY <5>1, SaysBetween, SaysWhat
        <5>3. y = p
          BY <1>1, <1>6, <3>1, <5>2, OfferedOnce DEF Between
        <5>4. QED
          BY <1>6, <3>1, <5>1, <5>2, <5>3
      <4>2. QED
        BY <2>4, <4>1 DEF AnswerFits
    <3>2. CASE ~(x = d /\ i = id)
      BY <2>1, <2>2, <2>3, <2>4, <3>2 DEF AnswerFits
    <3>3. QED
      BY <3>1, <3>2
  <2>7. QED
    BY <2>5, <2>6
<1>11. \A x, y \in Caller : Unused(x, y)'
  <2> SUFFICES ASSUME NEW x \in Caller, NEW y \in Caller, y \in toCall[x] PROVE Unused(x, y)'
    BY <1>2 DEF Unused
  <2> PICK i : i = <<x, y, presses>>
    OBVIOUS
  <2>1. (\A u \in Caller : ~Holds(u, i)) /\ \A u, v \in Caller : \A t \in Types : ~Says(u, v, t, i)
    BY DEF Foreseen, Unused
  <2>2. i # id
    BY <1>1, <2>1 DEF Types
  <2>3. (\A u \in Caller : ~Holds(u, i)') /\ \A u, v \in Caller : \A t \in Types : ~Says(u, v, t, i)'
    BY <1>1, <1>4, <1>7, <2>1, <2>2, OtherDevices
  <2>4. QED
    BY <1>2, <2>3 DEF Unused
<1>12. AllUp'
  BY <1>2 DEF Foreseen, AllUp
<1>13. QED
  BY <1>1, <1>8, <1>9, <1>10, <1>11, <1>12, Together
-----------------------------------------------------------------------------
LEMMA AcceptedForeseen ==
  ASSUME CallAssumption, Typed, Foreseen, Typed', odd' = {}, NEW d, NEW p, NEW id, Took(d, p, "accept", id),
         CallAccepted(d, p, id), UNCHANGED <<channels, up, toCall, presses>>
  PROVE  Foreseen'
<1>1. /\ d \in Caller /\ p \in Caller /\ p # d /\ id \in OfferIds /\ Says(p, d, "accept", id)
      /\ \A x, y \in Caller : \A s, j :
           Says(x, y, s, j) <=> Says(x, y, s, j)' \/ (x = p /\ y = d /\ s = "accept" /\ j = id)
      /\ \A x, y \in Caller : OfferFirst(x, y)'
  BY DEF Took
<1>2. /\ SetCall(d, Active(p), id) /\ Note("late", id # sid[d]) /\ audio' = audio
      /\ UNCHANGED <<channels, up, toCall, presses>>
  BY DEF CallAccepted, soundVars
<1>3. AnswerFits(p, d, id) /\ sid[d] = id
  BY <1>1, <1>2, NoteTyped DEF Foreseen, Incidents
<1>4. Offered(d, p, id) /\ ~Is(p, "Ringing", id) /\ Between(d, p, id) /\ ~Offered(p, d, id)
  BY <1>1, <1>3, OfferedOnce DEF AnswerFits, Between
<1>5. Holds(d, id) /\ InCall(d) /\ call[d].peer = p /\ call[d].kind \in {"Calling", "Active"}
  <2>1. id # NoOffer /\ StateFits(d)
    BY <1>1, <1>4, OfferedOnce DEF Foreseen
  <2>2. InCall(d) /\ Holds(d, id)
    BY <1>3, <2>1 DEF StateFits, InCall, Holds
  <2>3. call[d].peer = p
    BY <1>1, <1>4, <2>2, PeerIs
  <2>4. call[d].kind # "Ringing"
    BY <1>3, <1>4, <2>1, <2>3 DEF StateFits
  <2>5. QED
    BY <1>1, <2>2, <2>3, <2>4, Kinds
<1>6. call'[d] = Active(p) /\ sid'[d] = id /\ audio'[d] = p /\ Alone(d)
  <2>1. Active(p) \in StateOf(d)
    BY <1>1 DEF StateOf
  <2>2. audio[d] = p
    BY <1>1, <1>5 DEF Foreseen, StateFits
  <2>3. QED
    BY <1>1, <1>2, <2>1, <2>2, SetCallTyped DEF Alone, Typed, RestTyped, CallAssumption
<1>7. /\ \A i, k : Is(d, k, i)' <=> k = "Active" /\ i = id
      /\ \A i, k : Is(d, k, i) => k \in {"Calling", "Active"} /\ i = id
      /\ \A i : Holds(d, i)' <=> i = id
      /\ \A i : Holds(d, i) <=> i = id
      /\ InCall(d)' /\ call'[d].peer = p /\ Between(d, p, id)'
  BY <1>3, <1>4, <1>5, <1>6, OfferedStays DEF Is, Holds, InCall, Active, Alone
<1>8. \A x \in Caller : StateFits(x)'
  <2>1. StateFits(d)'
    BY <1>6, <1>7 DEF StateFits, Active
  <2>2. QED
    BY <1>1, <1>6, <2>1, OtherDevices
<1>9. ~Says(d, p, "offer", id) /\ ~Says(d, p, "accept", id)
  <2>1. OfferFits(d, p, id) /\ AnswerFits(d, p, id)
    BY <1>1 DEF Foreseen
  <2>2. QED
    BY <1>1, <1>4, <2>1 DEF OfferFits, AnswerFits, Types
<1>10. Told(d, p, id) \/ Is(p, "Active", id)
  BY <1>1, <1>3, <1>4, <1>5, <1>7, <1>9 DEF Foreseen, EndFits, Matched
<1>11. \A x \in Caller : EndFits(x)'
  <2>1. EndFits(d)'
    <3>1. Told(d, p, id)' \/ Is(p, "Active", id)'
      BY <1>1, <1>6, <1>10, OtherDevices DEF Told
    <3>2. QED
      BY <1>6, <1>7, <3>1 DEF EndFits, Matched, Told
  <2>2. ASSUME NEW x \in Caller, x # d, InCall(x), call[x].peer = d PROVE EndFits(x)'
    <3> PICK i : i = sid[x]
      OBVIOUS
    <3>1. EndFits(x) /\ call'[x].peer = d /\ sid'[x] = i /\ Holds(x, i)
      BY <1>1, <1>6, <2>2, OtherDevices DEF Foreseen, Holds
    <3>2. \/ Told(x, d, i) \/ (Is(x, "Calling", i) /\ Says(x, d, "offer", i))
          \/ i = id
      BY <1>7, <2>2, <3>1 DEF EndFits, Matched
    <3>3. CASE i # id /\ (Told(x, d, i) \/ (Is(x, "Calling", i) /\ Says(x, d, "offer", i)))
      <4>1. Told(x, d, i)' \/ (Is(x, "Calling", i)' /\ Says(x, d, "offer", i)')
        BY <1>1, <1>6, <2>2, <3>3, OtherDevices DEF Told
      <4>2. QED
        BY <3>1, <4>1 DEF EndFits, Matched
    <3>4. CASE i = id
      <4>1. x = p
        BY <1>1, <1>5, <2>2, <3>1, <3>4, SamePair
      <4>2. CASE Told(d, p, id)
        BY <1>1, <1>3, <3>1, <3>4, <4>1, <4>2 DEF AnswerFits, Told
      <4>4. CASE Is(p, "Active", id)
        <5>1. Is(x, "Active", i)' /\ Is(d, "Active", i)'
          BY <1>1, <1>6, <1>7, <3>4, <4>1, <4>4, OtherDevices
        <5>2. QED
          BY <3>1, <5>1 DEF EndFits, Matched
      <4>5. QED
        BY <1>10, <4>2, <4>4
    <3>5. QED
      BY <3>2, <3>3, <3>4
  <2>3. QED
    BY <1>1, <1>6, <2>1, <2>2, Elsewhere
<1>12. ASSUME NEW x \in Caller, NEW y \in Caller, NEW i \in OfferIds
       PROVE  OfferFits(x, y, i)' /\ AnswerFits(x, y, i)'
  <2>1. OfferFits(x, y, i) /\ AnswerFits(x, y, i)
    BY DEF Foreseen
  <2>2. /\ Offered(x, y, i) => Offered(x, y, i)'
        /\ Offered(y, x, i) => Offered(y, x, i)'
        /\ Between(x, y, i) => Between(x, y, i)'
    BY <1>6, OfferedStays DEF Alone
  <2>3. /\ \A u \in Caller : Holds(u, i)' => Holds(u, i)
        /\ \A u \in Caller : ~(u = d /\ i = id) => (Is(u, "Calling", i) => Is(u, "Calling", i)')
        /\ \A u \in Caller : Is(u, "Ringing", i)' => Is(u, "Ringing", i)
    BY <1>1, <1>6, <1>7, OtherDevices
  <2>4. /\ \A u, v \in Caller : \A s : Says(u, v, s, i)' => Says(u, v, s, i)
        /\ Says(x, y, "hangup", i) => Says(x, y, "hangup", i)'
    BY <1>1
  <2>5. OfferFits(x, y, i)'
    <3>1. CASE x = d /\ i = id
      <4>1. ~Says(x, y, "offer", i)
        <5>1. Offered(x, y, i) => y = p
          BY <1>1, <1>4, <3>1, OfferedOnce
        <5>2. QED
          BY <1>9, <2>1, <3>1, <5>1 DEF OfferFits
      <4>2. QED
        BY <2>4, <4>1 DEF OfferFits
    <3>2. CASE ~(x = d /\ i = id)
      BY <2>1, <2>2, <2>3, <2>4, <3>2 DEF OfferFits
    <3>3. QED
      BY <3>1, <3>2
  <2>6. AnswerFits(x, y, i)'
    BY <2>1, <2>2, <2>3, <2>4 DEF AnswerFits
  <2>7. QED
    BY <2>5, <2>6
<1>13. \A x, y \in Caller : Unused(x, y)'
  <2> SUFFICES ASSUME NEW x \in Caller, NEW y \in Caller, y \in toCall[x] PROVE Unused(x, y)'
    BY <1>2 DEF Unused
  <2> PICK i : i = <<x, y, presses>>
    OBVIOUS
  <2>1. (\A u \in Caller : ~Holds(u, i)) /\ \A u, v \in Caller : \A t \in Types : ~Says(u, v, t, i)
    BY DEF Foreseen, Unused
  <2>2. (\A u \in Caller : ~Holds(u, i)') /\ \A u, v \in Caller : \A t \in Types : ~Says(u, v, t, i)'
    BY <1>1, <1>6, <1>7, <2>1, OtherDevices
  <2>3. QED
    BY <1>2, <2>2 DEF Unused
<1>14. AllUp'
  BY <1>2 DEF Foreseen, AllUp
<1>15. QED
  BY <1>1, <1>8, <1>11, <1>12, <1>13, <1>14, Together

LEMMA OverForeseen ==
  ASSUME CallAssumption, Typed, Foreseen, Typed', odd' = {}, NEW d, NEW p, NEW id, NEW type \in {"reject", "hangup"},
         Took(d, p, type, id), Over(d, id), UNCHANGED <<channels, up, toCall, presses>>
  PROVE  Foreseen'
<1>1. /\ d \in Caller /\ p \in Caller /\ p # d /\ id \in OfferIds /\ Says(p, d, type, id)
      /\ \A x, y \in Caller : \A s, j :
           Says(x, y, s, j) <=> Says(x, y, s, j)' \/ (x = p /\ y = d /\ s = type /\ j = id)
      /\ \A x, y \in Caller : OfferFirst(x, y)'
      /\ ~Says(p, d, "offer", id)'
  BY DEF Took
<1>2. /\ SetCall(d, Idle, NoOffer) /\ Note("late", InCall(d) /\ id # sid[d]) /\ EndSession(d)
      /\ UNCHANGED <<channels, up, toCall, presses>>
  BY DEF Over
<1>3. AnswerFits(p, d, id) /\ (InCall(d) => sid[d] = id)
  BY <1>1, <1>2, NoteTyped DEF Foreseen, Incidents
<1>4. ~Holds(p, id) /\ Between(d, p, id)
  BY <1>1, <1>3 DEF AnswerFits, Between
<1>5. InCall(d) => Holds(d, id) /\ call[d].peer = p
  BY <1>1, <1>3, <1>4, PeerIs DEF Holds
<1>6. call'[d] = Idle /\ sid'[d] = NoOffer /\ audio'[d] = Nobody /\ Alone(d)
  <2>1. Idle \in StateOf(d) /\ NoOffer \in OfferIds
    BY DEF StateOf, OfferIds
  <2>2. QED
    BY <1>1, <1>2, <2>1, SetCallTyped, EndSessionTyped DEF Alone, Typed, RestTyped, CallAssumption
<1>7. /\ \A i : \A k \in {"Calling", "Ringing", "Active"} : ~Is(d, k, i)'
      /\ \A i : ~Holds(d, i)'
      /\ \A i : Holds(d, i) => i = id
      /\ \A i : \A k \in {"Calling", "Ringing", "Active"} : Is(d, k, i) => i = id
      /\ ~InCall(d)'
  BY <1>3, <1>6 DEF Is, Holds, InCall, Idle
<1>8. \A x \in Caller : StateFits(x)'
  <2>1. StateFits(d)'
    BY <1>6 DEF StateFits, Idle
  <2>2. QED
    BY <1>1, <1>6, <2>1, OtherDevices
<1>9. \A x \in Caller : EndFits(x)'
  <2>1. EndFits(d)'
    BY <1>7 DEF EndFits
  <2>2. ASSUME NEW x \in Caller, x # d, InCall(x), call[x].peer = d PROVE EndFits(x)'
    <3> PICK i : i = sid[x]
      OBVIOUS
    <3>1. EndFits(x) /\ call'[x].peer = d /\ sid'[x] = i /\ Holds(x, i)
      BY <1>1, <1>6, <2>2, OtherDevices DEF Foreseen, Holds
    <3>2. ASSUME NEW k \in {"Calling", "Ringing", "Active"} PROVE ~Is(d, k, i)
      <4>1. SUFFICES ASSUME Is(d, k, i) PROVE FALSE
        OBVIOUS
      <4>2. InCall(d) /\ Holds(d, i) /\ i = id
        BY <1>7, <4>1 DEF Is, Holds, InCall
      <4>3. x = p
        BY <1>1, <1>5, <2>2, <3>1, <4>2, SamePair
      <4>4. QED
        BY <1>4, <3>1, <4>2, <4>3
    <3>4. Told(x, d, i) \/ (Is(x, "Calling", i) /\ Says(x, d, "offer", i))
      BY <2>2, <3>1, <3>2 DEF EndFits, Matched
    <3>5. Told(x, d, i)' \/ (Is(x, "Calling", i)' /\ Says(x, d, "offer", i)')
      BY <1>1, <1>6, <2>2, <3>4, OtherDevices DEF Told
    <3>6. QED
      BY <3>1, <3>5 DEF EndFits, Matched
  <2>3. QED
    BY <1>1, <1>6, <2>1, <2>2, Elsewhere
<1>10. ASSUME NEW x \in Caller, NEW y \in Caller, NEW i \in OfferIds
       PROVE  OfferFits(x, y, i)' /\ AnswerFits(x, y, i)'
  <2>1. OfferFits(x, y, i) /\ AnswerFits(x, y, i)
    BY DEF Foreseen
  <2>2. /\ Offered(x, y, i) => Offered(x, y, i)'
        /\ Offered(y, x, i) => Offered(y, x, i)'
        /\ Between(x, y, i) => Between(x, y, i)'
    BY <1>6, OfferedStays DEF Alone
  <2>3. /\ \A u \in Caller : Holds(u, i)' => Holds(u, i)
        /\ \A u \in Caller : ~(u = d /\ i = id /\ Is(d, "Calling", id)) => (Is(u, "Calling", i) => Is(u, "Calling", i)')
        /\ \A u \in Caller : Is(u, "Ringing", i)' => Is(u, "Ringing", i)
    BY <1>1, <1>6, <1>7, OtherDevices
  <2>4. /\ \A u, v \in Caller : \A s : Says(u, v, s, i)' => Says(u, v, s, i)
        /\ ~(x = p /\ y = d /\ i = id) => (Says(x, y, "hangup", i) => Says(x, y, "hangup", i)')
    BY <1>1
  <2>5. OfferFits(x, y, i)'
    <3>1. CASE x = d /\ i = id /\ Is(d, "Calling", id)
      <4>1. ~Says(x, y, "offer", i)
        <5>1. SUFFICES ASSUME Says(x, y, "offer", i) PROVE FALSE
          OBVIOUS
        <5>2. InCall(d) /\ Offered(x, y, i) /\ ~Says(y, x, type, i)
          BY <2>1, <3>1, <5>1 DEF OfferFits, Is, InCall, Types
        <5>3. y = p
          BY <1>1, <1>4, <3>1, <5>2, OfferedOnce DEF Between
        <5>4. QED
          BY <1>1, <3>1, <5>2, <5>3
      <4>2. QED
        BY <2>4, <4>1 DEF OfferFits
    <3>2. CASE x = p /\ y = d /\ i = id
      BY <1>1, <3>2 DEF OfferFits
    <3>3. CASE ~(x = d /\ i = id /\ Is(d, "Calling", id)) /\ ~(x = p /\ y = d /\ i = id)
      BY <2>1, <2>2, <2>3, <2>4, <3>3 DEF OfferFits
    <3>4. QED
      BY <3>1, <3>2, <3>3
  <2>6. AnswerFits(x, y, i)'
    BY <2>1, <2>2, <2>3, <2>4 DEF AnswerFits
  <2>7. QED
    BY <2>5, <2>6
<1>11. \A x, y \in Caller : Unused(x, y)'
  <2> SUFFICES ASSUME NEW x \in Caller, NEW y \in Caller, y \in toCall[x] PROVE Unused(x, y)'
    BY <1>2 DEF Unused
  <2> PICK i : i = <<x, y, presses>>
    OBVIOUS
  <2>1. (\A u \in Caller : ~Holds(u, i)) /\ \A u, v \in Caller : \A t \in Types : ~Says(u, v, t, i)
    BY DEF Foreseen, Unused
  <2>2. (\A u \in Caller : ~Holds(u, i)') /\ \A u, v \in Caller : \A t \in Types : ~Says(u, v, t, i)'
    BY <1>1, <1>6, <1>7, <2>1, OtherDevices
  <2>3. QED
    BY <1>2, <2>2 DEF Unused
<1>12. AllUp'
  BY <1>2 DEF Foreseen, AllUp
<1>13. QED
  BY <1>1, <1>8, <1>9, <1>10, <1>11, <1>12, Together
-----------------------------------------------------------------------------
LEMMA ForeseenInit == CallInit => Foreseen
<1> SUFFICES ASSUME CallInit PROVE Foreseen
  OBVIOUS
<1>1. /\ \A x, y \in Caller : wire[x][y] = <<>>
      /\ \A x \in Caller : call[x] = Idle /\ sid[x] = NoOffer /\ audio[x] = Nobody /\ toCall[x] = {}
      /\ \A x \in Caller : call[x].kind = "Idle"
  BY DEF CallInit, Idle
<1>2. \A x, y \in Caller : \A t, i : ~Says(x, y, t, i)
  <2>1. \A t, i : ~Has(<<>>, t, i)
    BY DEF Has
  <2>2. QED
    BY <1>1, <2>1 DEF Says
<1>3. \A x, y \in Caller : OfferFirst(x, y)
  <2>1. First(<<>>)
    BY DEF First
  <2>2. QED
    BY <1>1, <2>1 DEF OfferFirst
<1>4. AllUp
  <2> DEFINE S == {{x, y} : x, y \in Caller}
             T == {{x} : x \in Caller}
  <2>1. ASSUME NEW d \in Caller, NEW p \in Caller, d # p PROVE {d, p} \in S /\ {d, p} \notin T
    BY <2>1
  <2>2. up = S \ T
    BY DEF CallInit
  <2> HIDE DEF S, T
  <2>3. \A d, p \in Caller : d # p => {d, p} \in up
    BY <2>1, <2>2
  <2>4. \A d, p \in Caller : d # p => p \in channels[d]
    BY DEF CallInit
  <2>5. QED
    BY <2>3, <2>4 DEF AllUp
<1>5. \A x \in Caller : StateFits(x) /\ EndFits(x)
  BY <1>1 DEF StateFits, EndFits, InCall
<1>6. \A x, y \in Caller : Unused(x, y)
  BY <1>1 DEF Unused
<1>7. \A x, y \in Caller : \A i \in OfferIds : OfferFits(x, y, i) /\ AnswerFits(x, y, i)
  BY <1>2 DEF OfferFits, AnswerFits
<1>8. QED
  BY <1>3, <1>4, <1>5, <1>6, <1>7 DEF Foreseen

\* A step that leaves the calls, the sessions and the messages alone.
LEMMA Unaffected ==
  ASSUME Typed, Foreseen, UNCHANGED <<call, sid, audio, channels, up, wire>>, presses \in Nat,
         (presses' = presses /\ toCall' = toCall) \/ presses' = presses + 1
  PROVE  Foreseen'
<1>1. presses' \in Nat /\ presses' >= presses
  OBVIOUS
<1>2. /\ \A x, y, t, i : Says(x, y, t, i)' <=> Says(x, y, t, i)
      /\ \A x, k, i : Is(x, k, i)' <=> Is(x, k, i)
      /\ \A x, i : Holds(x, i)' <=> Holds(x, i)
      /\ \A x : InCall(x)' <=> InCall(x)
      /\ \A x, y : OfferFirst(x, y)' <=> OfferFirst(x, y)
  BY DEF Says, Is, Holds, InCall, OfferFirst
<1>3. \A x, y, i : /\ Offered(x, y, i) => Offered(x, y, i)'
                   /\ Between(x, y, i) => Between(x, y, i)'
  BY <1>1, OfferedStays
<1>4. \A x \in Caller : StateFits(x)'
  BY <1>3 DEF StateFits, Foreseen
<1>5. \A x \in Caller : EndFits(x)'
  BY <1>2 DEF EndFits, Told, Matched, Foreseen
<1>6. ASSUME NEW x \in Caller, NEW y \in Caller, NEW i \in OfferIds
      PROVE  OfferFits(x, y, i)' /\ AnswerFits(x, y, i)'
  <2>1. OfferFits(x, y, i) /\ AnswerFits(x, y, i)
    BY DEF Foreseen
  <2>2. OfferFits(x, y, i)'
    BY <1>2, <1>3, <2>1 DEF OfferFits
  <2>3. AnswerFits(x, y, i)'
    BY <1>2, <1>3, <2>1 DEF AnswerFits
  <2>4. QED
    BY <2>2, <2>3
<1>7. \A x, y \in Caller : Unused(x, y)'
  <2>1. CASE presses' = presses /\ toCall' = toCall
    BY <1>2, <2>1 DEF Unused, Foreseen
  <2>2. CASE presses' = presses + 1
    <3>1. /\ \A x \in Caller : \A i : Holds(x, i)' => Used(i)
          /\ \A x, y \in Caller : \A t, i : Says(x, y, t, i)' => Used(i)
      BY <1>2, HoldsUsed, SaysBetween
    <3>2. QED
      BY <2>2, <3>1, PressUnused
  <2>3. QED
    BY <2>1, <2>2
<1>8. AllUp' /\ \A x, y \in Caller : OfferFirst(x, y)'
  BY <1>2 DEF Foreseen, AllUp
<1>9. QED
  BY <1>4, <1>5, <1>6, <1>7, <1>8, Together

LEMMA RejectForeseen ==
  ASSUME CallAssumption, Typed, Foreseen, Typed', odd' = {}, NEW d \in Caller, NEW q \in Caller, RejectCall(d, q)
  PROVE  Foreseen'
<1>1. /\ Press /\ SetCall(d, Idle, NoOffer) /\ UNCHANGED <<audio, channels, up>> /\ UNCHANGED soundVars
      /\ Note("declined", InCall(d) /\ call[d].kind # "Ringing")
  BY DEF RejectCall, soundVars, netVars
<1>2. ~(InCall(d) /\ call[d].kind # "Ringing")
  BY <1>1, NoteTyped DEF Incidents
<1>3. CASE InCall(d)
  <2>1. call[d].kind = "Ringing" /\ call[d].peer \in Caller /\ call[d].peer # d
    BY <1>2, <1>3, StateCases
  <2>2. call[d].peer \in channels[d]
    BY <2>1 DEF Foreseen, AllUp
  <2>3. wire' = Sent(d, call[d].peer, Message("reject", sid[d]))
    BY <2>1, <2>2 DEF RejectCall
  <2>4. QED
    BY <1>1, <1>3, <2>1, <2>3, EndForeseen
<1>4. CASE ~InCall(d)
  <2>1. call[d] = Idle /\ call[d].kind = "Idle" /\ sid[d] = NoOffer
    BY <1>4, StateCases DEF Foreseen, StateFits
  <2>2. call' = call /\ sid' = sid
    BY <1>1, <2>1 DEF SetCall, Typed, CallTyped
  <2>3. wire' = wire
    BY <2>1 DEF RejectCall
  <2>4. presses' = presses + 1 /\ presses \in Nat
    BY <1>1, PressTyped
  <2>5. QED
    BY <1>1, <2>2, <2>3, <2>4, Unaffected
<1>5. QED
  BY <1>3, <1>4

LEMMA HangUpForeseen ==
  ASSUME CallAssumption, Typed, Foreseen, Typed', NEW d \in Caller, HangUp(d)
  PROVE  Foreseen'
<1>1. /\ Press /\ InCall(d) /\ EndSession(d) /\ SetCall(d, Idle, NoOffer)
      /\ UNCHANGED <<channels, up>>
  BY DEF HangUp, netVars
<1>2. call[d].peer \in channels[d]
  BY <1>1, StateCases DEF Foreseen, AllUp
<1>3. wire' = Sent(d, call[d].peer, Message("hangup", sid[d]))
  BY <1>2 DEF HangUp
<1>4. QED
  BY <1>1, <1>3, EndForeseen

LEMMA NetEventForeseen ==
  ASSUME CallAssumption, Typed, Foreseen, Typed', odd' = {}, NEW d \in Caller, NEW p \in Caller, NetEvent(d, p)
  PROVE  Foreseen'
<1> PICK m : m = Head(wire[p][d])
  OBVIOUS
<1>1. /\ wire[p][d] # <<>> /\ wire' = [wire EXCEPT ![p][d] = Tail(@)]
      /\ UNCHANGED <<up, toCall, presses>>
      /\ \/ m.type = "offer" /\ CallOffer(d, p, m.id) /\ UNCHANGED channels
         \/ m.type = "accept" /\ CallAccepted(d, p, m.id) /\ UNCHANGED channels
         \/ m.type = "reject" /\ Over(d, m.id) /\ UNCHANGED channels
         \/ m.type = "hangup" /\ Over(d, m.id) /\ UNCHANGED channels
         \/ m.type = "closed"
  BY DEF NetEvent, CallRejected, CallHungUp
<1>2. /\ \A x, y \in Caller : \A s, j :
           Says(x, y, s, j) <=> Says(x, y, s, j)' \/ (x = p /\ y = d /\ s = m.type /\ j = m.id)
      /\ \A x, y \in Caller : OfferFirst(x, y)'
      /\ ~Says(p, d, "offer", m.id)'
      /\ m \in Letter /\ p # d
  <2>1. \A x, y \in Caller : OfferFirst(x, y)
    BY DEF Foreseen
  <2>2. wire[p][d] # <<>> /\ wire' = [wire EXCEPT ![p][d] = Tail(@)] /\ m = Head(wire[p][d])
    BY <1>1
  <2>3. QED
    BY <2>1, <2>2, Got
<1> PICK type, id : type = m.type /\ id = m.id
  OBVIOUS
<1>3. Took(d, p, type, id)
  <2>1. id \in OfferIds
    BY <1>2 DEF Letter
  <2>2. QED
    BY <1>2, <2>1 DEF Took
<1>4. type # "closed"
  BY <1>3, SaysBetween DEF Took
<1>5. CASE type = "offer" /\ CallOffer(d, p, id) /\ UNCHANGED channels
  BY <1>1, <1>3, <1>5, OfferForeseen
<1>6. CASE type = "accept" /\ CallAccepted(d, p, id) /\ UNCHANGED channels
  BY <1>1, <1>3, <1>6, AcceptedForeseen
<1>7. CASE type \in {"reject", "hangup"} /\ Over(d, id) /\ UNCHANGED channels
  BY <1>1, <1>3, <1>7, OverForeseen
<1>8. QED
  BY <1>1, <1>4, <1>5, <1>6, <1>7

LEMMA ForeseenNext ==
  ASSUME CallAssumption, CallInv, [CallNext]_allVars PROVE CallInv'
<1>1. Typed /\ Typed'
  BY TypedNext DEF CallInv
<1> SUFFICES ASSUME odd' = {} PROVE Foreseen'
  BY <1>1 DEF CallInv
<1>2. presses \in Nat
  BY <1>1 DEF Typed, RestTyped, CallAssumption
<1>3. CASE UNCHANGED allVars
  BY <1>1, <1>2, <1>3, Unaffected
     DEF allVars, callVars, soundVars, netVars, CallInv
<1>4. ASSUME NEW d \in Caller, NEW p \in Caller, Datagram(d, p) PROVE Foreseen'
  BY <1>1, <1>2, <1>4, Unaffected
     DEF Datagram, LiveTakes, WaitingTakes, EndingTakes, callVars, netVars, CallInv
<1>5. ASSUME NEW d \in Caller, NEW present \in SUBSET (Caller \ {d}), StartAudioWith(d, present)
      PROVE  Foreseen'
  BY <1>1, <1>2, <1>5, Unaffected DEF StartAudioWith, Press, callVars, soundVars, netVars, CallInv
<1>6. ASSUME NEW d \in Caller, AcceptCall(d) PROVE Foreseen'
  BY <1>1, <1>6, AcceptForeseen DEF AcceptCall, CallInv
<1>7. ASSUME NEW d \in Caller, HangUp(d) PROVE Foreseen'
  BY <1>1, <1>7, HangUpForeseen DEF HangUp, CallInv
<1>8. ASSUME NEW d \in Caller, NEW p \in Caller,
             CallStargazer(d, p) \/ RejectCall(d, p) \/ NetEvent(d, p)
      PROVE  Foreseen'
  <2>1. odd = {}
    BY <1>8 DEF CallStargazer, RejectCall, NetEvent, CallOffer, CallAccepted, CallRejected,
                CallHungUp, Over, PeerChannelClosed, Note
  <2>2. QED
    BY <1>1, <1>8, <2>1, CallForeseen, RejectForeseen, NetEventForeseen DEF CallInv
<1>9. ASSUME NEW d \in Caller, NEW p \in Caller, DropConnection(d, p) PROVE FALSE
  BY <1>9 DEF DropConnection, Note
<1>10. ASSUME NEW d \in Caller, NEW p \in Caller, Reconnected(d, p) PROVE FALSE
  BY <1>10 DEF Reconnected, CallInv, Foreseen, AllUp
<1>11. QED
  BY <1>3, <1>4, <1>5, <1>6, <1>7, <1>8, <1>9, <1>10 DEF CallNext

LEMMA InvAgrees ==
  ASSUME CallAssumption PROVE CallInv => QuietCallsAgree
<1> SUFFICES ASSUME CallInv, odd = {}, \A d \in Caller : Quiet(d), NEW d \in Caller
             PROVE  /\ audio[d] # Nobody <=> call[d].kind \in {"Calling", "Active"}
                    /\ audio[d] # Nobody => audio[d] = call[d].peer
                    /\ InCall(d) =>
                         LET p == call[d].peer
                         IN /\ InCallWith(p, d) /\ sid[p] = sid[d]
                            /\ <<call[d].kind, call[p].kind>> \in
                                 {<<"Calling", "Ringing">>, <<"Ringing", "Calling">>, <<"Active", "Active">>}
  BY DEF QuietCallsAgree
<1>1. Typed /\ Foreseen
  BY DEF CallInv
<1>2. ASSUME NEW x \in Caller, NEW y \in Caller, NEW t, NEW i, Says(x, y, t, i) PROVE FALSE
  <2>1. wire[x][y] = <<>>
    BY DEF Quiet
  <2>2. QED
    BY <1>2, <2>1 DEF Says, Has
<1>3. StateFits(d) /\ EndFits(d) /\ (InCall(d) => call[d].peer \in Caller /\ call[d].peer # d)
      /\ (InCall(d) <=> call[d].kind \in {"Calling", "Ringing", "Active"})
  BY <1>1, Kinds DEF Foreseen
<1>4. (audio[d] # Nobody <=> call[d].kind \in {"Calling", "Active"})
      /\ (audio[d] # Nobody => audio[d] = call[d].peer)
  BY <1>3 DEF StateFits, CallAssumption
<1>5. ASSUME InCall(d), NEW p, p = call[d].peer
      PROVE  /\ InCallWith(p, d) /\ sid[p] = sid[d]
             /\ <<call[d].kind, call[p].kind>> \in
                  {<<"Calling", "Ringing">>, <<"Ringing", "Calling">>, <<"Active", "Active">>}
  <2> PICK id : id = sid[d]
    OBVIOUS
  <2>1. p \in Caller /\ p # d /\ (Told(d, p, id) \/ Matched(d, p, id))
    BY <1>3, <1>5 DEF EndFits
  <2>2. \/ Is(d, "Calling", id) /\ Is(p, "Ringing", id)
        \/ Is(d, "Ringing", id) /\ Is(p, "Calling", id)
        \/ Is(d, "Active", id) /\ Is(p, "Active", id)
    BY <1>2, <2>1 DEF Told, Matched
  <2>3. Holds(p, id) /\ Holds(d, id)
    BY <1>1, <2>1, <2>2, Kinds
  <2>4. call[p].peer = d
    BY <1>1, <2>1, <2>3, SamePair
  <2>5. QED
    BY <2>2, <2>3, <2>4 DEF Is, Holds, InCallWith
<1>6. QED
  BY <1>4, <1>5

\* When everything sent was handled and none of the four incidents happened,
\* the two ends of every call match, about the same offer, and a device has a
\* session just when it calls or talks, with that peer (app.rs:1134-1260,
\* 2274-2302).
THEOREM CallsAgree ==
  CallSpec => []QuietCallsAgree
<1>1. CallInit => CallInv
  BY CallAssumption, TypedInit, ForeseenInit DEF CallInv
<1>2. CallInv /\ [CallNext]_allVars => CallInv'
  BY CallAssumption, ForeseenNext
<1>3. CallInv => QuietCallsAgree
  BY CallAssumption, InvAgrees
<1>4. QED
  BY <1>1, <1>2, <1>3, PTL DEF CallSpec
=============================================================================
