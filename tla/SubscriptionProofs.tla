------------------------- MODULE SubscriptionProofs -------------------------
(***************************************************************************)
(* Proofs about Subscription, for any keys, grace period, capacity of the  *)
(* expiry channel and number of views and edits: no touch is forgotten,    *)
(* and no topic that was touched, or is the user's own, is closed early.   *)
(* Then about the computations of Almanac that keys and topics come from,  *)
(* for every longitude, also the ones outside 0..359 that sums give, and   *)
(* about its calendar, for every day since 1583.  Last about Chart, for    *)
(* every ephemeris, birth and clock: the geometry that the chart pages     *)
(* show, the names of the keys they link to, and the dates of the windows  *)
(* in which transits and houses last.  Steps with large numbers name the   *)
(* only prover that can be given such numbers, slow steps the one to wait  *)
(* for.                                                                    *)
(***************************************************************************)
EXTENDS Subscription, Chart, SequenceTheorems, FiniteSetTheorems, WellFoundedInduction, TLAPS

\* A timer that still sleeps belongs to a touched key and ends no later than the
\* grace period of its latest touch.
TimerBound ==
  \A t \in timers :
    t.left > 0 => lastTouch[t.key] # NoTouch /\ t.left <= GRACE - lastTouch[t.key]
\* The user's own keys have no last_touch entry.
OnlyLazyTouched == \A k \in OwnKeys : lastTouch[k] = NoTouch

Inv == TypeOK /\ NoForgottenTouch /\ TimerBound /\ OnlyLazyTouched /\ TouchedStaysOpen

(***************************************************************************)
(* Taking the head off a queue keeps its type and every other element.     *)
(***************************************************************************)
LEMMA TailKeeps ==
  ASSUME NEW S, NEW q \in Seq(S), q # <<>>
  PROVE  /\ Head(q) \in S /\ Tail(q) \in Seq(S) /\ Len(Tail(q)) = Len(q) - 1
         /\ \A i \in 1 .. Len(q) : q[i] # Head(q) => \E j \in 1 .. Len(Tail(q)) : Tail(q)[j] = q[i]
<1>1. Head(q) \in S /\ Tail(q) \in Seq(S) /\ Len(Tail(q)) = Len(q) - 1
  BY HeadTailProperties
<1>2. ASSUME NEW i \in 1 .. Len(q), q[i] # Head(q)
      PROVE  \E j \in 1 .. Len(Tail(q)) : Tail(q)[j] = q[i]
  <2>1. i - 1 \in 1 .. Len(Tail(q))
    BY <1>1, <1>2
  <2>2. Tail(q)[i - 1] = q[i]
    BY <1>1, <2>1
  <2>3. QED
    BY <2>1, <2>2
<1>3. QED
  BY <1>1, <1>2

\* Initially nothing is touched, no timer runs and every topic is as it was opened.
LEMMA InitInv == Init => Inv
<1> SUFFICES ASSUME Init
             PROVE  Inv
  OBVIOUS
<1>1. TypeOK
  BY SubscriptionAssumption DEF Init, TypeOK
<1>2. QED
  BY <1>1, SubscriptionAssumption
     DEF Init, Inv, NoForgottenTouch, TimerBound, OnlyLazyTouched, TouchedStaysOpen

(***************************************************************************)
(* A step that opens topics, and touches nothing of the timers, the        *)
(* entries and the expiry channel, keeps the invariant.                    *)
(***************************************************************************)
LEMMA OpeningKeeps ==
  ASSUME Inv, TypeOK', UNCHANGED <<lastTouch, timers, expiryQ>>,
         \A k \in Key : k \notin closed' =>
           /\ k \notin closed /\ k \in handles => k \in handles'
           /\ k \in closed \/ (k \in opened' /\ k \notin opened) => k \in handles'
  PROVE  Inv'
<1>1. NoForgottenTouch' /\ TimerBound' /\ OnlyLazyTouched'
  BY DEF Inv, NoForgottenTouch, TimerBound, OnlyLazyTouched
<1>2. ASSUME NEW t \in timers', t.left > 0, t.key \notin closed'
      PROVE  t.key \in handles'
  BY <1>2 DEF Inv, TypeOK, Timer, TouchedStaysOpen
<1>3. (opened \ closed \subseteq handles)'
  BY SubscriptionAssumption DEF Inv, TypeOK, TouchedStaysOpen
<1>4. QED
  BY <1>1, <1>2, <1>3 DEF Inv, TouchedStaysOpen

\* Handling a subscription keeps the invariant.
LEMMA SubscribeKeeps ==
  ASSUME Inv, NEW k \in Key, Subscribe(k)
  PROVE  Inv'
<1>1. TypeOK'
  BY DEF Inv, TypeOK, Subscribe, OpenTopic
<1>2. QED
  BY <1>1, OpeningKeeps DEF Subscribe, OpenTopic, Inv, TypeOK

\* Handling an unsubscription keeps the invariant.
LEMMA UnsubscribeKeeps ==
  ASSUME Inv, NEW k \in Key, Unsubscribe(k)
  PROVE  Inv'
<1>1. TypeOK'
  BY DEF Inv, TypeOK, Unsubscribe
<1>2. QED
  BY <1>1, OpeningKeeps DEF Unsubscribe, Inv, TypeOK

(***************************************************************************)
(* A touch starts a timer that sleeps as long as the grace period it       *)
(* begins; the older timers end before it.                                 *)
(***************************************************************************)
LEMMA TouchKeeps ==
  ASSUME Inv, NEW k \in Key, k \notin OwnKeys, TouchSubscription(k), TypeOK'
  PROVE  Inv'
<1> DEFINE new == [id |-> touches, key |-> k, left |-> GRACE]
<1>1. lastTouch' = [lastTouch EXCEPT ![k] = 0] /\ timers' = timers \cup {new}
      /\ handles' = handles \cup {k} /\ closed' = closed \ {k}
      /\ UNCHANGED <<expiryQ, opened>>
  BY DEF TouchSubscription, OpenTopic
<1>2. GRACE \in Nat \ {0} /\ NoTouch \notin Nat /\ timers \subseteq Timer
      /\ lastTouch \in [Key -> (0 .. GRACE) \cup {NoTouch}]
  BY SubscriptionAssumption DEF Inv, TypeOK
<1>3. NoForgottenTouch'
  <2> SUFFICES ASSUME NEW j \in Key, lastTouch'[j] # NoTouch
               PROVE  \/ \E t \in timers' : t.key = j /\ t.left = GRACE - lastTouch'[j]
                      \/ /\ lastTouch'[j] = GRACE
                         /\ \E i \in 1 .. Len(expiryQ') : expiryQ'[i] = j
    BY DEF NoForgottenTouch
  <2>1. CASE j = k
    <3>1. lastTouch'[j] = 0
      BY <1>1, <1>2, <2>1
    <3>2. new \in timers' /\ new.key = j /\ new.left = GRACE - 0
      BY <1>1, <1>2, <2>1
    <3>3. QED
      BY <3>1, <3>2
  <2>2. CASE j # k
    BY <1>1, <1>2, <2>2 DEF Inv, NoForgottenTouch
  <2>3. QED
    BY <2>1, <2>2
<1>4. TimerBound'
  <2> SUFFICES ASSUME NEW t \in timers', t.left > 0
               PROVE  lastTouch'[t.key] # NoTouch /\ t.left <= GRACE - lastTouch'[t.key]
    BY DEF TimerBound
  <2>1. CASE t = new
    BY <1>1, <1>2, <2>1
  <2>2. CASE t \in timers
    <3>1. lastTouch[t.key] # NoTouch /\ t.left <= GRACE - lastTouch[t.key]
          /\ t.key \in Key /\ t.left \in Nat
      BY <1>2, <2>2 DEF Inv, TimerBound, Timer
    <3>2. CASE t.key = k
      BY <1>1, <1>2, <3>1, <3>2
    <3>3. CASE t.key # k
      BY <1>1, <1>2, <3>1, <3>3
    <3>4. QED
      BY <3>2, <3>3
  <2>3. QED
    BY <1>1, <2>1, <2>2
<1>5. OnlyLazyTouched'
  BY <1>1, <1>2, SubscriptionAssumption DEF Inv, OnlyLazyTouched
<1>6. TouchedStaysOpen'
  BY <1>1 DEF Inv, TouchedStaysOpen
<1>7. QED
  BY <1>3, <1>4, <1>5, <1>6 DEF Inv

\* Whichever message of the app the SDK thread takes keeps the invariant.
LEMMA HandleAppMsgKeeps ==
  ASSUME Inv, HandleAppMsg
  PROVE  Inv'
<1> DEFINE m == Head(appQ)
<1>1. m \in AppMsg /\ appQ' \in Seq(AppMsg) /\ m.key \in Key
  <2>1. appQ \in Seq(AppMsg) /\ appQ # <<>> /\ appQ' = Tail(appQ)
    BY DEF HandleAppMsg, Inv, TypeOK
  <2>2. m \in AppMsg /\ appQ' \in Seq(AppMsg)
    BY <2>1, TailKeeps
  <2>3. QED
    BY <2>2 DEF AppMsg
<1>2. CASE UNCHANGED sdkVars
  <2>1. TypeOK'
    BY <1>1, <1>2 DEF Inv, TypeOK, HandleAppMsg, sdkVars
  <2>2. QED
    BY <1>2, <2>1, OpeningKeeps DEF sdkVars
<1>3. CASE m.key \notin OwnKeys /\ TouchSubscription(m.key)
  <2>1. TypeOK'
    BY <1>1, <1>3, SubscriptionAssumption
       DEF Inv, TypeOK, HandleAppMsg, TouchSubscription, OpenTopic, Timer
  <2>2. QED
    BY <1>1, <1>3, <2>1, TouchKeeps
<1>4. CASE OpenTopic(m.key) /\ UNCHANGED <<lastTouch, timers, touches, expiryQ, opened>>
  <2>1. TypeOK'
    BY <1>1, <1>4 DEF Inv, TypeOK, HandleAppMsg, OpenTopic
  <2>2. QED
    BY <1>1, <1>4, <2>1, OpeningKeeps DEF OpenTopic
<1>5. QED
  BY <1>2, <1>3, <1>4 DEF HandleAppMsg, NeedsLazySubscription

(***************************************************************************)
(* Time: entries grow as timers shrink.                                    *)
(***************************************************************************)
LEMMA TickKeeps ==
  ASSUME Inv, Tick
  PROVE  Inv'
<1>1. GRACE \in Nat \ {0} /\ NoTouch \notin Nat /\ timers \subseteq Timer
      /\ lastTouch \in [Key -> (0 .. GRACE) \cup {NoTouch}]
  BY SubscriptionAssumption DEF Inv, TypeOK
<1>2. lastTouch' = [k \in Key |-> Older(lastTouch[k])] /\ timers' = {Shorter(t) : t \in timers}
      /\ UNCHANGED <<page, views, edits, appQ, handles, touches, expiryQ, opened, closed>>
  BY DEF Tick
<1>3. ASSUME NEW t \in timers
      PROVE  /\ Shorter(t) \in Timer /\ Shorter(t).key = t.key /\ t.key \in Key /\ t.left \in Nat
             /\ Shorter(t).left = IF t.left = 0 THEN 0 ELSE t.left - 1
  BY <1>1 DEF Timer, Shorter
<1>4. ASSUME NEW age \in (0 .. GRACE) \cup {NoTouch}
      PROVE  /\ Older(age) \in (0 .. GRACE) \cup {NoTouch}
             /\ age = NoTouch <=> Older(age) = NoTouch
             /\ age # NoTouch => Older(age) = IF age = GRACE THEN GRACE ELSE age + 1
  BY <1>1 DEF Older
<1>5. TypeOK'
  BY <1>1, <1>2, <1>3, <1>4 DEF Inv, TypeOK
<1>6. NoForgottenTouch'
  <2> SUFFICES ASSUME NEW k \in Key, lastTouch'[k] # NoTouch
               PROVE  \/ \E t \in timers' : t.key = k /\ t.left = GRACE - lastTouch'[k]
                      \/ /\ lastTouch'[k] = GRACE
                         /\ \E i \in 1 .. Len(expiryQ') : expiryQ'[i] = k
    BY DEF NoForgottenTouch
  <2>1. lastTouch[k] # NoTouch /\ lastTouch[k] \in 0 .. GRACE
        /\ lastTouch'[k] = IF lastTouch[k] = GRACE THEN GRACE ELSE lastTouch[k] + 1
    BY <1>1, <1>2, <1>4
  <2>2. CASE \E t \in timers : t.key = k /\ t.left = GRACE - lastTouch[k]
    <3>1. PICK t \in timers : t.key = k /\ t.left = GRACE - lastTouch[k]
      BY <2>2
    <3>2. Shorter(t) \in timers' /\ Shorter(t).key = k
          /\ Shorter(t).left = GRACE - lastTouch'[k]
      BY <1>1, <1>2, <1>3, <2>1, <3>1
    <3>3. QED
      BY <3>2
  <2>3. CASE lastTouch[k] = GRACE /\ \E i \in 1 .. Len(expiryQ) : expiryQ[i] = k
    BY <1>2, <2>1, <2>3
  <2>4. QED
    BY <2>1, <2>2, <2>3 DEF Inv, NoForgottenTouch
<1>7. TimerBound'
  <2> SUFFICES ASSUME NEW t \in timers, Shorter(t).left > 0
               PROVE  /\ lastTouch'[t.key] # NoTouch
                      /\ Shorter(t).left <= GRACE - lastTouch'[t.key]
    BY <1>2, <1>3 DEF TimerBound
  <2>1. t.left > 0 /\ Shorter(t).left = t.left - 1 /\ t.key \in Key /\ t.left \in Nat
    BY <1>3
  <2>2. lastTouch[t.key] # NoTouch /\ t.left <= GRACE - lastTouch[t.key]
    BY <2>1 DEF Inv, TimerBound
  <2>3. QED
    BY <1>1, <1>2, <1>4, <2>1, <2>2
<1>8. OnlyLazyTouched'
  BY <1>2, SubscriptionAssumption DEF Inv, OnlyLazyTouched, Older
<1>9. TouchedStaysOpen'
  <2>1. ASSUME NEW t \in timers, Shorter(t).left > 0, t.key \notin closed
        PROVE  t.key \in handles
    BY <1>3, <2>1 DEF Inv, TouchedStaysOpen
  <2>2. QED
    BY <1>2, <1>3, <2>1 DEF Inv, TouchedStaysOpen
<1>10. QED
  BY <1>5, <1>6, <1>7, <1>8, <1>9 DEF Inv

\* A timer that ends hands its key to the expiry channel.
LEMMA TimerFiresKeeps ==
  ASSUME Inv, NEW t \in timers, TimerFires(t)
  PROVE  Inv'
<1>1. GRACE \in Nat \ {0} /\ NoTouch \notin Nat /\ timers \subseteq Timer
      /\ lastTouch \in [Key -> (0 .. GRACE) \cup {NoTouch}] /\ expiryQ \in Seq(Key)
      /\ t.key \in Key
  BY SubscriptionAssumption DEF Inv, TypeOK, Timer
<1>2. timers' = timers \ {t} /\ t.left = 0 /\ expiryQ' = Append(expiryQ, t.key)
      /\ Len(expiryQ) < EXPIRY_CAP
      /\ UNCHANGED <<page, views, edits, appQ, handles, lastTouch, touches, opened, closed>>
  BY DEF TimerFires
<1>3. Len(expiryQ') = Len(expiryQ) + 1 /\ expiryQ'[Len(expiryQ) + 1] = t.key
      /\ \A i \in 1 .. Len(expiryQ) : expiryQ'[i] = expiryQ[i]
  BY <1>1, <1>2
<1>4. TypeOK'
  BY <1>1, <1>2, <1>3, SubscriptionAssumption DEF Inv, TypeOK
<1>5. NoForgottenTouch'
  <2> SUFFICES ASSUME NEW k \in Key, lastTouch[k] # NoTouch
               PROVE  \/ \E s \in timers' : s.key = k /\ s.left = GRACE - lastTouch[k]
                      \/ /\ lastTouch[k] = GRACE
                         /\ \E i \in 1 .. Len(expiryQ') : expiryQ'[i] = k
    BY <1>2 DEF NoForgottenTouch
  <2>1. CASE \E s \in timers : s.key = k /\ s.left = GRACE - lastTouch[k]
    <3>1. PICK s \in timers : s.key = k /\ s.left = GRACE - lastTouch[k]
      BY <2>1
    <3>2. CASE s = t
      <4>1. lastTouch[k] = GRACE
        BY <1>1, <1>2, <3>1, <3>2
      <4>2. Len(expiryQ) + 1 \in 1 .. Len(expiryQ')
        BY <1>1, <1>3
      <4>3. QED
        BY <1>3, <3>1, <3>2, <4>1, <4>2
    <3>3. CASE s # t
      BY <1>2, <3>1, <3>3
    <3>4. QED
      BY <3>2, <3>3
  <2>2. CASE lastTouch[k] = GRACE /\ \E i \in 1 .. Len(expiryQ) : expiryQ[i] = k
    BY <1>1, <1>3, <2>2
  <2>3. QED
    BY <2>1, <2>2 DEF Inv, NoForgottenTouch
<1>6. TimerBound' /\ OnlyLazyTouched' /\ TouchedStaysOpen'
  BY <1>2 DEF Inv, TimerBound, OnlyLazyTouched, TouchedStaysOpen
<1>7. QED
  BY <1>4, <1>5, <1>6 DEF Inv

(***************************************************************************)
(* An expiry closes its key only when the last touch is a grace period     *)
(* ago, and then every timer of the key has ended.                         *)
(***************************************************************************)
LEMMA HandleExpiryKeeps ==
  ASSUME Inv, HandleExpiry
  PROVE  Inv'
<1> DEFINE k == Head(expiryQ)
<1>1. GRACE \in Nat \ {0} /\ NoTouch \notin Nat /\ timers \subseteq Timer
      /\ lastTouch \in [Key -> (0 .. GRACE) \cup {NoTouch}] /\ expiryQ \in Seq(Key)
      /\ expiryQ # <<>> /\ expiryQ' = Tail(expiryQ)
      /\ UNCHANGED <<page, views, edits, appQ, timers, touches, opened, closed>>
  BY SubscriptionAssumption DEF Inv, TypeOK, HandleExpiry
<1>2. k \in Key /\ expiryQ' \in Seq(Key) /\ Len(expiryQ') = Len(expiryQ) - 1
      /\ \A i \in 1 .. Len(expiryQ) :
           expiryQ[i] # k => \E j \in 1 .. Len(expiryQ') : expiryQ'[j] = expiryQ[i]
  BY <1>1, TailKeeps
<1>3. \/ /\ lastTouch[k] = GRACE
         /\ handles' = handles \ {k} /\ lastTouch' = [lastTouch EXCEPT ![k] = NoTouch]
      \/ lastTouch[k] # GRACE /\ UNCHANGED <<handles, lastTouch>>
  BY DEF HandleExpiry, StillIdle
<1>4. \A j \in Key : /\ lastTouch'[j] # NoTouch => lastTouch'[j] = lastTouch[j]
                     /\ j # k => lastTouch'[j] = lastTouch[j]
                     /\ j = k /\ lastTouch'[j] # NoTouch => lastTouch[j] # GRACE
  BY <1>1, <1>2, <1>3
<1>5. TypeOK'
  <2>1. lastTouch' \in [Key -> (0 .. GRACE) \cup {NoTouch}] /\ handles' \subseteq Key
    BY <1>1, <1>3 DEF Inv, TypeOK
  <2>2. Len(expiryQ') <= EXPIRY_CAP
    BY <1>1, <1>2, SubscriptionAssumption DEF Inv, TypeOK
  <2>3. QED
    BY <1>1, <1>2, <2>1, <2>2 DEF Inv, TypeOK
<1>6. NoForgottenTouch'
  <2> SUFFICES ASSUME NEW j \in Key, lastTouch'[j] # NoTouch
               PROVE  \/ \E t \in timers : t.key = j /\ t.left = GRACE - lastTouch'[j]
                      \/ /\ lastTouch'[j] = GRACE
                         /\ \E i \in 1 .. Len(expiryQ') : expiryQ'[i] = j
    BY <1>1 DEF NoForgottenTouch
  <2>1. lastTouch[j] = lastTouch'[j] /\ (j = k => lastTouch[j] # GRACE)
    BY <1>4
  <2>2. CASE \E t \in timers : t.key = j /\ t.left = GRACE - lastTouch[j]
    BY <2>1, <2>2
  <2>3. CASE lastTouch[j] = GRACE /\ \E i \in 1 .. Len(expiryQ) : expiryQ[i] = j
    <3>1. PICK i \in 1 .. Len(expiryQ) : expiryQ[i] = j
      BY <2>3
    <3>2. expiryQ[i] # k
      BY <2>1, <2>3, <3>1
    <3>3. QED
      BY <1>2, <2>1, <2>3, <3>1, <3>2
  <2>4. QED
    BY <2>1, <2>2, <2>3 DEF Inv, NoForgottenTouch
<1>7. ASSUME lastTouch[k] = GRACE, NEW t \in timers, t.left > 0
      PROVE  t.key # k
  <2>1. t.left \in Nat /\ t.left <= GRACE - lastTouch[t.key]
    BY <1>1, <1>7 DEF Inv, TimerBound, Timer
  <2>2. QED
    BY <1>1, <1>7, <2>1
<1>8. TimerBound'
  <2> SUFFICES ASSUME NEW t \in timers, t.left > 0
               PROVE  lastTouch'[t.key] # NoTouch /\ t.left <= GRACE - lastTouch'[t.key]
    BY <1>1 DEF TimerBound
  <2>1. t.key \in Key
    BY <1>1 DEF Timer
  <2>2. lastTouch'[t.key] = lastTouch[t.key]
    BY <1>3, <1>4, <1>7, <2>1
  <2>3. QED
    BY <2>2 DEF Inv, TimerBound
<1>9. OnlyLazyTouched'
  BY <1>1, <1>3, SubscriptionAssumption DEF Inv, OnlyLazyTouched
<1>10. TouchedStaysOpen'
  <2>1. ASSUME lastTouch[k] = GRACE
        PROVE  k \notin OwnKeys
    BY <1>1, <2>1 DEF Inv, OnlyLazyTouched
  <2>2. opened \subseteq OwnKeys
    BY DEF Inv, TypeOK
  <2>3. QED
    BY <1>1, <1>3, <1>7, <2>1, <2>2 DEF Inv, TouchedStaysOpen
<1>11. QED
  BY <1>5, <1>6, <1>8, <1>9, <1>10 DEF Inv

\* What users do on pages reaches the SDK thread through messages only.
LEMMA PageStepKeeps ==
  ASSUME Inv, NEW k \in Key, OpenPage(k) \/ HidePage(k) \/ ShowAgain(k) \/ EditOnPage(k)
  PROVE  Inv'
<1>1. UNCHANGED sdkVars
  BY DEF OpenPage, HidePage, ShowAgain, EditOnPage
<1>2. page' \in [Key -> {"closed", "shown", "covered"}] /\ views' \in Nat /\ edits' \in Nat
  <2>1. page \in [Key -> {"closed", "shown", "covered"}] /\ views \in Nat /\ edits \in Nat
    BY DEF Inv, TypeOK
  <2>2. CASE OpenPage(k)
    BY <2>1, <2>2 DEF OpenPage
  <2>3. CASE HidePage(k)
    <3>1. PICK s \in {"closed", "covered"} : page' = [page EXCEPT ![k] = s]
      BY <2>3 DEF HidePage
    <3>2. QED
      BY <2>1, <2>3, <3>1 DEF HidePage
  <2>4. CASE ShowAgain(k)
    BY <2>1, <2>4 DEF ShowAgain
  <2>5. CASE EditOnPage(k)
    BY <2>1, <2>5 DEF EditOnPage
  <2>6. QED
    BY <2>2, <2>3, <2>4, <2>5
<1>3. \A kind \in {"presence", "touch", "publish"} : [kind |-> kind, key |-> k] \in AppMsg
  BY DEF AppMsg
<1>4. appQ' \in Seq(AppMsg)
  <2>1. CASE OpenPage(k)
    <3>1. <<[kind |-> "presence", key |-> k], [kind |-> "touch", key |-> k]>> \in Seq(AppMsg)
      BY <1>3
    <3>2. QED
      BY <2>1, <3>1, ConcatProperties DEF OpenPage, Inv, TypeOK
  <2>2. CASE HidePage(k)
    BY <2>2, <1>3, AppendProperties DEF HidePage, Inv, TypeOK
  <2>3. CASE ShowAgain(k)
    BY <2>3 DEF ShowAgain, Inv, TypeOK
  <2>4. CASE EditOnPage(k)
    BY <2>4, <1>3, AppendProperties DEF EditOnPage, Inv, TypeOK
  <2>5. QED
    BY <2>1, <2>2, <2>3, <2>4
<1>5. TypeOK'
  BY <1>1, <1>2, <1>4 DEF Inv, TypeOK, sdkVars
<1>6. QED
  BY <1>1, <1>5, OpeningKeeps DEF sdkVars

\* Every step, and every step that changes nothing, keeps the invariant.
LEMMA NextInv == Inv /\ [Next]_vars => Inv'
<1> SUFFICES ASSUME Inv, [Next]_vars
             PROVE  Inv'
  OBVIOUS
<1>1. CASE HandleAppMsg
  BY <1>1, HandleAppMsgKeeps
<1>2. CASE Tick
  BY <1>2, TickKeeps
<1>3. CASE FireTimer
  BY <1>3, TimerFiresKeeps DEF FireTimer
<1>4. CASE HandleExpiry
  BY <1>4, HandleExpiryKeeps
<1>5. ASSUME NEW k \in Key, OpenPage(k) \/ HidePage(k) \/ ShowAgain(k) \/ EditOnPage(k)
      PROVE  Inv'
  BY <1>5, PageStepKeeps
<1>6. ASSUME NEW k \in Key, Subscribe(k)
      PROVE  Inv'
  BY <1>6, SubscribeKeeps
<1>7. ASSUME NEW k \in Key, Unsubscribe(k)
      PROVE  Inv'
  BY <1>7, UnsubscribeKeeps
<1>8. CASE UNCHANGED vars
  <2>1. TypeOK'
    BY <1>8 DEF vars, sdkVars, Inv, TypeOK
  <2>2. QED
    BY <1>8, <2>1, OpeningKeeps DEF vars, sdkVars
<1>9. QED
  BY <1>1, <1>2, <1>3, <1>4, <1>5, <1>6, <1>7, <1>8 DEF Next

(***************************************************************************)
(* The inductive invariant of the SDK thread's tables: entries, timers and *)
(* expiries correspond.                                                    *)
(***************************************************************************)
THEOREM SubscriptionInvariance == Spec => []Inv
<1>1. QED
  BY InitInv, NextInv, PTL DEF Spec

\* Every touch is followed by a re-check of its key.
THEOREM NoTouchForgotten == Spec => []NoForgottenTouch
<1>1. Inv => NoForgottenTouch
  BY DEF Inv
<1>2. QED
  BY <1>1, SubscriptionInvariance, PTL

\* Timers of earlier touches, and those of other keys, close nothing too early.
THEOREM NothingClosedEarly == Spec => []TouchedStaysOpen
<1>1. Inv => TouchedStaysOpen
  BY DEF Inv
<1>2. QED
  BY <1>1, SubscriptionInvariance, PTL

\* Types: the expiry channel never holds more than its capacity, and no age of a
\* touch exceeds the grace period.
THEOREM SubscriptionTypes == Spec => []TypeOK
<1>1. Inv => TypeOK
  BY DEF Inv
<1>2. QED
  BY <1>1, SubscriptionInvariance, PTL

-----------------------------------------------------------------------------
(***************************************************************************)
(* angular_separation is the shorter arc: it lies in 0..180, does not      *)
(* depend on the order of the bodies (so two peers find the same aspects), *)
(* and whole turns do not matter.                                          *)
(***************************************************************************)
THEOREM SeparationIsArc ==
  ASSUME NEW a \in Int, NEW b \in Int, NEW k \in Int
  PROVE  /\ AngularSeparation(a, b) \in 0 .. 180
         /\ AngularSeparation(a, b) = AngularSeparation(b, a)
         /\ AngularSeparation(a + 360 * k, b) = AngularSeparation(a, b)
<1>1. AngularSeparation(a, b) \in 0 .. 180
  BY DEF AngularSeparation, Norm
<1>2. AngularSeparation(a, b) = AngularSeparation(b, a)
  BY DEF AngularSeparation, Norm
<1>3. (b - (a + 360 * k)) % 360 = (b - a) % 360
  OBVIOUS
<1>4. AngularSeparation(a + 360 * k, b) = AngularSeparation(a, b)
  BY <1>3 DEF AngularSeparation, Norm
<1>5. QED
  BY <1>1, <1>2, <1>4

\* What compute_cross holds of one pair of planets.
LEMMA CrossMembers ==
  ASSUME NEW f \in [Planet -> Int], NEW g \in [Planet -> Int],
         NEW p \in Planet, NEW q \in Planet, NEW kind
  PROVE  [a |-> p, b |-> q, kind |-> kind] \in ComputeCross(f, g) <=>
           /\ kind = DetectAspect(AngularSeparation(f[p], g[q]))
           /\ kind # None
<1> DEFINE Kind(x, y) == DetectAspect(AngularSeparation(f[x], g[y]))
           r == [a |-> p, b |-> q, kind |-> kind]
<1>1. DOMAIN f = Planet /\ DOMAIN g = Planet
  OBVIOUS
<1>2. r \in ComputeCross(f, g) <=>
        \E x \in Planet, y \in Planet : r = [a |-> x, b |-> y, kind |-> Kind(x, y)] /\ r.kind # None
  <2> DEFINE All == {[a |-> x, b |-> y, kind |-> Kind(x, y)] : x \in Planet, y \in Planet}
  <2>1. ComputeCross(f, g) = {e \in All : e.kind # None}
    BY <1>1 DEF ComputeCross
  <2>2. r \in All <=> \E x \in Planet, y \in Planet : r = [a |-> x, b |-> y, kind |-> Kind(x, y)]
    OBVIOUS
  <2> HIDE DEF All, r, Kind
  <2>3. QED
    BY <2>1, <2>2
<1>3. r.a = p /\ r.b = q /\ r.kind = kind
  OBVIOUS
<1> HIDE DEF Kind
<1>4. \A x \in Planet, y \in Planet :
        r = [a |-> x, b |-> y, kind |-> Kind(x, y)] <=> x = p /\ y = q /\ kind = Kind(x, y)
  OBVIOUS
<1> HIDE DEF r
<1>5. r \in ComputeCross(f, g) <=> kind = Kind(p, q) /\ kind # None
  BY <1>2, <1>3, <1>4
<1>6. QED
  BY <1>5 DEF Kind, r

(***************************************************************************)
(* A peer finds the same aspects between the two charts: ComputeCross the  *)
(* other way round holds the same pairs with the same kinds.               *)
(***************************************************************************)
THEOREM SynastryIsSymmetric ==
  ASSUME NEW from \in [Planet -> Int], NEW onto \in [Planet -> Int],
         NEW p \in Planet, NEW q \in Planet, NEW kind
  PROVE  [a |-> p, b |-> q, kind |-> kind] \in ComputeCross(from, onto) <=>
         [a |-> q, b |-> p, kind |-> kind] \in ComputeCross(onto, from)
<1>1. AngularSeparation(from[p], onto[q]) = AngularSeparation(onto[q], from[p])
  <2>1. from[p] \in Int /\ onto[q] \in Int /\ 0 \in Int
    OBVIOUS
  <2>2. QED
    BY <2>1, SeparationIsArc
<1> DEFINE K == DetectAspect(AngularSeparation(from[p], onto[q]))
<1>2. [a |-> p, b |-> q, kind |-> kind] \in ComputeCross(from, onto) <=> kind = K /\ K # None
  BY CrossMembers
<1>3. [a |-> q, b |-> p, kind |-> kind] \in ComputeCross(onto, from) <=> kind = K /\ K # None
  BY <1>1, CrossMembers
<1>4. QED
  BY <1>2, <1>3

-----------------------------------------------------------------------------
\* Min, which the models of `find` use, returns the first of the indices that match.
LEMMA FirstOfAll ==
  ASSUME NEW S, NEW i \in Int, i \in S, \A j \in S : j \in Int /\ i <= j
  PROVE  Min(S) = i
<1> DEFINE First(x) == \A y \in S : x <= y
<1>1. First(i)
  OBVIOUS
<1>2. \A x \in S : First(x) => x = i
  OBVIOUS
<1>3. Min(S) = CHOOSE x \in S : First(x)
  BY DEF Min
<1> HIDE DEF First
<1>4. QED
  BY <1>1, <1>2, <1>3

(***************************************************************************)
(* The orbs of two kinds of aspect do not meet, not even widened by 5      *)
(* degrees, so `find` in the table of aspects does not depend on its order *)
(* and what it returns is the one kind within orb.                         *)
(***************************************************************************)
THEOREM AspectIsUnique ==
  ASSUME NEW sep \in 0 .. 180, NEW w \in 0 .. 5, NEW i \in DOMAIN ASPECTS, InOrb(sep, ASPECTS[i], w)
  PROVE  FirstWithin(sep, w) = ASPECTS[i]
<1>1. \A j \in DOMAIN ASPECTS : InOrb(sep, ASPECTS[j], w) => j = i
  BY DEF ASPECTS, Angle, Orb, InOrb, Abs
<1> DEFINE hits == {j \in DOMAIN ASPECTS : InOrb(sep, ASPECTS[j], w)}
<1>2. i \in Int /\ i \in hits /\ \A j \in hits : j \in Int /\ i <= j
  BY <1>1 DEF ASPECTS
<1>3. hits # {}
  BY <1>2
<1>4. Min(hits) = i
  <2> HIDE DEF hits
  <2>1. QED
    BY <1>2, FirstOfAll
<1>5. QED
  BY <1>3, <1>4 DEF FirstWithin

-----------------------------------------------------------------------------
(***************************************************************************)
(* Houses through 0 degrees: with equal houses every longitude lies in the *)
(* house it is ahead of by less than 30 degrees, whichever cusp is past    *)
(* the wrap; with whole signs the house counts signs from the ascendant's. *)
(***************************************************************************)
THEOREM EqualHouseIsArc ==
  ASSUME NEW asc \in Int, NEW lon \in Int
  PROVE  HouseOf(EqualHouseCusps(asc), lon) = (((lon - asc) % 360) \div 30) + 1
<1> DEFINE x == Norm(lon)
           d == (lon - asc) % 360
           i == (d \div 30) + 1
           cusps == EqualHouseCusps(asc)
           Contains(j) == LET end == cusps[(j % 12) + 1] IN
                          IF cusps[j] < end THEN x >= cusps[j] /\ x < end
                                            ELSE x >= cusps[j] \/ x < end
           inside == {j \in 1 .. 12 : Contains(j)}
<1>1. x \in 0 .. 359 /\ d \in 0 .. 359 /\ i \in 1 .. 12
  BY DEF Norm
<1> DEFINE a == asc % 360
<1>2. a \in 0 .. 359 /\ (d = x - a \/ d = x - a + 360)
  BY DEF Norm
<1>3. \A j \in 1 .. 12 : /\ cusps[j] = (a + 30 * (j - 1)) % 360
                         /\ cusps[j] \in {a + 30 * (j - 1), a + 30 * (j - 1) - 360}
                         /\ cusps[j] \in 0 .. 359
  BY DEF EqualHouseCusps, Norm
<1>4. \A j \in 1 .. 12 : Contains(j) <=> d >= 30 * (j - 1) /\ d < 30 * j
  <2> SUFFICES ASSUME NEW j \in 1 .. 12
               PROVE  Contains(j) <=> d >= 30 * (j - 1) /\ d < 30 * j
    BY SMTT(60)
  <2> DEFINE start == cusps[j]
             end == cusps[(j % 12) + 1]
  <2>1. start \in 0 .. 359 /\ start \in {a + 30 * (j - 1), a + 30 * (j - 1) - 360}
    BY <1>3
  <2>2. end \in 0 .. 359 /\ end \in {a + 30 * j, a + 30 * j - 360}
    <3>1. CASE j < 12
      <4>1. (j % 12) + 1 = j + 1 /\ j + 1 \in 1 .. 12
        BY <3>1
      <4> HIDE DEF cusps, a
      <4>2. QED
        BY <1>2, <1>3, <4>1
    <3>2. CASE j = 12
      <4>1. (j % 12) + 1 = 1 /\ 1 \in 1 .. 12
        BY SMTT(60), <3>2
      <4>2. cusps[1] \in {a + 30 * (1 - 1), a + 30 * (1 - 1) - 360} /\ cusps[1] \in 0 .. 359
        BY <1>3, <4>1
      <4>3. end = cusps[1] /\ 30 * j = 360
        BY <3>2, <4>1
      <4> HIDE DEF cusps, a, end
      <4>4. QED
        BY <1>2, <4>2, <4>3
    <3>3. QED
      BY SMTT(60), <3>1, <3>2
  <2>3. Contains(j) <=> IF start < end THEN x >= start /\ x < end ELSE x >= start \/ x < end
    OBVIOUS
  <2> HIDE DEF start, end, Contains, x, d, a, cusps, i, inside
  <2>4. /\ d = x - a \/ d = x - a + 360
        /\ start = a + 30 * (j - 1) \/ start = a + 30 * (j - 1) - 360
        /\ end = a + 30 * j \/ end = a + 30 * j - 360
    BY <1>2, <2>1, <2>2
  <2>5. (IF start < end THEN x >= start /\ x < end ELSE x >= start \/ x < end)
          <=> d >= 30 * (j - 1) /\ d < 30 * j
    <3>1. CASE start < end
      BY <1>1, <1>2, <2>1, <2>2, <2>4, <3>1
    <3>2. CASE ~ (start < end)
      BY <1>1, <1>2, <2>1, <2>2, <2>4, <3>2
    <3>3. QED
      BY <3>1, <3>2
  <2>6. QED
    BY <2>3, <2>5
<1>5. i \in inside /\ \A j \in inside : j \in Int /\ i <= j
  BY <1>1, <1>4
<1>6. Min(inside) = i
  <2>1. i \in Int
    BY <1>1
  <2> HIDE DEF inside, i
  <2>2. QED
    BY <1>5, <2>1, FirstOfAll
<1>7. QED
  BY SMTT(60), <1>5, <1>6 DEF HouseOf

-----------------------------------------------------------------------------
(***************************************************************************)
(* The moon's phase is the eighth of the circle the moon is ahead of the   *)
(* sun, each centred on its name: the chain of comparisons leaves no gap.  *)
(***************************************************************************)
THEOREM PhaseIsEighth ==
  ASSUME NEW sun \in Int, NEW moon \in Int
  PROVE  PhaseFromLongitudes(sun, moon) = PHASES[((2 * ((moon - sun) % 360) + 45) \div 90) + 1]
<1> DEFINE d == (moon - sun) % 360
           n == ((2 * d + 45) \div 90) + 1
           below == {k \in 1 .. 8 : 2 * d < 90 * k - 45}
<1>1. d \in 0 .. 359 /\ n \in 1 .. 9
  OBVIOUS
<1>2. \A k \in 1 .. 8 : k \in below <=> k >= n
  BY <1>1
<1>3. CASE n = 9
  <2>1. below = {}
    BY <1>1, <1>2, <1>3
  <2>2. QED
    BY <1>3, <2>1 DEF PhaseFromLongitudes, Norm
<1>4. CASE n # 9
  <2>1. n \in Int /\ n \in below /\ \A k \in below : k \in Int /\ n <= k
    BY <1>1, <1>2, <1>4
  <2>2. Min(below) = n
    <3> HIDE DEF below, n
    <3>1. QED
      BY <2>1, FirstOfAll
  <2>3. below # {} /\ PhaseFromLongitudes(sun, moon)
                       = IF below = {} THEN PHASES[9] ELSE PHASES[Min(below)]
    BY <2>1 DEF PhaseFromLongitudes, Norm
  <2>4. PhaseFromLongitudes(sun, moon) = PHASES[n]
    <3> HIDE DEF below, n
    <3>1. QED
      BY <2>2, <2>3
  <2>5. QED
    BY <2>4
<1>5. QED
  BY <1>3, <1>4

-----------------------------------------------------------------------------
(***************************************************************************)
(* Two charts of which a personal planet of one is exactly in aspect with  *)
(* a personal planet of the other meet on a topic besides the global one.  *)
(***************************************************************************)
THEOREM ExactAspectsMeet ==
  ASSUME NEW mine \in [Planet -> Int], NEW theirs \in [Planet -> Int],
         NEW p \in PERSONAL_PLANETS, NEW q \in PERSONAL_PLANETS,
         (theirs[q] - mine[p]) % 360 \in ASPECT_OFFSETS
  PROVE  TopicKeysForChart(mine) \cap TopicKeysForChart(theirs) # {}
<1>1. p \in Planet /\ q \in Planet /\ DOMAIN mine = Planet /\ DOMAIN theirs = Planet
  BY DEF PERSONAL_PLANETS, Planet, Planets
<1> DEFINE o == (theirs[q] - mine[p]) % 360
<1>2. mine[p] \in Int /\ theirs[q] \in Int
  BY <1>1
<1>3. (mine[p] + o) % 360 = (theirs[q] + 0) % 360
  BY <1>2
<1>4. DegreeBucket(mine[p] + o) = DegreeBucket(theirs[q] + 0)
  BY <1>3 DEF DegreeBucket, Norm
<1>5. 0 \in ASPECT_OFFSETS
  BY DEF ASPECT_OFFSETS
<1>6. DegreeBucket(mine[p] + o) \in TopicKeysForChart(mine)
  BY <1>1 DEF TopicKeysForChart
<1>7. DegreeBucket(theirs[q] + 0) \in TopicKeysForChart(theirs)
  BY <1>1, <1>5 DEF TopicKeysForChart
<1>8. QED
  BY <1>4, <1>6, <1>7

-----------------------------------------------------------------------------
(***************************************************************************)
(* The civil dates of the Gregorian calendar.                              *)
(***************************************************************************)
\* From the first year that is Gregorian throughout.
CivilDate(y, m, d) == y \in Nat /\ y >= 1583 /\ m \in 1 .. 12 /\ d \in 1 .. DaysInMonth(y, m)

\* The year from March to February, its months 3..14, and the days before
\* month m of it, 122 of which belong to no month.
MarchYear(y, m) == IF m <= 2 THEN y - 1 ELSE y
MarchMonth(m) == IF m <= 2 THEN m + 12 ELSE m
Offset(m) == (306001 * (m + 1)) \div 10000
\* The days that the leading terms of both directions count.
Count(y, m, d) == ((1461 * (y + 4716)) \div 4) + Offset(m) + d

(***************************************************************************)
(* The month table hidden in 30.6001.                                      *)
(***************************************************************************)
LEMMA OffsetTable ==
  /\ Offset(3) = 122 /\ Offset(4) = 153 /\ Offset(5) = 183 /\ Offset(6) = 214
  /\ Offset(7) = 244 /\ Offset(8) = 275 /\ Offset(9) = 306 /\ Offset(10) = 336
  /\ Offset(11) = 367 /\ Offset(12) = 397 /\ Offset(13) = 428 /\ Offset(14) = 459
  BY DEF Offset

\* 30.6001 finds the month a day of the year from March is in.
LEMMA MonthOfDay ==
  ASSUME NEW m \in 3 .. 14, NEW d \in 1 .. 31,
         d <= 30 \/ m \in {3, 5, 7, 8, 10, 12, 13}
  PROVE  (10000 * (Offset(m) + d)) \div 306001 = m + 1
<1>1. CASE m \in {3, 4, 5}
  BY <1>1, OffsetTable
<1>2. CASE m \in {6, 7, 8}
  BY <1>2, OffsetTable
<1>3. CASE m \in {9, 10, 11}
  BY <1>3, OffsetTable
<1>4. CASE m \in {12, 13, 14}
  BY <1>4, OffsetTable
<1>5. QED
  BY <1>1, <1>2, <1>3, <1>4

\* A date counted from March: d fits m, and the last day of February needs a
\* leap year.
LEMMA MarchDate ==
  ASSUME NEW y, NEW m, NEW d, CivilDate(y, m, d)
  PROVE  LET yy == MarchYear(y, m)
             mm == MarchMonth(m)
         IN  /\ yy \in Nat /\ yy >= 1582 /\ (yy = 1582 => mm >= 13)
             /\ mm \in 3 .. 14 /\ d \in 1 .. 31
             /\ d <= 30 \/ mm \in {3, 5, 7, 8, 10, 12, 13}
             /\ mm = 14 => d <= 28 \/ (d = 29 /\ LeapYear(yy + 1))
             /\ Offset(mm) + d \in 123 .. 488
             /\ Offset(mm) + d = 488 => LeapYear(yy + 1)
<1> DEFINE yy == MarchYear(y, m)
           mm == MarchMonth(m)
<1>1. /\ y \in Nat /\ y >= 1583 /\ m \in 1 .. 12 /\ d \in 1 .. DaysInMonth(y, m)
  BY DEF CivilDate
<1>2. /\ yy \in Nat /\ yy >= 1582 /\ (yy = 1582 => mm >= 13)
      /\ mm \in 3 .. 14 /\ (mm = 14 => m = 2 /\ y = yy + 1)
  BY <1>1 DEF MarchYear, MarchMonth
<1>3. /\ d \in 1 .. 31 /\ (d <= 30 \/ mm \in {3, 5, 7, 8, 10, 12, 13})
      /\ m = 2 => d <= 28 \/ (d = 29 /\ LeapYear(y))
  BY <1>1 DEF DaysInMonth, MarchMonth
<1>4. Offset(mm) + d \in 123 .. 488 /\ (Offset(mm) + d = 488 => mm = 14 /\ d = 29)
  <2>1. CASE mm \in 3 .. 8
    BY <1>3, <2>1, OffsetTable
  <2>2. CASE mm \in 9 .. 14
    BY <1>2, <1>3, <2>2, OffsetTable
  <2>3. QED
    BY <1>2, <2>1, <2>2
<1>5. QED
  BY <1>2, <1>3, <1>4

\* The day number, and what GregorianToJdn makes of the hour.
DayNumber(y, m, d) ==
  LET a == MarchYear(y, m) \div 100
  IN  Count(MarchYear(y, m), MarchMonth(m), d) + 2 - a + (a \div 4) - 1524

\* Rounding to midnight gives the day number, whatever the hour.
LEMMA NumberOfDate ==
  ASSUME NEW y \in Nat, NEW m \in 1 .. 12, NEW d \in Nat, NEW h \in 0 .. DAY - 1
  PROVE  /\ DayNumber(y, m, d) \in Int
         /\ (GregorianToJdn(y, m, d, h) + (DAY \div 2)) \div DAY = DayNumber(y, m, d)
<1> DEFINE yy == MarchYear(y, m)
           mm == MarchMonth(m)
           q == (1461 * (yy + 4716)) \div 4
           o == Offset(mm)
           a == yy \div 100
           f == a \div 4
           b == 2 - a + f
<1>1. yy \in Int /\ mm \in Int
  BY DEF MarchYear, MarchMonth
<1>2. q \in Int /\ o \in Int /\ a \in Int /\ f \in Int
  BY SMT, <1>1 DEF Offset
<1>3. GregorianToJdn(y, m, d, h) = DAY * (q + o + d + b) - 30490 + h
  BY DEF GregorianToJdn, MarchYear, MarchMonth, Offset
<1>4. DayNumber(y, m, d) = q + o + d + b - 1524
  BY SMT, <1>2 DEF DayNumber, Count
<1> HIDE DEF q, o, a, f
<1>5. QED
  BY SMT, <1>2, <1>3, <1>4 DEF DAY

\* A year and its century, and the leap days before it.
LEMMA Divided ==
  ASSUME NEW n \in Nat, NEW k \in {4, 100}
  PROVE  /\ n \div k \in Nat /\ n % k \in 0 .. k - 1
         /\ n = k * (n \div k) + (n % k)
<1>1. CASE k = 4
  BY SMT, <1>1
<1>2. CASE k = 100
  BY SMT, <1>2
<1>3. QED
  BY SMT, <1>1, <1>2

\* The days of the years of a century.
LEMMA YearTerm ==
  ASSUME NEW a \in Nat, NEW r \in 0 .. 99
  PROVE  LET t == (1461 * r) \div 4
         IN  /\ t \in Nat /\ 4 * t <= 1461 * r /\ 4 * t >= 1461 * r - 3
             /\ (1461 * (100 * a + r + 4716)) \div 4 = 36525 * a + 1722519 + t
  BY SMT

\* The last year of a century is followed by a leap year only every 400 years.
LEMMA CenturyLeap ==
  ASSUME NEW a \in Nat, LeapYear(100 * a + 99 + 1)
  PROVE  a % 4 = 3
<1>1. 100 * a + 99 + 1 = 100 * (a + 1)
  BY SMT
<1>2. (100 * (a + 1)) % 100 = 0
  BY SMT
<1>3. (100 * (a + 1)) % 400 = 0
  BY SMT, <1>1, <1>2 DEF LeapYear
<1>4. QED
  BY SMT, <1>3

\* 146097 days are 400 years, in quarters of a day a century.
LEMMA Quotient ==
  ASSUME NEW x \in Int, NEW e \in Int, e >= 0, e < 146097, NEW w \in Int, w = 146097 * x + e
  PROVE  w \div 146097 = x
  BY SMT

\* The first term of jdn_to_gregorian finds the century of a civil date.
LEMMA CenturyOfDay ==
  ASSUME NEW y, NEW m, NEW d, CivilDate(y, m, d)
  PROVE  LET z == DayNumber(y, m, d)
         IN  /\ z \in Int /\ z >= 2299161
             /\ (4 * z - 7468865) \div 146097 = (MarchYear(y, m) \div 100) - 4
<1> DEFINE yy == MarchYear(y, m)
           n == Offset(MarchMonth(m)) + d
           a == yy \div 100
           r == yy % 100
           f == a \div 4
           s == a % 4
           t == (1461 * r) \div 4
           z == DayNumber(y, m, d)
<1>1. /\ yy \in Nat /\ yy >= 1582 /\ n \in 123 .. 488
      /\ n = 488 => LeapYear(yy + 1)
      /\ MarchMonth(m) \in 3 .. 14 /\ (yy = 1582 => MarchMonth(m) >= 13) /\ d \in 1 .. 31
  BY SMT, MarchDate
<1>2. yy = 1582 => n >= 428
  BY SMT, <1>1, OffsetTable
<1>3. a \in Nat /\ r \in 0 .. 99 /\ yy = 100 * a + r
  BY SMT, <1>1, Divided
<1>4. f \in Nat /\ s \in 0 .. 3 /\ a = 4 * f + s
  BY SMT, <1>3, Divided
<1>5. n = 488 => r # 99 \/ s = 3
  <2> HIDE DEF yy, a, r, n
  <2>1. QED
    BY SMT, <1>1, <1>3, CenturyLeap
<1>6. /\ t \in Nat /\ 4 * t <= 1461 * r /\ 4 * t >= 1461 * r - 3
      /\ (1461 * (yy + 4716)) \div 4 = 36525 * a + 1722519 + t
  <2>1. yy + 4716 = 100 * a + r + 4716
    BY SMT, <1>3
  <2> HIDE DEF yy, a, r
  <2>2. QED
    BY SMT, <1>3, <2>1, YearTerm
<1>7. z = 36525 * a + 1722519 + t + n + 2 - a + f - 1524
  <2>1. z = (1461 * (yy + 4716)) \div 4 + Offset(MarchMonth(m)) + d + 2 - a + f - 1524
    BY DEF DayNumber, Count
  <2>2. Offset(MarchMonth(m)) \in Int /\ d \in Int
    BY SMT, <1>1, OffsetTable
  <2> DEFINE o == Offset(MarchMonth(m))
  <2>3. n = o + d
    BY SMT
  <2> HIDE DEF yy, n, a, r, f, s, t, z, o
  <2>4. QED
    BY SMT, <1>3, <1>4, <1>6, <2>1, <2>2, <2>3 DEF o
<1> HIDE DEF yy, n, a, r, f, s, t, z
<1>8. a >= 16 \/ (a = 15 /\ r >= 83) \/ (a = 15 /\ r = 82 /\ n >= 428)
  BY SMT, <1>1, <1>2, <1>3
<1>9. z >= 2299161
  <2>1. CASE a >= 16
    BY SMT, <1>1, <1>3, <1>4, <1>6, <1>7, <2>1
  <2>2. CASE a = 15 /\ r >= 83
    BY SMT, <1>1, <1>3, <1>4, <1>6, <1>7, <2>2
  <2>3. CASE a = 15 /\ r = 82 /\ n >= 428
    BY SMT, <1>1, <1>3, <1>4, <1>6, <1>7, <2>3
  <2>4. QED
    BY SMT, <1>8, <2>1, <2>2, <2>3
<1>10. (4 * z - 7468865) \div 146097 = a - 4
  <2> DEFINE e == 4 * t + 4 * n - s - 489
             w == 4 * z - 7468865
  <2>1. e \in Int /\ e >= 0
    BY SMT, <1>1, <1>3, <1>4, <1>6
  <2>2. e < 146097
    <3>1. CASE r <= 98
      <4>1. 4 * t <= 143178
        BY SMT, <1>3, <1>6, <3>1
      <4>2. QED
        BY SMT, <1>1, <1>4, <1>6, <4>1
    <3>2. CASE r = 99
      <4>1. 4 * t <= 144636
        BY SMT, <1>6, <3>2
      <4>2. 4 * n - s <= 1949
        BY SMT, <1>1, <1>4, <1>5, <3>2
      <4>3. QED
        BY SMT, <1>1, <1>4, <1>6, <4>1, <4>2
    <3>3. QED
      BY SMT, <1>3, <3>1, <3>2
  <2>3. w = 146097 * (a - 4) + e /\ w \in Int /\ a - 4 \in Int
    BY SMT, <1>1, <1>3, <1>4, <1>6, <1>7
  <2> HIDE DEF e, w
  <2>4. w \div 146097 = a - 4
    BY SMT, <2>1, <2>2, <2>3, Quotient
  <2>5. QED
    BY SMT, <2>4 DEF w
<1>11. z \in Int
  BY SMT, <1>1, <1>3, <1>4, <1>6, <1>7
<1>12. QED
  BY SMT, <1>9, <1>10, <1>11 DEF a, z, yy

\* What is left once the century is known: the year, then the month.
LEMMA YearOfDay ==
  ASSUME NEW yy \in Nat, NEW n \in 123 .. 488, n = 488 => LeapYear(yy + 1)
  PROVE  LET q == (1461 * (yy + 4716)) \div 4
         IN  q \in Nat /\ (20 * (q + n) - 2442) \div 7305 = yy + 4716
<1> DEFINE c == yy + 4716
           q == (1461 * c) \div 4
           s == c % 4
<1>1. c \in Nat /\ s \in 0 .. 3 /\ q \in Nat
  BY SMT
<1>2. 4 * q = 1461 * c - s
  BY SMT
<1>3. n = 488 => s = 3
  <2>1. n = 488 => (yy + 1) % 4 = 0
    BY SMT DEF LeapYear
  <2>2. QED
    BY SMT, <2>1
<1> HIDE DEF c, q, s
<1> DEFINE w == 20 * (q + n) - 2442
<1>4. w \in Int /\ w >= 7305 * c /\ w < 7305 * c + 7305
  BY SMT, <1>1, <1>2, <1>3
<1> HIDE DEF w
<1>5. w \div 7305 = c
  BY SMT, <1>1, <1>4
<1>6. QED
  BY SMT, <1>1, <1>5 DEF w, c, q

(***************************************************************************)
(* jdn_to_gregorian undoes gregorian_to_jdn: any instant of a civil date   *)
(* since 1583 is shown with that date, leap days and centuries included.   *)
(* The fractions of the two formulas are exact in the model.               *)
(***************************************************************************)
THEOREM CalendarRoundTrip ==
  ASSUME NEW y, NEW m, NEW d, CivilDate(y, m, d), NEW h \in 0 .. DAY - 1
  PROVE  JdnToGregorian(GregorianToJdn(y, m, d, h)) = [year |-> y, month |-> m, day |-> d]
<1> DEFINE jdn == GregorianToJdn(y, m, d, h)
           yy == MarchYear(y, m)
           mm == MarchMonth(m)
           n == Offset(mm) + d
           q == (1461 * (yy + 4716)) \div 4
           z == (jdn + (DAY \div 2)) \div DAY
           alpha == (4 * z - 7468865) \div 146097
           a == IF z < 2299161 THEN z ELSE z + 1 + alpha - (alpha \div 4)
           b == a + 1524
           c == (20 * b - 2442) \div 7305
           k == (1461 * c) \div 4
           e == (10000 * (b - k)) \div 306001
<1>1. y \in Nat /\ m \in 1 .. 12 /\ d \in 1 .. 31 /\ d \in Nat
  BY DEF CivilDate, DaysInMonth
<1>2. /\ yy \in Nat /\ mm \in 3 .. 14 /\ n \in 123 .. 488
      /\ n = 488 => LeapYear(yy + 1)
      /\ d <= 30 \/ mm \in {3, 5, 7, 8, 10, 12, 13}
  BY MarchDate
<1>3. z = DayNumber(y, m, d)
  BY <1>1, NumberOfDate
<1>4. z \in Int /\ z >= 2299161 /\ alpha = (yy \div 100) - 4
  BY <1>3, CenturyOfDay
<1>5. q \in Nat /\ Offset(mm) \in Int
  BY <1>2, OffsetTable, YearOfDay
<1>6. b = q + n
  <2> DEFINE g == yy \div 100
             f == g \div 4
             o == Offset(mm)
  <2>1. g \in Nat /\ f \in Nat
    BY <1>2, Divided
  <2>2. z = q + o + d + 2 - g + f - 1524
    BY <1>3 DEF DayNumber, Count
  <2>3. a = z + 1 + alpha - (alpha \div 4)
    <3> HIDE DEF z, alpha
    <3>1. QED
      BY SMT, <1>4
  <2>4. alpha = g - 4
    BY <1>4
  <2>5. n = o + d
    OBVIOUS
  <2>6. alpha \div 4 = f - 1
    <3> HIDE DEF alpha, g
    <3>1. QED
      BY SMT, <2>1, <2>4
  <2> HIDE DEF z, alpha, g, f, q, o, n, a
  <2>7. QED
    BY SMT, <1>1, <1>5, <2>1, <2>2, <2>3, <2>4, <2>5, <2>6 DEF o
<1>7. c = yy + 4716
  <2> HIDE DEF b, n, q, yy
  <2>1. (20 * (q + n) - 2442) \div 7305 = yy + 4716
    BY <1>2, YearOfDay DEF q
  <2>2. QED
    BY <1>6, <2>1
<1>8. k = q
  BY <1>7
<1>9. b - k = n
  <2> HIDE DEF b, k, n, q
  <2>1. QED
    BY SMT, <1>2, <1>5, <1>6, <1>8
<1>10. e = mm + 1
  <2>1. (10000 * n) \div 306001 = mm + 1
    <3> HIDE DEF n, mm
    <3>1. QED
      BY SMTT(60), <1>1, <1>2, MonthOfDay DEF n
  <2> HIDE DEF b, k, n, mm
  <2>2. QED
    BY <1>9, <2>1
<1>11. JdnToGregorian(jdn)
         = LET month == IF e < 14 THEN e - 1 ELSE e - 13
           IN  [year |-> IF month > 2 THEN c - 4716 ELSE c - 4715,
                month |-> month,
                day |-> b - k - ((306001 * e) \div 10000)]
  BY DEF JdnToGregorian
<1>12. b - k - ((306001 * e) \div 10000) = d
  <2>1. (306001 * e) \div 10000 = Offset(mm)
    <3> HIDE DEF e
    <3>1. QED
      BY <1>10 DEF Offset
  <2> DEFINE o == Offset(mm)
             p == (306001 * e) \div 10000
             x == b - k
  <2>2. p = o /\ n = o + d /\ x = n
    BY <1>9, <2>1
  <2>3. x - p = d
    <3> HIDE DEF p, o, n, x, mm
    <3>1. QED
      BY SMT, <1>1, <1>5, <2>2 DEF o
  <2>4. QED
    BY <2>3
<1>13. /\ (IF e < 14 THEN e - 1 ELSE e - 13) = m
       /\ (IF m > 2 THEN c - 4716 ELSE c - 4715) = y
  <2> HIDE DEF e, c
  <2>1. QED
    BY SMT, <1>1, <1>7, <1>10 DEF MarchYear, MarchMonth
<1> HIDE DEF jdn, b, c, k, e
<1>14. QED
  BY <1>11, <1>12, <1>13 DEF jdn

\* The day after a civil date.
NextDate(x) ==
  IF x.day < DaysInMonth(x.year, x.month) THEN [x EXCEPT !.day = @ + 1]
  ELSE IF x.month < 12 THEN [x EXCEPT !.month = @ + 1, !.day = 1]
  ELSE [year |-> x.year + 1, month |-> 1, day |-> 1]

\* A year has as many days as the terms in the year grow by.
LEMMA LeapSteps ==
  ASSUME NEW y \in Nat
  PROVE  LET n == y + 1
             Terms(i) == ((1461 * (i + 4716)) \div 4) - (i \div 100) + ((i \div 100) \div 4)
         IN  Terms(n) = Terms(y) + (IF LeapYear(n) THEN 366 ELSE 365)
<1> DEFINE n == y + 1
           Q(i) == (1461 * (i + 4716)) \div 4
           A(i) == i \div 100
           F(i) == (i \div 100) \div 4
<1>1. /\ Q(y) \in Int /\ Q(n) \in Int /\ A(y) \in Nat /\ A(n) \in Nat
      /\ F(y) \in Nat /\ F(n) \in Nat
  BY SMT
<1>2. Q(n) = Q(y) + (IF n % 4 = 0 THEN 366 ELSE 365)
  BY SMT
<1>3. A(n) = A(y) + (IF n % 100 = 0 THEN 1 ELSE 0)
  BY SMT
<1>4. F(n) = F(y) + (IF n % 400 = 0 THEN 1 ELSE 0)
  <2>1. F(y) = y \div 400 /\ F(n) = n \div 400
    BY SMT
  <2>2. n \div 400 = y \div 400 + (IF n % 400 = 0 THEN 1 ELSE 0)
    BY SMT
  <2>3. QED
    BY SMT, <2>1, <2>2
<1>5. (n % 400 = 0 => n % 100 = 0) /\ (n % 100 = 0 => n % 4 = 0)
  BY SMT
<1> HIDE DEF Q, A, F
<1>6. Q(n) - A(n) + F(n) = Q(y) - A(y) + F(y) + (IF LeapYear(n) THEN 366 ELSE 365)
  BY SMT, <1>1, <1>2, <1>3, <1>4, <1>5 DEF LeapYear
<1>7. QED
  BY <1>6 DEF Q, A, F

(***************************************************************************)
(* gregorian_to_jdn counts days: the day after a civil date has the next   *)
(* number, through the ends of months and years and in leap years.         *)
(***************************************************************************)
THEOREM DatesAreCounted ==
  ASSUME NEW y, NEW m, NEW d, CivilDate(y, m, d), NEW h \in Int
  PROVE  LET x == NextDate([year |-> y, month |-> m, day |-> d])
         IN  /\ CivilDate(x.year, x.month, x.day)
             /\ GregorianToJdn(x.year, x.month, x.day, h) = GregorianToJdn(y, m, d, h) + DAY
<1> DEFINE x == NextDate([year |-> y, month |-> m, day |-> d])
           Terms(i) == ((1461 * (i + 4716)) \div 4) - (i \div 100) + ((i \div 100) \div 4)
           Day(i, j, l) == Terms(MarchYear(i, j)) + Offset(MarchMonth(j)) + l
<1>1. /\ y \in Nat /\ y >= 1583 /\ m \in 1 .. 12 /\ d \in 1 .. DaysInMonth(y, m)
      /\ DaysInMonth(y, m) \in 28 .. 31 /\ d \in 1 .. 31
  BY DEF CivilDate, DaysInMonth
<1>2. \A i, j, l \in Int : /\ Day(i, j, l) \in Int
                           /\ GregorianToJdn(i, j, l, h) = DAY * (Day(i, j, l) + 2) - 30490 + h
  <2> TAKE i, j, l \in Int
  <2> DEFINE yy == MarchYear(i, j)
             q == (1461 * (yy + 4716)) \div 4
             a == yy \div 100
             f == a \div 4
             o == Offset(MarchMonth(j))
  <2>1. yy \in Int /\ MarchMonth(j) \in Int
    BY DEF MarchYear, MarchMonth
  <2>2. q \in Int /\ a \in Int /\ f \in Int /\ o \in Int
    BY SMT, <2>1 DEF Offset
  <2>3. GregorianToJdn(i, j, l, h) = DAY * (q + o + l + (2 - a + f)) - 30490 + h
    BY DEF GregorianToJdn, MarchYear, MarchMonth, Offset
  <2>4. Day(i, j, l) = q - a + f + o + l
    OBVIOUS
  <2> HIDE DEF q, a, f, o, Day
  <2>5. QED
    BY SMT, <2>2, <2>3, <2>4 DEF DAY
<1> SUFFICES /\ CivilDate(x.year, x.month, x.day)
             /\ GregorianToJdn(x.year, x.month, x.day, h) = GregorianToJdn(y, m, d, h) + DAY
  OBVIOUS
<1> DEFINE DayLater(i, j, l) == GregorianToJdn(i, j, l, h) = GregorianToJdn(y, m, d, h) + DAY
<1>3. \A i, j, l \in Int : Day(i, j, l) = Day(y, m, d) + 1 => DayLater(i, j, l)
  <2> SUFFICES ASSUME NEW i \in Int, NEW j \in Int, NEW l \in Int,
                      Day(i, j, l) = Day(y, m, d) + 1
               PROVE  DayLater(i, j, l)
    OBVIOUS
  <2> DEFINE later == Day(i, j, l)
             this == Day(y, m, d)
  <2>1. y \in Int /\ m \in Int /\ d \in Int
    BY <1>1
  <2>2. /\ this \in Int /\ later = this + 1
        /\ GregorianToJdn(y, m, d, h) = DAY * (this + 2) - 30490 + h
    BY <1>2, <2>1
  <2>3. GregorianToJdn(i, j, l, h) = DAY * (later + 2) - 30490 + h
    BY <1>2
  <2> HIDE DEF later, this
  <2>4. QED
    BY SMT, <2>2, <2>3 DEF DAY
<1>4. CASE d < DaysInMonth(y, m)
  <2>1. x.year = y /\ x.month = m /\ x.day = d + 1
    BY <1>4 DEF NextDate
  <2>2. CivilDate(x.year, x.month, x.day)
    BY <1>1, <1>4, <2>1 DEF CivilDate
  <2>3. Day(y, m, d + 1) = Day(y, m, d) + 1
    <3> DEFINE t == Terms(MarchYear(y, m))
               o == Offset(MarchMonth(m))
    <3>1. t \in Int /\ o \in Int
      <4>1. MarchYear(y, m) \in Int /\ MarchMonth(m) \in Int
        BY <1>1 DEF MarchYear, MarchMonth
      <4>2. QED
        BY SMT, <4>1 DEF Offset
    <3>2. Day(y, m, d + 1) = t + o + (d + 1) /\ Day(y, m, d) = t + o + d
      OBVIOUS
    <3> HIDE DEF t, o, Day
    <3>3. QED
      BY SMT, <1>1, <3>1, <3>2
  <2> HIDE DEF Day, x, DayLater
  <2>4. DayLater(x.year, x.month, x.day)
    BY <1>1, <1>3, <2>1, <2>2, <2>3
  <2>5. QED
    BY <2>2, <2>4 DEF DayLater
<1>5. CASE d = DaysInMonth(y, m) /\ m # 2
  <2> DEFINE nm == IF m < 12 THEN m + 1 ELSE 1
             ny == IF m < 12 THEN y ELSE y + 1
  <2>1. x.year = ny /\ x.month = nm /\ x.day = 1
    BY <1>1, <1>5 DEF NextDate
  <2>2. CivilDate(x.year, x.month, x.day) /\ nm \in 1 .. 12 /\ ny \in Nat
    BY <1>1, <2>1 DEF CivilDate, DaysInMonth
  <2>3. MarchYear(ny, nm) = MarchYear(y, m)
    BY <1>1, <1>5 DEF MarchYear
  <2>4. Offset(MarchMonth(nm)) + 1 = Offset(MarchMonth(m)) + d + 1
    BY <1>1, <1>5, OffsetTable DEF MarchMonth, DaysInMonth
  <2>5. Day(ny, nm, 1) = Day(y, m, d) + 1
    <3> DEFINE t == Terms(MarchYear(y, m))
               o == Offset(MarchMonth(m))
               p == Offset(MarchMonth(nm))
    <3>1. t \in Int /\ o \in Int /\ p \in Int
      <4>1. MarchYear(y, m) \in Int /\ MarchMonth(m) \in Int /\ MarchMonth(nm) \in Int
        BY <1>1, <2>2 DEF MarchYear, MarchMonth
      <4>2. QED
        BY SMT, <4>1 DEF Offset
    <3>2. Day(ny, nm, 1) = t + p + 1 /\ Day(y, m, d) = t + o + d
      BY <2>3
    <3>3. p + 1 = o + d + 1
      BY <2>4
    <3> HIDE DEF t, o, p, Day, ny, nm
    <3>4. QED
      BY SMT, <1>1, <3>1, <3>2, <3>3
  <2> HIDE DEF Day, x, nm, ny, DayLater
  <2>6. DayLater(x.year, x.month, x.day)
    BY <1>1, <1>3, <2>1, <2>2, <2>5
  <2>7. QED
    BY <2>2, <2>6 DEF DayLater
<1>6. CASE d = DaysInMonth(y, m) /\ m = 2
  <2>1. x.year = y /\ x.month = 3 /\ x.day = 1
    BY <1>1, <1>6 DEF NextDate
  <2>2. CivilDate(x.year, x.month, x.day)
    BY <1>1, <2>1 DEF CivilDate, DaysInMonth
  <2>3. /\ MarchYear(y, 3) = y /\ MarchMonth(3) = 3
        /\ MarchYear(y, m) = y - 1 /\ MarchMonth(m) = 14
    BY <1>6 DEF MarchYear, MarchMonth
  <2>4. Terms(y) = Terms(y - 1) + (IF LeapYear(y) THEN 366 ELSE 365)
    <3>1. y - 1 \in Nat /\ (y - 1) + 1 = y
      BY <1>1
    <3>2. QED
      BY <3>1, LeapSteps
  <2>5. d = IF LeapYear(y) THEN 29 ELSE 28
    BY <1>6 DEF DaysInMonth
  <2>6. Day(y, 3, 1) = Day(y, m, d) + 1
    <3> DEFINE t == Terms(y)
               u == Terms(y - 1)
    <3>1. t \in Int /\ u \in Int
      BY SMT, <1>1
    <3>2. Day(y, 3, 1) = t + 122 + 1 /\ Day(y, m, d) = u + 459 + d
      BY <2>3, OffsetTable
    <3>3. t = u + (IF LeapYear(y) THEN 366 ELSE 365)
      BY <2>4
    <3> HIDE DEF t, u, Day
    <3>4. QED
      BY SMT, <1>1, <2>5, <3>1, <3>2, <3>3
  <2> HIDE DEF Day, x, DayLater
  <2>7. DayLater(x.year, x.month, x.day)
    BY <1>1, <1>3, <2>1, <2>2, <2>6
  <2>8. QED
    BY <2>2, <2>7 DEF DayLater
<1>7. QED
  <2>1. d < DaysInMonth(y, m) \/ d = DaysInMonth(y, m)
    BY <1>1
  <2>2. QED
    BY <1>4, <1>5, <1>6, <2>1

\* Day n of the year from March is day d of month m; every day of it is one.
MonthDay(n, m, d) ==
  /\ n = Offset(m) + d
  /\ d <= 30 \/ m \in {3, 5, 7, 8, 10, 12, 13}
  /\ m = 14 => d <= 28 \/ (d = 29 /\ n = 488)
  /\ n >= 429 => m >= 13
HasMonth(n) == \E m \in 3 .. 14, d \in 1 .. 31 : MonthDay(n, m, d)

\* Every day number of a shifted year lies in a month of it.
LEMMA MonthExists ==
  ASSUME NEW n \in 123 .. 488
  PROVE  HasMonth(n)
<1>1. CASE n <= 214
  <2>1. \/ MonthDay(n, 3, n - 122) /\ n - 122 \in 1 .. 31
        \/ MonthDay(n, 4, n - 153) /\ n - 153 \in 1 .. 31
        \/ MonthDay(n, 5, n - 183) /\ n - 183 \in 1 .. 31
    BY <1>1, OffsetTable DEF MonthDay
  <2>2. QED
    BY <2>1 DEF HasMonth
<1>2. CASE n > 214 /\ n <= 306
  <2>1. \/ MonthDay(n, 6, n - 214) /\ n - 214 \in 1 .. 31
        \/ MonthDay(n, 7, n - 244) /\ n - 244 \in 1 .. 31
        \/ MonthDay(n, 8, n - 275) /\ n - 275 \in 1 .. 31
    BY <1>2, OffsetTable DEF MonthDay
  <2>2. QED
    BY <2>1 DEF HasMonth
<1>3. CASE n > 306 /\ n <= 397
  <2>1. \/ MonthDay(n, 9, n - 306) /\ n - 306 \in 1 .. 31
        \/ MonthDay(n, 10, n - 336) /\ n - 336 \in 1 .. 31
        \/ MonthDay(n, 11, n - 367) /\ n - 367 \in 1 .. 31
    BY <1>3, OffsetTable DEF MonthDay
  <2>2. QED
    BY <2>1 DEF HasMonth
<1>4. CASE n > 397
  <2>1. \/ MonthDay(n, 12, n - 397) /\ n - 397 \in 1 .. 31
        \/ MonthDay(n, 13, n - 428) /\ n - 428 \in 1 .. 31
        \/ MonthDay(n, 14, n - 459) /\ n - 459 \in 1 .. 31
    BY <1>4, OffsetTable DEF MonthDay
  <2>2. QED
    BY <2>1 DEF HasMonth
<1>5. QED
  BY <1>1, <1>2, <1>3, <1>4

\* Day number z is day n of year r, from March, of century g.
YearDay(z, g, r, n) ==
  /\ r <= 99 /\ n >= 123 /\ n <= 488
  /\ z = ((1461 * (100 * g + r + 4716)) \div 4) + n + 2 - g + (g \div 4) - 1524
  /\ n = 488 => LeapYear(100 * g + r + 1)
  /\ 100 * g + r >= 1583 \/ (100 * g + r = 1582 /\ n >= 429)
HasYear(z) == \E g, r, n \in Nat : YearDay(z, g, r, n)

\* 1 January 1583.
FirstDay == 2299239

\* Every day number from then on is such a day.
LEMMA YearExists ==
  ASSUME NEW z \in Int, z >= FirstDay
  PROVE  HasYear(z)
<1> DEFINE w == 4 * z - 7468865
           g == (w \div 146097) + 4
           rem == w % 146097
           f == g \div 4
           s == g % 4
           u == z + 1522 + g - f - 36525 * g - 1722519
           v == 20 * u - 2442
           r == v \div 7305
           t == (1461 * r) \div 4
           n == u - t
<1>1. /\ w \in Int /\ w = 146097 * (g - 4) + rem /\ rem \in Int /\ rem >= 0 /\ rem < 146097
      /\ g \in Int
  BY SMT
<1>2. g \in Nat /\ g >= 15
  <2>1. w >= 1728091
    BY SMT DEF FirstDay
  <2> HIDE DEF w, g, rem
  <2>2. QED
    BY SMT, <1>1, <2>1
<1>3. f \in Nat /\ s \in 0 .. 3 /\ g = 4 * f + s
  <2> HIDE DEF g
  <2>1. QED
    BY SMT, <1>2
<1>4. u \in Int /\ 4 * u = rem + s + 489
  <2>1. w = 4 * z - 7468865 /\ u = z + 1522 + g - f - 36525 * g - 1722519
    BY SMT
  <2> HIDE DEF w, g, rem, f, s, u
  <2>2. QED
    BY SMT, <1>1, <1>2, <1>3, <2>1
<1>5. v \in Int /\ v >= 0 /\ v < 730500 /\ u >= 123
  <2>1. v = 20 * u - 2442
    BY SMT
  <2> HIDE DEF w, g, rem, f, s, u, v
  <2>2. 4 * u <= 146588
    BY SMT, <1>1, <1>3, <1>4
  <2>3. QED
    BY SMT, <1>1, <1>3, <1>4, <2>1, <2>2
<1>6. r \in Int /\ 7305 * r <= v /\ v < 7305 * r + 7305
  <2> HIDE DEF v
  <2>1. QED
    BY SMT, <1>5
<1>7. r \in 0 .. 99
  <2> HIDE DEF v, r
  <2>1. QED
    BY SMT, <1>5, <1>6
<1>8. /\ t \in Nat /\ r % 4 \in 0 .. 3
      /\ 4 * t = 1461 * r - (r % 4)
  <2> HIDE DEF r
  <2>1. QED
    BY SMT, <1>7
<1>9. n \in 123 .. 488 /\ (n = 488 => r % 4 = 3)
  <2> DEFINE k == r % 4
  <2>1. v = 20 * u - 2442 /\ n = u - t
    BY SMT
  <2>2. k \in 0 .. 3 /\ 4 * t = 1461 * r - k /\ t \in Nat
    BY SMT, <1>8
  <2> HIDE DEF u, v, r, t, n, k
  <2>3. n \in Int /\ 20 * n >= 2442 + 5 * k /\ 20 * n < 9747 + 5 * k
    BY SMT, <1>4, <1>6, <1>7, <2>1, <2>2
  <2>4. n >= 123 /\ n <= 488 /\ (n = 488 => k = 3)
    BY SMT, <2>2, <2>3
  <2>5. QED
    BY SMT, <2>3, <2>4 DEF k
<1>10. n = 488 => LeapYear(100 * g + r + 1)
  <2> DEFINE x == 100 * g + r + 1
  <2>1. n = 488 => x % 4 = 0
    <3> HIDE DEF g, r, n
    <3>1. QED
      BY SMT, <1>2, <1>7, <1>9
  <2>2. n = 488 /\ r = 99 => s = 3
    <3>1. r = 99 => t = 36159
      <4> HIDE DEF r
      <4>1. QED
        BY SMT
    <3>2. n = u - t
      BY SMT
    <3> HIDE DEF n, u, t, r, s, rem
    <3>3. QED
      BY SMT, <1>1, <1>3, <1>4, <3>1, <3>2
  <2>3. n = 488 /\ r = 99 => x % 400 = 0
    <3> HIDE DEF n, r, g, s, f
    <3>1. QED
      BY SMT, <1>3, <2>2
  <2>4. r # 99 => x % 100 # 0
    <3> HIDE DEF r, g
    <3>1. QED
      BY SMT, <1>2, <1>7
  <2> HIDE DEF x, n, r
  <2>5. QED
    BY SMT, <2>1, <2>3, <2>4 DEF LeapYear, x
<1>11. z = ((1461 * (100 * g + r + 4716)) \div 4) + n + 2 - g + f - 1524
  <2>1. (1461 * (100 * g + r + 4716)) \div 4 = 36525 * g + 1722519 + t
    <3> HIDE DEF g, r
    <3>1. QED
      BY SMT, <1>2, <1>7, YearTerm
  <2>2. n = u - t /\ u = z + 1522 + g - f - 36525 * g - 1722519
    BY SMT
  <2> HIDE DEF g, r, t, n, u, f
  <2>3. QED
    BY SMT, <1>2, <1>3, <1>4, <1>8, <2>1, <2>2
<1>12. 100 * g + r >= 1583 \/ (100 * g + r = 1582 /\ n >= 429)
  <2>1. CASE g >= 16
    <3>1. 100 * g + r >= 1583
      <4> HIDE DEF g, r
      <4>1. QED
        BY SMT, <1>2, <1>7, <2>1
    <3> HIDE DEF g, r, n
    <3>2. QED
      BY SMT, <3>1
  <2>2. CASE g = 15
    <3>1. f = 3
      BY SMT, <2>2
    <3>2. u >= 30379
      <4>1. u = z + 1522 + g - f - 36525 * g - 1722519
        BY SMT
      <4> HIDE DEF g, f, u
      <4>2. QED
        BY SMT, <2>2, <3>1, <4>1 DEF FirstDay
    <3>3. v = 20 * u - 2442 /\ n = u - t
      BY SMT
    <3> HIDE DEF g, r, u, v, n, t
    <3>4. r >= 82
      BY SMT, <1>4, <1>6, <3>2, <3>3
    <3>5. r = 82 => t = 29950
      BY SMT, <1>8
    <3>6. QED
      BY SMT, <1>4, <1>7, <2>2, <3>2, <3>3, <3>4, <3>5
  <2>3. QED
    <3> HIDE DEF g
    <3>1. QED
      BY SMT, <1>2, <2>1, <2>2
<1> HIDE DEF g, r, n, w, rem, s, u, v, t
<1>13. YearDay(z, g, r, n)
  BY SMT, <1>7, <1>9, <1>10, <1>11, <1>12 DEF YearDay
<1>14. g \in Nat /\ r \in Nat /\ n \in Nat
  BY SMT, <1>2, <1>7, <1>9
<1>15. QED
  BY <1>13, <1>14 DEF HasYear

(***************************************************************************)
(* jdn_to_gregorian is the civil calendar: from 1 January 1583 on every    *)
(* instant is shown with a date that exists, and it lies in the day that   *)
(* begins at that date's midnight.  So the dates of a transit's window are *)
(* the days on which it begins and ends, whatever ephemeris gave them.     *)
(***************************************************************************)
THEOREM DateIsCivilDay ==
  ASSUME NEW jdn \in Int, jdn >= GregorianToJdn(1583, 1, 1, 0)
  PROVE  LET x == JdnToGregorian(jdn)
             midnight == GregorianToJdn(x.year, x.month, x.day, 0)
         IN  /\ CivilDate(x.year, x.month, x.day)
             /\ midnight <= jdn /\ jdn < midnight + DAY
<1> DEFINE z == (jdn + 10) \div 20
<1>1. GregorianToJdn(1583, 1, 1, 0) = 45984770
  BY SMT DEF GregorianToJdn, DAY
<1>2. z \in Int /\ z >= FirstDay /\ 20 * z <= jdn + 10 /\ jdn + 10 < 20 * z + 20
  <2>1. jdn >= 45984770
    BY SMT, <1>1
  <2>2. QED
    BY SMT, <2>1 DEF FirstDay
<1> HIDE DEF z
<1>3. PICK g, r, n \in Nat : YearDay(z, g, r, n)
  <2>1. HasYear(z)
    BY SMT, <1>2, YearExists
  <2>2. QED
    BY <2>1 DEF HasYear
<1>4. r \in 0 .. 99 /\ n \in 123 .. 488
  BY SMT, <1>3 DEF YearDay
<1>5. PICK mm \in 3 .. 14, d \in 1 .. 31 : MonthDay(n, mm, d)
  <2>1. HasMonth(n)
    BY <1>4, MonthExists
  <2>2. QED
    BY <2>1 DEF HasMonth
<1> DEFINE yy == 100 * g + r
           y == IF mm <= 12 THEN yy ELSE yy + 1
           m == IF mm <= 12 THEN mm ELSE mm - 12
<1>6. /\ yy \in Nat /\ (n = 488 => LeapYear(yy + 1))
      /\ yy >= 1583 \/ (yy = 1582 /\ n >= 429)
  BY SMT, <1>3, <1>4 DEF YearDay
<1>7. CivilDate(y, m, d) /\ MarchYear(y, m) = yy /\ MarchMonth(m) = mm
  <2> HIDE DEF yy
  <2>1. /\ y \in Nat /\ y >= 1583 /\ m \in 1 .. 12
        /\ MarchYear(y, m) = yy /\ MarchMonth(m) = mm
    BY SMT, <1>5, <1>6 DEF MarchYear, MarchMonth, MonthDay
  <2>2. d \in 1 .. DaysInMonth(y, m)
    BY SMT, <1>5, <1>6 DEF DaysInMonth, MonthDay
  <2>3. QED
    BY SMT, <2>1, <2>2 DEF CivilDate
<1>8. DayNumber(y, m, d) = z
  <2> DEFINE q == (1461 * (yy + 4716)) \div 4
             a == yy \div 100
             f == g \div 4
             o == Offset(mm)
  <2>1. a = g
    BY SMT, <1>4
  <2>2. z = q + n + 2 - g + f - 1524
    BY SMT, <1>3 DEF YearDay
  <2> HIDE DEF y, m
  <2>3. DayNumber(y, m, d) = q + o + d + 2 - a + (a \div 4) - 1524
    BY SMT, <1>7 DEF DayNumber, Count
  <2>4. n = o + d /\ o \in Int
    BY SMT, <1>5, OffsetTable DEF MonthDay
  <2>5. q \in Int /\ f \in Int
    BY SMT, <1>6
  <2> HIDE DEF q, a, o
  <2>6. QED
    BY SMT, <1>3, <2>1, <2>2, <2>3, <2>4, <2>5
<1> DEFINE h == jdn - (20 * z - 10)
<1>9. h \in 0 .. DAY - 1
  BY SMT, <1>2 DEF DAY
<1>10. \A k \in 0 .. DAY - 1 : GregorianToJdn(y, m, d, k) = 20 * z - 10 + k
  <2> SUFFICES ASSUME NEW k \in 0 .. DAY - 1
               PROVE  GregorianToJdn(y, m, d, k) = 20 * z - 10 + k
    BY SMT
  <2> DEFINE q == (1461 * (MarchYear(y, m) + 4716)) \div 4
             o == Offset(MarchMonth(m))
             a == MarchYear(y, m) \div 100
             f == a \div 4
  <2>1. GregorianToJdn(y, m, d, k) = DAY * (q + o + d + (2 - a + f)) - 30490 + k
    BY SMT DEF GregorianToJdn, MarchYear, MarchMonth, Offset
  <2>2. z = q + o + d + 2 - a + f - 1524
    BY SMT, <1>8 DEF DayNumber, Count
  <2>3. q \in Int /\ a \in Int /\ f \in Int /\ o \in Int
    <3>1. MarchYear(y, m) \in Int /\ MarchMonth(m) \in Int
      BY SMT, <1>6, <1>7
    <3> HIDE DEF y, m
    <3>2. QED
      BY SMT, <3>1 DEF Offset
  <2> HIDE DEF q, o, a, f, y, m
  <2>4. QED
    BY SMT, <2>1, <2>2, <2>3 DEF DAY
<1> HIDE DEF y, m, h
<1>11. jdn = GregorianToJdn(y, m, d, h)
  BY SMT, <1>2, <1>9, <1>10 DEF h
<1>12. JdnToGregorian(jdn) = [year |-> y, month |-> m, day |-> d]
  BY SMT, <1>7, <1>9, <1>11, CalendarRoundTrip
<1>13. GregorianToJdn(y, m, d, 0) = 20 * z - 10
  <2>1. 0 \in 0 .. DAY - 1
    BY SMT DEF DAY
  <2>2. GregorianToJdn(y, m, d, 0) = 20 * z - 10 + 0
    BY SMT, <1>10, <2>1
  <2>3. QED
    BY SMT, <1>2, <2>2
<1>14. 20 * z - 10 <= jdn /\ jdn < (20 * z - 10) + DAY
  BY SMT, <1>2 DEF DAY
<1>15. QED
  BY SMT, <1>7, <1>12, <1>13, <1>14

-----------------------------------------------------------------------------
(***************************************************************************)
(* Parts of the model that many facts below start from.                    *)
(***************************************************************************)
LEMMA PlanetSet ==
  /\ Planet = {"sun", "moon", "mercury", "venus", "mars",
               "jupiter", "saturn", "uranus", "neptune", "pluto"}
  /\ IsFiniteSet(Planet)
<1>1. Planet = {"sun", "moon", "mercury", "venus", "mars",
                "jupiter", "saturn", "uranus", "neptune", "pluto"}
  <2>1. DOMAIN Planets = 1 .. 10
    BY DEF Planets
  <2>2. \A p : p \in Planet <=> \E i \in 1 .. 10 : p = Planets[i]
    BY <2>1 DEF Planet
  <2>3. /\ Planets[1] = "sun" /\ Planets[2] = "moon" /\ Planets[3] = "mercury"
        /\ Planets[4] = "venus" /\ Planets[5] = "mars" /\ Planets[6] = "jupiter"
        /\ Planets[7] = "saturn" /\ Planets[8] = "uranus" /\ Planets[9] = "neptune"
        /\ Planets[10] = "pluto"
    BY DEF Planets
  <2>4. \A i \in 1 .. 10 : i = 1 \/ i = 2 \/ i = 3 \/ i = 4 \/ i = 5 \/ i = 6 \/ i = 7 \/ i = 8
                           \/ i = 9 \/ i = 10
    OBVIOUS
  <2>5. QED
    BY <2>2, <2>3, <2>4
<1>2. IsFiniteSet({"sun", "moon", "mercury", "venus", "mars",
                   "jupiter", "saturn", "uranus", "neptune", "pluto"})
  <2>1. Planet = {Planets[i] : i \in 1 .. 10}
    BY DEF Planet, Planets
  <2> DEFINE f == [i \in 1 .. 10 |-> Planets[i]]
  <2>2. f \in Surjection(1 .. 10, Planet)
    BY <2>1 DEF Surjection
  <2>3. IsFiniteSet(1 .. 10)
    <3>1. 1 \in Int /\ 10 \in Int
      OBVIOUS
    <3>2. QED
      BY <3>1, FS_Interval
  <2> HIDE DEF f
  <2>4. IsFiniteSet(Planet)
    BY <2>2, <2>3, FS_Surjection
  <2>5. QED
    BY <2>4, <1>1
<1>3. QED
  BY <1>1, <1>2

\* The place in Planets numbers the planets from 1 to 10, each its own number.
LEMMA OrdIsOrder ==
  /\ \A p \in Planet : Ord[p] \in 1 .. 10
  /\ \A p, q \in Planet : Ord[p] = Ord[q] => p = q
<1>1. \A p \in Planet : Ord[p] \in DOMAIN Planets /\ Planets[Ord[p]] = p
  BY DEF Ord, Planet
<1>2. DOMAIN Planets = 1 .. 10
  BY DEF Planets
<1>3. QED
  BY <1>1, <1>2

\* The least of a set of naturals.
LEMMA MinIsLeast ==
  ASSUME NEW S \in SUBSET Nat, S # {}
  PROVE  Min(S) \in S /\ \A y \in S : Min(S) <= y
<1>1. \E x \in S : \A y \in S : ~ (<<y, x>> \in OpToRel(<, Nat))
  BY NatLessThanWellFounded, WFMin
<1>2. \E x \in S : \A y \in S : x <= y
  <2>1. PICK x \in S : \A y \in S : ~ (<<y, x>> \in OpToRel(<, Nat))
    BY <1>1
  <2>2. \A y \in S : x <= y
    <3> SUFFICES ASSUME NEW y \in S, ~ (x <= y)
                 PROVE  FALSE
      OBVIOUS
    <3>1. <<y, x>> \in OpToRel(<, Nat)
      BY DEF OpToRel
    <3>2. QED
      BY <2>1, <3>1
  <2>3. QED
    BY <2>2
<1>3. QED
  BY <1>2 DEF Min

(***************************************************************************)
(* Aspects of a pair                                                       *)
(***************************************************************************)
\* What find in the table returns, for a kind: it is the answer exactly if it is
\* within orb.
LEMMA FoundKind ==
  ASSUME NEW sep \in 0 .. 180, NEW w \in 0 .. 5
  PROVE  /\ FirstWithin(sep, w) \in DOMAIN Angle \cup {None}
         /\ \A k \in DOMAIN Angle : FirstWithin(sep, w) = k <=> InOrb(sep, k, w)
<1> DEFINE hits == {i \in DOMAIN ASPECTS : InOrb(sep, ASPECTS[i], w)}
<1>1. /\ DOMAIN ASPECTS = 1 .. 7
      /\ DOMAIN Angle = {"conjunction", "semi_sextile", "sextile", "square", "trine",
                         "quincunx", "opposition"}
  BY DEF ASPECTS, Angle
<1>2. \A k \in DOMAIN Angle : \E i \in DOMAIN ASPECTS : ASPECTS[i] = k
  <2>1. /\ ASPECTS[1] = "conjunction" /\ ASPECTS[2] = "semi_sextile" /\ ASPECTS[3] = "sextile"
        /\ ASPECTS[4] = "square" /\ ASPECTS[5] = "trine" /\ ASPECTS[6] = "quincunx"
        /\ ASPECTS[7] = "opposition"
    BY DEF ASPECTS
  <2>2. /\ 1 \in 1 .. 7 /\ 2 \in 1 .. 7 /\ 3 \in 1 .. 7 /\ 4 \in 1 .. 7 /\ 5 \in 1 .. 7
        /\ 6 \in 1 .. 7 /\ 7 \in 1 .. 7
    OBVIOUS
  <2>3. QED
    BY <1>1, <2>1, <2>2
<1>3. \A i \in DOMAIN ASPECTS : ASPECTS[i] \in DOMAIN Angle
  BY DEF ASPECTS, Angle
<1>4. \A i \in hits : FirstWithin(sep, w) = ASPECTS[i]
  BY AspectIsUnique
<1>5. hits = {} => FirstWithin(sep, w) = None
  BY DEF FirstWithin
<1>6. None \notin DOMAIN Angle
  BY <1>1 DEF None
<1>7. CASE hits = {}
  BY <1>1, <1>2, <1>5, <1>6, <1>7
<1>8. CASE hits # {}
  <2>1. PICK i \in hits : TRUE
    BY <1>8
  <2>2. i \in DOMAIN ASPECTS /\ InOrb(sep, ASPECTS[i], w) /\ FirstWithin(sep, w) = ASPECTS[i]
    BY <1>4, <2>1
  <2>3. \A k \in DOMAIN Angle : InOrb(sep, k, w) => FirstWithin(sep, w) = k
    BY <1>2, <1>4
  <2>4. QED
    BY <1>3, <2>2, <2>3
<1>9. QED
  BY <1>7, <1>8

Fits(angle, orb, one, other) == Abs(one - angle) <= orb \/ Abs(other - angle) <= orb

\* An angle of the table is within an orb of at most 10 degrees of the separation
\* exactly if one of the two arcs between the bodies is.
LEMMA NearIsSeparation ==
  ASSUME NEW a \in Degree, NEW b \in Degree, NEW angle \in 0 .. 180, NEW orb \in 0 .. 10
  PROVE  /\ Fits(angle, orb, Ahead(a, b), 360 - Ahead(a, b))
              <=> Abs(AngularSeparation(a, b) - angle) <= orb
         /\ Fits(angle, orb, Ahead(a, b), Ahead(b, a))
              <=> Abs(AngularSeparation(a, b) - angle) <= orb
<1> DEFINE sep == AngularSeparation(a, b)
           d == Ahead(a, b)
           e == Ahead(b, a)
<1>1. /\ d \in 0 .. 359 /\ sep = (IF d > 180 THEN 360 - d ELSE d)
      /\ e = (IF d = 0 THEN 0 ELSE 360 - d)
  <2>1. a \in 0 .. 359 /\ b \in 0 .. 359
    BY DEF Degree
  <2>2. d = IF b >= a THEN b - a ELSE b - a + 360
    BY SMT, <2>1 DEF Ahead
  <2>3. e = IF a >= b THEN a - b ELSE a - b + 360
    BY SMT, <2>1 DEF Ahead
  <2>4. sep = (IF d > 180 THEN 360 - d ELSE d)
    BY DEF AngularSeparation, Norm, Ahead
  <2> HIDE DEF d, e, sep
  <2>5. QED
    BY <2>1, <2>2, <2>3, <2>4
<1> HIDE DEF sep, d, e
<1>2. sep \in 0 .. 180
  BY <1>1
<1>3. Abs(d - angle) <= orb => Abs(sep - angle) <= orb
  BY <1>1 DEF Abs
<1>4. Abs((360 - d) - angle) <= orb => Abs(sep - angle) <= orb
  BY <1>1 DEF Abs
<1>5. Abs(e - angle) <= orb => Abs(sep - angle) <= orb
  BY <1>1 DEF Abs
<1>6. sep \in {d, 360 - d} /\ sep \in {d, e}
  BY <1>1
<1>7. QED
  BY <1>3, <1>4, <1>5, <1>6 DEF sep, d, e, Fits

\* The table.
LEMMA AngleTable ==
  \A k \in DOMAIN Angle : Angle[k] \in 0 .. 180 /\ Orb[k] \in 1 .. 8 /\ k # None
BY DEF Angle, Orb, None

\* The kind of aspect between two bodies of a chart.
Between(pos, p, q) == DetectAspect(AngularSeparation(pos[p], pos[q]))

\* It does not depend on their order; a kind is found exactly if one of the arcs
\* fits it.
LEMMA BetweenIsArc ==
  ASSUME NEW pos \in [Planet -> Degree], NEW p \in Planet, NEW q \in Planet
  PROVE  /\ Between(pos, p, q) = Between(pos, q, p)
         /\ Between(pos, p, q) \in DOMAIN Angle \cup {None}
         /\ \A k \in DOMAIN Angle : LET d == Ahead(pos[p], pos[q]) IN
              /\ Between(pos, p, q) = k <=> Fits(Angle[k], Orb[k], d, 360 - d)
              /\ Between(pos, p, q) = k <=> Fits(Angle[k], Orb[k], d, Ahead(pos[q], pos[p]))
<1> DEFINE a == pos[p]
           b == pos[q]
           sep == AngularSeparation(a, b)
<1>1. a \in Degree /\ b \in Degree /\ a \in Int /\ b \in Int /\ 0 \in Int
  BY DEF Degree
<1> HIDE DEF a, b
<1>2. sep = AngularSeparation(b, a) /\ sep \in 0 .. 180 /\ 0 \in 0 .. 5
  BY <1>1, SeparationIsArc
<1>3. /\ DetectAspect(sep) \in DOMAIN Angle \cup {None}
      /\ \A k \in DOMAIN Angle : DetectAspect(sep) = k <=> InOrb(sep, k, 0)
  <2> HIDE DEF sep
  <2>1. QED
    BY <1>2, FoundKind DEF DetectAspect
<1>4. \A k \in DOMAIN Angle : InOrb(sep, k, 0) <=> Abs(sep - Angle[k]) <= Orb[k]
  BY AngleTable DEF InOrb
<1>5. \A k \in DOMAIN Angle : Angle[k] \in 0 .. 180 /\ Orb[k] \in 0 .. 10
  BY AngleTable
<1>6. \A k \in DOMAIN Angle :
        /\ Fits(Angle[k], Orb[k], Ahead(a, b), 360 - Ahead(a, b)) <=> Abs(sep - Angle[k]) <= Orb[k]
        /\ Fits(Angle[k], Orb[k], Ahead(a, b), Ahead(b, a)) <=> Abs(sep - Angle[k]) <= Orb[k]
  BY ZenonT(60), <1>1, <1>5, NearIsSeparation
<1> HIDE DEF sep
<1>7. QED
  BY <1>2, <1>3, <1>4, <1>6 DEF Between, sep, a, b

\* The aspects of one chart: of each pair one at most, of that kind.
LEMMA AspectsOfPairs ==
  ASSUME NEW pos \in [Planet -> Degree]
  PROVE  /\ \A x \in ComputeAspects(pos) :
              /\ x.a \in Planet /\ x.b \in Planet /\ Ord[x.a] < Ord[x.b]
              /\ x = [a |-> x.a, b |-> x.b, kind |-> x.kind]
              /\ x.kind = Between(pos, x.a, x.b) /\ x.kind # None
         /\ \A p, q \in Planet :
              Ord[p] < Ord[q] /\ Between(pos, p, q) # None =>
                [a |-> p, b |-> q, kind |-> Between(pos, p, q)] \in ComputeAspects(pos)
<1> DEFINE All == {[a |-> p, b |-> q, kind |-> Between(pos, p, q)] : p \in Planet, q \in Planet}
<1>1. DOMAIN pos = Planet
  OBVIOUS
<1>2. ComputeAspects(pos) = {x \in {y \in All : y.kind # None} : Ord[x.a] < Ord[x.b]}
  BY <1>1 DEF ComputeAspects, ComputeCross, Between
<1>3. \A x \in All : /\ x.a \in Planet /\ x.b \in Planet
                     /\ x = [a |-> x.a, b |-> x.b, kind |-> x.kind]
                     /\ x.kind = Between(pos, x.a, x.b)
  OBVIOUS
<1>4. \A p, q \in Planet : LET x == [a |-> p, b |-> q, kind |-> Between(pos, p, q)] IN
        x \in All /\ x.a = p /\ x.b = q /\ x.kind = Between(pos, p, q)
  OBVIOUS
<1> HIDE DEF All
<1>5. QED
  BY <1>2, <1>3, <1>4

\* Every pair's aspect is the one that an arc between them fits, and there is no other.
LEMMA ChartAspects ==
  ASSUME NEW c, c.positions \in [Planet -> Degree]
  PROVE  AspectsAreExact(c)
<1> DEFINE pos == c.positions
<1> SUFFICES ASSUME NEW p \in Planet, NEW q \in Planet, p # q
             PROVE  LET d == Ahead(pos[p], pos[q])
                        fits == {k \in DOMAIN Angle : \E s \in {d, 360 - d} :
                                   Abs(s - Angle[k]) <= Orb[k]}
                        found == {x.kind : x \in {y \in ComputeAspects(pos) : {y.a, y.b} = {p, q}}}
                    IN  found = fits /\ Cardinality(fits) <= 1
  BY DEF AspectsAreExact
<1> DEFINE d == Ahead(pos[p], pos[q])
           fits == {k \in DOMAIN Angle : \E s \in {d, 360 - d} : Abs(s - Angle[k]) <= Orb[k]}
           Pair == {y \in ComputeAspects(pos) : {y.a, y.b} = {p, q}}
           found == {x.kind : x \in Pair}
           K == Between(pos, p, q)
<1> HIDE DEF pos
<1>0. pos \in [Planet -> Degree]
  BY DEF pos
<1>1. fits = {K} \ {None}
  <2>1. \A k \in DOMAIN Angle : K = k <=> k \in fits
    <3> TAKE k \in DOMAIN Angle
    <3>1. K = k <=> Fits(Angle[k], Orb[k], d, 360 - d)
      BY <1>0, BetweenIsArc
    <3>2. k \in fits <=> Fits(Angle[k], Orb[k], d, 360 - d)
      BY DEF Fits, Abs
    <3>3. QED
      BY <3>1, <3>2
  <2>2. \A k \in fits : k \in DOMAIN Angle /\ k # None
    BY AngleTable
  <2>3. K \in DOMAIN Angle \cup {None}
    BY <1>0, BetweenIsArc
  <2> HIDE DEF fits, K
  <2>4. QED
    BY <2>1, <2>2, <2>3
<1>2. \A x \in Pair : x.kind = K /\ K # None
  <2> TAKE x \in Pair
  <2>1. /\ x.a \in Planet /\ x.b \in Planet /\ x.kind = Between(pos, x.a, x.b) /\ x.kind # None
        /\ (x.a = p /\ x.b = q) \/ (x.a = q /\ x.b = p)
    BY <1>0, AspectsOfPairs
  <2>2. Between(pos, p, q) = Between(pos, q, p)
    BY <1>0, BetweenIsArc
  <2>3. QED
    BY <2>1, <2>2
<1>3. K # None => \E x \in Pair : x.kind = K
  <2> SUFFICES ASSUME K # None
               PROVE  \E x \in Pair : x.kind = K
    OBVIOUS
  <2>1. Between(pos, p, q) = Between(pos, q, p)
    BY <1>0, BetweenIsArc
  <2>2. Ord[p] < Ord[q] \/ Ord[q] < Ord[p]
    BY OrdIsOrder
  <2>3. CASE Ord[p] < Ord[q]
    <3> DEFINE x == [a |-> p, b |-> q, kind |-> K]
    <3>1. x \in ComputeAspects(pos)
      BY <1>0, <2>3, AspectsOfPairs
    <3>2. x.a = p /\ x.b = q /\ x.kind = K
      OBVIOUS
    <3> HIDE DEF x, K
    <3>3. QED
      BY <3>1, <3>2
  <2>4. CASE Ord[q] < Ord[p]
    <3> DEFINE x == [a |-> q, b |-> p, kind |-> K]
    <3>1. x \in ComputeAspects(pos)
      BY <1>0, <2>1, <2>4, AspectsOfPairs
    <3>2. x.a = q /\ x.b = p /\ x.kind = K
      OBVIOUS
    <3> HIDE DEF x, K
    <3>3. QED
      BY <3>1, <3>2
  <2>5. QED
    BY <2>2, <2>3, <2>4
<1>4. found = {K} \ {None}
  <2> HIDE DEF Pair, K
  <2>1. QED
    BY <1>2, <1>3
<1>5. Cardinality(fits) <= 1
  <2>1. fits = {} \/ fits = {K}
    <3> HIDE DEF fits, K
    <3>1. QED
      BY <1>1
  <2>2. Cardinality({}) = 0 /\ Cardinality({K}) = 1
    BY FS_EmptySet, FS_Singleton
  <2> HIDE DEF fits, K
  <2>3. QED
    BY <2>1, <2>2
<1>6. found = fits
  BY <1>1, <1>4
<1>7. QED
  BY <1>5, <1>6 DEF pos

\* Three different elements are a set of cardinality 3.
LEMMA ThreePlanets ==
  ASSUME NEW p, NEW q, NEW r, p # q, r # p, r # q
  PROVE  Cardinality({p, q, r}) = 3 /\ IsFiniteSet({p, q, r})
<1>1. IsFiniteSet({p}) /\ Cardinality({p}) = 1
  BY FS_Singleton
<1>2. IsFiniteSet({p} \cup {q}) /\ Cardinality({p} \cup {q}) = 2
  BY <1>1, FS_AddElement
<1>3. /\ IsFiniteSet(({p} \cup {q}) \cup {r})
      /\ Cardinality(({p} \cup {q}) \cup {r}) = 3
  <2>1. r \notin {p} \cup {q}
    OBVIOUS
  <2>2. QED
    BY <1>2, <2>1, FS_AddElement
<1>4. ({p} \cup {q}) \cup {r} = {p, q, r}
  OBVIOUS
<1>5. QED
  BY <1>3, <1>4

(***************************************************************************)
(* Patterns                                                                *)
(***************************************************************************)
\* The lookup of detect_patterns gives the kind of aspect between two bodies,
\* whichever comes first.
Lookup(aspects) ==
  [k \in {PairKey(x.a, x.b) : x \in aspects} |->
     (CHOOSE x \in aspects : PairKey(x.a, x.b) = k).kind]
Got(aspects, a, b) ==
  IF PairKey(a, b) \in DOMAIN Lookup(aspects) THEN Lookup(aspects)[PairKey(a, b)] ELSE None

\* The lookup table of detect_aspect_patterns answers, for a pair in either order, the
\* aspect between its longitudes.
LEMMA LookupIsBetween ==
  ASSUME NEW pos \in [Planet -> Degree], NEW a \in Planet, NEW b \in Planet, a # b
  PROVE  Got(ComputeAspects(pos), a, b) = Between(pos, a, b)
<1> DEFINE aspects == ComputeAspects(pos)
           k == PairKey(a, b)
           K == Between(pos, a, b)
           Keys == {PairKey(x.a, x.b) : x \in aspects}
<1>1. PICK u \in Planet, v \in Planet : k = <<u, v>> /\ Ord[u] < Ord[v] /\ Between(pos, u, v) = K
  <2>1. Ord[a] \in 1 .. 10 /\ Ord[b] \in 1 .. 10 /\ Ord[a] # Ord[b]
    BY OrdIsOrder
  <2>2. Between(pos, a, b) = Between(pos, b, a)
    BY BetweenIsArc
  <2>3. CASE Ord[a] < Ord[b]
    BY <2>1, <2>3 DEF PairKey
  <2>4. CASE Ord[b] < Ord[a]
    BY <2>1, <2>2, <2>4 DEF PairKey
  <2>5. QED
    BY <2>1, <2>3, <2>4
<1>2. \A x \in aspects : PairKey(x.a, x.b) = k => x.kind = K /\ K # None
  <2> TAKE x \in aspects
  <2>1. /\ x.a \in Planet /\ x.b \in Planet /\ Ord[x.a] < Ord[x.b]
        /\ x.kind = Between(pos, x.a, x.b) /\ x.kind # None
    BY AspectsOfPairs
  <2>2. PairKey(x.a, x.b) = <<x.a, x.b>>
    BY <2>1, OrdIsOrder DEF PairKey
  <2> HIDE DEF k, K
  <2>3. QED
    BY <1>1, <2>1, <2>2
<1>3. K # None => \E x \in aspects : PairKey(x.a, x.b) = k
  <2> SUFFICES ASSUME K # None
               PROVE  \E x \in aspects : PairKey(x.a, x.b) = k
    OBVIOUS
  <2> DEFINE x == [a |-> u, b |-> v, kind |-> Between(pos, u, v)]
  <2>1. x \in aspects
    BY <1>1, AspectsOfPairs
  <2>2. PairKey(x.a, x.b) = k
    BY <1>1, OrdIsOrder DEF PairKey
  <2> HIDE DEF x, k
  <2>3. QED
    BY <2>1, <2>2
<1>4. k \in Keys <=> K # None
  <2> HIDE DEF aspects, k, K
  <2>1. QED
    BY <1>2, <1>3
<1>5. DOMAIN Lookup(aspects) = Keys
  BY DEF Lookup
<1>6. k \in Keys => Lookup(aspects)[k] = K
  <2> SUFFICES ASSUME k \in Keys
               PROVE  Lookup(aspects)[k] = K
    OBVIOUS
  <2> DEFINE x == CHOOSE x \in aspects : PairKey(x.a, x.b) = k
  <2>1. Lookup(aspects)[k] = x.kind
    BY DEF Lookup
  <2>2. x \in aspects /\ PairKey(x.a, x.b) = k
    OBVIOUS
  <2> HIDE DEF x, aspects, k, K
  <2>3. QED
    BY <1>2, <2>1, <2>2
<1> HIDE DEF aspects, k, K, Keys
<1>7. QED
  BY <1>4, <1>5, <1>6 DEF Got, aspects, k, K

\* The properties' own words for a bound on an arc and for a pattern.
NearBy(pos, x, y, angle, orb) ==
  \E s \in {Ahead(pos[x], pos[y]), Ahead(pos[y], pos[x])} : Abs(s - angle) <= orb
HasSquare(found, p, q, r) ==
  \E x \in found : x.kind = "t_square" /\ x.of = {p, q, r} /\ x.apex = r
HasTrine(found, p, q, r) == \E x \in found : x.kind = "grand_trine" /\ x.of = {p, q, r}

\* Two planets are near the angle of a kind, within its orb, exactly when that kind is
\* the aspect between them: the orbs of two kinds do not overlap.
LEMMA NearIsKind ==
  ASSUME NEW pos \in [Planet -> Degree], NEW p \in Planet, NEW q \in Planet,
         NEW k \in DOMAIN Angle
  PROVE  NearBy(pos, p, q, Angle[k], Orb[k]) <=> Between(pos, p, q) = k
<1>1. Between(pos, p, q) = k
        <=> Fits(Angle[k], Orb[k], Ahead(pos[p], pos[q]), Ahead(pos[q], pos[p]))
  BY BetweenIsArc
<1>2. QED
  BY <1>1 DEF Fits, Abs, NearBy

\* The patterns detected in a chart are the grand trines and T-squares of its sky.
LEMMA ChartPatterns ==
  ASSUME NEW c, c.positions \in [Planet -> Degree]
  PROVE  PatternsAreExact(c)
<1> DEFINE pos == c.positions
           aspects == ComputeAspects(pos)
           Seen == {x.a : x \in aspects} \cup {x.b : x \in aspects}
           Trines(t) == \A a, b \in t : a # b => Got(aspects, a, b) = "trine"
           Squares(t, apex) ==
             /\ \A b \in t \ {apex} : Got(aspects, apex, b) = "square"
             /\ \A a, b \in t \ {apex} : a # b => Got(aspects, a, b) = "opposition"
           Of(t) == IF Trines(t) THEN {[kind |-> "grand_trine", apex |-> None, of |-> t]}
                    ELSE {[kind |-> "t_square", apex |-> apex, of |-> t] :
                            apex \in {x \in t : Squares(t, x)}}
           found == DetectPatterns(aspects)
<1> SUFFICES ASSUME NEW p \in Planet, NEW q \in Planet, NEW r \in Planet,
                    Ord[p] < Ord[q], r \notin {p, q}
             PROVE  /\ HasSquare(found, p, q, r)
                         <=> /\ NearBy(pos, p, q, 180, 8) /\ NearBy(pos, p, r, 90, 7)
                             /\ NearBy(pos, q, r, 90, 7)
                    /\ HasTrine(found, p, q, r)
                         <=> /\ NearBy(pos, p, q, 120, 8) /\ NearBy(pos, p, r, 120, 8)
                             /\ NearBy(pos, q, r, 120, 8)
  <2>1. SUFFICES \A p, q, r \in Planet : Ord[p] < Ord[q] /\ r \notin {p, q} =>
                   /\ HasSquare(found, p, q, r)
                        <=> /\ NearBy(pos, p, q, 180, 8) /\ NearBy(pos, p, r, 90, 7)
                            /\ NearBy(pos, q, r, 90, 7)
                   /\ HasTrine(found, p, q, r)
                        <=> /\ NearBy(pos, p, q, 120, 8) /\ NearBy(pos, p, r, 120, 8)
                            /\ NearBy(pos, q, r, 120, 8)
    BY DEF PatternsAreExact, NearBy, HasSquare, HasTrine
  <2>2. QED
    OBVIOUS
<1>1. found = UNION {Of(t) : t \in kSubset(3, Seen)}
  BY DEF DetectPatterns, Got, Lookup
<1> HIDE DEF pos
<1>2. pos \in [Planet -> Degree]
  BY DEF pos
<1>3. \A a, b \in Planet : a # b => Got(aspects, a, b) = Between(pos, a, b)
  BY <1>2, LookupIsBetween
<1>4. \A a, b \in Planet : a # b /\ Between(pos, a, b) # None => a \in Seen /\ b \in Seen
  <2> SUFFICES ASSUME NEW a \in Planet, NEW b \in Planet, a # b, Between(pos, a, b) # None
               PROVE  a \in Seen /\ b \in Seen
    OBVIOUS
  <2>1. Ord[a] < Ord[b] \/ Ord[b] < Ord[a]
    BY OrdIsOrder
  <2>2. Between(pos, a, b) = Between(pos, b, a)
    BY <1>2, BetweenIsArc
  <2>3. \E x \in aspects : {x.a, x.b} = {a, b}
    <3>1. CASE Ord[a] < Ord[b]
      <4> DEFINE x == [a |-> a, b |-> b, kind |-> Between(pos, a, b)]
      <4>1. x \in aspects /\ x.a = a /\ x.b = b
        BY <1>2, <3>1, AspectsOfPairs
      <4> HIDE DEF x, aspects
      <4>2. QED
        BY <4>1
    <3>2. CASE Ord[b] < Ord[a]
      <4> DEFINE x == [a |-> b, b |-> a, kind |-> Between(pos, b, a)]
      <4>1. x \in aspects /\ x.a = b /\ x.b = a
        BY <1>2, <2>2, <3>2, AspectsOfPairs
      <4> HIDE DEF x, aspects
      <4>2. QED
        BY <4>1
    <3>3. QED
      BY <2>1, <3>1, <3>2
  <2> HIDE DEF aspects
  <2>4. QED
    BY <2>3
<1> HIDE DEF aspects
<1>5. \A t, x : x \in found <=> \E s \in kSubset(3, Seen) : x \in Of(s)
  BY ZenonT(60), <1>1
<1> DEFINE t == {p, q, r}
<1>6. p # q /\ r # p /\ r # q
  BY OrdIsOrder
<1>7. /\ Got(aspects, r, p) = Between(pos, p, r) /\ Got(aspects, p, r) = Between(pos, p, r)
      /\ Got(aspects, r, q) = Between(pos, q, r) /\ Got(aspects, q, r) = Between(pos, q, r)
      /\ Got(aspects, p, q) = Between(pos, p, q) /\ Got(aspects, q, p) = Between(pos, p, q)
  BY <1>2, <1>3, <1>6, BetweenIsArc
<1>8. Trines(t) <=> /\ Between(pos, p, q) = "trine" /\ Between(pos, p, r) = "trine"
                    /\ Between(pos, q, r) = "trine"
  BY <1>6, <1>7
<1>9. Squares(t, r) <=> /\ Between(pos, p, q) = "opposition" /\ Between(pos, p, r) = "square"
                        /\ Between(pos, q, r) = "square"
  BY <1>6, <1>7
<1>10. Trines(t) \/ Squares(t, r) => t \in kSubset(3, Seen)
  <2>1. Cardinality(t) = 3
    BY <1>6, ThreePlanets
  <2>2. None # "trine" /\ None # "opposition" /\ None # "square"
    BY DEF None
  <2>3. Trines(t) \/ Squares(t, r) => t \subseteq Seen
    <3> HIDE DEF Seen, Trines, Squares
    <3>1. QED
      BY <1>4, <1>6, <1>8, <1>9, <2>2
  <2> HIDE DEF t
  <2>4. QED
    BY <2>1, <2>3 DEF kSubset
<1>11. \A s, x : x \in Of(s) =>
         /\ x.of = s
         /\ x.kind = "grand_trine" => Trines(s)
         /\ x.kind = "t_square" => ~ Trines(s) /\ Squares(s, x.apex)
  <2> HIDE DEF Trines, Squares
  <2>1. QED
    OBVIOUS
<1>12. Trines(t) => [kind |-> "grand_trine", apex |-> None, of |-> t] \in Of(t)
  OBVIOUS
<1>13. Squares(t, r) /\ ~ Trines(t) => [kind |-> "t_square", apex |-> r, of |-> t] \in Of(t)
  <2> HIDE DEF Squares, Trines
  <2>1. QED
    OBVIOUS
<1>14. ~ (Trines(t) /\ Squares(t, r))
  BY <1>8, <1>9
<1>15. \A x \in found : x.of = t => x \in Of(t)
  <2> HIDE DEF Of, found, t
  <2>1. QED
    BY <1>5, <1>11
<1>16. t \in kSubset(3, Seen) => Of(t) \subseteq found
  <2> HIDE DEF Of, found, t
  <2>1. QED
    BY <1>5
<1> DEFINE T == [kind |-> "grand_trine", apex |-> None, of |-> t]
           Q == [kind |-> "t_square", apex |-> r, of |-> t]
<1>17. T.kind = "grand_trine" /\ T.of = t /\ Q.kind = "t_square" /\ Q.of = t /\ Q.apex = r
  OBVIOUS
<1> HIDE DEF T, Q, Of, found, Trines, Squares, Seen
<1>18. (\E x \in found : x.kind = "t_square" /\ x.of = t /\ x.apex = r) <=> Squares(t, r)
  <2> HIDE DEF t
  <2>1. QED
    BY <1>10, <1>11, <1>13, <1>14, <1>15, <1>16, <1>17 DEF Q
<1>19. (\E x \in found : x.kind = "grand_trine" /\ x.of = t) <=> Trines(t)
  <2> HIDE DEF t
  <2>1. QED
    BY <1>10, <1>11, <1>12, <1>15, <1>16, <1>17 DEF T
<1>20. \A x, y \in Planet : /\ NearBy(pos, x, y, 180, 8) <=> Between(pos, x, y) = "opposition"
                            /\ NearBy(pos, x, y, 90, 7) <=> Between(pos, x, y) = "square"
                            /\ NearBy(pos, x, y, 120, 8) <=> Between(pos, x, y) = "trine"
  <2> TAKE x, y \in Planet
  <2>1. /\ "opposition" \in DOMAIN Angle /\ Angle["opposition"] = 180 /\ Orb["opposition"] = 8
        /\ "square" \in DOMAIN Angle /\ Angle["square"] = 90 /\ Orb["square"] = 7
        /\ "trine" \in DOMAIN Angle /\ Angle["trine"] = 120 /\ Orb["trine"] = 8
    BY DEF Angle, Orb
  <2>2. \A k \in DOMAIN Angle : NearBy(pos, x, y, Angle[k], Orb[k]) <=> Between(pos, x, y) = k
    BY <1>2, NearIsKind
  <2>3. QED
    BY <2>1, <2>2
<1>21. HasSquare(found, p, q, r) <=> Squares(t, r)
  BY <1>18 DEF HasSquare
<1>22. HasTrine(found, p, q, r) <=> Trines(t)
  BY <1>19 DEF HasTrine
<1>23. QED
  BY <1>8, <1>9, <1>20, <1>21, <1>22

(***************************************************************************)
(* Houses                                                                  *)
(***************************************************************************)
LEMMA AheadIs ==
  ASSUME NEW a \in Degree, NEW b \in Degree
  PROVE  /\ Ahead(a, b) = IF b >= a THEN b - a ELSE b - a + 360
         /\ Ahead(a, b) \in Degree /\ Ahead(a, b) \in Int
<1>1. a \in 0 .. 359 /\ b \in 0 .. 359
  BY DEF Degree
<1>2. Ahead(a, b) = IF b >= a THEN b - a ELSE b - a + 360
  BY SMT, <1>1 DEF Ahead
<1>3. QED
  BY <1>1, <1>2 DEF Degree

\* One turn over 360 degrees is undone by one subtraction.
LEMMA WrapOnce ==
  ASSUME NEW n \in 0 .. 719
  PROVE  n % 360 \in 0 .. 359 /\ (n % 360 = n \/ n % 360 = n - 360)
<1>1. n % 360 \in 0 .. 359
  OBVIOUS
<1>2. n % 360 = n \/ n % 360 = n - 360
  OBVIOUS
<1>3. QED
  BY <1>1, <1>2

\* A house from u up to v, also through 0 degrees.
InArc(u, v, x) == IF u < v THEN x >= u /\ x < v ELSE x >= u \/ x < v

\* A longitude in a house is less far ahead of its first cusp than the second cusp is.
LEMMA ArcIsAhead ==
  ASSUME NEW u \in Degree, NEW v \in Degree, NEW x \in Degree, u # v, InArc(u, v, x)
  PROVE  Ahead(u, x) < Ahead(u, v)
<1>1. /\ Ahead(u, x) = IF x >= u THEN x - u ELSE x - u + 360
      /\ Ahead(u, v) = IF v >= u THEN v - u ELSE v - u + 360
  BY AheadIs
<1>2. QED
  BY <1>1 DEF InArc, Degree

\* A longitude between two cusps, as seen from a third, is in the house between them.
LEMMA ArcFromAhead ==
  ASSUME NEW a \in Degree, NEW u \in Degree, NEW v \in Degree, NEW x \in Degree,
         Ahead(a, u) <= Ahead(a, x), Ahead(a, x) < Ahead(a, v) \/ v = a
  PROVE  InArc(u, v, x)
<1>1. /\ Ahead(a, u) = IF u >= a THEN u - a ELSE u - a + 360
      /\ Ahead(a, v) = IF v >= a THEN v - a ELSE v - a + 360
      /\ Ahead(a, x) = IF x >= a THEN x - a ELSE x - a + 360
  BY AheadIs
<1>2. QED
  BY <1>1 DEF InArc, Degree

\* Cusps in order divide the circle into twelve arcs that are not empty.
LEMMA CuspArcs ==
  ASSUME NEW c, InOrder(c)
  PROVE  /\ \A h \in 1 .. 12 : c[h] \in Degree /\ c[h] # c[(h % 12) + 1]
         /\ ~ IsStub(c)
         /\ \A x \in Degree : \E h \in 1 .. 12 : InArc(c[h], c[(h % 12) + 1], x)
<1> DEFINE O == [h \in 1 .. 12 |-> Ahead(c[1], c[h])]
<1>1. \A h \in 1 .. 12 : c[h] \in Degree
  BY DEF InOrder
<1>2. \A h \in 1 .. 12 : O[h] \in Int
  <2>1. c[1] \in Degree
    BY <1>1
  <2>2. QED
    BY <1>1, <2>1, AheadIs
<1>11. /\ O[1] \in Int /\ O[2] \in Int /\ O[3] \in Int /\ O[4] \in Int /\ O[5] \in Int
       /\ O[6] \in Int /\ O[7] \in Int /\ O[8] \in Int /\ O[9] \in Int /\ O[10] \in Int
       /\ O[11] \in Int /\ O[12] \in Int
  <2> HIDE DEF O
  <2>1. QED
    BY <1>2
<1>3. O[1] = 0
  <2>1. c[1] \in 0 .. 359
    BY <1>1 DEF Degree
  <2>2. QED
    BY SMTT(60), <2>1 DEF Ahead
<1>4. /\ O[1] < O[2] /\ O[2] < O[3] /\ O[3] < O[4] /\ O[4] < O[5] /\ O[5] < O[6]
      /\ O[6] < O[7] /\ O[7] < O[8] /\ O[8] < O[9] /\ O[9] < O[10] /\ O[10] < O[11]
      /\ O[11] < O[12]
  <2>1. \A h \in 1 .. 11 : O[h] < O[h + 1]
    BY DEF InOrder
  <2>2. \A h \in 1 .. 11, k \in 1 .. 12 : k = h + 1 => O[h] < O[k]
    BY <2>1
  <2> HIDE DEF O
  <2>3. QED
    BY <2>2
<1>5. \A h \in 1 .. 11 : (h % 12) + 1 = h + 1
  OBVIOUS
<1>6. (12 % 12) + 1 = 1
  OBVIOUS
<1>7. \A h \in 1 .. 12 : c[h] # c[(h % 12) + 1]
  <2>1. \A h \in 1 .. 11 : O[h] < O[h + 1]
    BY DEF InOrder
  <2>2. \A h \in 1 .. 11 : c[h] # c[h + 1]
    <3> TAKE h \in 1 .. 11
    <3>1. O[h] = Ahead(c[1], c[h]) /\ O[h + 1] = Ahead(c[1], c[h + 1])
      OBVIOUS
    <3> HIDE DEF O
    <3>2. O[h] # O[h + 1]
      BY <1>2, <2>1
    <3>3. QED
      BY <3>1, <3>2
  <2>3. O[1] < O[12]
    <3> HIDE DEF O
    <3>1. QED
      BY <1>11, <1>4
  <2>4. c[12] # c[1]
    <3>1. O[1] = Ahead(c[1], c[1]) /\ O[12] = Ahead(c[1], c[12])
      OBVIOUS
    <3> HIDE DEF O
    <3>2. O[1] # O[12]
      BY <1>11, <2>3
    <3>3. QED
      BY <3>1, <3>2
  <2>5. QED
    BY <1>5, <1>6, <2>2, <2>4
<1>8. ~ IsStub(c)
  <2>1. c[1] # c[2]
    <3>1. 1 \in 1 .. 12 /\ (1 % 12) + 1 = 2
      OBVIOUS
    <3>2. QED
      BY <1>7, <3>1
  <2>2. QED
    BY <2>1 DEF IsStub
<1>9. ASSUME NEW x \in Degree
      PROVE  \E h \in 1 .. 12 : InArc(c[h], c[(h % 12) + 1], x)
  <2> DEFINE X == Ahead(c[1], x)
  <2>1. c[1] \in Degree
    BY <1>1
  <2>2. X \in Degree
    BY <2>1, AheadIs
  <2>3. \/ O[1] <= X /\ X < O[2]
        \/ O[2] <= X /\ X < O[3]
        \/ O[3] <= X /\ X < O[4]
        \/ O[4] <= X /\ X < O[5]
        \/ O[5] <= X /\ X < O[6]
        \/ O[6] <= X /\ X < O[7]
        \/ O[7] <= X /\ X < O[8]
        \/ O[8] <= X /\ X < O[9]
        \/ O[9] <= X /\ X < O[10]
        \/ O[10] <= X /\ X < O[11]
        \/ O[11] <= X /\ X < O[12]
        \/ O[12] <= X
    <3>1. X \in Nat
      BY <2>2 DEF Degree
    <3> HIDE DEF O, X
    <3>2. QED
      BY <1>11, <1>3, <1>4, <3>1
  <2>4. \A h \in 1 .. 11, k \in 1 .. 12 :
          k = h + 1 /\ O[h] <= X /\ X < O[k] => InArc(c[h], c[(h % 12) + 1], x)
    <3> TAKE h \in 1 .. 11, k \in 1 .. 12
    <3> SUFFICES ASSUME k = h + 1, O[h] <= X, X < O[k]
                 PROVE  InArc(c[h], c[(h % 12) + 1], x)
      OBVIOUS
    <3>1. c[h] \in Degree /\ c[k] \in Degree /\ (h % 12) + 1 = k
      BY <1>1
    <3>2. Ahead(c[1], c[h]) <= X /\ X < Ahead(c[1], c[k])
      OBVIOUS
    <3>3. InArc(c[h], c[k], x)
      BY <2>1, <3>1, <3>2, ArcFromAhead
    <3>4. QED
      BY <3>1, <3>3
  <2>5. O[12] <= X => InArc(c[12], c[(12 % 12) + 1], x)
    <3>1. c[12] \in Degree
      BY <1>1
    <3>2. O[12] = Ahead(c[1], c[12])
      OBVIOUS
    <3>4. O[12] <= X => InArc(c[12], c[1], x)
      BY <2>1, <3>1, <3>2, ArcFromAhead
    <3>3. QED
      BY <1>6, <3>4
  <2>6. ASSUME ~ \E h \in 1 .. 12 : InArc(c[h], c[(h % 12) + 1], x)
        PROVE  FALSE
    <3>1. \A h \in 1 .. 11, k \in 1 .. 12 : k = h + 1 => ~ (O[h] <= X /\ X < O[k])
      BY <2>4, <2>6
    <3>2. ~ (O[12] <= X)
      BY <2>5, <2>6
    <3> HIDE DEF O, X
    <3>3. QED
      BY <2>3, <3>1, <3>2
  <2>7. QED
    BY <2>6
<1>10. QED
  BY <1>1, <1>7, <1>8, <1>9

\* Every degree is in the house whose arc it lies on.
LEMMA HouseIsArc ==
  ASSUME NEW c, InOrder(c), NEW x \in Degree
  PROVE  /\ HouseOf(c, x) \in 1 .. 12
         /\ Ahead(c[HouseOf(c, x)], x) < Ahead(c[HouseOf(c, x)], c[(HouseOf(c, x) % 12) + 1])
<1> DEFINE inside == {h \in 1 .. 12 : InArc(c[h], c[(h % 12) + 1], x)}
           h == HouseOf(c, x)
<1>1. Norm(x) = x
  BY DEF Norm, Degree
<1>2. h = IF inside = {} THEN 1 ELSE Min(inside)
  BY <1>1 DEF HouseOf, InArc
<1>3. inside # {}
  BY CuspArcs
<1>4. inside \in SUBSET Nat
  OBVIOUS
<1>5. h \in inside
  <2> HIDE DEF inside
  <2>1. QED
    BY <1>2, <1>3, <1>4, MinIsLeast
<1> HIDE DEF h
<1>6. h \in 1 .. 12 /\ InArc(c[h], c[(h % 12) + 1], x)
  BY <1>5
<1>7. (h % 12) + 1 \in 1 .. 12
  BY <1>6
<1>8. c[h] \in Degree /\ c[(h % 12) + 1] \in Degree /\ c[h] # c[(h % 12) + 1]
  BY <1>6, <1>7, CuspArcs
<1>9. Ahead(c[h], x) < Ahead(c[h], c[(h % 12) + 1])
  BY <1>6, <1>8, ArcIsAhead
<1>10. QED
  BY <1>6, <1>9 DEF h

\* Both systems of equal arcs are in order.
LEMMA EqualInOrder ==
  ASSUME NEW asc \in Degree
  PROVE  InOrder(EqualHouseCusps(asc)) /\ InOrder(WholeSignCusps(asc))
<1>1. InOrder(EqualHouseCusps(asc))
  <2> DEFINE c == EqualHouseCusps(asc)
  <2>1. \A h \in 1 .. 12 : /\ c[h] \in Degree
                           /\ c[h] = asc + 30 * (h - 1) \/ c[h] = asc + 30 * (h - 1) - 360
    <3>1. asc \in 0 .. 359
      BY DEF Degree
    <3>2. \A h \in 1 .. 12 : c[h] = (asc + 30 * (h - 1)) % 360
      BY DEF EqualHouseCusps, Norm
    <3> HIDE DEF c
    <3>3. ASSUME NEW h \in 1 .. 12
          PROVE  c[h] \in Degree /\ (c[h] = asc + 30 * (h - 1) \/ c[h] = asc + 30 * (h - 1) - 360)
      <4> DEFINE n == asc + 30 * (h - 1)
      <4>1. n \in 0 .. 719
        BY <3>1
      <4>2. c[h] = n % 360
        BY <3>2
      <4> HIDE DEF n
      <4>3. n % 360 \in 0 .. 359 /\ (n % 360 = n \/ n % 360 = n - 360)
        BY ZenonT(60), <4>1, WrapOnce
      <4>4. QED
        BY <4>2, <4>3 DEF n, Degree
    <3>4. QED
      BY <3>3
  <2>2. c[1] = asc
    BY DEF EqualHouseCusps, Norm, Degree
  <2>3. c \in [1 .. 12 -> Degree]
    BY <2>1 DEF EqualHouseCusps
  <2> HIDE DEF c
  <2>4. \A h \in 1 .. 12 : Ahead(c[1], c[h]) = 30 * (h - 1)
    <3> TAKE h \in 1 .. 12
    <3>1. Ahead(asc, c[h]) = IF c[h] >= asc THEN c[h] - asc ELSE c[h] - asc + 360
      BY <2>1, AheadIs
    <3>2. QED
      BY SMTT(60), <2>1, <2>2, <3>1 DEF Degree
  <2>5. QED
    BY <2>3, <2>4 DEF InOrder, c
<1>2. InOrder(WholeSignCusps(asc))
  <2> DEFINE c == WholeSignCusps(asc)
             s == SignOf(asc)
  <2>1. s \in 0 .. 11
    BY DEF SignOf, Norm, Degree
  <2>2. \A h \in 1 .. 12 : c[h] = ((s + h - 1) % 12) * 30
    BY DEF WholeSignCusps
  <2>3. c = [h \in 1 .. 12 |-> c[h]]
    BY DEF WholeSignCusps
  <2> HIDE DEF c, s
  <2>4. \A h \in 1 .. 12 : (s + h - 1) % 12 = s + h - 1 \/ (s + h - 1) % 12 = s + h - 1 - 12
    BY <2>1
  <2>5. \A h \in 1 .. 12 : (s + h - 1) % 12 \in 0 .. 11
    BY <2>1
  <2>6. \A h \in 1 .. 12 : /\ c[h] \in Degree
                           /\ c[h] = 30 * s + 30 * (h - 1) \/ c[h] = 30 * s + 30 * (h - 1) - 360
    BY SMTT(60), <2>1, <2>2, <2>4, <2>5 DEF Degree
  <2>7. c[1] = 30 * s
    <3>1. (s + 1 - 1) % 12 = s
      BY <2>1
    <3>2. QED
      BY <2>1, <2>2, <3>1
  <2>8. \A h \in 1 .. 12 : Ahead(c[1], c[h]) = 30 * (h - 1)
    <3> TAKE h \in 1 .. 12
    <3>1. c[1] \in Degree
      BY <2>6
    <3>2. Ahead(c[1], c[h]) = IF c[h] >= c[1] THEN c[h] - c[1] ELSE c[h] - c[1] + 360
      BY <2>6, <3>1, AheadIs
    <3>3. QED
      BY SMTT(60), <2>1, <2>6, <2>7, <3>2 DEF Degree
  <2>9. c \in [1 .. 12 -> Degree]
    BY <2>3, <2>6
  <2>10. QED
    BY <2>8, <2>9 DEF InOrder, c
<1>3. QED
  BY <1>1, <1>2

\* What every chart has: a degree for each planet, and cusps that are the stub of a
\* place without coordinates or in order.
ChartTyped(c) ==
  /\ c.positions \in [Planet -> Degree]
  /\ c.cusps = Stub \/ InOrder(c.cusps)
  /\ c.asc \in Degree

\* The planets a page shows in a house, and those whose longitude is in it.
ShownIn(c, h) ==
  {i.key.planet : i \in {j \in PlacementItems(c) : j.key.kind = "placement" /\ j.key.house = h}}
InHouseNumber(c, h) == {p \in Planet : HouseOf(c.cusps, c.positions[p]) = h}

\* The planets a page shows in a house are those whose longitude is in it.
LEMMA ShownInHouse ==
  ASSUME NEW c, ~ IsStub(c.cusps), NEW h
  PROVE  ShownIn(c, h) = InHouseNumber(c, h)
<1> DEFINE H(p) == HouseOf(c.cusps, c.positions[p])
           S(p) == SignOf(c.positions[p])
           C(p) == IsCriticalDegree(c.positions[p])
           I(p) == [key |-> PlacementKey(p, S(p), H(p)), critical |-> C(p)]
           A == [key |-> AngleKey("asc", SignOf(c.asc)), critical |-> IsCriticalDegree(c.asc)]
           M == [key |-> AngleKey("mc", SignOf(c.mc)), critical |-> IsCriticalDegree(c.mc)]
           Shown == {j \in PlacementItems(c) : j.key.kind = "placement" /\ j.key.house = h}
<1>1. PlacementItems(c) = {I(p) : p \in Planet} \cup {A, M}
  BY DEF PlacementItems
<1>2. \A p \in Planet : /\ I(p).key.planet = p /\ I(p).key.house = H(p)
                        /\ I(p).key.kind = "placement"
  BY DEF PlacementKey
<1>3. A.key.kind # "placement" /\ M.key.kind # "placement"
  BY DEF AngleKey
<1> HIDE DEF I, A, M, H
<1>4. \A j : j \in Shown <=> \E p \in Planet : j = I(p) /\ H(p) = h
  BY <1>1, <1>2, <1>3
<1> HIDE DEF Shown
<1>5. {i.key.planet : i \in Shown} = {p \in Planet : H(p) = h}
  BY <1>2, <1>4
<1>6. QED
  BY <1>5 DEF Shown, H, ShownIn, InHouseNumber

\* The groups of three or more are those there are.
LEMMA GroupOf ==
  ASSUME NEW of, NEW v
  PROVE  Cardinality({q \in DOMAIN of : of[q] = v}) >= 3 <=>
           [at |-> v, planets |-> {q \in DOMAIN of : of[q] = v}] \in Groups(of, 3)
<1> DEFINE G(w) == {q \in DOMAIN of : of[q] = w}
           R(p) == [at |-> of[p], planets |-> G(of[p])]
           g == [at |-> v, planets |-> G(v)]
<1>1. Groups(of, 3) = {r \in {R(p) : p \in DOMAIN of} : Cardinality(r.planets) >= 3}
  BY DEF Groups
<1>2. g.planets = G(v)
  OBVIOUS
<1>3. Cardinality(G(v)) >= 3 => \E p \in DOMAIN of : of[p] = v
  <2>1. G(v) = {} => Cardinality(G(v)) = 0
    BY FS_EmptySet
  <2>2. G(v) # {} => \E p \in DOMAIN of : of[p] = v
    OBVIOUS
  <2> HIDE DEF G
  <2>3. QED
    BY <2>1, <2>2
<1>4. \A p \in DOMAIN of : of[p] = v => R(p) = g
  OBVIOUS
<1> HIDE DEF G, R, g
<1>5. Cardinality(G(v)) >= 3 <=> g \in Groups(of, 3)
  BY <1>1, <1>2, <1>3, <1>4
<1>6. QED
  BY <1>5 DEF G, g

\* The houses named in a chart, and its stelliums by house, are those its cusps give.
LEMMA ChartHouses ==
  ASSUME NEW c, ChartTyped(c)
  PROVE  HousesAreExact(c)
<1>1. CASE IsStub(c.cusps)
  <2>1. StelliumsByHouse(c.cusps, c.positions) = {}
    BY <1>1 DEF StelliumsByHouse
  <2>2. \A i \in PlacementItems(c) : i.key.kind = "placement" => i.key.house = NoHouse
    <3> DEFINE S(p) == SignOf(c.positions[p])
               C(p) == IsCriticalDegree(c.positions[p])
               I(p) == [key |-> PlacementKey(p, S(p), NoHouse), critical |-> C(p)]
               A == [key |-> AngleKey("asc", SignOf(c.asc)), critical |-> IsCriticalDegree(c.asc)]
               M == [key |-> AngleKey("mc", SignOf(c.mc)), critical |-> IsCriticalDegree(c.mc)]
    <3>1. PlacementItems(c) = {I(p) : p \in Planet} \cup {A, M}
      BY <1>1 DEF PlacementItems
    <3>2. \A p \in Planet : I(p).key.house = NoHouse
      BY DEF PlacementKey
    <3>3. A.key.kind # "placement" /\ M.key.kind # "placement"
      BY DEF AngleKey
    <3> HIDE DEF I, A, M
    <3>4. QED
      BY <3>1, <3>2, <3>3
  <2>3. QED
    BY <1>1, <2>1, <2>2 DEF HousesAreExact
<1>2. CASE ~ IsStub(c.cusps)
  <2>1. InOrder(c.cusps)
    <3>1. IsStub(Stub)
      BY SMTT(60) DEF Stub, IsStub
    <3>2. QED
      BY <1>2, <3>1 DEF ChartTyped
  <2>2. \A lon \in 0 .. 359 : LET h == HouseOf(c.cusps, lon) IN
          Ahead(c.cusps[h], lon) < Ahead(c.cusps[h], c.cusps[(h % 12) + 1])
    BY <2>1, HouseIsArc DEF Degree
  <2>3. \A h \in 1 .. 12 :
          LET there == {i.key.planet : i \in {j \in PlacementItems(c) :
                          j.key.kind = "placement" /\ j.key.house = h}}
          IN  Cardinality(there) >= 3 <=>
                [at |-> h, planets |-> there] \in StelliumsByHouse(c.cusps, c.positions)
    <3> TAKE h \in 1 .. 12
    <3> DEFINE there == {i.key.planet : i \in {j \in PlacementItems(c) :
                          j.key.kind = "placement" /\ j.key.house = h}}
               of == HousePositions(c.cusps, c.positions)
               G == {q \in DOMAIN of : of[q] = h}
    <3>1. there = InHouseNumber(c, h)
      BY <1>2, ShownInHouse DEF ShownIn
    <3>2. DOMAIN of = Planet /\ \A q \in Planet : of[q] = HouseOf(c.cusps, c.positions[q])
      BY DEF HousePositions, ChartTyped
    <3>3. there = G
      <4> HIDE DEF there, of
      <4>1. QED
        BY <3>1, <3>2 DEF InHouseNumber
    <3>4. StelliumsByHouse(c.cusps, c.positions) = Groups(of, 3)
      BY <1>2 DEF StelliumsByHouse, MIN_STELLIUM_SIZE
    <3>5. Cardinality(G) >= 3 <=> [at |-> h, planets |-> G] \in Groups(of, 3)
      BY GroupOf
    <3> HIDE DEF there, G, of
    <3>6. Cardinality(there) >= 3 <=>
            [at |-> h, planets |-> there] \in StelliumsByHouse(c.cusps, c.positions)
      BY <3>3, <3>4, <3>5
    <3>7. QED
      BY <3>6 DEF there
  <2>4. QED
    BY ZenonT(60), <1>2, <2>2, <2>3 DEF HousesAreExact
<1>3. QED
  BY <1>1, <1>2

(***************************************************************************)
(* Signs                                                                   *)
(***************************************************************************)
\* The planets whose sign leaves r when divided by m, and the pairs of a planet and
\* a number below m that the sign leaves.
Slice(pos, m, r) == {p \in Planet : SignOf(pos[p]) % m = r}
Pairs(pos, R, m) == {x \in Planet \X R : (SignOf(pos[x[1]]) - x[2]) % m = 0}

\* The planets that a divisor leaves one remainder of are counted as well paired with it.
LEMMA SliceIsFinite ==
  ASSUME NEW pos, NEW m, NEW r
  PROVE  /\ IsFiniteSet(Slice(pos, m, r)) /\ Cardinality(Slice(pos, m, r)) \in Nat
         /\ IsFiniteSet(Slice(pos, m, r) \X {r})
         /\ Cardinality(Slice(pos, m, r) \X {r}) = Cardinality(Slice(pos, m, r))
<1> DEFINE P == Slice(pos, m, r)
<1>1. P \in SUBSET Planet
  BY DEF Slice
<1> HIDE DEF P
<1>2. IsFiniteSet(P) /\ Cardinality(P) \in Nat
  BY <1>1, PlanetSet, FS_Subset, FS_CardinalityType
<1>3. IsFiniteSet({r}) /\ Cardinality({r}) = 1
  BY FS_Singleton
<1>4. IsFiniteSet(P \X {r}) /\ Cardinality(P \X {r}) = Cardinality(P) * Cardinality({r})
  BY <1>2, <1>3, FS_Product
<1>5. QED
  BY <1>2, <1>3, <1>4 DEF P

\* The cardinality of the union of two sets that share nothing.
LEMMA JoinApart ==
  ASSUME NEW A, NEW B, IsFiniteSet(A), IsFiniteSet(B), A \cap B = {}
  PROVE  IsFiniteSet(A \cup B) /\ Cardinality(A \cup B) = Cardinality(A) + Cardinality(B)
<1>1. Cardinality(A) \in Nat /\ Cardinality(B) \in Nat /\ Cardinality({}) = 0
  BY FS_CardinalityType, FS_EmptySet
<1>2. /\ IsFiniteSet(A \cup B)
      /\ Cardinality(A \cup B) = Cardinality(A) + Cardinality(B) - Cardinality(A \cap B)
  BY FS_Union
<1>3. Cardinality(A \cap B) = 0
  BY <1>1
<1>4. QED
  BY <1>1, <1>2, <1>3

\* Every planet is counted in exactly one element and in exactly one modality.
LEMMA Elements ==
  ASSUME NEW pos \in [Planet -> Degree]
  PROVE  Cardinality(Slice(pos, 4, 0)) + Cardinality(Slice(pos, 4, 1))
           + Cardinality(Slice(pos, 4, 2)) + Cardinality(Slice(pos, 4, 3))
           = Cardinality(Pairs(pos, 0 .. 3, 4))
<1> DEFINE A == Slice(pos, 4, 0) \X {0}
           B == Slice(pos, 4, 1) \X {1}
           C == Slice(pos, 4, 2) \X {2}
           D == Slice(pos, 4, 3) \X {3}
<1>1. Pairs(pos, 0 .. 3, 4) = ((A \cup B) \cup C) \cup D
  <2>1. \A p \in Planet : SignOf(pos[p]) \in 0 .. 11
    BY DEF SignOf, Norm, Degree
  <2>2. \A p \in Planet, r \in 0 .. 3 :
          (SignOf(pos[p]) - r) % 4 = 0 <=> SignOf(pos[p]) % 4 = r
    <3> TAKE p \in Planet, r \in 0 .. 3
    <3> DEFINE s == SignOf(pos[p])
    <3>1. s \in 0 .. 11
      BY <2>1
    <3> HIDE DEF s
    <3>2. (s - r) % 4 = 0 <=> s % 4 = r
      BY SMT, <3>1
    <3>3. QED
      BY <3>2 DEF s
  <2>3. \A x : x \in Pairs(pos, 0 .. 3, 4) <=> \E p \in Planet, r \in 0 .. 3 :
                                         x = <<p, r>> /\ p \in Slice(pos, 4, r)
    <3>1. Pairs(pos, 0 .. 3, 4) = {x \in Planet \X (0 .. 3) : (SignOf(pos[x[1]]) - x[2]) % 4 = 0}
      BY DEF Pairs
    <3>2. QED
      BY <2>2, <3>1 DEF Slice
  <2>4. \A r \in 0 .. 3 : r = 0 \/ r = 1 \/ r = 2 \/ r = 3
    OBVIOUS
  <2>5. \A r : Slice(pos, 4, r) \subseteq Planet
    BY DEF Slice
  <2>6. \A x : x \in ((A \cup B) \cup C) \cup D <=>
                 \E p \in Planet, r \in 0 .. 3 : x = <<p, r>> /\ p \in Slice(pos, 4, r)
    BY <2>4, <2>5
  <2> HIDE DEF A, B, C, D
  <2>7. QED
    BY <2>3, <2>6
<1>2. /\ IsFiniteSet(A) /\ Cardinality(A) = Cardinality(Slice(pos, 4, 0))
      /\ IsFiniteSet(B) /\ Cardinality(B) = Cardinality(Slice(pos, 4, 1))
      /\ IsFiniteSet(C) /\ Cardinality(C) = Cardinality(Slice(pos, 4, 2))
      /\ IsFiniteSet(D) /\ Cardinality(D) = Cardinality(Slice(pos, 4, 3))
  BY SliceIsFinite
<1>3. A \cap B = {} /\ (A \cup B) \cap C = {} /\ ((A \cup B) \cup C) \cap D = {}
  OBVIOUS
<1> HIDE DEF A, B, C, D
<1>4. IsFiniteSet(A \cup B) /\ Cardinality(A \cup B) = Cardinality(A) + Cardinality(B)
  BY <1>2, <1>3, JoinApart
<1>5. /\ IsFiniteSet((A \cup B) \cup C)
      /\ Cardinality((A \cup B) \cup C) = Cardinality(A \cup B) + Cardinality(C)
  BY <1>2, <1>3, <1>4, JoinApart
<1>6. Cardinality(((A \cup B) \cup C) \cup D) = Cardinality((A \cup B) \cup C) + Cardinality(D)
  BY <1>2, <1>3, <1>5, JoinApart
<1>7. QED
  BY <1>1, <1>2, <1>4, <1>5, <1>6

\* The counts of the three modalities sum to the pairs of planet and modality.
LEMMA Modalities ==
  ASSUME NEW pos \in [Planet -> Degree]
  PROVE  Cardinality(Slice(pos, 3, 0)) + Cardinality(Slice(pos, 3, 1))
           + Cardinality(Slice(pos, 3, 2)) = Cardinality(Pairs(pos, 0 .. 2, 3))
<1> DEFINE A == Slice(pos, 3, 0) \X {0}
           B == Slice(pos, 3, 1) \X {1}
           C == Slice(pos, 3, 2) \X {2}
<1>1. Pairs(pos, 0 .. 2, 3) = (A \cup B) \cup C
  <2>1. \A p \in Planet : SignOf(pos[p]) \in 0 .. 11
    BY DEF SignOf, Norm, Degree
  <2>2. \A p \in Planet, r \in 0 .. 2 :
          (SignOf(pos[p]) - r) % 3 = 0 <=> SignOf(pos[p]) % 3 = r
    <3> TAKE p \in Planet, r \in 0 .. 2
    <3> DEFINE s == SignOf(pos[p])
    <3>1. s \in 0 .. 11
      BY <2>1
    <3> HIDE DEF s
    <3>2. (s - r) % 3 = 0 <=> s % 3 = r
      BY SMT, <3>1
    <3>3. QED
      BY <3>2 DEF s
  <2>3. \A x : x \in Pairs(pos, 0 .. 2, 3) <=> \E p \in Planet, r \in 0 .. 2 :
                                         x = <<p, r>> /\ p \in Slice(pos, 3, r)
    <3>1. Pairs(pos, 0 .. 2, 3) = {x \in Planet \X (0 .. 2) : (SignOf(pos[x[1]]) - x[2]) % 3 = 0}
      BY DEF Pairs
    <3>2. QED
      BY <2>2, <3>1 DEF Slice
  <2>4. \A r \in 0 .. 2 : r = 0 \/ r = 1 \/ r = 2
    OBVIOUS
  <2>5. \A r : Slice(pos, 3, r) \subseteq Planet
    BY DEF Slice
  <2>6. \A x : x \in (A \cup B) \cup C <=>
                 \E p \in Planet, r \in 0 .. 2 : x = <<p, r>> /\ p \in Slice(pos, 3, r)
    BY <2>4, <2>5
  <2> HIDE DEF A, B, C
  <2>7. QED
    BY <2>3, <2>6
<1>2. /\ IsFiniteSet(A) /\ Cardinality(A) = Cardinality(Slice(pos, 3, 0))
      /\ IsFiniteSet(B) /\ Cardinality(B) = Cardinality(Slice(pos, 3, 1))
      /\ IsFiniteSet(C) /\ Cardinality(C) = Cardinality(Slice(pos, 3, 2))
  BY SliceIsFinite
<1>3. A \cap B = {} /\ (A \cup B) \cap C = {}
  OBVIOUS
<1> HIDE DEF A, B, C
<1>4. IsFiniteSet(A \cup B) /\ Cardinality(A \cup B) = Cardinality(A) + Cardinality(B)
  BY <1>2, <1>3, JoinApart
<1>5. Cardinality((A \cup B) \cup C) = Cardinality(A \cup B) + Cardinality(C)
  BY <1>2, <1>3, <1>4, JoinApart
<1>6. QED
  BY <1>1, <1>2, <1>4, <1>5

\* Every planet is counted under one element and one modality, at least as often as in
\* a stellium of its sign; the moon's phase is that of its arc from the sun; and the
\* ascendant of the big three is the placement shown.
LEMMA ChartSigns ==
  ASSUME NEW c, ChartTyped(c)
  PROVE  SignsAreExact(c)
<1> DEFINE pos == c.positions
           b == NatalBalance(pos)
           Total(f) == Cardinality({x \in Planet \X DOMAIN f :
                         (SignOf(pos[x[1]]) - x[2]) % Cardinality(DOMAIN f) = 0})
<1>1. pos \in [Planet -> Degree] /\ DOMAIN pos = Planet
  BY DEF ChartTyped
<1>2. /\ DOMAIN b.element = 0 .. 3 /\ DOMAIN b.modality = 0 .. 2
      /\ \A r \in 0 .. 3 : b.element[r] = Cardinality(Slice(pos, 4, r))
      /\ \A r \in 0 .. 2 : b.modality[r] = Cardinality(Slice(pos, 3, r))
  BY <1>1 DEF NatalBalance, Slice
<1>3. Cardinality(0 .. 3) = 4 /\ Cardinality(0 .. 2) = 3
  <2>1. 0 \in Int /\ 3 \in Int /\ 2 \in Int
    OBVIOUS
  <2>2. /\ Cardinality(0 .. 3) = IF 0 > 3 THEN 0 ELSE 3 - 0 + 1
        /\ Cardinality(0 .. 2) = IF 0 > 2 THEN 0 ELSE 2 - 0 + 1
    BY <2>1, FS_Interval
  <2>3. QED
    BY <2>2
<1>4. /\ Total(b.element) = Cardinality(Pairs(pos, 0 .. 3, 4))
      /\ Total(b.modality) = Cardinality(Pairs(pos, 0 .. 2, 3))
  <2>1. /\ Total(b.element)
             = Cardinality(Pairs(pos, DOMAIN b.element, Cardinality(DOMAIN b.element)))
        /\ Total(b.modality)
             = Cardinality(Pairs(pos, DOMAIN b.modality, Cardinality(DOMAIN b.modality)))
    BY DEF Pairs
  <2> HIDE DEF b, pos, Total
  <2>2. QED
    BY <1>2, <1>3, <2>1
<1>5. b.element[0] + b.element[1] + b.element[2] + b.element[3] = Total(b.element)
  <2> HIDE DEF b, pos, Total
  <2>1. QED
    BY <1>1, <1>2, <1>4, Elements
<1>6. b.modality[0] + b.modality[1] + b.modality[2] = Total(b.modality)
  <2> HIDE DEF b, pos, Total
  <2>1. QED
    BY <1>1, <1>2, <1>4, Modalities
<1>7. \A s \in StelliumsBySign(pos) :
        /\ b.element[s.at % 4] >= Cardinality(s.planets)
        /\ b.modality[s.at % 3] >= Cardinality(s.planets)
  <2> TAKE s \in StelliumsBySign(pos)
  <2> DEFINE of == SignsOf(pos)
             G(v) == {q \in DOMAIN of : of[q] = v}
  <2>1. DOMAIN of = Planet /\ \A q \in Planet : of[q] = SignOf(pos[q]) /\ of[q] \in 0 .. 11
    BY <1>1 DEF SignsOf, SignOf, Norm, Degree
  <2>2. \E p \in DOMAIN of : s.at = of[p] /\ s.planets = G(of[p])
    BY DEF StelliumsBySign, Groups
  <2>3. s.at \in 0 .. 11 /\ s.planets = G(s.at)
    <3> HIDE DEF of, G
    <3>1. QED
      BY <2>1, <2>2
  <2>4. \A q \in s.planets : q \in Planet /\ SignOf(pos[q]) = s.at
    <3> HIDE DEF of, pos
    <3>1. QED
      BY <2>1, <2>3
  <2>5. s.planets \in SUBSET Slice(pos, 4, s.at % 4) /\ s.planets \in SUBSET Slice(pos, 3, s.at % 3)
    BY <2>4 DEF Slice
  <2>6. s.at % 4 \in 0 .. 3 /\ s.at % 3 \in 0 .. 2
    BY <2>3
  <2>7. /\ Cardinality(s.planets) <= Cardinality(Slice(pos, 4, s.at % 4))
        /\ Cardinality(s.planets) <= Cardinality(Slice(pos, 3, s.at % 3))
        /\ Cardinality(s.planets) \in Nat
    <3> HIDE DEF pos
    <3>1. QED
      BY <2>5, SliceIsFinite, FS_Subset, FS_CardinalityType
  <2>8. /\ Cardinality(Slice(pos, 4, s.at % 4)) \in Nat
        /\ Cardinality(Slice(pos, 3, s.at % 3)) \in Nat
    BY SliceIsFinite
  <2> HIDE DEF pos, b
  <2>9. QED
    BY <1>2, <2>6, <2>7, <2>8
<1>8. \A moon \in 0 .. 359 :
        PhaseFromLongitudes(pos["sun"], moon)
          = PHASES[((2 * Ahead(pos["sun"], moon) + 45) \div 90) + 1]
  <2>1. pos["sun"] \in Int
    BY SMTT(60), <1>1, PlanetSet DEF Degree
  <2> DEFINE sun == pos["sun"]
  <2> HIDE DEF pos, sun
  <2>2. ASSUME NEW moon \in 0 .. 359
        PROVE  PhaseFromLongitudes(sun, moon)
                 = PHASES[((2 * ((moon - sun) % 360) + 45) \div 90) + 1]
    <3>1. sun \in Int /\ moon \in Int
      BY <2>1 DEF sun
    <3>2. QED
      BY ZenonT(60), <3>1, PhaseIsEighth
  <2>3. QED
    BY ZenonT(60), <2>2 DEF Ahead, sun
<1>9. AngleKey("asc", BigThree(c).ascendant_sign) \in {i.key : i \in PlacementItems(c)}
  <2> DEFINE A == [key |-> AngleKey("asc", SignOf(c.asc)), critical |-> IsCriticalDegree(c.asc)]
  <2>1. A \in PlacementItems(c)
    BY DEF PlacementItems
  <2>2. A.key = AngleKey("asc", SignOf(c.asc))
    OBVIOUS
  <2>3. BigThree(c).ascendant_sign = SignOf(c.asc)
    BY DEF BigThree
  <2> HIDE DEF A
  <2>4. QED
    BY <2>1, <2>2, <2>3
<1>10. QED
  BY ZenonT(60), <1>5, <1>6, <1>7, <1>8, <1>9 DEF SignsAreExact

\* A chart computed from a birth has a longitude for each planet, and cusps in order
\* when the place of birth is known.
LEMMA ComputedTyped ==
  ASSUME NEW b \in Births
  PROVE  /\ ChartTyped(ComputeWith(b)) /\ ComputeWith(b).birth = b /\ BirthTyped(b)
         /\ b.geohash = "full" => InOrder(ComputeWith(b).cusps)
         /\ ComputeWith(b) # NoChart
<1> DEFINE h == ComputeHouses(b)
           c == ComputeWith(b)
<1>1. BirthTyped(b) /\ \A p \in Planet : Longitude(p, BirthJdn(b)) \in Degree
  BY ChartAssumption
<1>2. c = [birth |-> b, positions |-> Sky(BirthJdn(b)), cusps |-> h.cusps,
           asc |-> h.asc, mc |-> h.mc]
  BY DEF ComputeWith
<1>3. /\ c.birth = b /\ c.positions = Sky(BirthJdn(b)) /\ c.cusps = h.cusps /\ c.asc = h.asc
      /\ "birth" \in DOMAIN c
  BY <1>2
<1>4. Sky(BirthJdn(b)) \in [Planet -> Degree]
  BY <1>1 DEF Sky
<1>5. CASE b.geohash = "full"
  <2> DEFINE H == Horizon(b)
  <2>1. /\ h.asc = H.asc /\ H.asc \in Degree
        /\ \/ b.houses = "whole_sign" /\ h.cusps = WholeSignCusps(H.asc)
           \/ b.houses = "equal" /\ h.cusps = EqualHouseCusps(H.asc)
           \/ b.houses \in {"placidus", "koch"} /\ h.cusps = H.placidus /\ InOrder(H.placidus)
    BY <1>1, <1>5 DEF ComputeHouses, BirthTyped
  <2>2. InOrder(h.cusps) /\ h.asc \in Degree
    <3> HIDE DEF H, h
    <3>1. QED
      BY <2>1, EqualInOrder
  <2> HIDE DEF h, c
  <2>3. QED
    BY <1>1, <1>3, <1>4, <2>2 DEF ChartTyped, NoChart, c
<1>6. CASE b.geohash # "full"
  <2>1. h.cusps = Stub /\ h.asc = 0
    BY <1>6 DEF ComputeHouses
  <2>2. h.asc \in Degree
    BY <2>1 DEF Degree
  <2> HIDE DEF h, c
  <2>3. QED
    BY <1>1, <1>3, <1>4, <1>6, <2>1, <2>2 DEF ChartTyped, NoChart, c
<1>7. QED
  BY <1>5, <1>6

(***************************************************************************)
(* The inductive invariant: both charts are computed from births, a peer's *)
(* only beside one's own, which has houses; the clock counts ticks; and    *)
(* what was issued is what the chart and the clock give.                   *)
(***************************************************************************)
ChartInv ==
  /\ chart = NoChart \/ \E b \in Births : b.geohash = "full" /\ chart = ComputeWith(b)
  /\ peer = NoChart \/ (chart # NoChart /\ \E b \in Births : peer = ComputeWith(b))
  /\ ticks \in 0 .. MaxTicks
  /\ \E s \in Starts : now = s + ticks * TICK
  /\ active = {} \/ (chart # NoChart /\ active = ActiveItems(chart, now))

\* Every chart shown was computed from a birth, and what was issued to the ticker is
\* what the chart and the clock give.
THEOREM ChartInvariance == ChartSpec => []ChartInv
<1>1. ChartInit => ChartInv
  <2> SUFFICES ASSUME ChartInit
               PROVE  ChartInv
    OBVIOUS
  <2>1. now \in Starts /\ now \in Int /\ TICK \in Nat /\ MaxTicks \in Nat
    BY ChartAssumption DEF ChartInit
  <2>2. now = now + 0 * TICK
    BY <2>1
  <2>3. 0 \in 0 .. MaxTicks
    BY <2>1
  <2>4. QED
    BY <2>1, <2>2, <2>3 DEF ChartInit, ChartInv
<1>2. ChartInv /\ [ChartNext]_chartVars => ChartInv'
  <2> SUFFICES ASSUME ChartInv, [ChartNext]_chartVars
               PROVE  ChartInv'
    OBVIOUS
  <2>1. ASSUME NEW b \in Births, ConfirmBirth(b)
        PROVE  ChartInv'
    <3>1. chart' = ComputeWith(b) /\ b.geohash = "full" /\ chart' # NoChart
      BY <2>1, ComputedTyped DEF ConfirmBirth
    <3>2. peer' = peer /\ now' = now /\ ticks' = ticks /\ active' = ActiveItems(chart', now')
      BY <2>1 DEF ConfirmBirth
    <3>3. QED
      BY <3>1, <3>2 DEF ChartInv
  <2>2. ASSUME NEW b \in Births, OpenPeer(b)
        PROVE  ChartInv'
    <3>1. /\ peer' = ComputeWith(b) /\ chart # NoChart
          /\ chart' = chart /\ now' = now /\ ticks' = ticks /\ active' = active
      BY <2>2 DEF OpenPeer
    <3>2. QED
      BY <3>1 DEF ChartInv
  <2>3. CASE TickerTick
    <3>1. /\ chart # NoChart /\ ticks < MaxTicks /\ ticks' = ticks + 1 /\ now' = now + TICK
          /\ chart' = chart /\ peer' = peer /\ active' = ActiveItems(chart', now')
      BY <2>3 DEF TickerTick
    <3>2. ticks' \in 0 .. MaxTicks
      BY <3>1, ChartAssumption DEF ChartInv
    <3>3. \E s \in Starts : now' = s + ticks' * TICK
      <4>1. PICK s \in Starts : now = s + ticks * TICK
        BY DEF ChartInv
      <4>2. s \in Int /\ TICK \in Nat /\ ticks \in Nat
        BY ChartAssumption DEF ChartInv
      <4>3. now' = s + ticks' * TICK
        BY <3>1, <4>1, <4>2
      <4>4. QED
        BY <4>3
    <3>4. QED
      BY <3>1, <3>2, <3>3 DEF ChartInv
  <2>4. CASE UNCHANGED chartVars
    BY <2>4 DEF chartVars, ChartInv
  <2>5. QED
    BY <2>1, <2>2, <2>3, <2>4 DEF ChartNext
<1>3. QED
  BY <1>1, <1>2, PTL DEF ChartSpec

\* What the chart pages show is what the longitudes say: for any ephemeris, any
\* births and any cusps in order, every pair's aspect, every pattern, the house of
\* every degree, stelliums, balance and moon phase.
THEOREM ChartGeometry == ChartSpec => []GeometryIsExact
<1>1. ChartInv => GeometryIsExact
  <2> SUFFICES ASSUME ChartInv, NEW c \in Charts
               PROVE  /\ AspectsAreExact(c) /\ PatternsAreExact(c)
                      /\ HousesAreExact(c) /\ SignsAreExact(c)
    BY DEF GeometryIsExact
  <2>1. PICK b \in Births : c = ComputeWith(b)
    BY DEF ChartInv, Charts
  <2>2. ChartTyped(c)
    BY <2>1, ComputedTyped
  <2>3. c.positions \in [Planet -> Degree]
    BY <2>2 DEF ChartTyped
  <2>4. QED
    BY <2>2, <2>3, ChartAspects, ChartPatterns, ChartHouses, ChartSigns
<1>2. QED
  BY <1>1, ChartInvariance, PTL

(***************************************************************************)
(* Short sequences                                                         *)
(***************************************************************************)
LEMMA SubOne ==
  ASSUME NEW w, NEW i \in Int, NEW n \in Int
  PROVE  n = i => SubSeq(w, i, n) = <<w[i]>>
<1> DEFINE S == {w[j] : j \in i .. n}
           t == SubSeq(w, i, n)
           u == <<w[i]>>
<1>1. \A j \in i .. n : w[j] \in S
  OBVIOUS
<1>2. t \in Seq(S) /\ Len(t) = IF i <= n THEN n - i + 1 ELSE 0
  BY <1>1, SubSeqProperties
<1>3. \A j \in 1 .. (n - i + 1) : t[j] = w[i + j - 1]
  BY <1>1, SubSeqProperties
<1> SUFFICES ASSUME n = i
             PROVE  t = u
  OBVIOUS
<1>4. Len(t) = 1
  BY <1>2
<1>5. t[1] = w[i]
  <2>1. 1 \in 1 .. (n - i + 1) /\ i + 1 - 1 = i
    OBVIOUS
  <2> HIDE DEF t
  <2>2. t[1] = w[i + 1 - 1]
    BY <1>3, <2>1
  <2>3. QED
    BY <2>1, <2>2
<1>6. u \in Seq(S) /\ Len(u) = 1 /\ u[1] = w[i]
  OBVIOUS
<1> HIDE DEF t, S, u
<1>7. \A j \in 1 .. 1 : t[j] = u[j]
  BY <1>5, <1>6
<1>8. QED
  BY <1>2, <1>4, <1>6, <1>7, SeqEqual

\* The sub-sequence of an element and its successor.
LEMMA SubTwo ==
  ASSUME NEW w, NEW i \in Int, NEW n \in Int
  PROVE  n = i + 1 => SubSeq(w, i, n) = <<w[i], w[n]>>
<1> DEFINE S == {w[j] : j \in i .. n}
           t == SubSeq(w, i, n)
           u == <<w[i], w[n]>>
<1>1. \A j \in i .. n : w[j] \in S
  OBVIOUS
<1>2. t \in Seq(S) /\ Len(t) = IF i <= n THEN n - i + 1 ELSE 0
  BY <1>1, SubSeqProperties
<1>3. \A j \in 1 .. (n - i + 1) : t[j] = w[i + j - 1]
  BY <1>1, SubSeqProperties
<1> SUFFICES ASSUME n = i + 1
             PROVE  t = u
  OBVIOUS
<1>4. Len(t) = 2
  BY <1>2
<1>5. t[1] = w[i] /\ t[2] = w[n]
  <2>1. /\ 1 \in 1 .. (n - i + 1) /\ i + 1 - 1 = i
        /\ 2 \in 1 .. (n - i + 1) /\ i + 2 - 1 = n
    OBVIOUS
  <2> HIDE DEF t
  <2>2. t[1] = w[i + 1 - 1] /\ t[2] = w[i + 2 - 1]
    BY <1>3, <2>1
  <2>3. QED
    BY <2>1, <2>2
<1>6. u \in Seq(S) /\ Len(u) = 2 /\ u[1] = w[i] /\ u[2] = w[n]
  <2>1. w[i] \in S /\ w[n] \in S
    BY <1>1
  <2> HIDE DEF S
  <2>2. QED
    BY <2>1
<1> HIDE DEF t, S, u
<1>7. \A j \in 1 .. 2 : t[j] = u[j]
  <2>1. \A j \in 1 .. 2 : j = 1 \/ j = 2
    OBVIOUS
  <2>2. QED
    BY <1>5, <1>6, <2>1
<1>8. QED
  BY <1>2, <1>4, <1>6, <1>7, SeqEqual

\* Short sequences joined are the sequence of their elements.
LEMMA Joined ==
  \A a, b, c, d : /\ <<a, b>> \o <<>> = <<a, b>>
                  /\ <<a>> \o <<b>> = <<a, b>>
                  /\ <<a, b>> \o <<c>> = <<a, b, c>>
                  /\ <<a>> \o <<b, c>> = <<a, b, c>>
                  /\ <<a, b, c>> \o <<d>> = <<a, b, c, d>>
<1> TAKE a, b, c, d
<1> DEFINE S == {a, b, c, d}
<1>1. /\ <<a>> \in Seq(S) /\ <<b>> \in Seq(S) /\ <<c>> \in Seq(S) /\ <<d>> \in Seq(S)
      /\ <<a, b>> \in Seq(S) /\ <<b, c>> \in Seq(S)
      /\ <<a, b, c>> \in Seq(S) /\ <<a, b, c, d>> \in Seq(S)
  OBVIOUS
<1>2. <<a, b>> \o <<>> = <<a, b>>
  BY <1>1, ConcatEmptySeq
<1>3. <<a>> \o <<b>> = <<a, b>>
  <2> DEFINE s == <<a>> \o <<b>>
             t == <<a, b>>
  <2>1. s \in Seq(S) /\ Len(s) = 1 + 1
    BY <1>1, ConcatProperties
  <2>2. \A i \in 1 .. 1 + 1 : s[i] = IF i <= 1 THEN <<a>>[i] ELSE <<b>>[i - 1]
    BY <1>1, ConcatProperties
  <2>3. s[1] = a /\ s[2] = b
    <3> HIDE DEF s
    <3>1. QED
      BY <2>2
  <2> HIDE DEF s
  <2>4. \A i \in 1 .. Len(s) : s[i] = t[i]
    BY <2>1, <2>3
  <2> HIDE DEF S, t
  <2>5. s = t
    BY <1>1, <2>1, <2>4, SeqEqual DEF t
  <2>6. QED
    BY <2>5 DEF s, t
<1>4. <<a, b>> \o <<c>> = <<a, b, c>>
  <2> DEFINE s == <<a, b>> \o <<c>>
             t == <<a, b, c>>
  <2>1. s \in Seq(S) /\ Len(s) = 2 + 1
    BY <1>1, ConcatProperties
  <2>2. \A i \in 1 .. 2 + 1 : s[i] = IF i <= 2 THEN <<a, b>>[i] ELSE <<c>>[i - 2]
    BY <1>1, ConcatProperties
  <2>3. s[1] = a /\ s[2] = b /\ s[3] = c
    <3> HIDE DEF s
    <3>1. QED
      BY <2>2
  <2> HIDE DEF s
  <2>4. \A i \in 1 .. Len(s) : s[i] = t[i]
    BY <2>1, <2>3
  <2> HIDE DEF S, t
  <2>5. s = t
    BY <1>1, <2>1, <2>4, SeqEqual DEF t
  <2>6. QED
    BY <2>5 DEF s, t
<1>5. <<a>> \o <<b, c>> = <<a, b, c>>
  <2> DEFINE s == <<a>> \o <<b, c>>
             t == <<a, b, c>>
  <2>1. s \in Seq(S) /\ Len(s) = 1 + 2
    BY <1>1, ConcatProperties
  <2>2. \A i \in 1 .. 1 + 2 : s[i] = IF i <= 1 THEN <<a>>[i] ELSE <<b, c>>[i - 1]
    BY <1>1, ConcatProperties
  <2>3. s[1] = a /\ s[2] = b /\ s[3] = c
    <3> HIDE DEF s
    <3>1. QED
      BY <2>2
  <2> HIDE DEF s
  <2>4. \A i \in 1 .. Len(s) : s[i] = t[i]
    BY <2>1, <2>3
  <2> HIDE DEF S, t
  <2>5. s = t
    BY <1>1, <2>1, <2>4, SeqEqual DEF t
  <2>6. QED
    BY <2>5 DEF s, t
<1>6. <<a, b, c>> \o <<d>> = <<a, b, c, d>>
  <2> DEFINE s == <<a, b, c>> \o <<d>>
             t == <<a, b, c, d>>
  <2>1. s \in Seq(S) /\ Len(s) = 3 + 1
    BY <1>1, ConcatProperties
  <2>2. \A i \in 1 .. 3 + 1 : s[i] = IF i <= 3 THEN <<a, b, c>>[i] ELSE <<d>>[i - 3]
    BY <1>1, ConcatProperties
  <2>3. s[1] = a /\ s[2] = b /\ s[3] = c /\ s[4] = d
    <3> HIDE DEF s
    <3>1. QED
      BY <2>2
  <2> HIDE DEF s
  <2>4. \A i \in 1 .. Len(s) : s[i] = t[i]
    BY <2>1, <2>3
  <2> HIDE DEF S, t
  <2>5. s = t
    BY <1>1, <2>1, <2>4, SeqEqual DEF t
  <2>6. QED
    BY <2>5 DEF s, t
<1>7. QED
  BY <1>2, <1>3, <1>4, <1>5, <1>6

\* The words of an aspect are taken apart where they were put together: no kind's
\* name is found in another's place.
LEMMA SplitWords ==
  ASSUME NEW a, NEW b, NEW kind \in DOMAIN Angle
  PROVE  /\ SplitAspect(AspectWords(a, kind, b))
              = [kind |-> kind, before |-> <<a>>, after |-> <<b>>]
         /\ AspectWords(a, kind, b)
              = IF kind = "semi_sextile" THEN <<a, "semi", "sextile", b>> ELSE <<a, kind, b>>
<1> DEFINE w == AspectWords(a, kind, b)
           hits == {i \in DOMAIN SearchOrder : Find(w, SearchOrder[i]) # {}}
           first == CHOOSE i \in hits : \A j \in hits : i <= j
           At(k) == CHOOSE i \in Find(w, k) : \A j \in Find(w, k) : i <= j
<1>1. SplitAspect(w) =
        IF hits = {} THEN [kind |-> None, before |-> <<>>, after |-> w]
        ELSE [kind |-> SearchOrder[first],
              before |-> SubSeq(w, 1, At(SearchOrder[first]) - 1),
              after |-> SubSeq(w, At(SearchOrder[first]) + Len(KindWords(SearchOrder[first])),
                               Len(w))]
  BY DEF SplitAspect
<1>2. /\ DOMAIN SearchOrder = 1 .. 7
      /\ SearchOrder[1] = "semi_sextile" /\ SearchOrder[2] = "conjunction"
      /\ SearchOrder[3] = "sextile" /\ SearchOrder[4] = "square" /\ SearchOrder[5] = "trine"
      /\ SearchOrder[6] = "quincunx" /\ SearchOrder[7] = "opposition"
  BY DEF SearchOrder
<1>3. kind \in {"conjunction", "semi_sextile", "sextile", "square", "trine", "quincunx",
                "opposition"}
  BY DEF Angle
<1>4. CASE kind = "semi_sextile"
  <2> DEFINE n == <<"semi", "sextile">>
             t == <<a, "semi", "sextile", b>>
  <2>1. w = t
    <3>1. w = <<a>> \o <<"semi", "sextile">> \o <<b>>
      BY <1>4 DEF AspectWords, KindWords
    <3>2. <<a>> \o <<"semi", "sextile">> = <<a, "semi", "sextile">>
      BY Joined
    <3>3. <<a, "semi", "sextile">> \o <<b>> = t
      BY Joined
    <3> HIDE DEF w, t
    <3>4. QED
      BY <3>1, <3>2, <3>3
  <2>2. KindWords("semi_sextile") = n /\ Len(n) = 2
    BY DEF KindWords
  <2>3. Len(t) = 4 /\ t[1] = a /\ t[2] = "semi" /\ t[3] = "sextile" /\ t[4] = b
    OBVIOUS
  <2> HIDE DEF t
  <2>4. Find(t, "semi_sextile") = {2}
    <3>1. SubSeq(t, 2, 3) = <<t[2], t[3]>>
      <4>1. 2 \in Int /\ 3 \in Int /\ 3 = 2 + 1
        OBVIOUS
      <4>2. QED
        BY <4>1, SubTwo
    <3>2. SubSeq(t, 2, 3) = n
      BY <2>3, <3>1
    <3>3. Find(t, "semi_sextile") = {i \in 2 .. (4 - 2) : SubSeq(t, i, i + 2 - 1) = n}
      BY <2>2, <2>3 DEF Find
    <3>4. \A i \in 2 .. (4 - 2) : i = 2
      OBVIOUS
    <3>5. 2 \in 2 .. (4 - 2) /\ 2 + 2 - 1 = 3
      OBVIOUS
    <3> HIDE DEF n
    <3>6. \A i : i \in Find(t, "semi_sextile") <=> i = 2
      BY <3>2, <3>3, <3>4, <3>5
    <3>7. QED
      BY <3>6
  <2>5. first = 1
    <3>1. 1 \in hits
      <4> HIDE DEF w
      <4>1. QED
        BY <1>2, <2>1, <2>4
    <3>2. \A j \in hits : j \in Int /\ 1 <= j
      BY <1>2
    <3> HIDE DEF hits
    <3>3. \A i \in hits : (\A j \in hits : i <= j) => i = 1
      BY <3>1, <3>2
    <3>4. QED
      BY <3>1, <3>2, <3>3
  <2>6. hits # {}
    <3> HIDE DEF w
    <3>1. QED
      BY <1>2, <2>1, <2>4
  <2>7. At("semi_sextile") = 2
    <3> DEFINE F == Find(w, "semi_sextile")
    <3>1. F = {2}
      BY <2>1, <2>4
    <3> HIDE DEF F
    <3>2. (CHOOSE i \in F : \A j \in F : i <= j) = 2
      BY <3>1
    <3>3. QED
      BY <3>2 DEF F
  <2>8. SubSeq(w, 1, 2 - 1) = <<a>>
    <3>1. SubSeq(t, 1, 2 - 1) = <<t[1]>>
      BY SubOne
    <3>2. QED
      BY <2>1, <2>3, <3>1
  <2>9. SubSeq(w, 2 + Len(n), Len(w)) = <<b>>
    <3>1. 4 \in Int /\ 4 = 4
      OBVIOUS
    <3>2. SubSeq(t, 4, 4) = <<t[4]>>
      BY <3>1, SubOne
    <3>3. QED
      BY <2>1, <2>2, <2>3, <3>2
  <2> HIDE DEF w, hits, first, At, n
  <2>10. SplitAspect(w) = [kind |-> kind, before |-> <<a>>, after |-> <<b>>]
    BY <1>1, <1>2, <1>4, <2>2, <2>5, <2>6, <2>7, <2>8, <2>9
  <2>11. QED
    BY <1>4, <2>1, <2>10 DEF w, t
<1>5. CASE kind # "semi_sextile"
  <2> DEFINE t == <<a, kind, b>>
  <2>1. w = t
    <3>1. w = <<a>> \o <<kind>> \o <<b>>
      BY <1>5 DEF AspectWords, KindWords
    <3>2. <<a>> \o <<kind>> = <<a, kind>>
      BY Joined
    <3>3. <<a, kind>> \o <<b>> = t
      BY Joined
    <3> HIDE DEF w, t
    <3>4. QED
      BY <3>1, <3>2, <3>3
  <2>2. \A k : k # "semi_sextile" => KindWords(k) = <<k>> /\ Len(KindWords(k)) = 1
    BY DEF KindWords
  <2>3. Len(t) = 3 /\ t[1] = a /\ t[2] = kind /\ t[3] = b
    OBVIOUS
  <2>4. KindWords("semi_sextile") = <<"semi", "sextile">> /\ Len(<<"semi", "sextile">>) = 2
    BY DEF KindWords
  <2> HIDE DEF t
  <2>5. Find(t, "semi_sextile") = {}
    <3>1. 2 .. (3 - 2) = {}
      OBVIOUS
    <3>2. QED
      BY <2>3, <2>4, <3>1 DEF Find
  <2>6. SubSeq(t, 2, 2) = <<kind>>
    <3>1. 2 \in Int /\ 2 = 2
      OBVIOUS
    <3>2. QED
      BY <2>3, <3>1, SubOne
  <2>7. ASSUME NEW k, k # "semi_sextile"
        PROVE  /\ Find(t, k) # {} <=> k = kind
               /\ k = kind => Find(t, k) = {2}
    <3>1. Find(t, k) = {i \in 2 .. (3 - 1) : SubSeq(t, i, i + 1 - 1) = <<k>>}
      BY <2>3, <2>7 DEF Find, KindWords
    <3>2. \A i \in 2 .. (3 - 1) : i = 2
      OBVIOUS
    <3>3. 2 \in 2 .. (3 - 1) /\ 2 + 1 - 1 = 2
      OBVIOUS
    <3>4. <<kind>> = <<k>> <=> kind = k
      OBVIOUS
    <3>5. \A i : i \in Find(t, k) <=> i = 2 /\ k = kind
      BY <2>6, <3>1, <3>2, <3>3, <3>4
    <3>6. QED
      BY <3>5
  <2>8. PICK m \in 1 .. 7 : SearchOrder[m] = kind
    BY <1>2, <1>3
  <2>9. \A i \in 1 .. 7 : i \in hits <=> SearchOrder[i] = kind
    <3> TAKE i \in 1 .. 7
    <3>1. i \in hits <=> Find(t, SearchOrder[i]) # {}
      BY <1>2, <2>1
    <3>2. CASE SearchOrder[i] = "semi_sextile"
      BY <1>5, <2>5, <3>1, <3>2
    <3>3. CASE SearchOrder[i] # "semi_sextile"
      BY <2>7, <3>1, <3>3
    <3>4. QED
      BY <3>2, <3>3
  <2>10. \A i \in 1 .. 7 : SearchOrder[i] = kind => i = m
    BY <1>2, <2>8
  <2>11. hits = {m}
    <3>1. hits \subseteq 1 .. 7
      BY <1>2
    <3> HIDE DEF hits
    <3>2. QED
      BY <2>8, <2>9, <2>10, <3>1
  <2>12. first = m
    <3> HIDE DEF hits
    <3>1. QED
      BY <2>8, <2>11
  <2>13. At(kind) = 2
    <3> DEFINE F == Find(w, kind)
    <3>1. F = {2}
      BY <1>5, <2>1, <2>7
    <3> HIDE DEF F
    <3>2. (CHOOSE i \in F : \A j \in F : i <= j) = 2
      BY <3>1
    <3>3. QED
      BY <3>2 DEF F
  <2>14. SubSeq(w, 1, 2 - 1) = <<a>>
    <3>1. SubSeq(t, 1, 2 - 1) = <<t[1]>>
      BY SubOne
    <3>2. QED
      BY <2>1, <2>3, <3>1
  <2>15. SubSeq(w, 2 + Len(KindWords(kind)), Len(w)) = <<b>>
    <3>1. 3 \in Int /\ 3 = 3
      OBVIOUS
    <3>2. SubSeq(t, 3, 3) = <<t[3]>>
      BY <3>1, SubOne
    <3>3. 2 + Len(KindWords(kind)) = 3
      BY <1>5 DEF KindWords
    <3>4. QED
      BY <2>1, <2>3, <3>2, <3>3
  <2> HIDE DEF w, hits, first, At
  <2>16. SplitAspect(w) = [kind |-> kind, before |-> <<a>>, after |-> <<b>>]
    BY <1>1, <2>8, <2>11, <2>12, <2>13, <2>14, <2>15
  <2>17. QED
    BY <1>5, <2>1, <2>16 DEF w, t
<1>6. QED
  BY <1>4, <1>5

(***************************************************************************)
(* Keys                                                                    *)
(***************************************************************************)
\* A key is read back from its string as itself, and both ways of putting it in
\* words agree.
ReadsBack(k) ==
  /\ Parse(ToSig(k)) = k
  /\ HumanizeKey(ToSig(k)) = PlainName(k)
  /\ KindLabel(ToSig(k)) # "Reading"

\* The key of an aspect of one of the three kinds is the key its signature parses to.
LEMMA AspectKeyReadsBack ==
  ASSUME NEW f \in {"natal", "synastry", "sky"}, NEW sig
  PROVE  ReadsBack([kind |-> f, sig |-> sig])
<1> DEFINE k == [kind |-> f, sig |-> sig]
<1>1. k.kind = f /\ k.sig = sig
  OBVIOUS
<1>2. ToSig(k) = [kind |-> f, words |-> sig]
  BY <1>1 DEF ToSig
<1>3. Parse([kind |-> f, words |-> sig]) = k
  BY DEF Parse
<1>4. HumanizeKey([kind |-> f, words |-> sig]) = ParseAspectSig(sig)
  BY DEF HumanizeKey
<1>5. PlainName(k) = ParseAspectSig(sig)
  BY <1>1 DEF PlainName
<1>6. KindLabel([kind |-> f, words |-> sig]) # "Reading"
  BY DEF KindLabel
<1> HIDE DEF k
<1>7. ReadsBack(k)
  BY <1>2, <1>3, <1>4, <1>5, <1>6 DEF ReadsBack
<1>8. QED
  BY <1>7 DEF k

\* The key of a transit is the key its signature parses to.
LEMMA TransitKeyReadsBack ==
  ASSUME NEW p \in Planet, NEW q \in Planet, NEW kind \in DOMAIN Angle
  PROVE  ReadsBack([kind |-> "transit", transiting |-> p, natal |-> q, aspect |-> kind])
<1> DEFINE k == [kind |-> "transit", transiting |-> p, natal |-> q, aspect |-> kind]
           w == AspectWords(p, kind, q)
           s == [kind |-> "transit", words |-> w]
<1>1. k.kind = "transit" /\ k.transiting = p /\ k.natal = q /\ k.aspect = kind
  OBVIOUS
<1>2. ToSig(k) = s
  BY <1>1 DEF ToSig
<1>3. s.kind = "transit" /\ s.words = w
  OBVIOUS
<1>4. /\ SplitAspect(w) = [kind |-> kind, before |-> <<p>>, after |-> <<q>>]
      /\ kind # None
  BY SplitWords, AngleTable
<1>5. IsPlanet(<<p>>) /\ IsPlanet(<<q>>)
  BY DEF IsPlanet
<1> HIDE DEF s, w
<1>6. Parse(s) = k
  BY <1>3, <1>4, <1>5 DEF Parse
<1>7. ParseAspectSig(w) = <<p, DisplayName(kind), q>>
  <2>1. ParseAspectSig(w) = <<p>> \o <<DisplayName(kind)>> \o <<q>>
    BY <1>4 DEF ParseAspectSig
  <2>2. <<p>> \o <<DisplayName(kind)>> = <<p, DisplayName(kind)>>
    BY Joined
  <2>3. <<p, DisplayName(kind)>> \o <<q>> = <<p, DisplayName(kind), q>>
    BY Joined
  <2>4. QED
    BY <2>1, <2>2, <2>3
<1>8. HumanizeKey(s) = ParseAspectSig(w)
  BY <1>3 DEF HumanizeKey
<1> HIDE DEF k
<1>9. PlainName(k) = <<p, DisplayName(kind), q>>
  BY <1>1 DEF PlainName
<1>10. KindLabel(s) # "Reading"
  BY <1>3 DEF KindLabel
<1>11. ReadsBack(k)
  BY <1>2, <1>6, <1>7, <1>8, <1>9, <1>10 DEF ReadsBack
<1>12. QED
  BY <1>11 DEF k

\* The key of a planet's transit through a house is the key its signature parses to.
LEMMA HouseKeyReadsBack ==
  ASSUME NEW p \in Planet, NEW house
  PROVE  ReadsBack(HouseKey(p, house))
<1> DEFINE k == HouseKey(p, house)
           w == <<p, house>>
           s == [kind |-> "house_transit", words |-> w]
<1>1. k.kind = "house_transit" /\ k.transiting = p /\ k.house = house
  BY DEF HouseKey
<1>2. s.kind = "house_transit" /\ s.words = w /\ Len(w) = 2 /\ w[1] = p /\ w[2] = house
  OBVIOUS
<1>3. ToSig(k) = s
  BY <1>1 DEF ToSig
<1> HIDE DEF s, w, k
<1>4. Parse(s) = HouseKey(p, house)
  BY <1>2 DEF Parse
<1>5. HumanizeKey(s) = <<p, "transiting", house, "house">>
  BY <1>2 DEF HumanizeKey
<1>6. PlainName(k) = <<p, "transiting", house, "house">>
  BY <1>1 DEF PlainName
<1>7. KindLabel(s) # "Reading"
  BY <1>2 DEF KindLabel
<1>8. ReadsBack(k)
  BY <1>3, <1>4, <1>5, <1>6, <1>7 DEF ReadsBack, k
<1>9. QED
  BY <1>8 DEF k

\* A sign is found by its name.
LEMMA SignByName ==
  ASSUME NEW sign \in 0 .. 11
  PROVE  /\ SignName(sign) \in Range(SIGNS)
         /\ (CHOOSE i \in DOMAIN SIGNS : SIGNS[i] = SignName(sign)) - 1 = sign
<1>1. DOMAIN SIGNS = 1 .. 12
  BY DEF SIGNS
<1>2. SignName(sign) = SIGNS[sign + 1] /\ sign + 1 \in 1 .. 12
  <2>1. sign % 12 = sign /\ sign + 1 \in 1 .. 12
    OBVIOUS
  <2>2. QED
    BY <2>1 DEF SignName
<1>3. \A i, j \in 1 .. 12 : SIGNS[i] = SIGNS[j] => i = j
  <2> DEFINE Place == [w \in {"aries", "taurus", "gemini", "cancer", "leo", "virgo", "libra",
                              "scorpio", "sagittarius", "capricorn", "aquarius", "pisces"} |->
                         CASE w = "aries" -> 1 [] w = "taurus" -> 2 [] w = "gemini" -> 3
                           [] w = "cancer" -> 4 [] w = "leo" -> 5 [] w = "virgo" -> 6
                           [] w = "libra" -> 7 [] w = "scorpio" -> 8 [] w = "sagittarius" -> 9
                           [] w = "capricorn" -> 10 [] w = "aquarius" -> 11 [] w = "pisces" -> 12]
  <2>1. /\ Place[SIGNS[1]] = 1 /\ Place[SIGNS[2]] = 2 /\ Place[SIGNS[3]] = 3
        /\ Place[SIGNS[4]] = 4 /\ Place[SIGNS[5]] = 5 /\ Place[SIGNS[6]] = 6
    BY DEF SIGNS
  <2>2. /\ Place[SIGNS[7]] = 7 /\ Place[SIGNS[8]] = 8 /\ Place[SIGNS[9]] = 9
        /\ Place[SIGNS[10]] = 10 /\ Place[SIGNS[11]] = 11 /\ Place[SIGNS[12]] = 12
    BY DEF SIGNS
  <2>3. \A i \in 1 .. 12 : i \in {1, 2, 3, 4, 5, 6, 7, 8, 9, 10, 11, 12}
    OBVIOUS
  <2> HIDE DEF Place
  <2>4. \A i \in 1 .. 12 : Place[SIGNS[i]] = i
    BY <2>1, <2>2, <2>3
  <2>5. QED
    BY <2>4
<1>4. (CHOOSE i \in DOMAIN SIGNS : SIGNS[i] = SignName(sign)) = sign + 1
  <2>1. \A i \in DOMAIN SIGNS : SIGNS[i] = SignName(sign) => i = sign + 1
    BY <1>1, <1>2, <1>3
  <2>2. SIGNS[sign + 1] = SignName(sign) /\ sign + 1 \in DOMAIN SIGNS
    BY <1>1, <1>2
  <2>3. QED
    BY <2>1, <2>2
<1>5. SIGNS[sign + 1] \in Range(SIGNS)
  BY <1>1, <1>2 DEF Range
<1>6. (CHOOSE i \in DOMAIN SIGNS : SIGNS[i] = SignName(sign)) - 1 = sign
  <2> DEFINE n == CHOOSE i \in DOMAIN SIGNS : SIGNS[i] = SignName(sign)
  <2>1. n = sign + 1
    BY <1>4
  <2> HIDE DEF n
  <2>2. n - 1 = sign
    BY <2>1
  <2>3. QED
    BY <2>2 DEF n
<1>7. QED
  BY <1>2, <1>5, <1>6

\* The key of a placement, with or without a house, is the key its signature parses to.
LEMMA PlacementKeyReadsBack ==
  ASSUME NEW p \in Planet, NEW sign \in 0 .. 11, NEW house \in 0 .. 12
  PROVE  ReadsBack(PlacementKey(p, sign, house))
<1> DEFINE k == PlacementKey(p, sign, house)
           w == <<p, SignName(sign)>> \o (IF house = NoHouse THEN <<>> ELSE <<house>>)
           s == [kind |-> "placement", words |-> w]
<1>1. k.kind = "placement" /\ k.planet = p /\ k.sign = sign /\ k.house = house
  BY DEF PlacementKey
<1>2. ToSig(k) = s
  BY <1>1 DEF ToSig
<1>3. s.kind = "placement" /\ s.words = w
  OBVIOUS
<1>4. w = IF house = NoHouse THEN <<p, SignName(sign)>> ELSE <<p, SignName(sign), house>>
  BY ZenonT(60), Joined
<1>5. /\ Len(w) = (IF house = NoHouse THEN 2 ELSE 3)
      /\ w[1] = p /\ w[2] = SignName(sign)
      /\ house # NoHouse => w[3] = house
  <2> HIDE DEF w
  <2>1. QED
    BY <1>4
<1> HIDE DEF s, w
<1>6. /\ SignName(sign) \in Range(SIGNS)
      /\ (CHOOSE i \in DOMAIN SIGNS : SIGNS[i] = SignName(sign)) - 1 = sign
  BY SignByName
<1>7. (IF Len(w) = 3 THEN w[3] ELSE NoHouse) = house
  BY <1>5
<1>8. Len(w) \in {2, 3}
  BY <1>5
<1>9. Parse(s) = PlacementKey(p, sign, house)
  BY <1>3, <1>5, <1>6, <1>7, <1>8 DEF Parse
<1>10. HumanizeKey(s) = <<p, "in", SignName(sign)>> \o InHouse(house)
  BY <1>3, <1>5, <1>7 DEF HumanizeKey
<1> HIDE DEF k
<1>11. PlainName(k) = <<p, "in", SignName(sign)>> \o InHouse(house)
  BY <1>1 DEF PlainName
<1>12. KindLabel(s) # "Reading"
  BY <1>3 DEF KindLabel
<1>13. ReadsBack(k)
  BY <1>2, <1>9, <1>10, <1>11, <1>12 DEF ReadsBack, k
<1>14. QED
  BY <1>13 DEF k

\* An angle's key is not a link, and is put in words as it is.
LEMMA AngleKeyReads ==
  ASSUME NEW angle, NEW sign
  PROVE  LET k == AngleKey(angle, sign)
         IN  /\ k.kind = "placement_angle"
             /\ Parse(ToSig(k)) = NotAKey
             /\ HumanizeKey(ToSig(k)) = PlainName(k)
             /\ KindLabel(ToSig(k)) # "Reading"
<1> DEFINE k == AngleKey(angle, sign)
           w == <<angle, SignName(sign)>>
           s == [kind |-> "placement_angle", words |-> w]
<1>1. k.kind = "placement_angle" /\ k.angle = angle /\ k.sign = sign
  BY DEF AngleKey
<1>2. ToSig(k) = s
  BY <1>1 DEF ToSig
<1>3. s.kind = "placement_angle" /\ s.words = w /\ w[1] = angle /\ w[2] = SignName(sign)
  OBVIOUS
<1> HIDE DEF s, w
<1>4. Parse(s) = NotAKey
  BY <1>3 DEF Parse
<1>5. HumanizeKey(s) = <<AngleName(angle), "in", SignName(sign)>>
  BY <1>3 DEF HumanizeKey
<1> HIDE DEF k
<1>6. PlainName(k) = <<AngleName(angle), "in", SignName(sign)>>
  BY <1>1 DEF PlainName
<1>7. KindLabel(s) # "Reading"
  BY <1>3 DEF KindLabel
<1>8. QED
  BY <1>1, <1>2, <1>4, <1>5, <1>6, <1>7 DEF k

\* What a key shown on a page satisfies.
NamedRight(k) ==
  /\ Parse(ToSig(k)) = IF k.kind = "placement_angle" THEN NotAKey ELSE k
  /\ HumanizeKey(ToSig(k)) = PlainName(k)
  /\ KindLabel(ToSig(k)) # "Reading"

\* What a link names is what it was made for.
LEMMA ReadsBackNamed ==
  ASSUME NEW k, ReadsBack(k), k.kind # "placement_angle"
  PROVE  NamedRight(k)
BY DEF ReadsBack, NamedRight

\* The aspects between two skies.
LEMMA CrossTyped ==
  ASSUME NEW f \in [Planet -> Degree], NEW g \in [Planet -> Degree]
  PROVE  \A x \in ComputeCross(f, g) :
           /\ x.a \in Planet /\ x.b \in Planet /\ x.kind \in DOMAIN Angle
           /\ x = [a |-> x.a, b |-> x.b, kind |-> x.kind]
<1> DEFINE K(p, q) == DetectAspect(AngularSeparation(f[p], g[q]))
           All == {[a |-> p, b |-> q, kind |-> K(p, q)] : p \in Planet, q \in Planet}
<1>1. ComputeCross(f, g) = {x \in All : x.kind # None}
  BY SMTT(60) DEF ComputeCross
<1>2. ASSUME NEW p \in Planet, NEW q \in Planet
      PROVE  K(p, q) \in DOMAIN Angle \cup {None}
  <2>1. f[p] \in Int /\ g[q] \in Int /\ 0 \in Int /\ 0 \in 0 .. 5
    BY DEF Degree
  <2>2. AngularSeparation(f[p], g[q]) \in 0 .. 180
    BY SMTT(60), <2>1, SeparationIsArc
  <2>3. QED
    BY <2>1, <2>2, FoundKind DEF DetectAspect
<1> HIDE DEF K
<1>3. \A x \in All : /\ x.a \in Planet /\ x.b \in Planet
                     /\ x = [a |-> x.a, b |-> x.b, kind |-> x.kind]
                     /\ x.kind \in DOMAIN Angle \cup {None}
  BY <1>2
<1> HIDE DEF All
<1>4. QED
  BY <1>1, <1>3

\* Every natal aspect of a chart has a key that reads back under its own name.
LEMMA NatalKeysNamed ==
  ASSUME NEW c, ChartTyped(c)
  PROVE  \A k \in NatalItems(c) : NamedRight(k)
<1> TAKE k \in NatalItems(c)
<1>1. PICK x \in ComputeAspects(c.positions) : k = [kind |-> "natal", sig |-> AspectSig(x)]
  BY DEF NatalItems, FromNatal
<1>2. ReadsBack(k) /\ k.kind # "placement_angle"
  BY <1>1, AspectKeyReadsBack
<1>3. QED
  BY <1>2, ReadsBackNamed

\* Every aspect between two charts has a key that reads back under its own name.
LEMMA SynastryKeysNamed ==
  ASSUME NEW c, NEW o
  PROVE  \A k \in SynastryItems(c, o) : NamedRight(k)
<1> TAKE k \in SynastryItems(c, o)
<1>1. PICK x \in SynastryWith(c, o) : k = [kind |-> "synastry", sig |-> AspectSig(x)]
  BY DEF SynastryItems, FromSynastry
<1>2. ReadsBack(k) /\ k.kind # "placement_angle"
  BY <1>1, AspectKeyReadsBack
<1>3. QED
  BY <1>2, ReadsBackNamed

\* The sign of a degree is one of twelve.
LEMMA SignTyped ==
  ASSUME NEW lon \in Degree
  PROVE  SignOf(lon) \in 0 .. 11 /\ 30 * SignOf(lon) <= lon /\ lon <= 30 * SignOf(lon) + 29
<1>1. lon \in 0 .. 359
  BY DEF Degree
<1>2. lon % 360 = lon
  BY <1>1
<1>3. QED
  BY SMT, <1>1, <1>2 DEF SignOf, Norm

\* Every placement and angle of a chart has a key that is named for what it is.
LEMMA PlacementKeysNamed ==
  ASSUME NEW c, ChartTyped(c)
  PROVE  \A i \in PlacementItems(c) : NamedRight(i.key)
<1> DEFINE H(p) == IF IsStub(c.cusps) THEN NoHouse ELSE HouseOf(c.cusps, c.positions[p])
           I(p) == [key |-> PlacementKey(p, SignOf(c.positions[p]), H(p)),
                    critical |-> IsCriticalDegree(c.positions[p])]
           A == [key |-> AngleKey("asc", SignOf(c.asc)), critical |-> IsCriticalDegree(c.asc)]
           M == [key |-> AngleKey("mc", SignOf(c.mc)), critical |-> IsCriticalDegree(c.mc)]
<1>1. PlacementItems(c) = {I(p) : p \in Planet} \cup {A, M}
  BY DEF PlacementItems
<1>2. ASSUME NEW p \in Planet
      PROVE  NamedRight(I(p).key)
  <2>1. c.positions[p] \in Degree
    BY DEF ChartTyped
  <2>2. SignOf(c.positions[p]) \in 0 .. 11
    BY <2>1, SignTyped
  <2>3. H(p) \in 0 .. 12
    <3>1. CASE IsStub(c.cusps)
      BY <3>1 DEF NoHouse
    <3>2. CASE ~ IsStub(c.cusps)
      <4>1. IsStub(Stub)
        BY DEF Stub, IsStub
      <4>2. InOrder(c.cusps)
        BY <3>2, <4>1 DEF ChartTyped
      <4>3. HouseOf(c.cusps, c.positions[p]) \in 1 .. 12
        BY <2>1, <4>2, HouseIsArc
      <4>4. H(p) = HouseOf(c.cusps, c.positions[p])
        BY <3>2
      <4> HIDE DEF H
      <4>5. QED
        BY <4>3, <4>4
    <3>3. QED
      BY <3>1, <3>2
  <2>4. I(p).key = PlacementKey(p, SignOf(c.positions[p]), H(p))
    OBVIOUS
  <2> HIDE DEF I, H
  <2>5. ReadsBack(I(p).key)
    BY <2>2, <2>3, <2>4, PlacementKeyReadsBack
  <2>6. I(p).key.kind # "placement_angle"
    BY <2>4 DEF PlacementKey
  <2>7. QED
    BY <2>5, <2>6, ReadsBackNamed
<1>3. NamedRight(A.key) /\ NamedRight(M.key)
  BY AngleKeyReads DEF NamedRight
<1> HIDE DEF I, A, M
<1>4. QED
  BY <1>1, <1>2, <1>3

\* What was issued by a tick is read back, and its card's title is the key's name.
LEMMA ActiveKeysNamed ==
  ASSUME NEW c, ChartTyped(c), NEW at, Sky(at) \in [Planet -> Degree]
  PROVE  \A i \in ActiveItems(c, at) : \E k : ReadsBack(k) /\ i.key = ToSig(k)
<1> DEFINE sky == Sky(at)
<1> TAKE i \in ActiveItems(c, at)
<1>0. \A k, w : Item(k, w).key = ToSig(k)
  BY DEF Item
<1>1. \/ \E x \in ComputeCross(sky, c.positions) : i.key = ToSig(TransitKey(x))
      \/ \E x \in ComputeAspects(sky) : i.key = ToSig(FromSky(x))
      \/ \E p \in Planet : i.key = ToSig(HouseKey(p, HousePositions(c.cusps, sky)[p]))
  BY <1>0 DEF ActiveItems
<1>2. CASE \E x \in ComputeCross(sky, c.positions) : i.key = ToSig(TransitKey(x))
  <2>1. PICK x \in ComputeCross(sky, c.positions) : i.key = ToSig(TransitKey(x))
    BY <1>2
  <2>2. x.a \in Planet /\ x.b \in Planet /\ x.kind \in DOMAIN Angle
    BY CrossTyped DEF ChartTyped
  <2>3. ReadsBack(TransitKey(x))
    BY <2>2, TransitKeyReadsBack DEF TransitKey
  <2>4. QED
    BY <2>1, <2>3
<1>3. CASE \E x \in ComputeAspects(sky) : i.key = ToSig(FromSky(x))
  <2>1. PICK x \in ComputeAspects(sky) : i.key = ToSig(FromSky(x))
    BY <1>3
  <2>2. ReadsBack(FromSky(x))
    BY AspectKeyReadsBack DEF FromSky
  <2>3. QED
    BY <2>1, <2>2
<1>4. CASE \E p \in Planet : i.key = ToSig(HouseKey(p, HousePositions(c.cusps, sky)[p]))
  BY <1>4, HouseKeyReadsBack
<1>5. QED
  BY <1>1, <1>2, <1>3, <1>4

\* Every degree the windows may look at is one, and so is the sky of now.
LEMMA SkyTyped ==
  ASSUME ChartInv
  PROVE  /\ now \in Int /\ Sky(now) \in [Planet -> Degree]
         /\ \A p \in Planet : \A t \in (now - Sight(p)) .. (now + Sight(p)) :
              Longitude(p, t) \in Degree
         /\ now - PlanetCap["pluto"] >= GregorianToJdn(1583, 1, 1, 0)
         /\ \A p \in Planet : Sight(p) \in Nat
<1>1. PICK s \in Starts : now = s + ticks * TICK
  BY DEF ChartInv
<1> DEFINE n == ticks * TICK
           end == MaxTicks * TICK
           first == GregorianToJdn(1583, 1, 1, 0)
<1>2. /\ s \in Int /\ s - PlanetCap["pluto"] >= first
      /\ \A p \in Planet : \A t \in (s - Sight(p)) .. (s + end + Sight(p)) :
           Longitude(p, t) \in Degree
  BY ChartAssumption
<1>3. n \in Nat /\ end \in Nat /\ n <= end
  <2>1. TICK \in Nat /\ MaxTicks \in Nat /\ ticks \in Nat /\ ticks <= MaxTicks
    BY ChartAssumption DEF ChartInv
  <2>2. QED
    BY <2>1
<1>4. PlanetCap["pluto"] \in Nat /\ \A p \in Planet : Sight(p) \in Nat
  <2>1. \A p \in Planet : PlanetCap[p] \in Nat
    BY PlanetSet DEF PlanetCap, DAY
  <2>2. TransitCap \in Nat
    BY DEF TransitCap, DAY
  <2>3. "pluto" \in Planet
    BY PlanetSet
  <2>4. QED
    BY <2>1, <2>2, <2>3 DEF Sight
<1>5. first \in Int
  BY SMT DEF GregorianToJdn, DAY
<1>6. now = s + n
  BY <1>1
<1> HIDE DEF n, end, first
<1>7. now \in Int
  BY <1>2, <1>3, <1>6
<1>8. ASSUME NEW p \in Planet, NEW t \in (now - Sight(p)) .. (now + Sight(p))
      PROVE  Longitude(p, t) \in Degree
  <2>1. t \in (s - Sight(p)) .. (s + end + Sight(p))
    <3>1. Sight(p) \in Nat
      BY <1>4
    <3>2. QED
      BY <1>2, <1>3, <1>6, <3>1
  <2>2. QED
    BY <1>2, <2>1
<1>9. \A p \in Planet : now \in (now - Sight(p)) .. (now + Sight(p))
  BY <1>4, <1>7
<1>10. Sky(now) \in [Planet -> Degree]
  BY <1>8, <1>9 DEF Sky
<1>11. now - PlanetCap["pluto"] >= first
  <2> DEFINE cap == PlanetCap["pluto"]
  <2> HIDE DEF cap
  <2>1. cap \in Nat /\ s - cap >= first
    BY <1>2, <1>4 DEF cap
  <2>2. now - cap >= first
    BY <1>2, <1>3, <1>5, <1>6, <2>1
  <2>3. QED
    BY <2>2 DEF cap
<1>12. QED
  BY <1>4, <1>7, <1>8, <1>10, <1>11 DEF first

(***************************************************************************)
(* Two peers                                                               *)
(***************************************************************************)
\* The names of a pair do not depend on who is looking.
LEMMA NamesAreSorted ==
  ASSUME NEW a \in Planet, NEW b \in Planet
  PROVE  SortedNames(a, b) = SortedNames(b, a)
<1> DEFINE R == [p \in Planet |-> CASE p = "jupiter" -> 1 [] p = "mars" -> 2
                   [] p = "mercury" -> 3 [] p = "moon" -> 4 [] p = "neptune" -> 5
                   [] p = "pluto" -> 6 [] p = "saturn" -> 7 [] p = "sun" -> 8
                   [] p = "uranus" -> 9 [] p = "venus" -> 10]
<1>1. DOMAIN Alphabet = 1 .. 10
  BY DEF Alphabet
<1>2. \A p \in Planet : R[p] \in 1 .. 10 /\ Alphabet[R[p]] = p
  <2>1. /\ Alphabet[1] = "jupiter" /\ Alphabet[2] = "mars" /\ Alphabet[3] = "mercury"
        /\ Alphabet[4] = "moon" /\ Alphabet[5] = "neptune" /\ Alphabet[6] = "pluto"
        /\ Alphabet[7] = "saturn" /\ Alphabet[8] = "sun" /\ Alphabet[9] = "uranus"
        /\ Alphabet[10] = "venus"
    BY DEF Alphabet
  <2>2. QED
    BY <2>1, PlanetSet
<1> HIDE DEF R
<1>3. ASSUME NEW p \in Planet
      PROVE  Rank(p) \in 1 .. 10 /\ Alphabet[Rank(p)] = p
  BY <1>1, <1>2 DEF Rank
<1> DEFINE m == Rank(a)
           n == Rank(b)
<1>4. m \in 1 .. 10 /\ n \in 1 .. 10 /\ (m = n => a = b)
  BY <1>3
<1>5. /\ SortedNames(a, b) = IF m <= n THEN <<a, b>> ELSE <<b, a>>
      /\ SortedNames(b, a) = IF n <= m THEN <<b, a>> ELSE <<a, b>>
  BY DEF SortedNames
<1> HIDE DEF m, n
<1>6. CASE m <= n /\ n <= m
  BY <1>4, <1>5, <1>6
<1>7. CASE ~ (m <= n /\ n <= m)
  BY <1>4, <1>5, <1>7
<1>8. QED
  BY <1>6, <1>7

\* An aspect seen from the other chart.
Swapped(x) == [a |-> x.b, b |-> x.a, kind |-> x.kind]

\* An aspect found from one chart to another is found the other way round too, under the
\* same signature.
LEMMA CrossSwaps ==
  ASSUME NEW f \in [Planet -> Degree], NEW g \in [Planet -> Degree]
  PROVE  \A x \in ComputeCross(f, g) :
           /\ Swapped(x) \in ComputeCross(g, f)
           /\ Swapped(Swapped(x)) = x
           /\ Swapped(x).kind = x.kind
           /\ AspectSig(Swapped(x)) = AspectSig(x)
<1> TAKE x \in ComputeCross(f, g)
<1>1. /\ x.a \in Planet /\ x.b \in Planet
      /\ x = [a |-> x.a, b |-> x.b, kind |-> x.kind]
  BY CrossTyped
<1>2. f \in [Planet -> Int] /\ g \in [Planet -> Int]
  BY DEF Degree
<1> DEFINE p == x.a
           q == x.b
           kind == x.kind
<1>3. [a |-> q, b |-> p, kind |-> kind] \in ComputeCross(g, f)
  <2>1. [a |-> p, b |-> q, kind |-> kind] \in ComputeCross(f, g)
    BY <1>1
  <2> HIDE DEF p, q, kind
  <2>2. p \in Planet /\ q \in Planet
    BY <1>1 DEF p, q
  <2>3. QED
    BY <1>2, <2>1, <2>2, SynastryIsSymmetric
<1>4. /\ Swapped(x).a = x.b /\ Swapped(x).b = x.a /\ Swapped(x).kind = x.kind
  BY DEF Swapped
<1>5. Swapped(Swapped(x)) = x
  BY <1>1 DEF Swapped
<1>6. SortedNames(x.a, x.b) = SortedNames(x.b, x.a)
  BY <1>1, NamesAreSorted
<1>7. AspectSig(Swapped(x)) = AspectSig(x)
  BY <1>4, <1>6 DEF AspectSig
<1>8. QED
  BY <1>3, <1>4, <1>5, <1>7 DEF Swapped

\* Both peers compute the same synastry keys, whichever chart comes first.
LEMMA KeysAgree ==
  ASSUME NEW c, NEW o, ChartTyped(c), ChartTyped(o)
  PROVE  SynastryItems(c, o) = SynastryItems(o, c)
<1> DEFINE f == c.positions
           g == o.positions
<1>1. f \in [Planet -> Degree] /\ g \in [Planet -> Degree]
  BY DEF ChartTyped
<1> DEFINE Keys(A) == {[kind |-> "synastry", sig |-> AspectSig(x)] : x \in A}
<1>2. /\ SynastryItems(c, o) = Keys(ComputeCross(f, g))
      /\ SynastryItems(o, c) = Keys(ComputeCross(g, f))
  BY DEF SynastryItems, SynastryWith, FromSynastry
<1>3. ASSUME NEW u \in [Planet -> Degree], NEW v \in [Planet -> Degree],
             NEW k \in Keys(ComputeCross(u, v))
      PROVE  k \in Keys(ComputeCross(v, u))
  <2>1. PICK x \in ComputeCross(u, v) : k = [kind |-> "synastry", sig |-> AspectSig(x)]
    BY <1>3
  <2> DEFINE y == Swapped(x)
  <2>2. y \in ComputeCross(v, u) /\ AspectSig(y) = AspectSig(x)
    BY CrossSwaps
  <2> HIDE DEF y
  <2>3. QED
    BY <2>1, <2>2
<1> HIDE DEF f, g, Keys
<1>4. Keys(ComputeCross(f, g)) = Keys(ComputeCross(g, f))
  BY <1>1, <1>3
<1>5. QED
  BY <1>2, <1>4

\* The aspects between two charts are finitely many.
LEMMA CrossIsFinite ==
  ASSUME NEW f \in [Planet -> Degree], NEW g \in [Planet -> Degree]
  PROVE  IsFiniteSet(ComputeCross(f, g))
<1> DEFINE K(p, q) == DetectAspect(AngularSeparation(f[p], g[q]))
           R == [z \in Planet \X Planet |-> [a |-> z[1], b |-> z[2], kind |-> K(z[1], z[2])]]
           All == {[a |-> p, b |-> q, kind |-> K(p, q)] : p \in Planet, q \in Planet}
<1>1. ComputeCross(f, g) = {x \in All : x.kind # None}
  BY SMTT(60) DEF ComputeCross
<1>2. IsFiniteSet(Planet \X Planet)
  BY PlanetSet, FS_Product
<1> HIDE DEF K
<1>3. R \in Surjection(Planet \X Planet, All)
  <2>1. ASSUME NEW z \in Planet \X Planet
        PROVE  R[z] \in All
    <3>1. z[1] \in Planet /\ z[2] \in Planet
      OBVIOUS
    <3>2. QED
      BY <3>1
  <2>2. ASSUME NEW x \in All
        PROVE  \E z \in Planet \X Planet : R[z] = x
    <3>1. PICK p \in Planet, q \in Planet : x = [a |-> p, b |-> q, kind |-> K(p, q)]
      OBVIOUS
    <3>2. <<p, q>> \in Planet \X Planet /\ R[<<p, q>>] = x
      BY <3>1
    <3>3. QED
      BY <3>2
  <2>3. R \in [Planet \X Planet -> All]
    <3>1. R = [z \in Planet \X Planet |-> R[z]]
      OBVIOUS
    <3> HIDE DEF R, All
    <3>2. QED
      BY <2>1, <3>1
  <2> HIDE DEF R, All
  <2>4. QED
    BY <2>2, <2>3 DEF Surjection
<1> HIDE DEF R, All
<1>4. IsFiniteSet(All)
  BY <1>2, <1>3, FS_Surjection
<1>5. QED
  BY <1>1, <1>4, FS_Subset

OfKinds(A, kinds) == {x \in A : x.kind \in kinds}

\* As many aspects of some kinds seen from one chart as from the other.
LEMMA KindsAgree ==
  ASSUME NEW f \in [Planet -> Degree], NEW g \in [Planet -> Degree], NEW kinds
  PROVE  Cardinality(OfKinds(ComputeCross(f, g), kinds))
           = Cardinality(OfKinds(ComputeCross(g, f), kinds))
<1> DEFINE S == OfKinds(ComputeCross(f, g), kinds)
           T == OfKinds(ComputeCross(g, f), kinds)
           h == [x \in S |-> Swapped(x)]
<1>1. \A x \in S : Swapped(x) \in T /\ Swapped(Swapped(x)) = x
  BY CrossSwaps DEF OfKinds
<1>2. \A y \in T : Swapped(y) \in S /\ Swapped(Swapped(y)) = y
  BY CrossSwaps DEF OfKinds
<1>3. IsFiniteSet(S)
  BY CrossIsFinite, FS_Subset DEF OfKinds
<1> HIDE DEF S, T
<1>4. h \in [S -> T]
  BY <1>1
<1>5. \A x, y \in S : h[x] = h[y] => x = y
  <2> TAKE x, y \in S
  <2>1. h[x] = Swapped(x) /\ h[y] = Swapped(y)
    OBVIOUS
  <2>2. QED
    BY <1>1, <2>1
<1>6. \A y \in T : \E x \in S : h[x] = y
  <2> TAKE y \in T
  <2>1. Swapped(y) \in S /\ h[Swapped(y)] = y
    BY <1>2
  <2>2. QED
    BY <2>1
<1> HIDE DEF h
<1>7. h \in Bijection(S, T)
  BY <1>4, <1>5, <1>6 DEF Bijection, Injection, IsInjective, Surjection
<1>8. Cardinality(T) = Cardinality(S)
  BY <1>3, <1>7, FS_Bijection DEF ExistsBijection
<1>9. QED
  BY <1>8 DEF S, T

\* Both peers are shown the same tone of their synastry.
LEMMA TonesAgree ==
  ASSUME NEW c, NEW o, ChartTyped(c), ChartTyped(o)
  PROVE  CompatTone(c, o) = CompatTone(o, c)
<1> DEFINE good == {"trine", "sextile"}
           bad == {"square", "opposition"}
           Score(A) == Cardinality(OfKinds(A, good)) - Cardinality(OfKinds(A, bad))
           f == c.positions
           g == o.positions
<1>1. f \in [Planet -> Degree] /\ g \in [Planet -> Degree]
  BY DEF ChartTyped
<1>2. \A A : SynastryTone(A) = IF Score(A) >= 3 THEN "harmonious"
                               ELSE IF Score(A) <= -3 THEN "challenging" ELSE "balanced"
  BY DEF SynastryTone, OfKinds
<1>3. /\ CompatTone(c, o) = SynastryTone(ComputeCross(f, g))
      /\ CompatTone(o, c) = SynastryTone(ComputeCross(g, f))
  BY DEF CompatTone, SynastryWith
<1>4. Score(ComputeCross(f, g)) = Score(ComputeCross(g, f))
  <2> HIDE DEF good, bad, f, g
  <2>1. QED
    BY <1>1, KindsAgree
<1> HIDE DEF Score
<1>5. QED
  BY <1>2, <1>3, <1>4

\* A finite set with two different elements counts more than one.
LEMMA TwoElements ==
  ASSUME NEW S, IsFiniteSet(S), NEW x \in S, NEW y \in S, x # y
  PROVE  Cardinality(S) > 1
<1>1. IsFiniteSet({x}) /\ Cardinality({x}) = 1
  BY FS_Singleton
<1>2. Cardinality({x} \cup {y}) = 1 + 1
  BY <1>1, FS_AddElement
<1>3. Cardinality({x} \cup {y}) <= Cardinality(S)
  BY FS_Subset
<1>4. Cardinality(S) \in Nat
  BY FS_CardinalityType
<1>5. QED
  BY <1>2, <1>3, <1>4

\* The topics of degrees are finitely many.
LEMMA DegreeTopics == IsFiniteSet({<<"degree", b>> : b \in 0 .. 71})
<1> DEFINE I == 0 .. 71
           D == {<<"degree", b>> : b \in I}
           T == [b \in I |-> <<"degree", b>>]
<1>1. IsFiniteSet(I)
  <2>1. 0 \in Int /\ 71 \in Int
    OBVIOUS
  <2>2. QED
    BY <2>1, FS_Interval
<1> HIDE DEF I
<1>2. \A i \in I : T[i] = <<"degree", i>> /\ T[i] \in D
  OBVIOUS
<1>3. \A t \in D : \E i \in I : t = <<"degree", i>>
  OBVIOUS
<1>4. T = [i \in I |-> T[i]]
  OBVIOUS
<1> HIDE DEF T, D
<1>5. T \in [I -> D]
  BY <1>2, <1>4
<1>6. \A t \in D : \E i \in I : T[i] = t
  BY <1>2, <1>3
<1>7. T \in Surjection(I, D)
  BY <1>5, <1>6 DEF Surjection
<1>8. IsFiniteSet(D)
  BY <1>1, <1>7, FS_Surjection
<1>9. QED
  BY <1>8 DEF D, I

\* Planets exactly in aspect give a topic besides the global one.
LEMMA TopicsMeet ==
  ASSUME NEW f \in [Planet -> Degree], NEW g \in [Planet -> Degree],
         NEW p \in PERSONAL_PLANETS, NEW q \in PERSONAL_PLANETS,
         Ahead(f[p], g[q]) \in {0, 90, 120, 180, 240, 270}
  PROVE  Cardinality(TopicKeys(f) \cap TopicKeys(g)) > 1
<1> DEFINE A == TopicKeysForChart(f)
           B == TopicKeysForChart(g)
           S == TopicKeys(f) \cap TopicKeys(g)
           G == <<"global">>
           D == {<<"degree", b>> : b \in 0 .. 71}
<1>1. f \in [Planet -> Int] /\ g \in [Planet -> Int]
  BY SMTT(60) DEF Degree
<1>2. (g[q] - f[p]) % 360 \in ASPECT_OFFSETS
  BY DEF Ahead, ASPECT_OFFSETS
<1>3. PICK b \in A : b \in B
  BY <1>1, <1>2, ExactAspectsMeet
<1>4. A \subseteq 0 .. 71
  <2>1. ASSUME NEW n \in Int
        PROVE  DegreeBucket(n) \in 0 .. 71
    BY SMT DEF DegreeBucket, Norm, BUCKET_DEG
  <2>2. \A r \in PERSONAL_PLANETS \cap DOMAIN f, o \in ASPECT_OFFSETS : f[r] + o \in Int
    BY <1>1 DEF ASPECT_OFFSETS
  <2>3. QED
    BY <2>1, <2>2 DEF TopicKeysForChart
<1>5. /\ TopicKeys(f) = {G} \cup {<<"degree", i>> : i \in A}
      /\ TopicKeys(g) = {G} \cup {<<"degree", i>> : i \in B}
  BY DEF TopicKeys
<1>6. G # <<"degree", b>>
  OBVIOUS
<1> HIDE DEF A, B
<1>7. G \in S /\ <<"degree", b>> \in S
  BY <1>3, <1>5
<1>8. IsFiniteSet(S)
  <2>3. IsFiniteSet(D)
    BY DegreeTopics
  <2>4. IsFiniteSet(D \cup {G})
    <3> HIDE DEF D, G, S
    <3>1. QED
      BY <2>3, FS_AddElement
  <2>5. S \subseteq D \cup {G}
    BY <1>4, <1>5
  <2> HIDE DEF D, G, S
  <2>6. QED
    BY <2>4, <2>5, FS_Subset
<1> HIDE DEF G, S
<1>9. Cardinality(S) > 1
  BY SMTT(60), <1>6, <1>7, <1>8, TwoElements
<1>10. QED
  BY <1>9 DEF S

\* A separation within five degrees more than an orb is within the orb at most
\* five degrees on.
Sep(d) == IF d > 180 THEN 360 - d ELSE d

\* In at most five degrees a separation outside an orb by at most five is inside it.
LEMMA FiveDegrees ==
  ASSUME NEW d \in 0 .. 359, NEW angle \in 0 .. 180, NEW orb \in 1 .. 8,
         Abs(Sep(d) - angle) <= orb + 5
  PROVE  \E j \in -5 .. 5 : d - j \in 0 .. 359 /\ Abs(Sep(d - j) - angle) <= orb
<1> DEFINE Good(j) == d - j \in 0 .. 359 /\ Abs(Sep(d - j) - angle) <= orb
<1>1. CASE Abs(Sep(d) - angle) <= orb
  <2>1. 0 \in -5 .. 5 /\ Good(0)
    BY SMTT(60), <1>1
  <2>2. QED
    BY <2>1
<1>2. CASE d <= 180 /\ d > angle + orb
  <2> DEFINE j == d - angle - orb
  <2>1. j \in -5 .. 5 /\ d - j = angle + orb /\ d - j \in 0 .. 359
    BY <1>2 DEF Sep, Abs
  <2>2. Sep(d - j) = angle + orb
    BY <1>2, <2>1 DEF Sep
  <2>3. Abs(Sep(d - j) - angle) <= orb
    BY <2>2 DEF Abs
  <2> HIDE DEF j
  <2>4. QED
    BY <2>1, <2>3
<1>3. CASE d <= 180 /\ d < angle - orb
  <2> DEFINE j == d - angle + orb
  <2>1. j \in -5 .. 5 /\ d - j = angle - orb /\ d - j \in 0 .. 359
    BY <1>3 DEF Sep, Abs
  <2>2. Sep(d - j) = angle - orb
    BY <1>3, <2>1 DEF Sep
  <2>3. Abs(Sep(d - j) - angle) <= orb
    BY <2>2 DEF Abs
  <2> HIDE DEF j
  <2>4. QED
    BY <2>1, <2>3
<1>4. CASE d > 180 /\ 360 - d > angle + orb
  <2> DEFINE j == d - 360 + angle + orb
  <2>0. Abs((360 - d) - angle) <= orb + 5
    BY <1>4 DEF Sep
  <2>1. j \in -5 .. 5 /\ d - j = 360 - (angle + orb) /\ d - j \in 0 .. 359
    BY <1>4, <2>0 DEF Abs
  <2>2. Sep(d - j) = angle + orb
    BY <1>4, <2>1 DEF Sep
  <2>3. Abs(Sep(d - j) - angle) <= orb
    BY <2>2 DEF Abs
  <2> HIDE DEF j
  <2>4. QED
    BY <2>1, <2>3
<1>5. CASE d > 180 /\ 360 - d < angle - orb
  <2> DEFINE j == d - 360 + angle - orb
  <2>0. Abs((360 - d) - angle) <= orb + 5
    BY <1>5 DEF Sep
  <2>1. j \in -5 .. 5 /\ d - j = 360 - (angle - orb) /\ d - j \in 0 .. 359
    BY <1>5, <2>0 DEF Abs
  <2>2. Sep(d - j) = angle - orb
    BY <1>5, <2>1 DEF Sep
  <2>3. Abs(Sep(d - j) - angle) <= orb
    BY <2>2 DEF Abs
  <2> HIDE DEF j
  <2>4. QED
    BY <2>1, <2>3
<1>6. QED
  BY <1>1, <1>2, <1>3, <1>4, <1>5 DEF Sep, Abs

\* What a discovered peer's row says of their sun is so for some degree of the
\* announced sign.
LEMMA RowIsPossible ==
  ASSUME NEW pos \in [Planet -> Degree], NEW month \in 0 .. 11
  PROVE  \A x \in ApproximateAspects(month, pos) :
           \E lon \in (30 * month) .. (30 * month + 29) :
             DetectAspect(AngularSeparation(lon, pos[x[2]])) = x[1]
<1> DEFINE mid == 30 * month + 15
<1> TAKE x \in ApproximateAspects(month, pos)
<1>1. PICK p \in Planet : /\ x = <<DetectWide(AngularSeparation(mid, pos[p])), p>>
                          /\ x \notin {None} \X Planet
  BY DEF ApproximateAspects
<1> DEFINE kind == DetectWide(AngularSeparation(mid, pos[p]))
           v == pos[p]
           d == Ahead(mid, v)
<1>2. x[1] = kind /\ x[2] = p /\ kind # None
  BY <1>1
<1>3. mid \in Int /\ v \in Int /\ v \in Degree /\ mid \in Degree
  BY DEF Degree
<1>4. AngularSeparation(mid, v) = Sep(d)
  BY DEF AngularSeparation, Norm, Ahead, Sep
<1>5. d \in 0 .. 359 /\ d = IF v >= mid THEN v - mid ELSE v - mid + 360
  <2>1. d \in Degree /\ d = IF v >= mid THEN v - mid ELSE v - mid + 360
    <3> HIDE DEF mid, v
    <3>1. QED
      BY SMTT(60), <1>3, AheadIs
  <2>2. QED
    BY <2>1 DEF Degree
<1>6. kind \in DOMAIN Angle /\ InOrb(Sep(d), kind, 5)
  <2>1. Sep(d) \in 0 .. 180 /\ 5 \in 0 .. 5
    <3> HIDE DEF d
    <3>1. QED
      BY <1>5 DEF Sep
  <2>2. kind = FirstWithin(Sep(d), 5)
    BY <1>4 DEF DetectWide
  <2> HIDE DEF kind, d
  <2>3. QED
    BY ZenonT(60), <1>2, <2>1, <2>2, FoundKind
<1>7. Angle[kind] \in 0 .. 180 /\ Orb[kind] \in 1 .. 8
  BY <1>6, AngleTable
<1> HIDE DEF kind, v, d
<1>8. PICK j \in -5 .. 5 : d - j \in 0 .. 359 /\ Abs(Sep(d - j) - Angle[kind]) <= Orb[kind]
  <2>1. Abs(Sep(d) - Angle[kind]) <= Orb[kind] + 5
    BY <1>6 DEF InOrb
  <2>2. d \in 0 .. 359
    BY SMTT(60), <1>5
  <2>3. QED
    BY ZenonT(60), <1>7, <2>1, <2>2, FiveDegrees
<1> DEFINE lon == mid + j
<1>9. lon \in (30 * month) .. (30 * month + 29) /\ lon \in 0 .. 359
  OBVIOUS
<1>10. Ahead(lon, v) = d - j
  <2>1. Ahead(lon, v) = IF v >= lon THEN v - lon ELSE v - lon + 360
    BY ZenonT(60), <1>3, <1>9, AheadIs DEF Degree
  <2>2. lon = mid + j
    OBVIOUS
  <2>3. v \in 0 .. 359
    BY <1>3 DEF Degree
  <2>4. \/ v >= mid /\ d - j = v - mid - j
        \/ v < mid /\ d - j = v - mid + 360 - j
    <3> HIDE DEF mid
    <3>1. QED
      BY <1>3, <1>5
  <2>5. j \in Int /\ mid \in Int /\ d - j \in 0 .. 359 /\ lon \in 0 .. 359
    BY <1>3, <1>8, <1>9
  <2> HIDE DEF lon, mid
  <2>6. QED
    BY SMTT(60), <2>1, <2>2, <2>3, <2>4, <2>5
<1> HIDE DEF lon
<1>11. AngularSeparation(lon, v) = Sep(d - j)
  <2>1. AngularSeparation(lon, v) = Sep(Ahead(lon, v))
    BY DEF AngularSeparation, Norm, Ahead, Sep
  <2>2. QED
    BY <1>10, <2>1
<1>12. DetectAspect(Sep(d - j)) = kind
  <2>1. Sep(d - j) \in 0 .. 180 /\ 0 \in 0 .. 5
    BY <1>8 DEF Sep
  <2>2. InOrb(Sep(d - j), kind, 0)
    BY <1>7, <1>8 DEF InOrb
  <2>3. QED
    BY <1>6, <2>1, <2>2, FoundKind DEF DetectAspect
<1>13. QED
  BY <1>2, <1>9, <1>11, <1>12 DEF v

\* Both charts are charts, and what the ticker issued is what they give.
LEMMA ChartsTyped ==
  ASSUME ChartInv
  PROVE  /\ chart # NoChart => ChartTyped(chart)
         /\ peer # NoChart => ChartTyped(peer) /\ ChartTyped(chart) /\ chart # NoChart
         /\ active # {} => ChartTyped(chart) /\ active = ActiveItems(chart, now)
BY ComputedTyped DEF ChartInv

\* The same thing has one name: for any two charts, a key is read back from its
\* string as itself and put in words the same both ways; two peers get the same keys
\* and the same tone; planets exactly in aspect meet in a topic; and a discovered
\* peer's row says what is so for some degree of the announced sign.
THEOREM ChartKeys == ChartSpec => []PeersNameTheSame
<1>1. ChartInv => PeersNameTheSame
  <2> SUFFICES ASSUME ChartInv
               PROVE  PeersNameTheSame
    OBVIOUS
  <2>1. \A k \in KeysShown : NamedRight(k)
    <3> TAKE k \in KeysShown
    <3>1. ASSUME NEW c \in Charts, k \in KeysOf(c)
          PROVE  NamedRight(k)
      <4>1. ChartTyped(c)
        BY ChartsTyped DEF Charts
      <4>2. k \in NatalItems(c) \/ k \in {i.key : i \in PlacementItems(c)}
        BY <3>1 DEF KeysOf
      <4>3. QED
        BY <4>1, <4>2, NatalKeysNamed, PlacementKeysNamed
    <3>2. CASE k \in SynastryItems(chart, peer)
      BY <3>2, SynastryKeysNamed
    <3> DEFINE Own == UNION {KeysOf(c) : c \in Charts}
               Both == IF peer = NoChart THEN {} ELSE SynastryItems(chart, peer)
    <3>3. k \in Own => \E c \in Charts : k \in KeysOf(c)
      OBVIOUS
    <3>4. k \in Both => k \in SynastryItems(chart, peer)
      OBVIOUS
    <3>5. KeysShown = Own \cup Both
      BY DEF KeysShown
    <3> HIDE DEF Own, Both
    <3>6. QED
      BY <3>1, <3>2, <3>3, <3>4, <3>5
  <2>2. ASSUME NEW i \in active
        PROVE  ToSig(Parse(i.key)) = i.key /\ CardText(i).title = PlainName(Parse(i.key))
    <3>1. ChartTyped(chart) /\ active = ActiveItems(chart, now) /\ Sky(now) \in [Planet -> Degree]
      BY ChartsTyped, SkyTyped
    <3>2. PICK k : ReadsBack(k) /\ i.key = ToSig(k)
      BY <3>1, ActiveKeysNamed
    <3>3. CardText(i).title = HumanizeKey(i.key)
      BY DEF CardText
    <3>4. QED
      BY <3>2, <3>3 DEF ReadsBack
  <2>3. ASSUME peer # NoChart
        PROVE  /\ SynastryItems(chart, peer) = SynastryItems(peer, chart)
               /\ CompatTone(chart, peer) = CompatTone(peer, chart)
               /\ (\E p, q \in PERSONAL_PLANETS :
                     Ahead(chart.positions[p], peer.positions[q]) \in {0, 90, 120, 180, 240, 270})
                    => Cardinality(TopicKeys(chart.positions) \cap TopicKeys(peer.positions)) > 1
               /\ LET month == SignOf(peer.positions["sun"]) IN
                  \A x \in ApproximateAspects(month, chart.positions) :
                    \E lon \in (30 * month)..(30 * month + 29) :
                      DetectAspect(AngularSeparation(lon, chart.positions[x[2]])) = x[1]
    <3> DEFINE f == chart.positions
               g == peer.positions
               month == SignOf(g["sun"])
    <3>1. ChartTyped(chart) /\ ChartTyped(peer)
      BY <2>3, ChartsTyped
    <3>2. f \in [Planet -> Degree] /\ g \in [Planet -> Degree]
      BY <3>1 DEF ChartTyped
    <3>3. SynastryItems(chart, peer) = SynastryItems(peer, chart)
      BY <3>1, KeysAgree
    <3>4. CompatTone(chart, peer) = CompatTone(peer, chart)
      BY <3>1, TonesAgree
    <3>5. month \in 0 .. 11
      <4>1. g["sun"] \in Degree
        BY <3>2, PlanetSet
      <4>2. QED
        BY <4>1, SignTyped
    <3> HIDE DEF f, g, month
    <3>6. \A p, q \in PERSONAL_PLANETS : Ahead(f[p], g[q]) \in {0, 90, 120, 180, 240, 270}
            => Cardinality(TopicKeys(f) \cap TopicKeys(g)) > 1
      BY SMTT(60), <3>2, TopicsMeet
    <3>7. \A x \in ApproximateAspects(month, f) :
            \E lon \in (30 * month)..(30 * month + 29) :
              DetectAspect(AngularSeparation(lon, f[x[2]])) = x[1]
      BY <3>2, <3>5, RowIsPossible
    <3>8. (\E p, q \in PERSONAL_PLANETS :
             Ahead(chart.positions[p], peer.positions[q]) \in {0, 90, 120, 180, 240, 270})
            => Cardinality(TopicKeys(chart.positions) \cap TopicKeys(peer.positions)) > 1
      BY <3>6 DEF f, g
    <3>9. \A x \in ApproximateAspects(month, chart.positions) :
            \E lon \in (30 * month)..(30 * month + 29) :
              DetectAspect(AngularSeparation(lon, chart.positions[x[2]])) = x[1]
      BY <3>7 DEF f
    <3>10. month = SignOf(peer.positions["sun"])
      BY DEF month, g
    <3>11. QED
      BY <3>3, <3>4, <3>8, <3>9, <3>10
  <2>4. QED
    BY SMTT(60), <2>1, <2>2, <2>3 DEF PeersNameTheSame, NamedRight
<1>2. QED
  BY <1>1, ChartInvariance, PTL

(***************************************************************************)
(* Days counted from 0001-01-01                                            *)
(***************************************************************************)
\* The days of the year before each month, as DaysBefore sums them, and as a table.
MonthSums(y) ==
  CHOOSE f : f = [k \in 0 .. 12 |-> IF k = 0 THEN 0 ELSE f[k - 1] + DaysInMonth(y, k)]
MonthTable(y) ==
  LET leap == IF LeapYear(y) THEN 1 ELSE 0
  IN  [k \in 0 .. 12 |->
         CASE k = 0 -> 0 [] k = 1 -> 31 [] k = 2 -> 59 + leap [] k = 3 -> 90 + leap
           [] k = 4 -> 120 + leap [] k = 5 -> 151 + leap [] k = 6 -> 181 + leap
           [] k = 7 -> 212 + leap [] k = 8 -> 243 + leap [] k = 9 -> 273 + leap
           [] k = 10 -> 304 + leap [] k = 11 -> 334 + leap [] k = 12 -> 365 + leap]

\* The lengths of the months, summed by the fold, are the cumulative table.
LEMMA MonthsSummed ==
  ASSUME NEW y \in Nat
  PROVE  \A k \in 0 .. 12 : MonthSums(y)[k] = MonthTable(y)[k]
<1> DEFINE leap == IF LeapYear(y) THEN 1 ELSE 0
           W == MonthTable(y)
           f == MonthSums(y)
           D == [k \in 1 .. 12 |-> DaysInMonth(y, k)]
<1>1. leap \in 0 .. 1
  OBVIOUS
<1>2. /\ D[1] = 31 /\ D[2] = 28 + leap /\ D[3] = 31 /\ D[4] = 30 /\ D[5] = 31 /\ D[6] = 30
      /\ D[7] = 31 /\ D[8] = 31 /\ D[9] = 30 /\ D[10] = 31 /\ D[11] = 30 /\ D[12] = 31
  BY DEF DaysInMonth
<1>3. /\ W[0] = 0 /\ W[1] = 31 /\ W[2] = 59 + leap /\ W[3] = 90 + leap /\ W[4] = 120 + leap
      /\ W[5] = 151 + leap /\ W[6] = 181 + leap /\ W[7] = 212 + leap /\ W[8] = 243 + leap
      /\ W[9] = 273 + leap /\ W[10] = 304 + leap /\ W[11] = 334 + leap /\ W[12] = 365 + leap
      /\ W = [k \in 0 .. 12 |-> W[k]]
  BY DEF MonthTable
<1>4. \A k \in 1 .. 12 : D[k] = DaysInMonth(y, k)
  OBVIOUS
<1> HIDE DEF leap, W, D
<1>5. \A k \in 0 .. 12 : W[k] = IF k = 0 THEN 0 ELSE W[k - 1] + D[k]
  <2>1. /\ W[1] = W[0] + D[1] /\ W[2] = W[1] + D[2] /\ W[3] = W[2] + D[3]
        /\ W[4] = W[3] + D[4] /\ W[5] = W[4] + D[5] /\ W[6] = W[5] + D[6]
        /\ W[7] = W[6] + D[7] /\ W[8] = W[7] + D[8] /\ W[9] = W[8] + D[9]
        /\ W[10] = W[9] + D[10] /\ W[11] = W[10] + D[11] /\ W[12] = W[11] + D[12]
    BY <1>1, <1>2, <1>3
  <2> TAKE k \in 0 .. 12
  <2>2. \/ k = 0 \/ k = 1 \/ k = 2 \/ k = 3 \/ k = 4 \/ k = 5 \/ k = 6 \/ k = 7 \/ k = 8
        \/ k = 9 \/ k = 10 \/ k = 11 \/ k = 12
    OBVIOUS
  <2>3. QED
    BY <1>3, <2>1, <2>2
<1>6. W = [k \in 0 .. 12 |-> IF k = 0 THEN 0 ELSE W[k - 1] + DaysInMonth(y, k)]
  <2>1. \A k \in 0 .. 12 : W[k] = IF k = 0 THEN 0 ELSE W[k - 1] + DaysInMonth(y, k)
    <3> TAKE k \in 0 .. 12
    <3>1. CASE k = 0
      BY <1>5, <3>1
    <3>2. CASE k # 0
      <4>1. k \in 1 .. 12
        BY <3>2
      <4>2. D[k] = DaysInMonth(y, k)
        BY SMTT(60), <1>4, <4>1
      <4>3. QED
        BY <1>5, <3>2, <4>2
    <3>3. QED
      BY <3>1, <3>2
  <2>2. QED
    BY <1>3, <2>1
<1>7. f = [k \in 0 .. 12 |-> IF k = 0 THEN 0 ELSE f[k - 1] + DaysInMonth(y, k)]
  BY <1>6 DEF MonthSums
<1> HIDE DEF f
<1>8. f[0] = 0 /\ \A k \in 1 .. 12 : f[k] = f[k - 1] + D[k]
  <2>1. f[0] = 0
    BY <1>7
  <2>2. ASSUME NEW k \in 1 .. 12
        PROVE  f[k] = f[k - 1] + D[k]
    <3>1. k \in 0 .. 12 /\ k # 0
      OBVIOUS
    <3>2. f[k] = f[k - 1] + DaysInMonth(y, k)
      BY <1>7, <3>1
    <3>3. QED
      BY <1>4, <3>2
  <2>3. QED
    BY <2>1, <2>2
<1>9. /\ f[1] = f[0] + D[1] /\ f[2] = f[1] + D[2] /\ f[3] = f[2] + D[3]
      /\ f[4] = f[3] + D[4] /\ f[5] = f[4] + D[5] /\ f[6] = f[5] + D[6]
      /\ f[7] = f[6] + D[7] /\ f[8] = f[7] + D[8] /\ f[9] = f[8] + D[9]
      /\ f[10] = f[9] + D[10] /\ f[11] = f[10] + D[11] /\ f[12] = f[11] + D[12]
  <2>1. \A k \in 1 .. 12, j \in 0 .. 11 : j = k - 1 => f[k] = f[j] + D[k]
    BY <1>8
  <2>2. QED
    BY <2>1
<1>10. /\ f[0] = W[0] /\ f[1] = W[1] /\ f[2] = W[2] /\ f[3] = W[3] /\ f[4] = W[4]
       /\ f[5] = W[5] /\ f[6] = W[6] /\ f[7] = W[7] /\ f[8] = W[8] /\ f[9] = W[9]
       /\ f[10] = W[10] /\ f[11] = W[11] /\ f[12] = W[12]
  BY <1>1, <1>2, <1>3, <1>8, <1>9
<1>11. \A k \in 0 .. 12 : f[k] = W[k]
  <2> TAKE k \in 0 .. 12
  <2>1. \/ k = 0 \/ k = 1 \/ k = 2 \/ k = 3 \/ k = 4 \/ k = 5 \/ k = 6 \/ k = 7 \/ k = 8
        \/ k = 9 \/ k = 10 \/ k = 11 \/ k = 12
    OBVIOUS
  <2>2. QED
    BY <1>10, <2>1
<1>12. QED
  BY <1>11 DEF f, W

\* The days of the civil calendar are the day numbers, from another day on.
LEMMA DaysAreNumbered ==
  ASSUME NEW y, NEW m, NEW d, CivilDate(y, m, d)
  PROVE  DaysBefore(y, m) + d = DayNumber(y, m, d) - 1721425
<1> DEFINE n == y - 1
           leap == IF LeapYear(y) THEN 1 ELSE 0
           T == MonthTable(y)
           Q(i) == (1461 * (i + 4716)) \div 4
           A(i) == i \div 100
           F(i) == (i \div 100) \div 4
           terms == Q(n) - A(n) + F(n)
           next == Q(y) - A(y) + F(y)
<1>1. y \in Nat /\ y >= 1583 /\ m \in 1 .. 12 /\ d \in Int /\ n \in Nat /\ n + 1 = y
  BY DEF CivilDate
<1>2. DaysBefore(y, m) = 365 * n + (n \div 4) - (n \div 100) + (n \div 400) + T[m - 1]
  <2>1. DaysBefore(y, m) = 365 * n + (n \div 4) - (n \div 100) + (n \div 400) + MonthSums(y)[m - 1]
    BY DEF DaysBefore, MonthSums
  <2>2. m - 1 \in 0 .. 12
    BY <1>1
  <2>3. MonthSums(y)[m - 1] = T[m - 1]
    BY <1>1, <2>2, MonthsSummed
  <2>4. QED
    BY <2>1, <2>3
<1>3. /\ terms \in Int /\ next \in Int
      /\ 365 * n + (n \div 4) - (n \div 100) + (n \div 400) = terms - 1722519
  <2>1. Q(n) = 365 * n + (n \div 4) + 1722519
    BY SMT, <1>1
  <2>2. F(n) = n \div 400
    BY SMT, <1>1
  <2>3. /\ Q(n) \in Int /\ A(n) \in Int /\ F(n) \in Int /\ n \div 4 \in Int
        /\ Q(y) \in Int /\ A(y) \in Int /\ F(y) \in Int
    BY SMT, <1>1
  <2> HIDE DEF Q, F, n
  <2>4. QED
    BY SMT, <1>1, <2>1, <2>2, <2>3
<1>4. next = terms + 365 + leap
  <2>1. Q(n + 1) - A(n + 1) + F(n + 1) = Q(n) - A(n) + F(n) + (IF LeapYear(n + 1) THEN 366 ELSE 365)
    BY <1>1, LeapSteps
  <2>2. Q(y) - A(y) + F(y) = Q(n) - A(n) + F(n) + (IF LeapYear(y) THEN 366 ELSE 365)
    <3> HIDE DEF n
    <3>1. QED
      BY <1>1, <2>1
  <2> HIDE DEF Q, A, F
  <2>3. next = terms + (IF LeapYear(y) THEN 366 ELSE 365)
    BY <2>2
  <2> HIDE DEF terms, next
  <2>4. QED
    BY SMT, <1>3, <2>3
<1>5. DayNumber(y, m, d) =
        (IF m <= 2 THEN terms ELSE next) + Offset(MarchMonth(m)) + d + 2 - 1524
  <2> DEFINE yy == MarchYear(y, m)
             o == Offset(MarchMonth(m))
  <2>1. DayNumber(y, m, d) = Q(yy) + o + d + 2 - A(yy) + F(yy) - 1524
    BY DEF DayNumber, Count
  <2>2. yy = IF m <= 2 THEN n ELSE y
    BY DEF MarchYear
  <2>3. o \in Int
    <3>1. MarchMonth(m) \in Int
      BY <1>1 DEF MarchMonth
    <3>2. QED
      BY SMT, <3>1 DEF Offset
  <2>4. /\ Q(n) \in Int /\ A(n) \in Int /\ F(n) \in Int
        /\ Q(y) \in Int /\ A(y) \in Int /\ F(y) \in Int
    BY SMT, <1>1
  <2> DEFINE days == Q(yy) - A(yy) + F(yy)
             number == DayNumber(y, m, d)
  <2>5. days = IF m <= 2 THEN terms ELSE next
    <3> HIDE DEF yy, Q, A, F, n
    <3>1. QED
      BY <2>2
  <2>6. number = days + o + d + 2 - 1524 /\ days \in Int
    <3>1. yy \in Int
      BY <1>1, <2>2
    <3>2. Q(yy) \in Int /\ A(yy) \in Int /\ F(yy) \in Int
      BY SMT, <3>1
    <3> HIDE DEF yy, o, Q, A, F, n
    <3>3. QED
      BY SMT, <1>1, <2>1, <2>3, <3>2
  <2> HIDE DEF days, terms, next, o, number
  <2>7. number = (IF m <= 2 THEN terms ELSE next) + o + d + 2 - 1524
    BY <2>5, <2>6
  <2>8. QED
    BY <2>7 DEF number, o
<1>6. leap \in 0 .. 1
  OBVIOUS
<1>7. T[m - 1] = IF m <= 2 THEN Offset(MarchMonth(m)) - 428
                 ELSE Offset(MarchMonth(m)) + 365 + leap - 428
  <2>1. /\ T[0] = 0 /\ T[1] = 31 /\ T[2] = 59 + leap /\ T[3] = 90 + leap /\ T[4] = 120 + leap
        /\ T[5] = 151 + leap /\ T[6] = 181 + leap /\ T[7] = 212 + leap /\ T[8] = 243 + leap
        /\ T[9] = 273 + leap /\ T[10] = 304 + leap /\ T[11] = 334 + leap
    BY DEF MonthTable
  <2> DEFINE O == [k \in 3 .. 14 |-> Offset(k)]
             B == [k \in 1 .. 12 |-> T[k - 1]]
             M == [k \in 1 .. 12 |-> MarchMonth(k)]
  <2>2. /\ M[1] = 13 /\ M[2] = 14 /\ M[3] = 3 /\ M[4] = 4 /\ M[5] = 5 /\ M[6] = 6 /\ M[7] = 7
        /\ M[8] = 8 /\ M[9] = 9 /\ M[10] = 10 /\ M[11] = 11 /\ M[12] = 12
    BY DEF MarchMonth
  <2>3. /\ O[3] = 122 /\ O[4] = 153 /\ O[5] = 183 /\ O[6] = 214
        /\ O[7] = 244 /\ O[8] = 275 /\ O[9] = 306 /\ O[10] = 336
        /\ O[11] = 367 /\ O[12] = 397 /\ O[13] = 428 /\ O[14] = 459
    BY OffsetTable
  <2>4. /\ B[1] = T[0] /\ B[2] = T[1] /\ B[3] = T[2] /\ B[4] = T[3] /\ B[5] = T[4]
        /\ B[6] = T[5] /\ B[7] = T[6] /\ B[8] = T[7] /\ B[9] = T[8] /\ B[10] = T[9]
        /\ B[11] = T[10] /\ B[12] = T[11]
    <3> HIDE DEF T
    <3>1. QED
      OBVIOUS
  <2>5. B[m] = T[m - 1] /\ M[m] = MarchMonth(m) /\ O[MarchMonth(m)] = Offset(MarchMonth(m))
    <3>1. MarchMonth(m) \in 3 .. 14
      BY <1>1 DEF MarchMonth
    <3> HIDE DEF T
    <3>2. QED
      BY <1>1, <3>1
  <2>6. \/ m = 1 \/ m = 2 \/ m = 3 \/ m = 4 \/ m = 5 \/ m = 6 \/ m = 7 \/ m = 8
        \/ m = 9 \/ m = 10 \/ m = 11 \/ m = 12
    BY <1>1
  <2> HIDE DEF T, O, B, M, leap
  <2>7. B[m] = IF m <= 2 THEN O[M[m]] - 428 ELSE O[M[m]] + 365 + leap - 428
    BY <1>6, <2>1, <2>2, <2>3, <2>4, <2>6
  <2>8. QED
    BY <2>5, <2>7
<1>8. Offset(MarchMonth(m)) \in Int
  <2>1. MarchMonth(m) \in Int
    BY <1>1 DEF MarchMonth
  <2>2. QED
    BY SMT, <2>1 DEF Offset
<1> DEFINE o == Offset(MarchMonth(m))
<1> HIDE DEF T, terms, next, o, leap
<1>9. DaysBefore(y, m) = terms - 1722519 + T[m - 1]
  BY <1>2, <1>3
<1>10. T[m - 1] = IF m <= 2 THEN o - 428 ELSE o + 365 + leap - 428
  BY <1>7 DEF o
<1>11. DayNumber(y, m, d) = (IF m <= 2 THEN terms ELSE next) + o + d + 2 - 1524
  BY <1>5 DEF o
<1>12. o \in Int
  BY <1>8 DEF o
<1>13. QED
  BY SMT, <1>1, <1>3, <1>4, <1>6, <1>9, <1>10, <1>11, <1>12

\* The instant of a civil date and hour is in that day.
LEMMA InstantInDay ==
  ASSUME NEW x, CivilDate(x.year, x.month, x.day), NEW h \in 0 .. DAY - 1
  PROVE  /\ IsCivilDateOf(x, GregorianToJdn(x.year, x.month, x.day, h))
         /\ GregorianToJdn(x.year, x.month, x.day, h) \in Int
<1> DEFINE y == x.year
           m == x.month
           d == x.day
           jdn == GregorianToJdn(y, m, d, h)
<1>1. y \in Nat /\ m \in 1 .. 12 /\ d \in 1 .. DaysInMonth(y, m) /\ d \in Nat
  BY DEF CivilDate, DaysInMonth
<1>2. DaysBefore(y, m) + d = DayNumber(y, m, d) - 1721425
  <2> HIDE DEF y, m, d
  <2>1. QED
    BY DaysAreNumbered DEF y, m, d
<1>3. (jdn + (DAY \div 2)) \div DAY = DayNumber(y, m, d)
  <2> HIDE DEF y, m, d
  <2>1. QED
    BY <1>1, NumberOfDate
<1>4. jdn \in Int
  <2>1. h \in Int /\ d \in Int /\ y \in Int /\ m \in Int
    BY <1>1 DEF DAY
  <2> HIDE DEF y, m, d
  <2>2. QED
    BY SMT, <2>1 DEF GregorianToJdn, DAY
<1> HIDE DEF jdn
<1>5. QED
  BY <1>1, <1>2, <1>3, <1>4 DEF IsCivilDateOf, jdn

\* The date shown for an instant is the civil date it is in.
LEMMA DateShown ==
  ASSUME NEW jdn \in Int, jdn >= GregorianToJdn(1583, 1, 1, 0)
  PROVE  LET x == JdnToGregorian(jdn)
         IN  /\ IsCivilDateOf(x, jdn)
             /\ GregorianToJdn(x.year, x.month, x.day, jdn - ((jdn + 10) \div DAY) * DAY + 10) = jdn
<1> DEFINE x == JdnToGregorian(jdn)
           midnight == GregorianToJdn(x.year, x.month, x.day, 0)
           h == jdn - midnight
<1>1. CivilDate(x.year, x.month, x.day) /\ midnight <= jdn /\ jdn < midnight + DAY
  BY DateIsCivilDay
<1> HIDE DEF x
<1>2. 0 \in 0 .. DAY - 1
  BY DEF DAY
<1>3. midnight \in Int
  BY <1>1, <1>2, InstantInDay
<1>4. h \in 0 .. DAY - 1
  <2> HIDE DEF midnight
  <2>1. QED
    BY SMT, <1>1, <1>3 DEF DAY
<1>5. \E k \in Int : \A j \in Int : GregorianToJdn(x.year, x.month, x.day, j) = DAY * k - 30490 + j
  <2> DEFINE y == x.year
             m == x.month
             d == x.day
             q == ((1461 * (MarchYear(y, m) + 4716)) \div 4)
             o == Offset(MarchMonth(m))
             a == MarchYear(y, m) \div 100
             f == a \div 4
             k == q + o + d + (2 - a + f)
  <2>1. y \in Int /\ m \in Int /\ d \in Int
    BY <1>1 DEF CivilDate, DaysInMonth
  <2>2. MarchYear(y, m) \in Int /\ MarchMonth(m) \in Int
    BY <2>1 DEF MarchYear, MarchMonth
  <2>3. q \in Int /\ o \in Int /\ a \in Int /\ f \in Int
    BY SMT, <2>2 DEF Offset
  <2>4. k \in Int
    <3> HIDE DEF q, o, a, f, d
    <3>1. QED
      BY <2>1, <2>3
  <2>5. \A j \in Int : GregorianToJdn(y, m, d, j) = DAY * k - 30490 + j
    BY DEF GregorianToJdn, MarchYear, MarchMonth, Offset
  <2> HIDE DEF k
  <2>6. QED
    BY <2>4, <2>5
<1>6. PICK k \in Int :
        \A j \in Int : GregorianToJdn(x.year, x.month, x.day, j) = DAY * k - 30490 + j
  BY <1>5
<1>7. midnight = DAY * k - 30490
  <2>1. midnight = DAY * k - 30490 + 0
    BY <1>6
  <2> HIDE DEF midnight
  <2>2. QED
    BY SMT, <2>1 DEF DAY
<1>8. GregorianToJdn(x.year, x.month, x.day, h) = jdn
  <2>1. GregorianToJdn(x.year, x.month, x.day, h) = DAY * k - 30490 + h
    BY <1>3, <1>6
  <2> DEFINE other == GregorianToJdn(x.year, x.month, x.day, h)
  <2>2. other = DAY * k - 30490 + h
    BY <2>1
  <2> HIDE DEF midnight, other
  <2>3. other = jdn
    BY SMT, <1>3, <1>7, <2>2 DEF DAY
  <2>4. QED
    BY <2>3 DEF other
<1>9. jdn - ((jdn + 10) \div DAY) * DAY + 10 = h
  <2> HIDE DEF midnight
  <2>1. (jdn + 10) \div 20 = k - 1524
    BY SMT, <1>1, <1>3, <1>7 DEF DAY
  <2>2. QED
    BY SMT, <1>3, <1>7, <2>1 DEF DAY
<1> HIDE DEF h, midnight
<1>10. IsCivilDateOf(x, jdn)
  BY <1>1, <1>4, <1>8, InstantInDay
<1>11. QED
  BY <1>8, <1>9, <1>10 DEF x

(***************************************************************************)
(* Windows                                                                 *)
(***************************************************************************)
\* How far one direction of a scan goes, from the steps that are outside.
Extent(outside, step, cap) == IF outside = {} THEN cap ELSE (Min(outside) - 1) * step

\* Multiples of a positive step are ordered as their factors.
LEMMA TimesStep ==
  ASSUME NEW step \in Nat, step > 0, NEW i \in Int, NEW j \in Int
  PROVE  /\ i * step \in Int
         /\ (i * step <= j * step) <=> i <= j
         /\ (i - 1) * step + step = i * step
<1>1. i * step \in Int /\ j * step \in Int /\ (i - 1) * step + step = i * step
  BY SMT
<1>2. i <= j => i * step <= j * step
  <2> SUFFICES ASSUME i <= j
               PROVE  i * step <= j * step
    OBVIOUS
  <2>1. j * step = i * step + (j - i) * step /\ j - i \in Nat
    BY SMT
  <2>2. (j - i) * step >= 0
    BY SMT, <2>1
  <2>3. QED
    BY SMT, <1>1, <2>1, <2>2
<1>3. i > j => i * step > j * step
  <2> SUFFICES ASSUME i > j
               PROVE  i * step > j * step
    OBVIOUS
  <2>1. i * step = j * step + step + (i - j - 1) * step /\ i - j - 1 \in Nat
    BY SMT
  <2>2. (i - j - 1) * step >= 0
    BY SMT, <2>1
  <2>3. QED
    BY SMT, <1>1, <2>1, <2>2
<1>4. QED
  BY SMT, <1>1, <1>2, <1>3

\* Instants counted in steps are instants.
LEMMA InstantsTyped ==
  ASSUME NEW at \in Int, NEW step \in Nat, step > 0, NEW n
  PROVE  \A d \in 0 .. n : at - d * step \in Int /\ at + d * step \in Int
<1> TAKE d \in 0 .. n
<1>1. d \in Int
  OBVIOUS
<1>2. d * step \in Int
  BY <1>1, TimesStep
<1>3. QED
  BY <1>2

\* Up to the extent no step is outside; one step more is past the cap or outside.
LEMMA ExtentIsRun ==
  ASSUME NEW step \in Nat, step > 0, NEW cap \in Nat,
         NEW outside \in SUBSET (1 .. (cap \div step))
  PROVE  LET r == Extent(outside, step, cap)
         IN  /\ r \in Int /\ 0 <= r /\ r <= cap
             /\ \A d \in 1 .. (cap \div step) : d * step <= r => d \notin outside
             /\ r + step > cap \/ \E d \in outside : r + step = d * step
<1> DEFINE r == Extent(outside, step, cap)
           n == cap \div step
<1>1. n \in Nat /\ n * step <= cap
  BY SMT
<1>2. CASE outside = {}
  <2>1. r = cap
    BY <1>2 DEF Extent
  <2> HIDE DEF r
  <2>2. QED
    BY <1>2, <2>1 DEF r
<1>3. CASE outside # {}
  <2> DEFINE m == Min(outside)
  <2>0. outside \subseteq 1 .. n
    OBVIOUS
  <2> HIDE DEF n
  <2>1. outside \in SUBSET Nat
    BY <1>1 DEF n
  <2>2. m \in outside /\ \A d \in outside : m <= d
    BY <1>3, <2>1, MinIsLeast
  <2>3. m \in Int /\ 1 <= m /\ m <= n
    <3>1. m \in 1 .. n
      BY <2>0, <2>2
    <3> HIDE DEF m
    <3>2. QED
      BY <1>1, <3>1
  <2>4. r = (m - 1) * step
    BY <1>3 DEF Extent
  <2> HIDE DEF r, m
  <2>5. m - 1 \in Int /\ r \in Int /\ r + step = m * step
    BY <2>3, <2>4, TimesStep
  <2>6. m * step <= n * step
    BY <1>1, <2>3, TimesStep
  <2>7. 0 * step <= (m - 1) * step
    <3>1. 0 \in Int /\ 0 <= m - 1
      BY <2>3
    <3>2. QED
      BY <2>5, <3>1, TimesStep
  <2>8. 0 <= r
    BY SMT, <2>4, <2>5, <2>7
  <2>9. r <= cap
    <3>1. m * step \in Int /\ n * step \in Int
      BY <1>1, <2>3, TimesStep
    <3> DEFINE u == m * step
               v == n * step
    <3> HIDE DEF u, v
    <3>2. u <= v /\ v <= cap /\ r + step = u /\ u \in Int /\ v \in Int
      BY <1>1, <2>5, <2>6, <3>1 DEF u, v
    <3>3. QED
      BY <2>5, <3>2
  <2>10. \A d \in 1 .. n : d * step <= r => d \notin outside
    <3> TAKE d \in 1 .. n
    <3>1. d \in Int
      BY <1>1
    <3>2. d * step <= r => d <= m - 1
      BY <2>4, <2>5, <3>1, TimesStep
    <3>3. d <= m - 1 => d \notin outside
      BY <2>2, <2>3, <3>1
    <3>4. QED
      BY <3>2, <3>3
  <2>11. QED
    BY <2>2, <2>5, <2>8, <2>9, <2>10 DEF r, n
<1>4. QED
  BY <1>2, <1>3

\* The steps of a scan back, and forward, that are not in a set of instants.
BackOut(at, In, step, cap) == {d \in 1 .. (cap \div step) : at - d * step \notin In}
AheadOut(at, In, step, cap) == {d \in 1 .. (cap \div step) : at + d * step \notin In}

\* What Spans says of a window around an instant, over a set of instants.
SpansSet(at, s, e, In, step, cap) ==
  /\ \A d \in 0 .. (cap \div step) :
       /\ at - d * step >= s => at - d * step \in In
       /\ at + d * step <= e => at + d * step \in In
  /\ s - step < at - cap \/ s - step \notin In
  /\ e + step > at + cap \/ e + step \notin In
  /\ s >= at - cap /\ e <= at + cap
  /\ s <= at /\ at <= e /\ s \in Int /\ e \in Int

\* A window around now, over the instants of In that are inside.
LEMMA WindowSpans ==
  ASSUME NEW at \in Int, NEW step \in Nat, step > 0, NEW cap \in Nat, NEW In, at \in In,
         NEW s, s = at - Extent(BackOut(at, In, step, cap), step, cap),
         NEW e, e = at + Extent(AheadOut(at, In, step, cap), step, cap)
  PROVE  SpansSet(at, s, e, In, step, cap)
<1> DEFINE n == cap \div step
           B == BackOut(at, In, step, cap)
           F == AheadOut(at, In, step, cap)
           b == Extent(B, step, cap)
           f == Extent(F, step, cap)
<1>1. n \in Nat
  BY SMT
<1>2. s = at - b /\ e = at + f
  OBVIOUS
<1>3. B \in SUBSET (1 .. n) /\ F \in SUBSET (1 .. n)
  BY DEF BackOut, AheadOut
<1>4. \A d \in 1 .. n : /\ d \notin B => at - d * step \in In
                        /\ d \notin F => at + d * step \in In
  BY DEF BackOut, AheadOut
<1>5. /\ \A d \in B : at - d * step \notin In
      /\ \A d \in F : at + d * step \notin In
  BY DEF BackOut, AheadOut
<1> HIDE DEF B, F
<1>6. /\ b \in Int /\ 0 <= b /\ b <= cap
      /\ \A d \in 1 .. n : d * step <= b => d \notin B
      /\ b + step > cap \/ \E d \in B : b + step = d * step
  BY <1>3, ExtentIsRun
<1>7. /\ f \in Int /\ 0 <= f /\ f <= cap
      /\ \A d \in 1 .. n : d * step <= f => d \notin F
      /\ f + step > cap \/ \E d \in F : f + step = d * step
  BY <1>3, ExtentIsRun
<1> HIDE DEF b, f, n
<1>8. ASSUME NEW d \in 0 .. n
      PROVE  /\ at - d * step >= s => at - d * step \in In
             /\ at + d * step <= e => at + d * step \in In
  <2>1. d \in Int
    BY <1>1
  <2>2. d * step \in Int
    BY <2>1, TimesStep
  <2>3. CASE d = 0
    <3>1. d * step = 0
      BY SMT, <2>3
    <3>2. at - d * step = at /\ at + d * step = at
      BY <3>1
    <3>3. QED
      BY <3>2
  <2>4. CASE d # 0
    <3>1. d \in 1 .. n
      BY <1>1, <2>4
    <3> DEFINE x == d * step
    <3>2. x \in Int /\ (x <= b => d \notin B) /\ (x <= f => d \notin F)
      BY <1>6, <1>7, <2>2, <3>1
    <3>3. (d \notin B => at - x \in In) /\ (d \notin F => at + x \in In)
      BY <1>4, <3>1
    <3> HIDE DEF x
    <3>4. (at - x >= s => x <= b) /\ (at + x <= e => x <= f)
      BY <1>2, <1>6, <1>7, <3>2
    <3>5. QED
      BY <3>2, <3>3, <3>4 DEF x
  <2>5. QED
    BY <2>3, <2>4
<1>9. s - step < at - cap \/ s - step \notin In
  <2>1. CASE b + step > cap
    BY <1>2, <1>6, <2>1
  <2>2. CASE \E d \in B : b + step = d * step
    <3>1. PICK d \in B : b + step = d * step
      BY <2>2
    <3>2. at - d * step \notin In
      BY <1>5, <3>1
    <3>3. s - step = at - (b + step)
      BY <1>2, <1>6
    <3>4. QED
      BY <3>1, <3>2, <3>3
  <2>3. QED
    BY <1>6, <2>1, <2>2
<1>10. e + step > at + cap \/ e + step \notin In
  <2>1. CASE f + step > cap
    BY <1>2, <1>7, <2>1
  <2>2. CASE \E d \in F : f + step = d * step
    <3>1. PICK d \in F : f + step = d * step
      BY <2>2
    <3>2. at + d * step \notin In
      BY <1>5, <3>1
    <3>3. e + step = at + (f + step)
      BY <1>2, <1>7
    <3>4. QED
      BY <3>1, <3>2, <3>3
  <2>3. QED
    BY <1>7, <2>1, <2>2
<1>11. s >= at - cap /\ e <= at + cap /\ s <= at /\ at <= e /\ s \in Int /\ e \in Int
  BY <1>2, <1>6, <1>7
<1>12. QED
  BY <1>8, <1>9, <1>10, <1>11 DEF SpansSet, n

\* Every planet's step of a scan is positive, and no scan goes further than Pluto's.
LEMMA PlanetSteps ==
  \A p \in Planet : /\ PlanetStep[p] \in Nat /\ PlanetStep[p] > 0 /\ PlanetCap[p] \in Nat
                    /\ PlanetCap[p] <= PlanetCap["pluto"] /\ TransitCap <= PlanetCap["pluto"]
BY PlanetSet DEF PlanetStep, PlanetCap, TransitCap, DAY

HouseInstants(p, cusps, h) == {t \in Int : InHouseAt(p, cusps, h, t)}
OrbInstants(p, lon, kind) == {t \in Int : InOrbAt(p, lon, kind, t)}

\* The window of a house transit spans the instants the planet is in the house.
LEMMA HouseWindow ==
  ASSUME now \in Int, NEW p \in Planet, NEW cusps
  PROVE  LET w == HouseTransitWindow(p, cusps, now)
         IN  SpansSet(now, w.start, w.end,
                      HouseInstants(p, cusps, HouseOf(cusps, Longitude(p, now))),
                      PlanetStep[p], PlanetCap[p])
<1> DEFINE w == HouseTransitWindow(p, cusps, now)
           h == HouseOf(cusps, Longitude(p, now))
           In == HouseInstants(p, cusps, h)
           step == PlanetStep[p]
           cap == PlanetCap[p]
           S == {k \in 1 .. (cap \div step) : ~ InHouseAt(p, cusps, h, now - k * step)}
           E == {k \in 1 .. (cap \div step) : ~ InHouseAt(p, cusps, h, now + k * step)}
<1>1. w.start = now - Extent(S, step, cap) /\ w.end = now + Extent(E, step, cap)
  BY DEF HouseTransitWindow, Window, Reach, Extent
<1>2. step \in Nat /\ step > 0 /\ cap \in Nat
  BY PlanetSteps
<1>3. ASSUME NEW d \in 1 .. (cap \div step)
      PROVE  now - d * step \in Int /\ now + d * step \in Int
  <2>1. d \in Int
    BY <1>2
  <2> HIDE DEF step
  <2>2. d * step \in Int
    BY <1>2, <2>1, TimesStep
  <2>3. QED
    BY <2>2
<1>4. \A t \in Int : t \in In <=> InHouseAt(p, cusps, h, t)
  BY DEF HouseInstants
<1>5. now \in In
  BY <1>4 DEF InHouseAt
<1> HIDE DEF w, h, In, step, cap
<1>6. S = BackOut(now, In, step, cap)
  BY <1>3, <1>4 DEF BackOut
<1>7. E = AheadOut(now, In, step, cap)
  BY <1>3, <1>4 DEF AheadOut
<1> DEFINE s == w.start
           e == w.end
<1>8. /\ s = now - Extent(BackOut(now, In, step, cap), step, cap)
      /\ e = now + Extent(AheadOut(now, In, step, cap), step, cap)
  BY <1>1, <1>6, <1>7
<1> HIDE DEF S, E, s, e
<1>9. SpansSet(now, s, e, In, step, cap)
  BY <1>2, <1>5, <1>8, WindowSpans
<1>10. QED
  BY <1>9 DEF s, e, w, h, In, step, cap

\* The window of a transit spans the days the planet is within the orb.
LEMMA OrbWindow ==
  ASSUME now \in Int, NEW p, NEW lon, NEW kind, InOrbAt(p, lon, kind, now)
  PROVE  LET w == TransitWindow(p, lon, kind, now)
         IN  SpansSet(now, w.start, w.end, OrbInstants(p, lon, kind), DAY, TransitCap)
<1> DEFINE w == TransitWindow(p, lon, kind, now)
           In == OrbInstants(p, lon, kind)
           step == DAY
           cap == TransitCap
           S == {k \in 1 .. (cap \div step) : ~ InOrbAt(p, lon, kind, now - k * step)}
           E == {k \in 1 .. (cap \div step) : ~ InOrbAt(p, lon, kind, now + k * step)}
<1>1. w.start = now - Extent(S, step, cap) /\ w.end = now + Extent(E, step, cap)
  BY DEF TransitWindow, Window, Reach, Extent
<1>2. step \in Nat /\ step > 0 /\ cap \in Nat
  BY DEF DAY, TransitCap
<1>3. ASSUME NEW d \in 1 .. (cap \div step)
      PROVE  now - d * step \in Int /\ now + d * step \in Int
  <2>1. d \in Int
    BY <1>2
  <2> HIDE DEF step
  <2>2. d * step \in Int
    BY <1>2, <2>1, TimesStep
  <2>3. QED
    BY <2>2
<1>4. \A t \in Int : t \in In <=> InOrbAt(p, lon, kind, t)
  BY DEF OrbInstants
<1>5. now \in In
  BY <1>4
<1> HIDE DEF w, In, step, cap
<1>6. S = BackOut(now, In, step, cap)
  BY <1>3, <1>4 DEF BackOut
<1>7. E = AheadOut(now, In, step, cap)
  BY <1>3, <1>4 DEF AheadOut
<1> DEFINE s == w.start
           e == w.end
<1>8. /\ s = now - Extent(BackOut(now, In, step, cap), step, cap)
      /\ e = now + Extent(AheadOut(now, In, step, cap), step, cap)
  BY <1>1, <1>6, <1>7
<1> HIDE DEF S, E, s, e
<1>9. SpansSet(now, s, e, In, step, cap)
  BY <1>2, <1>5, <1>8, WindowSpans
<1>10. QED
  BY <1>9 DEF s, e, w, In, step, cap

\* An aspect that is found is within its orb.
LEMMA FoundInOrb ==
  ASSUME NEW f \in [Planet -> Degree], NEW g \in [Planet -> Degree], NEW x \in ComputeCross(f, g)
  PROVE  InOrb(AngularSeparation(f[x.a], g[x.b]), x.kind, 0)
<1>1. /\ x.a \in Planet /\ x.b \in Planet /\ x.kind \in DOMAIN Angle
      /\ x = [a |-> x.a, b |-> x.b, kind |-> x.kind]
  BY CrossTyped
<1> DEFINE p == x.a
           q == x.b
           kind == x.kind
           sep == AngularSeparation(f[p], g[q])
<1>2. [a |-> p, b |-> q, kind |-> kind] \in ComputeCross(f, g)
  BY <1>1
<1>3. p \in Planet /\ q \in Planet /\ kind \in DOMAIN Angle
  BY <1>1
<1> HIDE DEF p, q, kind
<1>4. f \in [Planet -> Int] /\ g \in [Planet -> Int] /\ f[p] \in Int /\ g[q] \in Int
  <2>1. \A d \in Degree : d \in Int
    BY DEF Degree
  <2>2. f[p] \in Degree /\ g[q] \in Degree
    BY <1>3
  <2>3. f \in [Planet -> Int] /\ g \in [Planet -> Int]
    BY <2>1
  <2>4. QED
    BY <2>1, <2>2, <2>3
<1>5. kind = DetectAspect(sep)
  BY <1>2, <1>3, <1>4, CrossMembers
<1>6. sep \in 0 .. 180 /\ 0 \in 0 .. 5
  <2>1. \A u, v \in Int : AngularSeparation(u, v) \in 0 .. 180
    BY SeparationIsArc
  <2>2. sep \in 0 .. 180
    BY ZenonT(60), <1>4, <2>1
  <2>3. QED
    BY <2>2
<1> HIDE DEF sep
<1>7. InOrb(sep, kind, 0)
  BY <1>3, <1>5, <1>6, FoundKind DEF DetectAspect
<1>8. QED
  BY <1>7 DEF sep, p, q, kind

\* What was issued: a transit to a natal planet, an aspect of the sky or a house,
\* with its window.
LEMMA ActiveWindows ==
  ASSUME ChartInv, NEW i \in active
  PROVE  \/ /\ Parse(i.key).kind = "sky"
            /\ \E In : SpansSet(now, i.start, i.end, In, DAY, TransitCap)
         \/ \E p \in Planet, q \in Planet, kind \in DOMAIN Angle :
              /\ Parse(i.key) = [kind |-> "transit", transiting |-> p, natal |-> q, aspect |-> kind]
              /\ SpansSet(now, i.start, i.end, OrbInstants(p, chart.positions[q], kind),
                          DAY, TransitCap)
         \/ \E p \in Planet : \E h :
              /\ Parse(i.key) = HouseKey(p, h)
              /\ SpansSet(now, i.start, i.end, HouseInstants(p, chart.cusps, h),
                          PlanetStep[p], PlanetCap[p])
<1> DEFINE sky == Sky(now)
           pos == chart.positions
           Houses == HousePositions(chart.cusps, sky)
<1>1. /\ ChartTyped(chart) /\ active = ActiveItems(chart, now) /\ now \in Int
      /\ sky \in [Planet -> Degree] /\ pos \in [Planet -> Degree]
  BY ChartsTyped, SkyTyped DEF ChartTyped
<1>2. \A k, w : /\ Item(k, w).key = ToSig(k) /\ Item(k, w).start = w.start
                /\ Item(k, w).end = w.end
  BY DEF Item
<1>3. \/ \E x \in ComputeCross(sky, pos) :
            i = Item(TransitKey(x), TransitWindow(x.a, pos[x.b], x.kind, now))
      \/ \E x \in ComputeAspects(sky) :
            i = Item(FromSky(x), TransitWindow(x.a, sky[x.b], x.kind, now))
      \/ \E p \in Planet : i = Item(HouseKey(p, Houses[p]), HouseTransitWindow(p, chart.cusps, now))
  BY <1>1 DEF ActiveItems
<1>4. \A p \in Planet : sky[p] = Longitude(p, now)
  BY DEF Sky
<1>5. CASE \E x \in ComputeCross(sky, pos) :
             i = Item(TransitKey(x), TransitWindow(x.a, pos[x.b], x.kind, now))
  <2>1. PICK x \in ComputeCross(sky, pos) :
               i = Item(TransitKey(x), TransitWindow(x.a, pos[x.b], x.kind, now))
    BY <1>5
  <2> HIDE DEF sky, pos
  <2>2. x.a \in Planet /\ x.b \in Planet /\ x.kind \in DOMAIN Angle
    BY <1>1, CrossTyped
  <2>3. InOrbAt(x.a, pos[x.b], x.kind, now)
    BY <1>1, <1>4, <2>2, FoundInOrb DEF InOrbAt
  <2>4. LET w == TransitWindow(x.a, pos[x.b], x.kind, now)
        IN  SpansSet(now, w.start, w.end, OrbInstants(x.a, pos[x.b], x.kind), DAY, TransitCap)
    BY <1>1, <2>3, OrbWindow
  <2>5. Parse(i.key) = TransitKey(x)
    BY <1>2, <2>1, <2>2, TransitKeyReadsBack DEF TransitKey, ReadsBack
  <2>6. TransitKey(x) = [kind |-> "transit", transiting |-> x.a, natal |-> x.b, aspect |-> x.kind]
    BY DEF TransitKey
  <2>7. SpansSet(now, i.start, i.end, OrbInstants(x.a, pos[x.b], x.kind), DAY, TransitCap)
    BY <1>2, <2>1, <2>4
  <2>8. QED
    BY <2>2, <2>5, <2>6, <2>7 DEF pos
<1>6. CASE \E x \in ComputeAspects(sky) :
             i = Item(FromSky(x), TransitWindow(x.a, sky[x.b], x.kind, now))
  <2>1. PICK x \in ComputeAspects(sky) :
               i = Item(FromSky(x), TransitWindow(x.a, sky[x.b], x.kind, now))
    BY <1>6
  <2> HIDE DEF sky, pos
  <2>2. x \in ComputeCross(sky, sky)
    BY DEF ComputeAspects
  <2>3. x.a \in Planet /\ x.b \in Planet /\ x.kind \in DOMAIN Angle
    BY <1>1, <2>2, CrossTyped
  <2>4. InOrbAt(x.a, sky[x.b], x.kind, now)
    BY <1>1, <1>4, <2>2, <2>3, FoundInOrb DEF InOrbAt
  <2>5. LET w == TransitWindow(x.a, sky[x.b], x.kind, now)
        IN  SpansSet(now, w.start, w.end, OrbInstants(x.a, sky[x.b], x.kind), DAY, TransitCap)
    BY <1>1, <2>4, OrbWindow
  <2>6. Parse(i.key) = FromSky(x)
    BY <1>2, <2>1, AspectKeyReadsBack DEF FromSky, ReadsBack
  <2>7. FromSky(x).kind = "sky"
    BY DEF FromSky
  <2>8. SpansSet(now, i.start, i.end, OrbInstants(x.a, sky[x.b], x.kind), DAY, TransitCap)
    BY <1>2, <2>1, <2>5
  <2>9. QED
    BY <2>3, <2>6, <2>7, <2>8
<1>7. CASE \E p \in Planet :
             i = Item(HouseKey(p, Houses[p]), HouseTransitWindow(p, chart.cusps, now))
  <2>1. PICK p \in Planet :
          i = Item(HouseKey(p, Houses[p]), HouseTransitWindow(p, chart.cusps, now))
    BY <1>7
  <2> DEFINE h == HouseOf(chart.cusps, Longitude(p, now))
  <2>2. Houses[p] = h
    BY <1>4 DEF HousePositions, Sky
  <2> HIDE DEF h, Houses
  <2>3. LET w == HouseTransitWindow(p, chart.cusps, now)
        IN  SpansSet(now, w.start, w.end, HouseInstants(p, chart.cusps, h),
                     PlanetStep[p], PlanetCap[p])
    BY <1>1, HouseWindow DEF h
  <2>4. Parse(i.key) = HouseKey(p, h)
    BY <1>2, <2>1, <2>2, HouseKeyReadsBack DEF ReadsBack
  <2>5. SpansSet(now, i.start, i.end, HouseInstants(p, chart.cusps, h), PlanetStep[p], PlanetCap[p])
    BY <1>2, <2>1, <2>3
  <2>6. QED
    BY <2>4, <2>5
<1>8. QED
  BY <1>3, <1>5, <1>6, <1>7

\* The footer of a card names the dates of the window's two ends.
LEMMA FooterDates ==
  ASSUME NEW i
  PROVE  LET dates == CardText(i).footer
         IN  /\ dates[1] = JdnToGregorian(i.start)
             /\ dates[Len(dates)] = JdnToGregorian(i.end)
<1> DEFINE s == JdnToGregorian(i.start)
           e == JdnToGregorian(i.end)
           dates == CardText(i).footer
<1>1. dates = IF s = e THEN <<s>> ELSE <<s, e>>
  BY DEF CardText, WindowStr
<1> HIDE DEF s, e, dates
<1>2. dates[1] = s /\ dates[Len(dates)] = e
  <2>1. Len(<<s>>) = 1 /\ <<s>>[1] = s
    OBVIOUS
  <2>2. Len(<<s, e>>) = 2 /\ <<s, e>>[1] = s /\ <<s, e>>[2] = e
    OBVIOUS
  <2>3. QED
    BY <1>1, <2>1, <2>2
<1>3. QED
  BY <1>2 DEF s, e, dates

\* The instants a window ends at have civil dates, and those are shown.
LEMMA EndsDated ==
  ASSUME ChartInv, NEW i, NEW In, NEW step, NEW cap, SpansSet(now, i.start, i.end, In, step, cap),
         cap \in Nat, cap <= PlanetCap["pluto"]
  PROVE  LET dates == CardText(i).footer
             from == dates[1]
             to == dates[Len(dates)]
         IN  /\ IsCivilDateOf(from, i.start) /\ IsCivilDateOf(to, i.end)
             /\ GregorianToJdn(to.year, to.month, to.day,
                                i.end - ((i.end + 10) \div DAY) * DAY + 10) = i.end
<1> DEFINE s == i.start
           e == i.end
           first == GregorianToJdn(1583, 1, 1, 0)
           far == PlanetCap["pluto"]
<1>1. now \in Int /\ now - far >= first
  BY SkyTyped
<1>2. s \in Int /\ e \in Int /\ s >= now - cap /\ s <= now /\ now <= e
  BY DEF SpansSet
<1>3. first \in Int /\ far \in Int
  BY SMT DEF GregorianToJdn, DAY, PlanetCap
<1> HIDE DEF s, e, first, far
<1>4. cap <= far /\ cap \in Nat
  BY DEF far
<1>5. s >= first /\ e >= first
  BY <1>1, <1>2, <1>3, <1>4
<1>6. IsCivilDateOf(JdnToGregorian(s), s)
  BY <1>2, <1>5, DateShown DEF first
<1>7. LET x == JdnToGregorian(e)
      IN  /\ IsCivilDateOf(x, e)
          /\ GregorianToJdn(x.year, x.month, x.day, e - ((e + 10) \div DAY) * DAY + 10) = e
  BY <1>2, <1>5, DateShown DEF first
<1>8. CardText(i).footer[1] = JdnToGregorian(s)
  BY FooterDates DEF s
<1>9. CardText(i).footer[Len(CardText(i).footer)] = JdnToGregorian(e)
  BY FooterDates DEF e
<1>10. QED
  BY <1>6, <1>7, <1>8, <1>9 DEF s, e

\* The number of the day of birth counts the civil calendar too.
LEMMA BirthDated ==
  ASSUME ChartInv, active # {}
  PROVE  IsCivilDateOf([year |-> chart.birth.year, month |-> chart.birth.month,
                        day |-> chart.birth.day],
                       GregorianToJdn(chart.birth.year, chart.birth.month,
                                      chart.birth.day, chart.birth.hour))
<1>1. PICK b \in Births : chart = ComputeWith(b)
  BY DEF ChartInv
<1>2. chart.birth = b /\ BirthTyped(b)
  BY <1>1, ComputedTyped
<1> DEFINE x == [year |-> b.year, month |-> b.month, day |-> b.day]
<1>3. x.year = b.year /\ x.month = b.month /\ x.day = b.day
  OBVIOUS
<1>4. CivilDate(b.year, b.month, b.day) /\ b.hour \in 0 .. DAY - 1
  BY <1>2 DEF BirthTyped, CivilDate
<1> HIDE DEF x
<1>5. IsCivilDateOf(x, GregorianToJdn(b.year, b.month, b.day, b.hour))
  BY <1>3, <1>4, InstantInDay
<1>6. QED
  BY <1>2, <1>5 DEF x

\* Every card's window is the longest run of sampled instants around now in which the
\* transit is within orb, or the planet in the house, cut at the cap, for any
\* ephemeris; and its dates are the civil dates of its ends.
THEOREM WindowDates == ChartSpec => []WindowDatesAreRight
<1>1. ChartInv => WindowDatesAreRight
  <2> SUFFICES ASSUME ChartInv, NEW i \in active
               PROVE  LET k == Parse(i.key)
                          dates == CardText(i).footer
                          from == dates[1]
                          to == dates[Len(dates)]
                          InHouse2(t) == InHouseAt(k.transiting, chart.cusps, k.house, t)
                          InOrb2(t) == InOrbAt(k.transiting, chart.positions[k.natal], k.aspect, t)
                      IN  /\ k.kind = "house_transit" =>
                               Spans(i, InHouse2, PlanetStep[k.transiting], PlanetCap[k.transiting])
                          /\ k.kind = "transit" => Spans(i, InOrb2, DAY, TransitCap)
                          /\ IsCivilDateOf(from, i.start) /\ IsCivilDateOf(to, i.end)
                          /\ GregorianToJdn(to.year, to.month, to.day,
                                            i.end - ((i.end + 10) \div DAY) * DAY + 10) = i.end
                          /\ IsCivilDateOf([year |-> chart.birth.year, month |-> chart.birth.month,
                                            day |-> chart.birth.day],
                                           GregorianToJdn(chart.birth.year, chart.birth.month,
                                                          chart.birth.day, chart.birth.hour))
    BY DEF WindowDatesAreRight
  <2> DEFINE k == Parse(i.key)
             HouseIn(t) == InHouseAt(k.transiting, chart.cusps, k.house, t)
             OrbIn(t) == InOrbAt(k.transiting, chart.positions[k.natal], k.aspect, t)
  <2>1. \E In, step, cap : /\ SpansSet(now, i.start, i.end, In, step, cap)
                           /\ cap \in Nat /\ cap <= PlanetCap["pluto"]
    <3>1. TransitCap \in Nat /\ TransitCap <= PlanetCap["pluto"]
      <4>1. "sun" \in Planet
        BY PlanetSet
      <4>2. TransitCap \in Nat
        BY DEF TransitCap, DAY
      <4>3. QED
        BY <4>1, <4>2, PlanetSteps
    <3>2. QED
      BY <3>1, ActiveWindows, PlanetSteps
  <2>2. LET dates == CardText(i).footer
            from == dates[1]
            to == dates[Len(dates)]
        IN  /\ IsCivilDateOf(from, i.start) /\ IsCivilDateOf(to, i.end)
            /\ GregorianToJdn(to.year, to.month, to.day, i.end - ((i.end + 10) \div DAY) * DAY + 10)
                 = i.end
    BY <2>1, EndsDated
  <2>3. IsCivilDateOf([year |-> chart.birth.year, month |-> chart.birth.month,
                       day |-> chart.birth.day],
                      GregorianToJdn(chart.birth.year, chart.birth.month,
                                     chart.birth.day, chart.birth.hour))
    BY BirthDated
  <2>4. k.kind = "house_transit" =>
          Spans(i, HouseIn, PlanetStep[k.transiting], PlanetCap[k.transiting])
    <3> SUFFICES ASSUME k.kind = "house_transit"
                 PROVE  Spans(i, HouseIn, PlanetStep[k.transiting], PlanetCap[k.transiting])
      OBVIOUS
    <3>0. PICK p \in Planet : \E h :
                 /\ k = HouseKey(p, h)
                 /\ SpansSet(now, i.start, i.end, HouseInstants(p, chart.cusps, h),
                             PlanetStep[p], PlanetCap[p])
      <4> HIDE DEF k
      <4>1. k.kind # "sky" /\ k.kind # "transit"
        OBVIOUS
      <4>2. \A p, q, kind :
              k # [kind |-> "transit", transiting |-> p, natal |-> q, aspect |-> kind]
        BY <4>1
      <4>3. k = Parse(i.key)
        BY DEF k
      <4>4. QED
        BY <4>1, <4>2, <4>3, ActiveWindows
    <3>1. PICK h : /\ k = HouseKey(p, h)
                   /\ SpansSet(now, i.start, i.end, HouseInstants(p, chart.cusps, h),
                               PlanetStep[p], PlanetCap[p])
      BY <3>0
    <3>2. k.transiting = p /\ k.house = h
      BY <3>1 DEF HouseKey
    <3> DEFINE In == HouseInstants(p, chart.cusps, h)
               step == PlanetStep[p]
               cap == PlanetCap[p]
    <3>3. \A t \in Int : t \in In <=> InHouseAt(p, chart.cusps, h, t)
      BY DEF HouseInstants
    <3>4. SpansSet(now, i.start, i.end, In, step, cap)
      BY <3>1
    <3>5. now \in Int /\ i.start \in Int /\ i.end \in Int /\ step \in Nat /\ step > 0 /\ cap \in Nat
      BY <3>4, SkyTyped, PlanetSteps DEF SpansSet
    <3> HIDE DEF k, In, step, cap
    <3>6. \A d \in 0 .. (cap \div step) : now - d * step \in Int /\ now + d * step \in Int
      BY <3>5, InstantsTyped
    <3>7. \A d \in 0 .. (cap \div step) :
            /\ now - d * step >= i.start => InHouseAt(p, chart.cusps, h, now - d * step)
            /\ now + d * step <= i.end => InHouseAt(p, chart.cusps, h, now + d * step)
      BY <3>3, <3>4, <3>6 DEF SpansSet
    <3>8. /\ i.start - step < now - cap \/ ~ InHouseAt(p, chart.cusps, h, i.start - step)
          /\ i.end + step > now + cap \/ ~ InHouseAt(p, chart.cusps, h, i.end + step)
          /\ i.start >= now - cap /\ i.end <= now + cap
      <4>1. i.start - step \in Int /\ i.end + step \in Int
        BY <3>5
      <4>2. QED
        BY <3>3, <3>4, <4>1 DEF SpansSet
    <3>9. QED
      BY <3>2, <3>7, <3>8 DEF Spans, step, cap
  <2>5. k.kind = "transit" => Spans(i, OrbIn, DAY, TransitCap)
    <3> SUFFICES ASSUME k.kind = "transit"
                 PROVE  Spans(i, OrbIn, DAY, TransitCap)
      OBVIOUS
    <3>1. PICK p \in Planet, q \in Planet, kind \in DOMAIN Angle :
                 /\ k = [kind |-> "transit", transiting |-> p, natal |-> q, aspect |-> kind]
                 /\ SpansSet(now, i.start, i.end, OrbInstants(p, chart.positions[q], kind),
                             DAY, TransitCap)
      <4>1. \A p, h : HouseKey(p, h).kind # "transit"
        BY DEF HouseKey
      <4> HIDE DEF k
      <4>2. k.kind # "sky"
        OBVIOUS
      <4>3. QED
        BY <4>1, <4>2, ActiveWindows DEF k
    <3>2. k.transiting = p /\ k.natal = q /\ k.aspect = kind
      BY <3>1
    <3> DEFINE lon == chart.positions[q]
               In == OrbInstants(p, lon, kind)
               step == DAY
               cap == TransitCap
    <3>3. \A t \in Int : t \in In <=> InOrbAt(p, lon, kind, t)
      BY DEF OrbInstants
    <3>4. SpansSet(now, i.start, i.end, In, step, cap)
      BY <3>1
    <3>5. now \in Int /\ i.start \in Int /\ i.end \in Int /\ step \in Nat /\ step > 0 /\ cap \in Nat
      BY <3>4, SkyTyped DEF SpansSet, DAY, TransitCap
    <3> HIDE DEF k, In, step, cap, lon
    <3>6. \A d \in 0 .. (cap \div step) : now - d * step \in Int /\ now + d * step \in Int
      BY <3>5, InstantsTyped
    <3>7. \A d \in 0 .. (cap \div step) :
            /\ now - d * step >= i.start => InOrbAt(p, lon, kind, now - d * step)
            /\ now + d * step <= i.end => InOrbAt(p, lon, kind, now + d * step)
      BY <3>3, <3>4, <3>6 DEF SpansSet
    <3>8. /\ i.start - step < now - cap \/ ~ InOrbAt(p, lon, kind, i.start - step)
          /\ i.end + step > now + cap \/ ~ InOrbAt(p, lon, kind, i.end + step)
          /\ i.start >= now - cap /\ i.end <= now + cap
      <4>1. i.start - step \in Int /\ i.end + step \in Int
        BY <3>5
      <4>2. QED
        BY <3>3, <3>4, <4>1 DEF SpansSet
    <3>9. QED
      BY <3>2, <3>7, <3>8 DEF Spans, step, cap, lon
  <2>6. QED
    BY <2>2, <2>3, <2>4, <2>5
<1>2. QED
  BY <1>1, ChartInvariance, PTL
=============================================================================
