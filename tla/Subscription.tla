---------------------------- MODULE Subscription ----------------------------
(***************************************************************************)
(* Which per-key sync topics a device keeps open: the reading pages of the *)
(* app, the messages they send to the application, and the SDK thread that *)
(* opens topics, counts grace periods and closes idle ones (sdk, sync,     *)
(* app.rs, aspect_view.rs).                                                *)
(*                                                                         *)
(* Time is relative: lastTouch keeps the age of the last touch and a timer *)
(* the ticks it still sleeps, so no bound on the clock is needed.  An age  *)
(* stops at GRACE, the only value it is compared with.                     *)
(***************************************************************************)
EXTENDS Naturals, Sequences

CONSTANTS
  Key,         \* interp_keys
  OwnKeys,     \* the keys of the user's own natal aspects
  GRACE,       \* grace period of touch_subscription, in ticks
  EXPIRY_CAP,  \* capacity of the expiry channel
  NoTouch,     \* the key has no last_touch entry
  CanFail,     \* whether opening a topic or publishing may fail
  MaxViews,    \* bound: page openings and returns to a covered page
  MaxEdits     \* bound: operations published from an open page

ASSUME SubscriptionAssumption ==
  /\ OwnKeys \subseteq Key
  /\ GRACE \in Nat \ {0}
  /\ EXPIRY_CAP \in Nat \ {0}
  /\ NoTouch \notin Nat
  /\ CanFail \in BOOLEAN

Timer == [id : Nat, key : Key, left : Nat]
AppMsg == [kind : {"presence", "touch", "publish"}, key : Key]

VARIABLES
  page,       \* what the user sees of the key's page
  views,      \* how many times pages were opened or shown again
  edits,      \* how many operations were published from pages
  appQ,       \* messages waiting for the application's update loop
  handles,    \* ZodiaSyncNode.handles: keys whose topic is open
  lastTouch,  \* age of the last touch, NoTouch without an entry
  timers,     \* sleeping tasks, and tasks waiting for room in the channel
  touches,    \* how many timers were started
  expiryQ,    \* the expiry channel
  opened,     \* history: own keys whose start-up subscribe succeeded
  closed      \* history: keys closed by an explicit unsubscribe

sdkVars == <<handles, lastTouch, timers, touches, expiryQ, opened, closed>>
vars == <<page, views, edits, appQ, sdkVars>>

Init ==
  /\ page = [k \in Key |-> "closed"]
  /\ views = 0
  /\ edits = 0
  /\ appQ = <<>>
  /\ handles = {}
  /\ lastTouch = [k \in Key |-> NoTouch]
  /\ timers = {}
  /\ touches = 0
  /\ expiryQ = <<>>
  /\ opened = {}
  /\ closed = {}

-----------------------------------------------------------------------------
\* Building a page announces presence, then touches the subscription.
OpenPage(k) ==
  /\ page[k] = "closed"
  /\ views < MaxViews
  /\ views' = views + 1
  /\ page' = [page EXCEPT ![k] = "shown"]
  /\ appQ' = appQ \o <<[kind |-> "presence", key |-> k],
                       [kind |-> "touch", key |-> k]>>
  /\ UNCHANGED <<edits, sdkVars>>

(***************************************************************************)
(* connect_hiding: the page is popped or another page is pushed over it;   *)
(* either way it announces the departure.                                  *)
(***************************************************************************)
HidePage(k) ==
  /\ page[k] = "shown"
  /\ page' \in {[page EXCEPT ![k] = s] : s \in {"closed", "covered"}}
  /\ appQ' = Append(appQ, [kind |-> "presence", key |-> k])
  /\ UNCHANGED <<views, edits, sdkVars>>

\* Popping the covering page shows the old one again; nothing is rebuilt.
ShowAgain(k) ==
  /\ page[k] = "covered"
  /\ views < MaxViews
  /\ views' = views + 1
  /\ page' = [page EXCEPT ![k] = "shown"]
  /\ UNCHANGED <<edits, appQ, sdkVars>>

\* An edit, a veto, an affirmation or its retraction, from the page.
EditOnPage(k) ==
  /\ page[k] = "shown"
  /\ edits < MaxEdits
  /\ edits' = edits + 1
  /\ appQ' = Append(appQ, [kind |-> "publish", key |-> k])
  /\ UNCHANGED <<page, views, sdkVars>>

-----------------------------------------------------------------------------
\* open_topic succeeds; it is idempotent.
OpenTopic(k) ==
  /\ handles' = handles \cup {k}
  /\ closed' = closed \ {k}

\* Command::Subscribe, sent at start-up for the keys of the user's chart.
Subscribe(k) ==
  /\ k \in OwnKeys
  /\ OpenTopic(k)
  /\ opened' = opened \cup {k}
  /\ UNCHANGED <<page, views, edits, appQ, lastTouch, timers, touches, expiryQ>>

\* Command::Unsubscribe: the handle is dropped, last_touch is not.
Unsubscribe(k) ==
  /\ k \in handles
  /\ handles' = handles \ {k}
  /\ closed' = closed \cup {k}
  /\ UNCHANGED <<page, views, edits, appQ, lastTouch, timers, touches, expiryQ,
                 opened>>

\* Mutant of TouchSubscription: a key that has a timer gets no second one.
TouchOnce(k) ==
  /\ OpenTopic(k)
  /\ lastTouch' = [lastTouch EXCEPT ![k] = 0]
  /\ timers' = IF lastTouch[k] = NoTouch
               THEN timers \cup {[id |-> touches, key |-> k, left |-> GRACE]}
               ELSE timers
  /\ touches' = touches + 1
  /\ UNCHANGED <<expiryQ, opened>>
\* Command::TouchSubscription: subscribe, note the touch, start a timer.
TouchSubscription(k) ==
  /\ OpenTopic(k)
  /\ lastTouch' = [lastTouch EXCEPT ![k] = 0]
  /\ timers' = timers \cup {[id |-> touches, key |-> k, left |-> GRACE]}
  /\ touches' = touches + 1
  /\ UNCHANGED <<expiryQ, opened>>

\* Mutant of NeedsLazySubscription: the user's own keys are touched too.
AlwaysLazy(k) == TRUE
\* needs_lazy_subscription.
NeedsLazySubscription(k) == k \notin OwnKeys

(***************************************************************************)
(* The update loop handles one message to its end.  Presence and every     *)
(* published operation go through publish_doc, which opens the key's topic *)
(* first; opening a topic may fail, and then nothing changes.              *)
(***************************************************************************)
HandleAppMsg ==
  /\ appQ # <<>>
  /\ appQ' = Tail(appQ)
  /\ LET m == Head(appQ) IN
       \/ CanFail /\ UNCHANGED sdkVars
       \/ m.kind = "touch" /\ ~NeedsLazySubscription(m.key) /\ UNCHANGED sdkVars
       \/ /\ m.kind = "touch"
          /\ NeedsLazySubscription(m.key)
          /\ TouchSubscription(m.key)
       \/ /\ m.kind # "touch"
          /\ OpenTopic(m.key)
          /\ UNCHANGED <<lastTouch, timers, touches, expiryQ, opened>>
  /\ UNCHANGED <<page, views, edits>>

-----------------------------------------------------------------------------
Older(age) == IF age = NoTouch \/ age = GRACE THEN age ELSE age + 1
Shorter(t) == [t EXCEPT !.left = IF @ = 0 THEN 0 ELSE @ - 1]

Tick ==
  /\ \E t \in timers : t.left > 0
  /\ lastTouch' = [k \in Key |-> Older(lastTouch[k])]
  /\ timers' = {Shorter(t) : t \in timers}
  /\ UNCHANGED <<page, views, edits, appQ, handles, touches, expiryQ, opened,
                 closed>>

\* Mutant of TimerFires: the task does not wait for room in the channel.
TimerFiresUnbounded(t) ==
  /\ t.left = 0
  /\ timers' = timers \ {t}
  /\ expiryQ' = Append(expiryQ, t.key)
  /\ UNCHANGED <<page, views, edits, appQ, handles, lastTouch, touches, opened,
                 closed>>
\* The sleep is over and the bounded channel has room for the key.
TimerFires(t) ==
  /\ t.left = 0
  /\ Len(expiryQ) < EXPIRY_CAP
  /\ timers' = timers \ {t}
  /\ expiryQ' = Append(expiryQ, t.key)
  /\ UNCHANGED <<page, views, edits, appQ, handles, lastTouch, touches, opened,
                 closed>>

\* Mutant of StillIdle: every timer closes its key.
EveryExpiryCloses(k) == TRUE
\* The SDK loop re-checks the age: a later touch makes the check come short.
StillIdle(k) == lastTouch[k] = GRACE
HandleExpiry ==
  /\ expiryQ # <<>>
  /\ expiryQ' = Tail(expiryQ)
  /\ LET k == Head(expiryQ) IN
       IF StillIdle(k)
       THEN /\ handles' = handles \ {k}
            /\ lastTouch' = [lastTouch EXCEPT ![k] = NoTouch]
       ELSE UNCHANGED <<handles, lastTouch>>
  /\ UNCHANGED <<page, views, edits, appQ, timers, touches, opened, closed>>

FireTimer == \E t \in timers : TimerFires(t)

Next ==
  \/ HandleAppMsg
  \/ Tick
  \/ FireTimer
  \/ HandleExpiry
  \/ \E k \in Key :
       \/ OpenPage(k)
       \/ HidePage(k)
       \/ ShowAgain(k)
       \/ EditOnPage(k)
       \/ Subscribe(k)
       \/ Unsubscribe(k)

(***************************************************************************)
(* Fairness: the tokio runtime keeps running the update loop, the timers   *)
(* and the select! loop, which picks its ready branches fairly.  Users and *)
(* API callers owe nothing.                                                *)
(***************************************************************************)
Fairness ==
  /\ WF_vars(HandleAppMsg)
  /\ WF_vars(Tick)
  /\ WF_vars(FireTimer)
  /\ WF_vars(HandleExpiry)

Spec == Init /\ [][Next]_vars /\ Fairness

-----------------------------------------------------------------------------
TypeOK ==
  /\ page \in [Key -> {"closed", "shown", "covered"}]
  /\ views \in Nat
  /\ edits \in Nat
  /\ appQ \in Seq(AppMsg)
  /\ handles \subseteq Key
  /\ lastTouch \in [Key -> (0 .. GRACE) \cup {NoTouch}]
  /\ timers \subseteq Timer
  /\ touches \in Nat
  /\ expiryQ \in Seq(Key)
  /\ Len(expiryQ) <= EXPIRY_CAP
  /\ opened \subseteq OwnKeys
  /\ closed \subseteq Key

(***************************************************************************)
(* A touched key stays open for its whole grace period, which is as long   *)
(* as the timer of its latest touch sleeps, however many older timers fire *)
(* meanwhile, and the topics of the user's own chart, once subscribed at   *)
(* start-up, are never closed by a timer at all, although all share one    *)
(* table of handles; only an explicit unsubscribe may close either.        *)
(***************************************************************************)
TouchedStaysOpen ==
  /\ \A t \in timers : t.left > 0 /\ t.key \notin closed => t.key \in handles
  /\ opened \ closed \subseteq handles

(***************************************************************************)
(* No touch is forgotten: while a key has a last_touch entry, a timer that *)
(* ends no earlier than its grace period, or an expiry already in the      *)
(* channel, is still going to re-check it.                                 *)
(***************************************************************************)
NoForgottenTouch ==
  \A k \in Key :
    lastTouch[k] # NoTouch =>
      \/ \E t \in timers : t.key = k /\ t.left = GRACE - lastTouch[k]
      \/ /\ lastTouch[k] = GRACE
         /\ \E i \in 1 .. Len(expiryQ) : expiryQ[i] = k

(***************************************************************************)
(* A lazily subscribed key is closed again after its grace period.         *)
(***************************************************************************)
TouchedIsClosed ==
  \A k \in Key : lastTouch[k] # NoTouch ~> k \notin handles
=============================================================================
