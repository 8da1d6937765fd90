-------------------------------- MODULE Feed --------------------------------
(***************************************************************************)
(* The activity feed and the bell of one device (app.rs, feed_item.rs,     *)
(* feed_view.rs, transit_ticker.rs) over the tables of InterpStore.        *)
(*                                                                         *)
(* Three parties run beside each other: the update loop of the application,*)
(* the feed component with a mailbox of its own, and the task that fills   *)
(* the feed from the store.  The update loop takes its messages one at a   *)
(* time; what a message says is fixed when it is sent, so a message whose  *)
(* content depends on nothing is handled in the step in which it arrives,  *)
(* and the RefreshBellBadge the loop sends to itself is a flag.            *)
(* The order of the cards is left out; the lists are sets.                 *)
(***************************************************************************)
EXTENDS InterpStore, Wire, Sequences, SequencesExt

CONSTANTS
  Me,             \* the local identity
  Ops,            \* operations that may arrive
  Handed,         \* readings a peer may hand over
  Transits,       \* windows of active transits
  InitialRows,    \* readings in the store at the start
  MaxEvents,      \* bound: arriving operations, ticker items and clicks
  MAILBOX         \* bound: messages waiting for the feed component

\* What decoding guarantees of an operation; what a circle shares has a body
WellFormed(op) ==
  /\ op.by \in Author
  /\ \/ op.ext.type = "interp" /\ op.ext.timestamp \in Nat
     \/ op.ext.type = "circle" /\ op.body # NoBody
  /\ op.body # NoBody =>
       /\ op.body.variant \in {"Author", "RespondTo"} => op.body.text \in Text
       /\ op.body.variant \in {"Affirm", "RespondTo", "Revoke"} => op.body.log \in LogIds

ASSUME FeedAssumption ==
  /\ Me \in Author
  /\ NoParent \notin LogIds
  /\ NoName \notin Nat
  /\ InitialRows \subseteq Row /\ IsFiniteSet(InitialRows)
  /\ \A r, t \in InitialRows : r.log = t.log => r = t      \* the primary key
  /\ \A op \in Ops : WellFormed(op)
  /\ \A o, p \in Ops : o.hash = p.hash => o = p
  /\ \A r \in Handed : r.by \in Author /\ r.text \in Text
  /\ MaxEvents \in Nat

Categories == {"all", "personal", "community"}
OpEvent(e) == <<"op", e.id>>
BlockEvent(e) == <<"block", e.id>>
RolledBackEvent(e) == <<"rolled_back", e.target, e.by>>

VARIABLES
  db,          \* the store
  badge,       \* feed_targeting_unread
  refresh,     \* a RefreshBellBadge is waiting for the update loop
  mounted,     \* feed_view_sender is set
  pending,     \* feed_pending: ticker items from before the mount
  backfill,    \* the backfill task: "idle", "reading", "read" or "done"
  held,        \* the items it has read from the store
  view,        \* the feed component's mailbox
  outbox,      \* what the feed component told the update loop
  all,         \* all_items
  known,       \* ids of the rendered cards
  cards,       \* the rendered cards: id and read dot
  category,    \* the filter button
  applied,     \* history: state events the store was changed for
  stale,       \* history: rows were imported since the badge was counted
  raced,       \* history: a reading was revoked while the backfill held rows
  events       \* history: how many events there were

vars == <<db, badge, refresh, mounted, pending, backfill, held, view, outbox, all, known,
          cards, category, applied, stale, raced, events>>

feedVars == <<all, known, cards, category>>
historyVars == <<applied, stale, raced>>

Item(id, cat, log) == [id |-> id, cat |-> cat, log |-> log]
CommunityItem(id) == Item(id, "community", NoParent)

Init ==
  /\ db = [EmptyStore EXCEPT !.rows = InitialRows]
  /\ badge = 0 /\ refresh = TRUE
  /\ mounted = FALSE /\ pending = {} /\ backfill = "idle" /\ held = {}
  /\ view = <<>> /\ outbox = <<>>
  /\ all = {} /\ known = {} /\ cards = {} /\ category = "all"
  /\ applied = {} /\ stale = FALSE /\ raced = FALSE
  /\ events = 0

Push(item) == [type |-> "push", item |-> item]
Reset(items) == [type |-> "reset", items |-> items]
MarkRead(id) == [type |-> "read", id |-> id]

\* Sends to the feed component are lost while no feed is mounted
Send(messages) == view' = IF mounted THEN view \o messages ELSE view

(***************************************************************************)
(* The update loop                                                         *)
(***************************************************************************)
\* is_muted_social_event: the event is dropped before the store is touched
MutedSocialEvent(e) ==
  e.type \in {"InterpAuthored", "AffirmAdded", "ResponseAdded"} /\ e.by \in db.muted

\* An event whose statement inserted nothing shows nothing
Show(changed, e, item) ==
  /\ applied' = applied \cup {e}
  /\ Send(IF changed THEN <<Push(item)>> ELSE <<>>)
  /\ refresh' = (refresh \/ changed)

InterpAuthored(e) ==
  /\ e.type = "InterpAuthored"
  /\ db' = InsertFromOp(db, e.text, e.by)
  /\ Show(db' # db, e, Item(OpEvent(e), "community", LogId(KEY, e.text)))
  /\ UNCHANGED <<badge, stale, raced>>

AffirmAddedQuietly(e) ==
  /\ e.type = "AffirmAdded"
  /\ db' = AffirmInterp(db, e.log, e.by)
  /\ applied' = applied \cup {e}
  /\ Send(IF db' # db THEN <<Push(CommunityItem(AffirmEvent(e.log, e.by)))>> ELSE <<>>)
  /\ UNCHANGED <<badge, refresh, stale, raced>>

AffirmAdded(e) ==
  /\ e.type = "AffirmAdded"
  /\ db' = AffirmInterp(db, e.log, e.by)
  /\ Show(db' # db, e, CommunityItem(AffirmEvent(e.log, e.by)))
  /\ UNCHANGED <<badge, stale, raced>>

ResponseAdded(e) ==
  /\ e.type = "ResponseAdded"
  /\ db' = InsertResponseFromOp(db, e.log, e.text, e.by)
  /\ Show(db' # db, e, CommunityItem(OpEvent(e)))
  /\ UNCHANGED <<badge, stale, raced>>

\* A revocation redraws the whole feed from the store
InterpRevoked(e) ==
  /\ e.type = "InterpRevoked"
  /\ db' = RevokeInterp(db, e.log, e.by)
  /\ applied' = applied \cup {e}
  /\ Send(IF db' # db THEN <<Reset(RecentFeedRows(db'))>> ELSE <<>>)
  /\ raced' = (raced \/ (db' # db /\ backfill = "read"))
  /\ UNCHANGED <<badge, refresh, stale>>

DisplayNameSet(e) ==
  /\ e.type = "DisplayNameSet"
  /\ db' = SetPeerDisplayNameIfNewer(db, e.by, e.ts)
  /\ applied' = applied \cup {e}
  /\ UNCHANGED <<badge, refresh, view, stale, raced>>

\* A document edit; when the user's own edit is in the block's ring, a card asks
\* for a review and the badge is raised by hand.
DocEdited(e) ==
  /\ e.type = "DocEdited"
  /\ \E youWereInRing \in BOOLEAN :
       /\ youWereInRing => e.by # Me
       /\ badge' = IF youWereInRing THEN badge + 1 ELSE badge
       /\ Send(IF youWereInRing
               THEN <<Push(CommunityItem(BlockEvent(e))), Push(CommunityItem(OpEvent(e)))>>
               ELSE <<Push(CommunityItem(OpEvent(e)))>>)
  /\ refresh' = TRUE
  /\ UNCHANGED <<db, historyVars>>

\* A veto shows only when it rolled an edit back, and does not recount the bell
DocVetoProposed(e) ==
  /\ e.type = "DocVetoProposed"
  /\ \E applies \in BOOLEAN :
       Send(IF applies THEN <<Push(CommunityItem(RolledBackEvent(e)))>> ELSE <<>>)
  /\ UNCHANGED <<db, badge, refresh, historyVars>>

\* An affirmation of a revision and a heartbeat of an editor show every time
DocShown(e) ==
  /\ e.type \in {"DocAffirmed", "EditorPresenceChanged"}
  /\ Send(<<Push(CommunityItem(OpEvent(e)))>>)
  /\ refresh' = TRUE
  /\ UNCHANGED <<db, badge, historyVars>>

\* Retracted affirmations and notices of circles are not for the feed, and an
\* operation that could not be read is for nobody.
NotShown(e) ==
  /\ e.type \in {"DocAffirmRetracted", "CircleInviteReceived", "CircleMemberJoined", "Skipped"}
  /\ UNCHANGED <<db, badge, refresh, view, historyVars>>

SyncStateEvent(op) ==
  /\ events < MaxEvents /\ Len(view) < MAILBOX
  /\ events' = events + 1
  /\ LET e == StateEventOf(op, events)
     IN \/ /\ MutedSocialEvent(e)
           /\ UNCHANGED <<db, badge, refresh, view, historyVars>>
        \/ /\ ~MutedSocialEvent(e)
           /\ \/ InterpAuthored(e) \/ AffirmAdded(e) \/ ResponseAdded(e)
              \/ InterpRevoked(e) \/ DisplayNameSet(e) \/ DocEdited(e)
              \/ DocVetoProposed(e) \/ DocShown(e) \/ NotShown(e)
  /\ UNCHANGED <<mounted, pending, backfill, held, outbox, feedVars>>

\* A peer hands over readings when charts are exchanged; nobody tells the feed
ImportInterps(r) ==
  /\ events < MaxEvents
  /\ events' = events + 1
  /\ db' = InsertReceived(db, r.text, r.by)
  /\ applied' = applied \cup {[type |-> "Import", by |-> r.by, text |-> r.text]}
  /\ stale' = (stale \/ db' # db)
  /\ UNCHANGED <<badge, refresh, mounted, pending, backfill, held, view, outbox, feedVars,
                 raced>>

\* The ticker's relay: one item per active window and tick, with a stable id
PushFeedItem(t) ==
  /\ events < MaxEvents /\ Len(view) < MAILBOX
  /\ events' = events + 1
  /\ LET item == Item(<<"transit", t>>, "personal", NoParent)
     IN /\ Send(<<Push(item)>>)
        /\ pending' = IF mounted THEN pending ELSE pending \cup {item}
  /\ UNCHANGED <<db, badge, refresh, mounted, backfill, held, outbox, feedVars, historyVars>>

\* The Sky tab is built, its sender installed, what waited is handed over, and
\* the backfill task is spawned
MountFeed ==
  /\ ~mounted
  /\ mounted' = TRUE
  /\ view' = view \o SetToSeq({Push(i) : i \in pending})
  /\ pending' = {}
  /\ backfill' = "reading"
  /\ UNCHANGED <<db, badge, refresh, held, outbox, feedVars, historyVars, events>>

BackfillReads ==
  /\ backfill = "reading"
  /\ backfill' = "read"
  /\ held' = RecentFeedRows(db)
  /\ UNCHANGED <<db, badge, refresh, mounted, pending, view, outbox, feedVars,
                 historyVars, events>>

BackfillResetting ==
  /\ backfill = "read"
  /\ view' = Append(view, Reset(held))
  /\ backfill' = "done" /\ held' = {}
  /\ UNCHANGED <<db, badge, refresh, mounted, pending, outbox, feedVars, historyVars, events>>

BackfillFeed ==
  /\ backfill = "read"
  /\ view' = view \o SetToSeq({Push(i) : i \in held})
  /\ backfill' = "done" /\ held' = {}
  /\ UNCHANGED <<db, badge, refresh, mounted, pending, outbox, feedVars, historyVars,
                 events>>

RefreshBellBadge ==
  /\ refresh
  /\ refresh' = FALSE
  /\ badge' = Cardinality(FeedTargetingUnreadIds(db, Me))
  /\ stale' = FALSE
  /\ UNCHANGED <<db, mounted, pending, backfill, held, view, outbox, feedVars, applied, raced,
                 events>>

Click ==
  /\ events < MaxEvents
  /\ events' = events + 1

ToggleMutePeer(peer) ==
  /\ Click
  /\ db' = ToggleMute(db, peer)
  /\ UNCHANGED <<badge, refresh, mounted, pending, backfill, held, view, outbox, feedVars,
                 historyVars>>

BellClicked ==
  /\ Click
  /\ LET ids == FeedTargetingUnreadIds(db, Me)
     IN /\ db' = BulkMarkRead(db, ids)
        /\ Send(SetToSeq({MarkRead(i) : i \in ids}))
  /\ refresh' = TRUE
  /\ UNCHANGED <<badge, mounted, pending, backfill, held, outbox, feedVars, historyVars>>

\* SubmitRevoke: the user's own reading, tombstoned here before it is published
SubmitRevoke(log) ==
  /\ db' = RevokeInterp(db, log, Me)
  /\ Send(IF db' # db THEN <<Reset(RecentFeedRows(db'))>> ELSE <<>>)
  /\ applied' = IF db' # db THEN applied \cup {[type |-> "InterpRevoked", by |-> Me, log |-> log]}
                ELSE applied
  /\ raced' = (raced \/ (db' # db /\ backfill = "read"))
  /\ UNCHANGED <<refresh, stale>>

\* FeedActivated marks the event read here and on its card, FeedSetRead only here
FeedSetRead(id, read) ==
  /\ db' = IF read THEN MarkEventRead(db, id) ELSE MarkEventUnread(db, id)
  /\ refresh' = TRUE
  /\ UNCHANGED <<view, historyVars>>

FeedActivated(id) ==
  /\ db' = MarkEventRead(db, id)
  /\ refresh' = TRUE
  /\ Send(<<MarkRead(id)>>)
  /\ UNCHANGED historyVars

FeedViewOut ==
  /\ outbox # <<>>
  /\ LET m == Head(outbox)
     IN \/ m.type = "revoke" /\ SubmitRevoke(m.log)
        \/ m.type = "set" /\ FeedSetRead(m.id, m.read)
        \/ m.type = "activate" /\ FeedActivated(m.id)
  /\ outbox' = Tail(outbox)
  /\ UNCHANGED <<badge, mounted, pending, backfill, held, feedVars, events>>

(***************************************************************************)
(* The feed component                                                      *)
(***************************************************************************)
MatchCategory(item) == category = "all" \/ item.cat = category

\* An item whose id is in the backlog replaces the one there; a card that is
\* rendered already is updated in place and keeps its dot.
PushItem(item) ==
  /\ all' = {i \in all : i.id # item.id} \cup {item}
  /\ IF MatchCategory(item) /\ item.id \notin known
     THEN /\ known' = known \cup {item.id}
          /\ cards' = cards \cup {[id |-> item.id, read |-> FALSE]}
     ELSE UNCHANGED <<known, cards>>

ResetKeepingKnown(items, cat) ==
  LET visible == {i.id : i \in {x \in items : cat = "all" \/ x.cat = cat}}
  IN /\ all' = items
     /\ known' = known \cup visible
     /\ cards' = {[id |-> v, read |-> FALSE] : v \in visible}

\* The list is rebuilt: cards of the category, all with the unread dot
ResetItems(items, cat) ==
  LET visible == {i.id : i \in {x \in items : cat = "all" \/ x.cat = cat}}
  IN /\ all' = items
     /\ known' = visible
     /\ cards' = {[id |-> v, read |-> FALSE] : v \in visible}

SetCardRead(id, read) ==
  cards' = {IF c.id = id THEN [c EXCEPT !.read = read] ELSE c : c \in cards}

FeedViewMessage ==
  /\ view # <<>>
  /\ LET m == Head(view)
     IN \/ m.type = "push" /\ PushItem(m.item)
        \/ m.type = "reset" /\ ResetItems(m.items, category)
        \/ m.type = "read" /\ SetCardRead(m.id, TRUE) /\ UNCHANGED <<all, known>>
  /\ view' = Tail(view)
  /\ UNCHANGED <<db, badge, refresh, mounted, pending, backfill, held, outbox, category,
                 historyVars, events>>

SetCategory(cat) ==
  /\ Click /\ mounted
  /\ cat # category
  /\ category' = cat
  /\ ResetItems(all, cat)
  /\ UNCHANGED <<db, badge, refresh, mounted, pending, backfill, held, view, outbox, historyVars>>

\* The dwell timer (read) and the card's menu (read or unread)
CardSetRead(c, read) ==
  /\ Click
  /\ SetCardRead(c.id, read)
  /\ outbox' = Append(outbox, [type |-> "set", id |-> c.id, read |-> read])
  /\ UNCHANGED <<db, badge, refresh, mounted, pending, backfill, held, view, all, known,
                 category, historyVars>>

CardActivated(c) ==
  /\ Click
  /\ SetCardRead(c.id, TRUE)
  /\ outbox' = Append(outbox, [type |-> "activate", id |-> c.id])
  /\ UNCHANGED <<db, badge, refresh, mounted, pending, backfill, held, view, all, known,
                 category, historyVars>>

\* The trash button, on cards of the user's own readings only (is_own_authored)
CardRevoke(c) ==
  /\ Click
  /\ \E i \in all :
       /\ i.id = c.id /\ i.log # NoParent
       /\ \E r \in RowsOf(db, i.log) : r.by = Me
       /\ outbox' = Append(outbox, [type |-> "revoke", log |-> i.log])
  /\ UNCHANGED <<db, badge, refresh, mounted, pending, backfill, held, view, feedVars, historyVars>>

Next ==
  \/ \E op \in Ops : SyncStateEvent(op)
  \/ \E r \in Handed : ImportInterps(r)
  \/ \E t \in Transits : PushFeedItem(t)
  \/ MountFeed \/ BackfillReads \/ BackfillFeed \/ RefreshBellBadge
  \/ \E peer \in Author \ {Me} : ToggleMutePeer(peer)
  \/ BellClicked \/ FeedViewOut \/ FeedViewMessage
  \/ \E cat \in Categories : SetCategory(cat)
  \/ \E c \in cards : CardSetRead(c, TRUE) \/ CardSetRead(c, FALSE)
                      \/ CardActivated(c) \/ CardRevoke(c)

Spec == Init /\ [][Next]_vars

(***************************************************************************)
(* Properties                                                              *)
(***************************************************************************)
TypeOK ==
  /\ db.rows \subseteq Row
  /\ \A r, t \in db.rows : r.log = t.log => r = t
  /\ db.muted \subseteq Author
  /\ db.affirmed \subseteq LogIds \X Author
  /\ badge \in Nat /\ refresh \in BOOLEAN /\ mounted \in BOOLEAN
  /\ category \in Categories
  /\ \A e \in applied : e.by \in Author
  /\ stale \in BOOLEAN /\ raced \in BOOLEAN
  /\ events \in 0 .. MaxEvents

\* When no recount is on its way and no rows were imported behind the feed's back,
\* the bell shows exactly the store's unread events for the user, whatever order
\* arrivals, clicks, mutes and marks had, and also when the target of an affirmation
\* arrives after it (app.rs:1435, 1591, 1917).
BadgeIsFresh ==
  ~refresh /\ ~stale => badge = Cardinality(FeedTargetingUnreadIds(db, Me))

\* The tables are those of the set of applied state events: order, repetition and
\* equal texts of two authors make no difference to which readings, affirmations and
\* names there are, and only a recorded author's own operation revokes a reading.
MaterialisedFromApplied ==
  MaterialisedFrom(db, [EmptyStore EXCEPT !.rows = InitialRows], applied)

\* Nothing is between the store and the feed
Settled == backfill = "done" /\ view = <<>>

\* A reading that was revoked is in no list, whatever was pushed, replayed or
\* filtered since, unless the backfill already held it (app.rs:1527-1537).
RevokedIsGone ==
  Settled /\ ~raced =>
    \A i \in all : i.log # NoParent => \E r \in RowsOf(db, i.log) : ~r.revoked

\* A reading an operation brought is in the backlog, also when it arrived before the
\* feed was mounted or while the backfill was reading (app.rs:1855-1865), unless a peer
\* had handed the same reading over, which nobody tells the feed.
AuthoredIsShown ==
  Settled =>
    \A r \in db.rows :
      /\ r.parent = NoParent /\ ~r.revoked
      /\ \A o \in applied : o.type = "Import" => LogId(KEY, o.text) # r.log
      => \E i \in all : i.log = r.log

\* The rendered cards are the backlog under the current filter, one card per event,
\* after any mixture of pushes, updates, resets and filter changes
\* (feed_view.rs:365-433).
CardsMatchBacklog ==
  /\ {c.id : c \in cards} = {i.id : i \in {x \in all : MatchCategory(x)}}
  /\ known = {c.id : c \in cards}
  /\ \A c, d \in cards : c.id = d.id => c = d
=============================================================================
