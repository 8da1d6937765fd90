----------------------------- MODULE InterpStore -----------------------------
(***************************************************************************)
(* The tables of the legacy interpretation store (store/src/lib.rs) as a   *)
(* record, and its statements as operators from record to record.          *)
(*                                                                         *)
(* A reading is identified by what it says and not by who said it:         *)
(* derive_log_id hashes the key and the text.  One interp_key is modelled; *)
(* an orphan response is filed under the empty key.                        *)
(***************************************************************************)
EXTENDS Naturals, FiniteSets

CONSTANTS
  Author,   \* verifying keys
  Text,     \* bodies of readings and responses
  NoParent, \* parent_log_id of a reading that is not a response
  NoName    \* no row in peer_display_names

KEY == "key"      \* the one interp_key
ORPHAN == ""      \* interp_key of a response whose parent is unknown

LogId(key, text) == <<key, text>>
LogIds == {KEY, ORPHAN} \X Text

\* interpretations, affirmations, feed_read, muted_peers, peer_display_names
Row == [log : LogIds, by : Author, parent : LogIds \cup {NoParent}, revoked : BOOLEAN]

EmptyStore ==
  [rows |-> {}, affirmed |-> {}, read |-> {}, muted |-> {},
   name |-> [a \in Author |-> NoName]]

RowsOf(db, log) == {r \in db.rows : r.log = log}
HasRow(db, log) == RowsOf(db, log) # {}

InsertAnyRow(db, log, by, parent) ==
  [db EXCEPT !.rows = @ \cup {[log |-> log, by |-> by, parent |-> parent, revoked |-> FALSE]}]

\* INSERT OR IGNORE: the first row with a log id stays
InsertRow(db, log, by, parent) ==
  IF HasRow(db, log) THEN db
  ELSE [db EXCEPT !.rows = @ \cup
          {[log |-> log, by |-> by, parent |-> parent, revoked |-> FALSE]}]

\* A reading from an operation; one a peer hands over directly is inserted by
\* the same statement after its signature was verified.
InsertFromOp(db, text, by) == InsertRow(db, LogId(KEY, text), by, NoParent)
InsertReceived(db, text, by) == InsertFromOp(db, text, by)

\* A response takes the key of its parent, or none when the parent is unknown
ResponseKey(db, parent) == IF HasRow(db, parent) THEN parent[1] ELSE ORPHAN
ResponseLog(db, parent, text) == LogId(ResponseKey(db, parent), text)
InsertResponseFromOp(db, parent, text, by) ==
  InsertRow(db, ResponseLog(db, parent, text), by, parent)

\* One affirmation per reading and voter
AffirmInterp(db, log, by) == [db EXCEPT !.affirmed = @ \cup {<<log, by>>}]

\* A tombstone; only the author of the row may set it
RevokeInterp(db, log, by) ==
  [db EXCEPT !.rows = {IF r.log = log /\ r.by = by THEN [r EXCEPT !.revoked = TRUE] ELSE r
                       : r \in @}]

SetPeerDisplayName(db, by, ts) == [db EXCEPT !.name[by] = ts]

SetPeerDisplayNameIfNewer(db, by, ts) ==
  IF db.name[by] # NoName /\ ts <= db.name[by] THEN db
  ELSE [db EXCEPT !.name[by] = ts]

ToggleMute(db, peer) ==
  [db EXCEPT !.muted = IF peer \in @ THEN @ \ {peer} ELSE @ \cup {peer}]

\* Event ids: a row's log id, an affirmation's own id, an operation's hash
LogEvent(log) == <<"log", log>>
AffirmEvent(log, by) == <<"affirm", log, by>>

MarkEventRead(db, event) == [db EXCEPT !.read = @ \cup {event}]
MarkEventUnread(db, event) == [db EXCEPT !.read = @ \ {event}]
BulkMarkRead(db, events) == [db EXCEPT !.read = @ \cup events]

\* Affirmations of, and responses to, readings recorded as written by me, made
\* by others and not marked read
FeedTargetingUnreadIds(db, me) ==
  LET own == {r.log : r \in {x \in db.rows : x.by = me}}
      hearts == {p \in db.affirmed : p[1] \in own /\ p[2] # me}
      replies == {r \in db.rows : r.parent \in own /\ r.by # me}
  IN ({AffirmEvent(p[1], p[2]) : p \in hearts} \cup {LogEvent(r.log) : r \in replies})
        \ db.read

RecentFeedRowsAll(db) ==
  {[id |-> LogEvent(r.log), cat |-> "community",
    log |-> IF r.parent = NoParent THEN r.log ELSE NoParent] : r \in db.rows}
  \cup {[id |-> AffirmEvent(p[1], p[2]), cat |-> "community", log |-> NoParent]
        : p \in db.affirmed}

\* What a newly mounted or refreshed feed is filled with: rows that are not
\* revoked, and affirmations of such rows (the limit of 200 is never reached).
RecentFeedRows(db) ==
  LET live == {r \in db.rows : ~r.revoked}
      logs == {r.log : r \in live}
  IN {[id |-> LogEvent(r.log), cat |-> "community",
       log |-> IF r.parent = NoParent THEN r.log ELSE NoParent] : r \in live}
     \cup {[id |-> AffirmEvent(p[1], p[2]), cat |-> "community", log |-> NoParent]
           : p \in {q \in db.affirmed : q[1] \in logs}}

(***************************************************************************)
(* What the tables are when the state events of a set were applied, in any *)
(* order and any number of times each.                                     *)
(***************************************************************************)
OfType(events, types) == {e \in events : e.type \in types}

NewestName(events, by) ==
  LET stamps == {e.ts : e \in {x \in OfType(events, {"DisplayNameSet"}) : x.by = by}}
  IN IF stamps = {} THEN NoName ELSE CHOOSE t \in stamps : \A u \in stamps : u <= t

Source(r, e) ==
  /\ e.by = r.by
  /\ \/ e.type \in {"InterpAuthored", "Import"} /\ r.parent = NoParent /\ r.log = LogId(KEY, e.text)
     \/ e.type = "ResponseAdded" /\ r.parent = e.log /\ r.log[2] = e.text

MaterialisedFrom(db, init, events) ==
  /\ db.affirmed = init.affirmed \cup {<<e.log, e.by>> : e \in OfType(events, {"AffirmAdded"})}
  /\ \A e \in OfType(events, {"InterpAuthored", "Import"}) : HasRow(db, LogId(KEY, e.text))
  /\ \A e \in OfType(events, {"ResponseAdded"}) :
       HasRow(db, LogId(KEY, e.text)) \/ HasRow(db, LogId(ORPHAN, e.text))
  /\ \A r \in db.rows :
       \/ \E i \in init.rows : i.log = r.log /\ i.by = r.by /\ i.parent = r.parent
       \/ \E e \in events : Source(r, e)
  /\ \A a \in Author : db.name[a] = NewestName(events, a)
  /\ \A r \in db.rows :
       r.revoked => \/ r \in init.rows
                    \/ \E e \in OfType(events, {"InterpRevoked"}) : e.log = r.log /\ e.by = r.by
=============================================================================
