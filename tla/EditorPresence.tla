--------------------------- MODULE EditorPresence ---------------------------
(***************************************************************************)
(* Who is on the reading page of one interp_key: the pages announce joins  *)
(* and leaves as operations on the key's topic, every device keeps a map   *)
(* of the others it believes present, with the time of their join, and the *)
(* map decides whom the page's voice room calls (app.rs, aspect_view.rs).  *)
(*                                                                         *)
(* Pages lie on a navigation stack; "key" is a page of this key and        *)
(* "other" any page that can cover it.                                     *)
(***************************************************************************)
EXTENDS Naturals, Sequences

CONSTANTS
  Device,     \* one user each
  Unseen,     \* no entry in the presence map
  NoButton,   \* no call button is registered for the key
  TTL,        \* PRESENCE_TTL_SECS, in ticks of the clock
  MICROS,     \* units of the p2panda Timestamp per clock tick
  MaxDepth,   \* bound: pages on a stack
  MaxPages,   \* bound: pages ever pushed
  MaxTime,    \* bound: last value of the clock
  MaxFaults   \* bound: restarts and failed publications

ASSUME PresenceAssumption ==
  /\ Unseen \notin Nat
  /\ NoButton \notin BOOLEAN
  /\ TTL \in Nat
  /\ MICROS \in Nat \ {0}
  /\ MaxDepth \in Nat

Page == {"key", "other"}
Announcement == [joined : BOOLEAN, ts : Nat]

VARIABLES
  clock,    \* wall clock in seconds
  stack,    \* pages of the navigation view, the visible one last
  pages,    \* how many pages were pushed
  appQ,     \* EditorPresence messages waiting for the update loop
  log,      \* log[a]: announcements a has published, in order
  cursor,   \* cursor[d][a]: how many of them reached d's update loop
  seenAt,   \* seenAt[d][a]: editor_presence, the timestamp a joined with
  called,   \* peers the voice room started last has called
  button,   \* sensitivity of the registered call button
  base,     \* history: cursor[d] when d's process started
  faults

vars == <<clock, stack, pages, appQ, log, cursor, seenAt, called, button, base,
          faults>>

Init ==
  /\ clock = 1
  /\ stack = [d \in Device |-> <<>>]
  /\ pages = 0
  /\ appQ = [d \in Device |-> <<>>]
  /\ log = [a \in Device |-> <<>>]
  /\ cursor = [d \in Device |-> [a \in Device |-> 0]]
  /\ seenAt = [d \in Device |-> [a \in Device |-> Unseen]]
  /\ called = [d \in Device |-> {}]
  /\ button = [d \in Device |-> NoButton]
  /\ base = cursor
  /\ faults = 0

OnPage(d) == stack[d] # <<>> /\ stack[d][Len(stack[d])] = "key"

Tick ==
  /\ clock < MaxTime
  /\ clock' = clock + 1
  /\ UNCHANGED <<stack, pages, appQ, log, cursor, seenAt, called, button, base,
                 faults>>

-----------------------------------------------------------------------------
(***************************************************************************)
(* Building a page of the key announces a join and registers the page's    *)
(* call button, insensitive; pushing any page hides the one below it,      *)
(* which announces a leave and unregisters the key's button.               *)
(***************************************************************************)
PushPage(d, page) ==
  LET joins  == IF page = "key" THEN <<TRUE>> ELSE <<>>
      leaves == IF OnPage(d) THEN <<FALSE>> ELSE <<>>
  IN  /\ Len(stack[d]) < MaxDepth
      /\ pages < MaxPages
      /\ pages' = pages + 1
      /\ stack' = [stack EXCEPT ![d] = Append(@, page)]
      /\ appQ' = [appQ EXCEPT ![d] = @ \o joins \o leaves]
      /\ button' = [button EXCEPT ![d] =
                      IF OnPage(d) THEN NoButton
                      ELSE IF page = "key" THEN FALSE ELSE @]
      /\ UNCHANGED <<clock, log, cursor, seenAt, called, base, faults>>

\* Going back hides the visible page; the one below is shown, not rebuilt.
PopPage(d) ==
  /\ stack[d] # <<>>
  /\ stack' = [stack EXCEPT ![d] = SubSeq(@, 1, Len(@) - 1)]
  /\ IF OnPage(d)
     THEN /\ appQ' = [appQ EXCEPT ![d] = Append(@, FALSE)]
          /\ button' = [button EXCEPT ![d] = NoButton]
     ELSE UNCHANGED <<appQ, button>>
  /\ UNCHANGED <<clock, pages, log, cursor, seenAt, called, base, faults>>

-----------------------------------------------------------------------------
\* Mutant of Fresh: the cutoff is compared the wrong way round.
FreshInverted(ts) == ts # Unseen /\ ts <= (IF clock >= TTL THEN clock - TTL ELSE 0)
\* prune_stale_presence: the cutoff is in seconds, the entries are timestamps.
Fresh(ts) == ts # Unseen /\ ts >= (IF clock >= TTL THEN clock - TTL ELSE 0)
Pruned(m) == [a \in Device |-> IF Fresh(m[a]) THEN m[a] ELSE Unseen]
PresentIn(m) == {a \in Device : m[a] # Unseen}

\* Mutant of Refresh: the map changes, the button is not told.
RefreshMapOnly(d, m) ==
  /\ seenAt' = [seenAt EXCEPT ![d] = Pruned(m)]
  /\ UNCHANGED button
\* others_present, pushed to the registered button.
Refresh(d, m) ==
  /\ seenAt' = [seenAt EXCEPT ![d] = Pruned(m)]
  /\ button' = [button EXCEPT ![d] =
                  IF @ = NoButton THEN @ ELSE PresentIn(Pruned(m)) # {}]

(***************************************************************************)
(* AppMsg::EditorPresence: publish the announcement, unless the client is  *)
(* offline or publishing fails, and refresh the button in any case.        *)
(***************************************************************************)
AnnouncePresence(d) ==
  /\ appQ[d] # <<>>
  /\ appQ' = [appQ EXCEPT ![d] = Tail(@)]
  /\ \/ /\ log' = [log EXCEPT ![d] =
                       Append(@, [joined |-> Head(appQ[d]), ts |-> clock * MICROS])]
        /\ UNCHANGED faults
     \/ /\ faults < MaxFaults
        /\ faults' = faults + 1
        /\ UNCHANGED log
  /\ Refresh(d, seenAt[d])
  /\ UNCHANGED <<clock, stack, pages, cursor, called, base>>

\* Mutant of Noted: leaves are ignored.
NotedJoinsOnly(m, a, op) == IF op.joined THEN [m EXCEPT ![a] = op.ts] ELSE m
\* The map after an announcement of a: its last word counts.
Noted(m, a, op) == [m EXCEPT ![a] = IF op.joined THEN op.ts ELSE Unseen]

\* Mutant of Others: the device's own announcements are tracked too.
Everybody(d) == Device
\* "Don't track ourselves in remote-presence."
Others(d) == Device \ {d}

\* StateEvent::EditorPresenceChanged of another device, in log order.
ReceivePresence(d, a) ==
  /\ a \in Others(d)
  /\ cursor[d][a] < Len(log[a])
  /\ cursor' = [cursor EXCEPT ![d][a] = @ + 1]
  /\ Refresh(d, Noted(seenAt[d], a, log[a][cursor[d][a] + 1]))
  /\ UNCHANGED <<clock, stack, pages, appQ, log, called, base, faults>>

(***************************************************************************)
(* AppMsg::StartEditorAudio: prune, then call those left in the map over   *)
(* the direct channels; whom a channel leads to is not modelled.           *)
(***************************************************************************)
StartEditorAudio(d) ==
  /\ OnPage(d)
  /\ seenAt' = [seenAt EXCEPT ![d] = Pruned(@)]
  /\ called' = [called EXCEPT ![d] = PresentIn(Pruned(seenAt[d]))]
  /\ UNCHANGED <<clock, stack, pages, appQ, log, cursor, button, base, faults>>

(***************************************************************************)
(* The process dies and starts again: the map, the pages and the messages  *)
(* are gone, no leave was published, and what the sync log has stored is   *)
(* not handed over again, whether or not it got as far as the map.         *)
(***************************************************************************)
Crash(d) ==
  /\ faults < MaxFaults
  /\ faults' = faults + 1
  /\ \E stored \in SUBSET Others(d) :
       cursor' = [cursor EXCEPT ![d] =
                    [a \in Device |-> IF a \in stored THEN Len(log[a]) ELSE @[a]]]
  /\ base' = [base EXCEPT ![d] = cursor'[d]]
  /\ stack' = [stack EXCEPT ![d] = <<>>]
  /\ appQ' = [appQ EXCEPT ![d] = <<>>]
  /\ seenAt' = [seenAt EXCEPT ![d] = [a \in Device |-> Unseen]]
  /\ called' = [called EXCEPT ![d] = {}]
  /\ button' = [button EXCEPT ![d] = NoButton]
  /\ UNCHANGED <<clock, pages, log>>

Next ==
  \/ Tick
  \/ \E d \in Device :
       \/ \E page \in Page : PushPage(d, page)
       \/ PopPage(d)
       \/ AnnouncePresence(d)
       \/ \E a \in Device : ReceivePresence(d, a)
       \/ StartEditorAudio(d)
       \/ Crash(d)

(***************************************************************************)
(* Fairness: the update loops run, and operations of a device that stays   *)
(* on the topic get to the others (SyncLog's OpsReplicate).                *)
(***************************************************************************)
Fairness ==
  \A d \in Device :
    /\ WF_vars(AnnouncePresence(d))
    /\ \A a \in Device : WF_vars(ReceivePresence(d, a))

Spec == Init /\ [][Next]_vars /\ Fairness

-----------------------------------------------------------------------------
(***************************************************************************)
(* Types; nobody is in their own map, and a page stack and a log position  *)
(* stay in range.                                                          *)
(***************************************************************************)
TypeOK ==
  /\ clock \in Nat
  /\ stack \in [Device -> Seq(Page)]
  /\ \A d \in Device : Len(stack[d]) <= MaxDepth
  /\ pages \in Nat
  /\ appQ \in [Device -> Seq(BOOLEAN)]
  /\ log \in [Device -> Seq(Announcement)]
  /\ cursor \in [Device -> [Device -> Nat]]
  /\ seenAt \in [Device -> [Device -> Nat \cup {Unseen}]]
  /\ \A d \in Device : seenAt[d][d] = Unseen
  /\ called \in [Device -> SUBSET Device]
  /\ button \in [Device -> BOOLEAN \cup {NoButton}]
  /\ \A d, a \in Device : cursor[d][a] <= Len(log[a])
  /\ base \in [Device -> [Device -> Nat]]
  /\ faults \in Nat

LastWord(d, a) == log[a][cursor[d][a]]
Heard(d, a) == cursor[d][a] > base[d][a]

(***************************************************************************)
(* The map is the last word of every peer heard since the process started: *)
(* nobody is in it who said they left, whatever pages were stacked and     *)
(* whatever was pruned in between, and nobody is missing from it who       *)
(* joined within PRESENCE_TTL_SECS (DocOp::EditorPresence's "latest wins").*)
(***************************************************************************)
PresenceIsLatest ==
  \A d, a \in Device :
    /\ seenAt[d][a] # Unseen =>
         /\ Heard(d, a)
         /\ LastWord(d, a) = [joined |-> TRUE, ts |-> seenAt[d][a]]
    /\ Heard(d, a) /\ LastWord(d, a).joined
         /\ clock * MICROS <= LastWord(d, a).ts + TTL * MICROS
         => seenAt[d][a] = LastWord(d, a).ts

(***************************************************************************)
(* The call button of the page says what the map says, once the messages   *)
(* the pages sent are handled: no button is left sensitive with nobody to  *)
(* call, or insensitive with somebody there, by a page that was covered,   *)
(* closed or rebuilt meanwhile.                                            *)
(***************************************************************************)
ButtonIsHonest ==
  \A d \in Device :
    button[d] # NoButton /\ appQ[d] = <<>> =>
      button[d] = (PresentIn(seenAt[d]) # {})

(***************************************************************************)
(* Whoever has published a leave as their last word disappears from every  *)
(* map, crashes of the readers included.                                   *)
(***************************************************************************)
Left(a) == log[a] # <<>> /\ ~log[a][Len(log[a])].joined
LeaversDisappear ==
  \A d, a \in Device : Left(a) ~> (seenAt[d][a] = Unseen \/ ~Left(a))
=============================================================================
